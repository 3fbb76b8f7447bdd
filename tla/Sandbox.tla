------------------------------ MODULE Sandbox ------------------------------
(***************************************************************************)
(* One call of _sf1_file_sandbox_check (file-sandbox-check.c): does a path *)
(* stay under the trusted path it starts with?  The loops over the         *)
(* directories of a path take one step per directory.                      *)
(*                                                                         *)
(* A path is its leading "/", if any, and the names between its slashes;   *)
(* next_dir skips repeated slashes.  A trusted path is empty or ends with  *)
(* "/", so the path that is checked is both lists of names, joined.        *)
(***************************************************************************)
EXTENDS Integers, Sequences, SequencesExt

CONSTANTS
  Names,          (* names other than "." and ".."                         *)
  Longer,         (* Longer[n]: the names that start with n, n among them  *)
  TrustedPaths, UntrustedParts

Path == [root : BOOLEAN, names : Seq(Names \cup {".", ".."})]

ASSUME PathAssumption ==
  /\ Names \cap {".", "..", "/"} = {}
  /\ Longer \in [Names -> SUBSET Names] /\ \A n \in Names : n \in Longer[n]
  /\ TrustedPaths \subseteq Path /\ UntrustedParts \subseteq Path

VARIABLES
  trusted, untrusted,  (* the arguments, path already split in two          *)
  phase,
  k,                   (* the directory that next_dir yields next           *)
  depth,               (* up.depth of simple_sandbox_check                  *)
  simple, zero,        (* simple_path; is simple_dir still the zero_dir?    *)
  tp,                  (* the simplified trusted path                       *)
  verdict

vars == <<trusted, untrusted, phase, k, depth, simple, zero, tp, verdict>>

----------------------------------------------------------------------------
IsEmpty(path) == ~path.root /\ path.names = <<>>
FullPath == [root  |-> trusted.root \/ (IsEmpty(trusted) /\ untrusted.root),
             names |-> trusted.names \o untrusted.names]

(* What next_dir yields: a leading "/" is a directory by itself.            *)
Dirs(path) == (IF path.root THEN <<"/">> ELSE <<>>) \o path.names

(* How next_dir changes the depth.                                          *)
Level(dir) == CASE dir = ".." -> -1 [] dir = "." -> 0 [] OTHER -> 1

(* strncmp of p with tp up to its last slash: the last name of tp may go on *)
(* in p.                                                                    *)
StartsLike(p, t) ==
  /\ Len(p) >= Len(t)
  /\ \A j \in 1..(Len(t) - 1) : p[j] = t[j]
  /\ p[Len(t)] = t[Len(t)]
       \/ (t[Len(t)] \in Names /\ p[Len(t)] \in Longer[t[Len(t)]])

(* ... and then p has to end, or go on with a slash.                        *)
NameEnds_Any(p, t) == TRUE                            \* a slip: /hopeless is in /hope/
NameEnds(p, t) == p[Len(t)] = t[Len(t)]

----------------------------------------------------------------------------
Init ==
  /\ trusted \in TrustedPaths /\ untrusted \in UntrustedParts
  /\ phase = "simple" /\ k = 1 /\ depth = 0
  /\ simple = <<>> /\ zero = TRUE /\ tp = <<>>
  /\ verdict = "none"

Decide(v) == phase' = "done" /\ verdict' = v

(* The trusted path is the current directory, which has no name to compare. *)
IsHere_Not(path) == FALSE                             \* a slip: compares all the same
IsHere(path) == IsEmpty(path)

(* simple_sandbox_check goes through the untrusted part alone.              *)
CountLevel ==
  /\ phase = "simple" /\ k <= Len(Dirs(untrusted))
  /\ depth' = depth + Level(Dirs(untrusted)[k])
  /\ IF depth' >= 0
     THEN k' = k + 1 /\ UNCHANGED <<phase, verdict>>
     ELSE IF IsHere(trusted)
          THEN Decide("EACCES") /\ UNCHANGED k
          ELSE phase' = "trusted" /\ k' = 1 /\ UNCHANGED verdict
  /\ UNCHANGED <<trusted, untrusted, simple, zero, tp>>

CountEnds ==
  /\ phase = "simple" /\ k > Len(Dirs(untrusted))
  /\ Decide("ok")
  /\ UNCHANGED <<trusted, untrusted, k, depth, simple, zero, tp>>

(* extract_simplified_path, for the trusted path and then for the path.     *)
(* next_dir ends a leading "/" where it starts, so nothing of it is copied, *)
(* but simple_dir is not the zero_dir any more.                             *)
Simplified == IF phase = "trusted" THEN trusted ELSE FullPath
Skips_Nothing(dir) == FALSE                           \* a slip: ".." undoes a "."
Skips(dir) == dir = "."
Collapses(dir) == dir = ".." /\ ~zero /\ (simple = <<>> \/ Last(simple) # "..")

SimplifyDir ==
  /\ phase \in {"trusted", "path"} /\ k <= Len(Dirs(Simplified))
  /\ LET dir == Dirs(Simplified)[k] IN
     CASE Skips(dir) -> UNCHANGED <<simple, zero>>
       [] Collapses(dir) ->
            /\ simple' = IF simple = <<>> THEN <<>> ELSE Front(simple)
            /\ zero' = (simple' = <<>>)
       [] OTHER ->
            /\ simple' = IF dir = "/" THEN simple ELSE Append(simple, dir)
            /\ zero' = FALSE
  /\ k' = k + 1
  /\ UNCHANGED <<trusted, untrusted, phase, depth, tp, verdict>>

TrustedEnds ==
  /\ phase = "trusted" /\ k > Len(Dirs(trusted))
  /\ phase' = "path" /\ k' = 1
  /\ tp' = simple /\ simple' = <<>> /\ zero' = TRUE
  /\ UNCHANGED <<trusted, untrusted, depth, verdict>>

OutOfMemory ==
  /\ phase \in {"trusted", "path"} /\ k = 1
  /\ Decide("ENOMEM")
  /\ UNCHANGED <<trusted, untrusted, k, depth, simple, zero, tp>>

(* An empty tp makes slen wrap around: tp[slen] is the byte before the      *)
(* buffer, which is no slash, and the assertion fails.                      *)
Compare ==
  /\ phase = "path" /\ k > Len(Dirs(FullPath))
  /\ Decide(IF tp = <<>> THEN "aborted"
            ELSE IF StartsLike(simple, tp) /\ NameEnds(simple, tp) THEN "ok"
            ELSE "EACCES")
  /\ UNCHANGED <<trusted, untrusted, k, depth, simple, zero, tp>>

Done == phase = "done" /\ UNCHANGED vars

Next == CountLevel \/ CountEnds \/ SimplifyDir \/ TrustedEnds \/ OutOfMemory
          \/ Compare \/ Done
Spec == Init /\ [][Next]_vars

----------------------------------------------------------------------------
(* What the path means: so many levels up from where it starts, then down   *)
(* through these names.  The root is its own parent.                        *)
Follow(at, n) ==
  CASE n = "." -> at
    [] n = ".." /\ at.down # <<>> -> [at EXCEPT !.down = Front(@)]
    [] n = ".." /\ at.down = <<>> -> [at EXCEPT !.up = IF at.root THEN 0 ELSE @ + 1]
    [] OTHER -> [at EXCEPT !.down = Append(@, n)]

(* Where the first n names of a path lead, for each n.                      *)
Walk(path) ==
  LET at[n \in 0..Len(path.names)] ==
        IF n = 0 THEN [root |-> path.root, up |-> 0, down |-> <<>>]
        ELSE Follow(at[n - 1], path.names[n])
  IN  at

Resolve(path) == Walk(path)[Len(path.names)]

(* The path is empty or goes down from where it gets to.                    *)
NamesADirectory(path) == IsEmpty(path) \/ Resolve(path).down # <<>>

Under(path, dir) ==
  LET p == Resolve(path)
      d == Resolve(dir)
  IN  p.root = d.root /\ p.up = d.up /\ IsPrefix(d.down, p.down)

(* "Verify that the final paths are contained in the trusted path": what is *)
(* accepted is in the trusted directory, also after going up and down again.*)
AcceptsOnlyContained == verdict = "ok" => Under(FullPath, trusted)

(* A path that leaves the trusted directory and comes back is not refused,  *)
(* unless it climbs above the root on its way: "/.." is not taken for "/".  *)
Rootless(path) == [path EXCEPT !.root = FALSE]
RefusesNoContained ==
  verdict = "EACCES" => ~Under(Rootless(FullPath), Rootless(trusted))

(* "Returns 0 on good and EACCES on bad or ENOMEM": it always returns.      *)
AlwaysReturns == verdict # "aborted"
=============================================================================
