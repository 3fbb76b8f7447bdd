----------------------------- MODULE MCSandbox -----------------------------
(* Small instances of Sandbox.                                              *)
EXTENDS Sandbox, FiniteSets

(* "hopeless" starts with "hope".                                           *)
MCNames  == {"hope", "hopeless"}
MCLonger == [n \in MCNames |-> IF n = "hope" THEN MCNames ELSE {n}]

NameLists(most) ==
  UNION {[1..n -> MCNames \cup {".", ".."}] : n \in 0..most}
Relative(lists) == {[root |-> FALSE, names |-> l] : l \in lists}
Absolute(lists) == {[root |-> TRUE, names |-> l] : l \in lists}

Parts == Relative(NameLists(4))

(* Trusted paths that name a directory below their start, and the current  *)
(* directory.                                                               *)
Directories ==
  {path \in Relative(NameLists(3)) \cup Absolute(NameLists(2)) : NamesADirectory(path)}

(* The others.                                                              *)
NoNameLeft       == Relative({<<".">>}) \cup Absolute({<<>>})   \* ./ and /
ParentDirectory  == Relative({<<"..">>})                       \* ../
HopeDirectory    == Relative({<<"hope">>})                     \* hope/
ShortParts       == Relative(NameLists(2))
SlashParts       == Absolute(NameLists(2))
=============================================================================
