----------------------------- MODULE MCListing -----------------------------
(* Two directories, two visible names with the same key and a hidden one.  *)
EXTENDS Listing

DotsDef == {".", ".."}
NamesDef == {".", "..", "a", "A", ".b"}
HiddenDef == {".", "..", ".b"}
NamelessDef == {".b"}
KeyDef == [n \in NamesDef \cup {"d1", "d2"} |->
             CASE n = "." -> 0 [] n = ".." -> 1 [] n \in {"a", "A"} -> 2
               [] n = ".b" -> 3 [] n = "d1" -> 4 [] n = "d2" -> 5]
LengthDef == [n \in NamesDef |-> IF n \in {"..", ".b"} THEN 2 ELSE 1]
SizeDef == [n \in NamesDef |-> CASE n = "A" -> 2 [] n = ".b" -> 3 [] OTHER -> 1]
BlocksDef == [n \in NamesDef |-> CASE n = "A" -> 2 [] n = ".b" -> 4 [] OTHER -> 1]
ContentsDef == {{}, {"a", "A"}, {"A", ".b"}}

Command(argc, flags, operands) ==
  [argc |-> argc, flags |-> flags, operands |-> operands]
CommandsDef ==
  { Command(1, {}, <<>>), Command(2, {"r"}, <<>>), Command(2, {}, <<"d1">>),
    Command(2, {"a"}, <<>>), Command(2, {"l"}, <<>>), Command(2, {"a", "l", "S"}, <<>>),
    Command(3, {"a", "l"}, <<>>), Command(3, {"r"}, <<"d1">>),
    Command(3, {}, <<"d2", "d1">>), Command(4, {"a", "r"}, <<"d1", "d2">>),
    Command(4, {"l"}, <<"d2", "d1">>), Command(3, {"l", "r", "S"}, <<"d1">>) }
=============================================================================
