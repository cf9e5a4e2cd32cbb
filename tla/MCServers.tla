----------------------------- MODULE MCServers -----------------------------
(* One directory with a hidden file, two clients, requests of every kind.  *)
EXTENDS Servers

NamesDef == {".", "..", "d", "f", "img", "lock", "no", ".h", "a"}
HiddenDef == {".", "..", ".h"}
KeyDef == [n \in NamesDef |->
             CASE n = "." -> 0 [] n = ".." -> 1 [] n = "a" -> 2 [] n = "d" -> 3
               [] n = "f" -> 4 [] n = ".h" -> 5 [] n = "img" -> 6 [] n = "lock" -> 7
               [] n = "no" -> 8]
LengthDef == [n \in NamesDef |-> IF n \in {"..", ".h"} THEN 2 ELSE 1]
ContentsDef == [x \in {"home", "d"} |->
                  IF x = "home" THEN {{"d", "f", "img", "lock"}} ELSE {{}, {"a", ".h"}}]

Get(u) == [method |-> "GET", url |-> u]
RequestsDef ==
  { [method |-> "nothing", url |-> <<>>], [method |-> "blank", url |-> <<>>],
    [method |-> "other", url |-> <<>>] }
  \cup {Get(u) : u \in {<<>>, <<"..">>, <<"d">>, <<"d", "..">>, <<"f">>, <<"lock">>, <<"no">>,
                        <<"img">>, <<"d", "a">>}}
UsersDef == {<<{"c1"}>>, <<{"c1"}, {"c1", "c2"}>>}
=============================================================================
