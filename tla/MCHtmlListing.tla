--------------------------- MODULE MCHtmlListing ---------------------------
(* Directories d and e in home, b in both home and d, d again in d; options *)
(* and operands of every kind.                                             *)
EXTENDS HtmlListing, TLC

HomeDef == <<"home">>
D == <<"home", "d">>
TreesDef ==
  { ( <<>> :> {".", "..", "home"} ) @@ ( HomeDef :> {".", "..", "d", "b", "f", ".h", "f]"} )
    @@ ( D :> {".", "..", "d", "b", "no", ".h"} \cup s ) @@ ( Append(HomeDef, "b") :> Dots )
    @@ ( Append(D, "d") :> Dots \cup {"b", "f"} ) :
    s \in {{}, {"f"}} }
KeyDef == [n \in {".", "..", "d", "f", ".h", "home", "html_ls.html", "no", "b", "f]"} |->
             CASE n = "." -> 0 [] n = ".." -> 1 [] n = "b" -> 2 [] n = "d" -> 8 [] n = "f" -> 3 [] n = ".h" -> 4
               [] n = "home" -> 5 [] n = "html_ls.html" -> 6 [] n = "no" -> 7 [] n = "f]" -> 9]
SizeDef == [n \in DOMAIN KeyDef |-> IF n \in {"f", "b"} THEN 2 ELSE 1]

Name(a, s) == [abs |-> a, names |-> s, wild |-> FALSE, bracketed |-> FALSE]
AllNames == DOMAIN KeyDef
(* "f]", "*", "[fh]*", "/*", "/home/*", "/home/d/*", and "/home/d?*"       *)
Bracket == [abs |-> FALSE, names |-> <<"f]">>, wild |-> FALSE, bracketed |-> TRUE, match |-> {"f]"}]
Top   == [abs |-> TRUE, names |-> <<"*">>, wild |-> TRUE, bracketed |-> TRUE, match |-> AllNames,
          tail |-> AllNames, cut |-> NoDir]
Star  == [abs |-> FALSE, names |-> <<"*">>, wild |-> TRUE, bracketed |-> TRUE, match |-> AllNames]
Some  == [abs |-> FALSE, names |-> <<"[fh]*">>, wild |-> TRUE, bracketed |-> TRUE, match |-> {"f", "home", "html_ls.html"}]
Root  == [abs |-> TRUE, names |-> <<"home", "*">>, wild |-> TRUE, bracketed |-> TRUE, match |-> AllNames,
          tail |-> AllNames, cut |-> HomeDef]
Deep  == [abs |-> TRUE, names |-> <<"home", "d", "*">>, wild |-> TRUE, bracketed |-> TRUE, match |-> AllNames,
          tail |-> AllNames, cut |-> D]
Cut   == [abs |-> TRUE, names |-> <<"home", "d?*">>, wild |-> TRUE, bracketed |-> TRUE, match |-> {},
          tail |-> AllNames \ {"d", "f", "b", "."}, cut |-> HomeDef]
Lost  == [abs |-> TRUE, names |-> <<"home", "e", "*">>, wild |-> TRUE, bracketed |-> TRUE, match |-> AllNames,
          tail |-> AllNames, cut |-> <<"home", "e">>]

Ops == {<<>>} \cup {<<o>> : o \in {Name(FALSE, <<"d">>), Name(FALSE, <<".">>), Name(FALSE, <<"f">>), Name(TRUE, D),
             Name(TRUE, <<"home", "none">>), Star, Some, Bracket, Top, Root, Deep, Cut, Lost}}
  \cup { <<Name(FALSE, <<"f">>), Name(FALSE, <<"d">>)>>,
         <<Name(TRUE, <<"home", "f">>), Name(FALSE, <<".h">>), Name(FALSE, <<"none">>),
           Name(FALSE, <<"html_ls.html">>)>>,
         <<Name(TRUE, D), Name(FALSE, <<"d", "d">>)>>,
         <<Name(FALSE, <<"-">>), Name(FALSE, <<"f">>)>>,
         <<Star, Name(FALSE, <<"d">>)>>, <<Root, Some, Name(FALSE, <<"d">>), Name(FALSE, <<"f">>)>>,
         <<Deep, Name(FALSE, <<"f">>)>>, <<Lost, Star>>, <<Star, Some, Star>>,
         <<Bracket, Name(FALSE, <<"d">>), Star>>, <<Top, Star>> }
CommandsDef ==
  { [flags |-> {}, args |-> 0, ops |-> o] : o \in Ops }
  \cup { [flags |-> f, args |-> k, ops |-> o] :
      f \in {{"r"}, {"S"}, {"a"}, {"a", "r"}, {"l"}, {"l", "S"}, {"a", "l", "r"}},
      k \in 1 .. 2, o \in Ops }
=============================================================================
