----------------------------- MODULE HtmlListing -----------------------------
(***************************************************************************)
(* The ls of Web2_1/2021202045_html_ls.c, which writes the names it prints *)
(* into a page of tables as well, each with a link: which of its branches  *)
(* a command line takes, the tables that branch makes, and the patterns    *)
(* that wild expands.  It changes to a directory and back for every entry, *)
(* and opens streams on directories that it does not always close.         *)
(*                                                                         *)
(* A path is the sequence of its names from the root, and to append to it  *)
(* is strcat.  Left out: attributes, sizes and colours, only whose file it *)
(* is that they are taken from is kept; and the wording of the page.       *)
(***************************************************************************)
EXTENDS Naturals, Sequences, FiniteSets, SequencesExt, FiniteSetsExt

CONSTANTS
  Home,     \* the directory it is started in
  Page,     \* "html_ls.html", which can be written in Home
  Trees,    \* file systems: a function from directories to the names in them
  Hidden,   \* names that begin with a dot
  Key,      \* order of a name, no two alike
  Size,     \* of the file of that name
  Nameless, \* entries whose owner or group has no name
  Commands, \* [flags, args, ops]: the options, the arguments they take up,
            \* and the operands, in the order that sort_hidden gives them
  OptionArg,\* the one argument of a command that has options only, as a name
  MAX_DIR   \* streams a process may open

(* An operand: its names from the root if abs, else from Home; wild if it  *)
(* holds *, ? or [, and bracketed if it is wild or holds ], which makes it *)
(* a pattern unless it is the only argument.  The last name is the pattern *)
(* then: match are the names that fnmatch finds for it, and tail those it  *)
(* finds for what is left of it from the first of *, ? and [ on; cut is    *)
(* the rest without its last character.                                    *)
Operands == UNION {ToSet(c.ops) : c \in Commands}
NoDir == <<"no directory">>    \* and the path "", which none has
Dots == {".", ".."}

Entry == DOMAIN Key

FileSystem(t) ==
  /\ Home \in DOMAIN t /\ <<>> \in DOMAIN t /\ DOMAIN t \subseteq Seq(Entry)
  /\ NoDir \notin DOMAIN t /\ Append(Home, Page) \notin DOMAIN t
  /\ \A d \in DOMAIN t : Dots \subseteq t[d] /\ t[d] \subseteq Entry
  /\ \A e \in DOMAIN t \ {<<>>} :
       /\ Front(e) \in DOMAIN t /\ Last(e) \in t[Front(e)] \ Dots

ASSUME HtmlListingAssumption ==
  /\ IsFiniteSet(Entry) /\ IsInjective(Key)
  /\ {Key, Size} \subseteq [Entry -> Nat]
  /\ Dots \subseteq Hidden /\ Page \in Entry \ Hidden
  /\ \A t \in Trees : FileSystem(t)
  /\ \A c \in Commands : /\ c.flags \subseteq {"a", "l", "r", "S", "h"}
                         /\ c.args \in Nat /\ (c.args = 0) = (c.flags = {})
                         /\ c.ops \in Seq(Operands)
  /\ \A o \in Operands : /\ {o.abs, o.wild, o.bracketed} \subseteq BOOLEAN
                         /\ o.wild => o.bracketed
                         /\ o.names \in Seq(ToSet(o.names))
                         /\ ~o.abs \/ o.bracketed => o.names # <<>>
                         /\ o.abs /\ o.wild => o.cut \in Seq(ToSet(o.cut))
  /\ MAX_DIR \in Nat \ {0}

VARIABLES
  tree, cmd, cwd, streams,
  at,
  jobs,        \* the operands that are still to be listed, with their kind
  path, prev,  \* the variables of that name
  base,        \* prev_dir of a pattern
  dir,         \* the directory that was read
  arr,         \* the names in it that are still to be looked at
  found, todo, \* what a pattern matches, and what of it the loop has left
  heads,       \* headings of the page
  rows,        \* rows of the last table: [name, link, looked]
  tables,      \* tables begun and not ended
  full         \* history: an opendir found no stream left

operand == <<base, found, todo>>
table == <<path, prev, dir, arr, rows>>
vars == <<tree, cmd, cwd, streams, at, jobs, operand, table, heads, tables, full>>

---------------------------------------------------------------------------
Has(f) == f \in cmd.flags
Argc == 1 + cmd.args + Len(cmd.ops)

(* From one of the directories D, by a name, and from the root by a path.  *)
Go(D, d, n) ==
  IF d = NoDir \/ n = "." THEN d
  ELSE IF n = ".." THEN IF d = <<>> THEN d ELSE Front(d)
  ELSE IF Append(d, n) \in D THEN Append(d, n) ELSE NoDir
ResolveIn(D, p) ==
  LET to[k \in 0 .. Len(p)] == IF k = 0 THEN <<>> ELSE Go(D, to[k - 1], p[k])
  IN  to[Len(p)]
Resolve(p) == ResolveIn(DOMAIN tree, p)
IsDir(p) == Resolve(p) # NoDir
Exists(p) == IsDir(p) \/ (IsDir(Front(p)) /\ Last(p) \in tree[Resolve(Front(p))])

Chdir(p, from) == IF IsDir(p) THEN Resolve(p) ELSE from
From(o, d) == IF o.abs THEN o.names ELSE d \o o.names

Ordered(S, before) ==
  [k \in 1 .. Cardinality(S) |->
     CHOOSE n \in S : Cardinality({m \in S : <<m, n>> \in before}) = k - 1]
ByKey == {x \in Entry \X Entry : Key[x[1]] < Key[x[2]]}
SortHidden(S) == Ordered(S, ByKey)
OptionS(S) == Ordered(S, {x \in Entry \X Entry :
                            \/ Size[x[1]] > Size[x[2]]
                            \/ Size[x[1]] = Size[x[2]] /\ x \in ByKey})
Turned(s) == IF Has("r") THEN Reverse(s) ELSE s
Shown(n) == n # Page /\ (n \in Hidden => Has("a"))

---------------------------------------------------------------------------
Init ==
  /\ tree \in Trees /\ cmd \in Commands
  /\ cwd = Home /\ streams = 0 /\ at = "main" /\ jobs = <<>>
  /\ base = Home /\ found = <<>> /\ todo = <<>>
  /\ path = Home /\ prev = Home /\ dir = Home /\ arr = <<>> /\ rows = <<>>
  /\ heads = <<>> /\ tables = 0 /\ full = FALSE

(* The page is a file of the directory before that is listed.              *)
Main ==
  /\ at = "main" /\ at' = "ls"
  /\ tree' = [tree EXCEPT ![Home] = @ \cup {Page}]
  /\ UNCHANGED <<cmd, cwd, streams, jobs, operand, table, heads, tables, full>>

(* readdir is called with what opendir returned, NULL or not.              *)
ReadNull(d) == d = NoDir \/ streams = MAX_DIR
Crash ==
  /\ at' = "undefined" /\ full' = (full \/ streams = MAX_DIR)
  /\ UNCHANGED <<tree, cmd, cwd, streams, jobs, operand, table, heads, tables>>

(* Both passes over d and the sort; the heading and the table of p.        *)
Begin(style, d, p, sorted) ==
  IF ReadNull(d) THEN Crash
  ELSE /\ at' = style /\ streams' = streams + 1
       /\ dir' = d /\ path' = p /\ prev' = cwd /\ arr' = sorted /\ rows' = <<>>
       /\ heads' = Append(heads, p) /\ tables' = tables + 1
       /\ UNCHANGED <<tree, cmd, cwd, jobs, operand, full>>

(* A row for the name n of dir, after what_color, which goes to the path   *)
(* and to prev.                                                            *)
WhatColor(p, n) ==
  LET here == Chdir(p, cwd) IN IF n \in tree[here] THEN here ELSE NoDir
Row(n, link) ==
  /\ rows' = Append(rows, [name |-> n, link |-> link, looked |-> WhatColor(path, n)])
  /\ cwd' = Chdir(prev, Chdir(path, cwd))

NextName == arr' = Tail(arr) /\ UNCHANGED <<tree, cmd, at, jobs, operand, path, prev, dir,
                                            heads, tables, full>>
NoRow == UNCHANGED <<rows, cwd>>

---------------------------------------------------------------------------
(* One argument or none, and neither -a nor -l.                            *)

Short == at = "ls" /\ (Argc = 1 \/ (Argc = 2 /\ ~Has("a") /\ ~Has("l")))
Arg1 == IF cmd.args = 1 THEN [abs |-> FALSE, names |-> <<OptionArg>>, wild |-> FALSE]
        ELSE cmd.ops[1]
BySize(d) == IF d = NoDir THEN <<>> ELSE IF Has("S") THEN OptionS(tree[d]) ELSE SortHidden(tree[d])

ShortHere ==
  /\ Short /\ Argc = 1
  /\ Begin("short", cwd, cwd, SortHidden(tree[cwd]))

(* What is no directory is taken for the directory it is called from.      *)
ShortRelative ==
  /\ Short /\ Argc = 2 /\ ~Arg1.wild /\ ~Arg1.abs
  /\ LET d == IF IsDir(cwd \o Arg1.names) THEN Resolve(cwd \o Arg1.names) ELSE cwd
     IN  Begin("short", d, cwd \o Arg1.names, Turned(BySize(d)))

(* Opened twice, and closed once.                                          *)
ShortAbsolute ==
  /\ Short /\ Argc = 2 /\ ~Arg1.wild /\ Arg1.abs
  /\ LET d == Resolve(Arg1.names)
     IN  IF d = NoDir \/ streams + 1 >= MAX_DIR THEN Crash
         ELSE /\ at' = "short" /\ streams' = streams + 2
              /\ dir' = d /\ path' = Arg1.names /\ prev' = cwd
              /\ arr' = SortHidden(tree[d]) /\ rows' = <<>>
              /\ heads' = Append(heads, Arg1.names) /\ tables' = tables + 1
              /\ UNCHANGED <<tree, cmd, cwd, jobs, operand, full>>

ShortRow ==
  /\ at = "short" /\ arr # <<>> /\ NextName /\ UNCHANGED streams
  /\ IF Shown(Head(arr)) THEN Row(Head(arr), IF Has("r") THEN path ELSE Append(path, Head(arr)))
     ELSE NoRow

(* The table is not ended here.                                            *)
ShortEnd ==
  /\ at = "short" /\ arr = <<>>
  /\ at' = "done" /\ streams' = streams - 1
  /\ UNCHANGED <<tree, cmd, cwd, jobs, operand, table, heads, tables, full>>

---------------------------------------------------------------------------
(* Options only, with -a or -l.                                            *)

Alone == at = "ls" /\ Argc = 2 /\ cmd.args = 1

AllHere ==
  /\ Alone /\ Has("a") /\ ~Has("l")
  /\ Begin("all", cwd, cwd, Turned(SortHidden(tree[cwd])))
AllRow ==
  /\ at = "all" /\ arr # <<>> /\ NextName /\ UNCHANGED streams
  /\ IF Shown(Head(arr)) THEN Row(Head(arr), Append(path, Head(arr))) ELSE NoRow

LongHere ==
  /\ Alone /\ Has("l")
  /\ Begin("long", cwd, cwd, Turned(BySize(cwd)))

(* option_l has more reasons to leave a row out.                           *)
OptionL(n) ==
  IF Shown(n) /\ WhatColor(path, n) # NoDir /\ n \notin Nameless
    THEN Row(n, Append(path, n))
    ELSE UNCHANGED rows /\ cwd' = IF n = Page THEN cwd ELSE Chdir(prev, Chdir(path, cwd))
LongRow ==
  /\ at = "long" /\ arr # <<>> /\ NextName /\ UNCHANGED streams
  /\ OptionL(Head(arr))

(* The table and the stream are closed.                                    *)
End ==
  /\ at \in {"all", "long", "dir", "plain"} /\ arr = <<>>
  /\ at' = "next" /\ streams' = streams - 1 /\ tables' = tables - 1
  /\ jobs' = IF jobs = <<>> THEN <<>> ELSE Tail(jobs)
  /\ UNCHANGED <<tree, cmd, cwd, operand, table, heads, full>>

---------------------------------------------------------------------------
(* Options and operands.                                                   *)

(* Those of s that are in S, in their order.                               *)
Kept(s, S) ==
  LET kept[k \in 0 .. Len(s)] == IF k = 0 THEN <<>>
                                 ELSE IF s[k] \in S THEN Append(kept[k - 1], s[k])
                                 ELSE kept[k - 1]
  IN  kept[Len(s)]
Jobs(kind, s) == [k \in DOMAIN s |-> [kind |-> kind, op |-> s[k]]]

(* "-" is stored and was not counted; a directory whose name looks like a  *)
(* pattern is stored as one and was not counted as one.                    *)
Uncounted(o) == IF IsDir(From(o, cwd)) THEN o.bracketed ELSE o.names = <<"-">>

Classify ==
  /\ at = "ls" /\ ~Short /\ ~Alone
  /\ IF \E k \in DOMAIN cmd.ops : Uncounted(cmd.ops[k]) THEN at' = "undefined" /\ UNCHANGED jobs
     ELSE LET all   == {o \in Operands : IsDir(From(o, cwd))}
              bracketed == {o \in Operands : o.bracketed}
              dirs  == Kept(cmd.ops, all)
              files == Kept(cmd.ops, Operands \ (all \cup bracketed))
              pats  == Kept(cmd.ops, bracketed \ all)
          IN  /\ at' = "next"
              /\ jobs' = IF Has("a") \/ Has("l")
                           THEN Turned(Jobs("file", files)) \o Turned(Jobs("dir", dirs))
                         ELSE IF cmd.flags = {}
                           THEN Jobs("pattern", pats) \o Jobs("file", files) \o Jobs("dir", dirs)
                         ELSE <<>>
  /\ UNCHANGED <<tree, cmd, cwd, streams, operand, table, heads, tables, full>>

Job(kind) == at = "next" /\ jobs # <<>> /\ Head(jobs).kind = kind
Op == Head(jobs).op
NextJob == jobs' = Tail(jobs) /\ UNCHANGED <<tree, cmd, at, streams, operand, prev, arr, full>>

(* A file that access does not find has no heading.                        *)
CannotAccess ==
  /\ Job("file") /\ ~Exists(From(Op, cwd)) /\ NextJob
  /\ UNCHANGED <<cwd, path, dir, rows, heads, tables>>

(* The heading h of a file, its table, and the row in it, if it has one.   *)
FileTable(h, row) ==
  LET f == From(Op, cwd)
  IN  /\ at' = "file" /\ heads' = Append(heads, h) /\ tables' = tables + 1 /\ path' = h
      /\ dir' = Resolve(Front(f))
      /\ rows' = IF row THEN <<[name |-> Last(f), link |-> h \o Op.names, looked |-> dir']>>
                 ELSE <<>>
      /\ UNCHANGED <<tree, cmd, cwd, streams, jobs, operand, prev, arr, full>>
FileEnd ==
  /\ at = "file" /\ at' = "next" /\ jobs' = Tail(jobs) /\ tables' = tables - 1
  /\ UNCHANGED <<tree, cmd, cwd, streams, operand, table, heads, full>>
(* The page itself has a heading h, and with -a a table without an end.    *)
PageItself(h, open) ==
  /\ NextJob /\ heads' = Append(heads, h) /\ tables' = tables + open /\ path' = h
  /\ UNCHANGED <<cwd, dir, rows>>
OpHidden == ~Op.abs /\ Op.names[1] \in Hidden

AllFile ==
  /\ Job("file") /\ Has("a") /\ ~Has("l") /\ Exists(From(Op, cwd))
  /\ IF Op.names = <<Page>> THEN PageItself(cwd, 1) ELSE FileTable(cwd, TRUE)
LongFile ==
  /\ Job("file") /\ Has("l") /\ ~Has("r") /\ Exists(From(Op, cwd))
  /\ FileTable(cwd, (OpHidden => Has("a")) /\ Last(Op.names) \notin Nameless)
LongFileReversed ==
  /\ Job("file") /\ Has("l") /\ Has("r") /\ Exists(From(Op, cwd))
  /\ FileTable(cwd, (OpHidden => Has("a")) /\ Last(Op.names) \notin Nameless)
PlainFile ==
  /\ Job("file") /\ cmd.flags = {} /\ Exists(From(Op, cwd))
  /\ IF OpHidden THEN NextJob /\ UNCHANGED <<cwd, path, dir, rows, heads, tables>>
     ELSE IF Op.names = <<Page>> THEN PageItself(IF Op.abs THEN Op.names ELSE cwd, 0)
     ELSE FileTable(IF Op.abs THEN Op.names ELSE cwd, TRUE)

(* Only some of the branches look whether the operand is absolute.         *)
OpDir == Resolve(From(Op, cwd))
AllDir ==
  /\ Job("dir") /\ Has("a") /\ ~Has("l")
  /\ Begin("dir", OpDir, cwd \o Op.names, Turned(SortHidden(tree[OpDir])))
AllDirRow ==
  /\ at = "dir" /\ arr # <<>> /\ NextName /\ UNCHANGED streams
  /\ IF Shown(Head(arr))
       THEN Row(Head(arr), IF Head(arr) = ".." THEN prev ELSE Append(path, Head(arr)))
       ELSE NoRow
LongDirRelative ==
  /\ Job("dir") /\ Has("l") /\ ~Has("r")
  /\ Begin("long", OpDir, cwd \o Op.names, BySize(OpDir))
LongDir ==
  /\ Job("dir") /\ Has("l") /\ ~Has("r")
  /\ Begin("long", OpDir, From(Op, cwd), BySize(OpDir))
LongDirReversed ==
  /\ Job("dir") /\ Has("l") /\ Has("r")
  /\ Begin("long", OpDir, From(Op, cwd), Reverse(BySize(OpDir)))
PlainDir ==
  /\ Job("dir") /\ cmd.flags = {}
  /\ Begin("plain", OpDir, From(Op, cwd), SortHidden(tree[OpDir]))
PlainRow ==
  /\ at = "plain" /\ arr # <<>> /\ NextName /\ UNCHANGED streams
  /\ IF Shown(Head(arr)) THEN Row(Head(arr), Append(path, Head(arr))) ELSE NoRow

Finish ==
  /\ at = "next" /\ jobs = <<>> /\ at' = "done"
  /\ UNCHANGED <<tree, cmd, cwd, streams, jobs, operand, table, heads, tables, full>>

---------------------------------------------------------------------------
(* Patterns: first the matches that are no directories, then the others.   *)

BeginPattern(b, names) ==
  IF ReadNull(Resolve(b)) THEN Crash
  ELSE /\ at' = "files" /\ streams' = streams + 1 /\ base' = b
       /\ found' = SortHidden(names \cap tree[Resolve(b)]) /\ todo' = found'
       /\ UNCHANGED <<tree, cmd, cwd, jobs, table, heads, tables, full>>

ShortPattern ==
  /\ Short /\ Argc = 2 /\ Arg1.wild
  /\ IF Arg1.abs THEN BeginPattern(Arg1.cut, Arg1.tail \ Hidden)
     ELSE BeginPattern(cwd, Arg1.match \ (Hidden \cup {Page}))
Pattern ==
  /\ Job("pattern")
  /\ BeginPattern(IF ~Op.abs THEN cwd ELSE IF Len(Op.names) = 1 THEN NoDir ELSE Front(Op.names),
                  Op.match \ Hidden)

Opens(p) == IsDir(p) /\ streams < MAX_DIR
FullIf(p) == full' = (full \/ (IsDir(p) /\ streams = MAX_DIR))

MatchFileCloses ==
  /\ at = "files" /\ todo # <<>>
  /\ LET p == Append(base, Head(todo))
     IN  /\ FullIf(p)
         /\ heads' = IF Opens(p) THEN heads ELSE Append(heads, p)
  /\ todo' = Tail(todo)
  /\ UNCHANGED <<tree, cmd, cwd, streams, at, jobs, base, found, table, tables>>
(* The stream on a directory is not closed, only the variable is lost.     *)
MatchFile ==
  /\ at = "files" /\ todo # <<>>
  /\ LET p == Append(base, Head(todo))
     IN  /\ FullIf(p)
         /\ IF Opens(p) THEN streams' = streams + 1 /\ UNCHANGED heads
            ELSE heads' = Append(heads, p) /\ UNCHANGED streams
  /\ todo' = Tail(todo)
  /\ UNCHANGED <<tree, cmd, cwd, at, jobs, base, found, table, tables>>
MatchFilesDone ==
  /\ at = "files" /\ todo = <<>> /\ at' = "dirs"
  /\ todo' = IF Argc = 2 THEN Kept(found, Entry \ {Page}) ELSE found
  /\ UNCHANGED <<tree, cmd, cwd, streams, jobs, base, found, table, heads, tables, full>>

(* The stream of the match, and that of wild, which may not get one.       *)
MatchDir ==
  /\ at = "dirs" /\ todo # <<>>
  /\ LET p == Append(base, Head(todo))
     IN  IF ~Opens(p) THEN FullIf(p) /\ UNCHANGED <<at, streams, table, heads, tables>>
         ELSE /\ heads' = Append(heads, p)
              /\ IF streams + 1 = MAX_DIR
                   THEN full' = TRUE /\ UNCHANGED <<at, streams, table, tables>>
                   ELSE /\ at' = "wild1" /\ streams' = streams + 2 /\ tables' = tables + 1
                        /\ path' = p /\ prev' = base /\ dir' = Resolve(p)
                        /\ arr' = SortHidden(tree[dir']) /\ rows' = <<>> /\ UNCHANGED full
  /\ todo' = Tail(todo)
  /\ UNCHANGED <<tree, cmd, cwd, jobs, base, found>>

(* It opens a name of the directory in the one it is in, which is another, *)
(* and after the first row prev.                                           *)
Plainly(n) == n \notin Hidden /\ n # Page
WildStep(opened, closes) ==
  LET n == Head(arr) IN
  /\ FullIf(Append(cwd, n))
  /\ arr' = Tail(arr)
  /\ streams' = IF opened /\ ~(closes /\ Plainly(n)) THEN streams + 1 ELSE streams
  /\ IF Plainly(n) /\ (opened <=> closes) THEN Row(n, Append(path, n)) ELSE NoRow
  /\ UNCHANGED <<tree, cmd, at, jobs, operand, path, prev, dir, heads, tables>>
WildFile == at = "wild1" /\ arr # <<>> /\ WildStep(Opens(Append(cwd, Head(arr))), FALSE)
WildFilesDone ==
  /\ at = "wild1" /\ arr = <<>>
  /\ at' = "wild2" /\ arr' = SortHidden(tree[dir])
  /\ UNCHANGED <<tree, cmd, cwd, streams, jobs, operand, path, prev, dir, rows, heads, tables, full>>
WildDirOnly ==
  at = "wild2" /\ arr # <<>> /\ WildStep(Opens(Append(path, Head(arr))), TRUE)
WildDir == at = "wild2" /\ arr # <<>> /\ WildStep(Opens(Append(cwd, Head(arr))), TRUE)
WildEnd ==
  /\ at = "wild2" /\ arr = <<>>
  /\ at' = "dirs" /\ streams' = streams - 2 /\ tables' = tables - 1
  /\ UNCHANGED <<tree, cmd, cwd, jobs, operand, table, heads, full>>

ShortPatternDone ==
  /\ at = "dirs" /\ todo = <<>> /\ Argc = 2
  /\ at' = "done" /\ streams' = streams - 1
  /\ UNCHANGED <<tree, cmd, cwd, jobs, operand, table, heads, tables, full>>
PatternDone ==
  /\ at = "dirs" /\ todo = <<>> /\ Argc > 2
  /\ at' = "next" /\ streams' = streams - 1 /\ jobs' = Tail(jobs)
  /\ cwd' = Chdir(Home, cwd)
  /\ UNCHANGED <<tree, cmd, operand, table, heads, tables, full>>

Next ==
  \/ Main \/ Classify \/ Finish \/ End
  \/ ShortHere \/ ShortRelative \/ ShortAbsolute \/ ShortRow \/ ShortEnd
  \/ AllHere \/ AllRow \/ LongHere \/ LongRow
  \/ CannotAccess \/ AllFile \/ LongFile \/ LongFileReversed \/ PlainFile \/ FileEnd
  \/ AllDir \/ AllDirRow \/ LongDir \/ LongDirReversed \/ PlainDir \/ PlainRow
  \/ ShortPattern \/ Pattern \/ MatchFile \/ MatchFilesDone \/ MatchDir
  \/ WildFile \/ WildFilesDone \/ WildDir \/ WildEnd \/ ShortPatternDone \/ PatternDone

Spec == Init /\ [][Next]_vars

---------------------------------------------------------------------------

TableDone == arr = <<>> /\ at \in {"short", "all", "long", "dir", "plain", "wild2"}
Node(p) == IF p = <<>> \/ Last(p) \in Dots THEN Resolve(p) ELSE Append(Resolve(Front(p)), Last(p))

(* The link of each row leads to the entry it stands for, and its colour   *)
(* is that entry's, whichever branch made the row, of a file that is an    *)
(* operand too, except where the code joins names that do not belong       *)
(* together: with -r alone (214), below an argument that is no directory   *)
(* (155-163), behind an absolute operand of -a (622), for the parent of an *)
(* operand of -a that is not Home (658), and for each absolute operand     *)
(* that is a file, which follows the directory the program runs in (575-   *)
(* 578, 601-604, 1428-1431, 1450-1452) or itself (1153 and 1164-1166).     *)
Leads(r) ==
  \/ Node(r.link) = Node(Append(dir, r.name)) /\ r.looked = dir
  \/ at = "short" /\ (Has("r") \/ ~IsDir(path))
  \/ at = "dir" /\ (Op.abs \/ (r.name = ".." /\ Resolve(Append(dir, "..")) # Home))
  \/ at = "file" /\ Op.abs
LinksLead == TableDone \/ at = "file" => \A r \in ToSet(rows) : Leads(r)

Names(s) == [k \in DOMAIN s |-> s[k].name]
EachOnce ==
  /\ IsInjective(Names(rows))
  /\ ToSet(Names(rows)) = {n \in tree[dir] \ {Page} :
       IF at = "wild2" THEN n \notin Hidden
       ELSE (n \in Hidden => Has("a")) /\ (at = "long" => n \notin Nameless)}

(* A listing has one row for every entry that the options show, and a      *)
(* listing of a match, which is made in two parts, has too, as long as a   *)
(* relative pattern keeps it in the directory it started in.               *)
EntriesOnce == TableDone /\ ~full /\ (at = "wild2" => base = Home) => EachOnce

(* What remains open is what the two loops over the matches, and the two   *)
(* over the entries of each, do not close: one stream for each match that  *)
(* is a directory, one for each entry of it that has the name of one where *)
(* the program runs, and another one if that is hidden; nothing else.      *)
IsPattern(o) == IF Argc = 2 THEN o.wild ELSE o.bracketed
Patterns == IF cmd.flags = {} THEN Kept(cmd.ops, {o \in Operands : IsPattern(o)}) ELSE <<>>
Matches(o) == {n \in (o.match \ Hidden) \cap tree[Home] : IsDir(Append(Home, n))}
LeftOpen ==
  {x \in (DOMAIN Patterns) \X Entry \X Entry \X {"match", "files", "dirs"} :
     LET n == x[2]  m == x[3]  loop == x[4] IN
       /\ n \in Matches(Patterns[x[1]])
       /\ IF loop = "match" THEN m = n
          ELSE /\ m \in tree[Append(Home, n)] /\ IsDir(Append(Home, m))
               /\ loop = "dirs" => m \in Hidden}
StreamsLeft ==
  at = "done" /\ ~full /\ (\A o \in ToSet(cmd.ops) : ~o.abs) =>
    streams = Cardinality(LeftOpen)
=============================================================================
