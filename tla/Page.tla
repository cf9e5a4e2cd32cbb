-------------------------------- MODULE Page --------------------------------
(***************************************************************************)
(* print_option of Web2_3/2021202045_adv_server.c and what it calls: the   *)
(* page for one URL, which is a file, a listing of a directory with a link *)
(* for each entry, or an error, while other processes change the           *)
(* directory.  web_server.c and preforked_server.c hold the same functions *)
(* line by line.  The process changes to the directory and back for every  *)
(* entry it looks at.                                                      *)
(*                                                                         *)
(* A URL is the sequence of its names.  Left out: the text of the page,    *)
(* attributes and colours of a file, and the slash a URL ends in, which    *)
(* option_l cuts off before it makes a link.                               *)
(***************************************************************************)
EXTENDS Naturals, Sequences, FiniteSets, SequencesExt, FiniteSetsExt

CONSTANTS
  Home,       \* the directory the server is started in
  Dirs,       \* the directories in it
  Names,      \* all names, "." and ".." among them
  Hidden,     \* those that begin with a dot
  Key,        \* order of a name, without that dot and in capitals; here no
              \* two names are the same then
  Length,     \* characters of a name
  Locked,     \* files the server may not read
  Large,      \* files that do not fit into a buffer of BUFSIZE
  Nameless,   \* entries whose owner or group has no name
  Contents,   \* what a directory may contain at first
  MAX_ROWS,   \* entries that fit into response_message
  MAX_FD,     \* descriptors a process may open besides the socket
  MAX_CHANGES \* bound: files created or deleted, directories removed

Folders == Dirs \cup {Home}
Dots == {".", ".."}

ASSUME PageAssumption ==
  /\ Home \notin Dirs /\ Dirs \subseteq Names /\ Dots \subseteq Hidden
  /\ Hidden \subseteq Names /\ IsFiniteSet(Names)
  /\ Key \in [Names -> Nat] /\ IsInjective(Key) /\ Length \in [Names -> Nat]
  /\ Contents \in [Folders -> SUBSET SUBSET (Names \ Dots)]
  /\ \A c \in Contents[Home] : Dirs \subseteq c
  /\ {MAX_ROWS, MAX_FD, MAX_CHANGES} \subseteq Nat

VARIABLES
  entries, gone,   \* the directories on the disk, and those removed from it
  changes,         \* how often another process has changed them
  cwd, fds,        \* of the process that makes the page
  at,              \* where it is in print_option
  url, aflag, prev,  \* its parameters: url, aflag, prev
  path,            \* the directory store_path leads to
  dir_num, max,    \* what the first pass found
  arr, j,          \* what the second one found, and the loops over it
  rows,            \* rows of the table
  status,          \* what the client is sent
  seen, disturbed  \* history: path in the second pass; changed since the first

disk == <<entries, gone, changes, disturbed>>
call == <<url, aflag, prev>>
page == <<disk, cwd, fds, at, call, path, dir_num, max, arr, j, rows, status, seen>>

PageInit ==
  /\ \E c \in [Folders -> UNION {Contents[d] : d \in Folders}] :
       /\ \A d \in Folders : c[d] \in Contents[d]
       /\ entries = [d \in Folders |-> c[d] \cup Dots]
  /\ gone = {} /\ changes = 0 /\ disturbed = FALSE
  /\ cwd = Home /\ fds = 0 /\ at = "idle"
  /\ url = <<>> /\ aflag = FALSE /\ prev = Home /\ path = Home
  /\ dir_num = 0 /\ max = 0 /\ arr = <<>> /\ j = 1
  /\ rows = <<>> /\ status = "none" /\ seen = {}

---------------------------------------------------------------------------
(* Names and directories.                                                  *)

(* The directory a URL leads to from the server's, if it is one, when some *)
(* directories have been removed; "outside" if it leaves the server's.     *)
ResolveIn(removed, u) ==
  FoldLeft(LAMBDA d, n : IF n = "." \/ d \in {"none", "outside"} THEN d
                         ELSE IF n = ".." THEN IF d \in Dirs THEN Home ELSE "outside"
                         ELSE IF d = Home /\ n \in Dirs \ removed THEN n ELSE "none",
           Home, u)
Resolve(u) == ResolveIn(gone, u)
IsDir(u) == Resolve(u) \in Folders
IsOut(u) == Resolve(u) = "outside"
IsFile(u) == /\ u # <<>> /\ ~IsDir(u) /\ ~IsOut(u) /\ Resolve(Front(u)) \in Folders
             /\ Last(u) \in entries[Resolve(Front(u))]

(* chdir: a directory that has been removed cannot be entered.             *)
Chdir(to, from) == IF to \in gone THEN from ELSE to

Listed == IF path \in gone THEN {} ELSE entries[path]

(* sort_hidden: what comes out of the swaps that Listing makes one by one. *)
SortHidden(S) ==
  [k \in 1 .. Cardinality(S) |->
     CHOOSE n \in S : Cardinality({m \in S : Key[m] < Key[n]}) = k - 1]

---------------------------------------------------------------------------
(* print_option                                                            *)

PrintOption(u, a) ==
  /\ at' = "open"
  /\ url' = u /\ aflag' = a /\ prev' = cwd
  /\ status' = "none" /\ rows' = <<>>
  /\ UNCHANGED <<disk, cwd, fds, path, dir_num, max, arr, j, seen>>

Reply(s, result) ==
  /\ status' = s /\ at' = result
  /\ UNCHANGED <<disk, cwd, fds, call, path, dir_num, max, arr, j, rows, seen>>

NotFoundSilently ==
  /\ at = "open" /\ ~IsDir(url) /\ ~IsFile(url) /\ ~IsOut(url)
  /\ Reply("none", "return0")
NotFound ==
  /\ at = "open" /\ ~IsDir(url) /\ ~IsFile(url) /\ ~IsOut(url)
  /\ Reply("404", "return1")

(* Something is there and cannot be opened: nothing is sent.               *)
CannotOpen ==
  /\ at = "open" /\ (IsDir(url) \/ IsFile(url))
  /\ fds = MAX_FD \/ (IsFile(url) /\ Last(url) \in Locked)
  /\ Reply("unreadable", "return1")

PlainFile ==
  /\ at = "open" /\ IsFile(url) /\ Last(url) \notin Locked
  /\ fds < MAX_FD
  /\ IF Last(url) \in Large THEN Reply("none", "undefined") ELSE Reply("200", "return0")

(* A URL may lead out of the server's directory.  What is there is not     *)
(* modelled: it may be missing, unreadable, a file of any size, or a       *)
(* directory with any entries.                                             *)
LeadOut ==
  /\ at = "open" /\ IsOut(url)
  /\ \/ Reply("404", "return1") \/ Reply("unreadable", "return1")
     \/ fds < MAX_FD /\ (Reply("200", "return0") \/ Reply("none", "undefined"))
     \/ /\ fds < MAX_FD
        /\ at' = "outside" /\ fds' = fds + 1
        /\ UNCHANGED <<disk, cwd, call, path, dir_num, max, arr, j, rows, status, seen>>
OutsideListed ==
  /\ at = "outside"
  /\ Reply("200", "return0") \/ Reply("none", "undefined")

(* The directory is never closed: the function returns before that.        *)
OpenDir ==
  /\ at = "open" /\ IsDir(url) /\ fds < MAX_FD
  /\ at' = "count"
  /\ path' = Resolve(url) /\ fds' = fds + 1 /\ disturbed' = FALSE
  /\ UNCHANGED <<entries, gone, changes, cwd, call, dir_num, max, arr, j, rows, status, seen>>

CountPass ==
  /\ at = "count" /\ at' = "store"
  /\ dir_num' = Cardinality(Listed)
  /\ max' = Max({0} \cup {Length[n] : n \in Listed}) + 1
  /\ UNCHANGED <<disk, cwd, fds, call, path, arr, j, rows, status, seen>>

Outgrown == \/ Cardinality(Listed) # dir_num
            \/ \E n \in Listed : Length[n] >= max

(* The second pass, in whatever order, and the sort.  A directory that has *)
(* been removed has no entries, and its page no rows.                      *)
StorePass ==
  /\ at = "store" /\ ~Outgrown
  /\ at' = IF dir_num = 0 THEN "return0" ELSE "total"
  /\ arr' = SortHidden(Listed)
  /\ j' = 1 /\ seen' = Listed
  /\ status' = IF dir_num = 0 THEN "200" ELSE status
  /\ UNCHANGED <<disk, cwd, fds, call, path, dir_num, max, rows>>

(* The names no longer fit into the array made for them.                   *)
StoreFails ==
  /\ at = "store" /\ Outgrown
  /\ Reply("none", "undefined")

(* total_blockSize stays in the directory when the file is gone.           *)
TotalCwd(n) ==
  LET here == Chdir(path, cwd)
  IN  IF n \in entries[here] THEN Chdir(prev, here) ELSE here
TotalStep ==
  /\ at = "total"
  /\ cwd' = TotalCwd(arr[j])
  /\ IF j < dir_num THEN j' = j + 1 /\ UNCHANGED at ELSE j' = 1 /\ at' = "rows"
  /\ UNCHANGED <<disk, fds, call, path, dir_num, max, arr, rows, status, seen>>

(* What option_l finds in the directory it is in, and makes a row of.      *)
HasRow(n, here) ==
  n \in entries[here] \ Nameless /\ (n \in Hidden => aflag)
Row(n, here) == [name |-> n, of |-> here, link |-> Append(url, n)]

RowWhereItIs(n) ==
  /\ IF HasRow(n, cwd) THEN rows' = Append(rows, Row(n, cwd)) ELSE UNCHANGED rows
  /\ cwd' = Chdir(prev, cwd)
OptionL(n) ==
  LET here == Chdir(path, cwd)
  IN  /\ IF HasRow(n, here) THEN rows' = Append(rows, Row(n, here)) ELSE UNCHANGED rows
      /\ cwd' = Chdir(prev, here)

RowStep ==
  /\ at = "rows"
  /\ OptionL(arr[j]) /\ Len(rows') <= MAX_ROWS
  /\ IF j < dir_num THEN j' = j + 1 /\ UNCHANGED <<at, status>>
     ELSE j' = 1 /\ at' = "return0" /\ status' = "200"
  /\ UNCHANGED <<disk, fds, call, path, dir_num, max, arr, seen>>

(* strcat writes beyond response_message.                                  *)
RowsOverflow ==
  /\ at = "rows" /\ Len(rows) = MAX_ROWS
  /\ HasRow(arr[j], Chdir(path, cwd))
  /\ Reply("none", "undefined")

(* It returns, and its variables are gone.                                 *)
Return ==
  /\ at' = "idle" /\ path' = Home
  /\ url' = <<>> /\ aflag' = FALSE /\ rows' = <<>>
  /\ dir_num' = 0 /\ max' = 0 /\ arr' = <<>> /\ j' = 1 /\ seen' = {} /\ disturbed' = FALSE
  /\ UNCHANGED <<entries, gone, changes, prev>>

PageStep ==
  \/ NotFound \/ CannotOpen \/ PlainFile \/ OpenDir
  \/ CountPass \/ StorePass \/ StoreFails
  \/ TotalStep \/ RowStep \/ RowsOverflow \/ LeadOut \/ OutsideListed

(* It is about to write to its client.                                     *)
Writing ==
  \/ at = "open" /\ ~IsDir(url) /\ (IsFile(url) => Last(url) \notin Locked /\ fds < MAX_FD)
  \/ (at = "store" /\ dir_num = 0) \/ (at = "rows" /\ j = dir_num) \/ at = "outside"

---------------------------------------------------------------------------
(* Another process.                                                        *)

Changing == at \in {"count", "store", "total", "rows"} /\ changes < MAX_CHANGES

ChangeFile ==
  /\ Changing /\ changes' = changes + 1 /\ path \notin gone
  /\ \E n \in Names \ (Dots \cup Dirs) :
       entries' = [entries EXCEPT ![path] = IF n \in @ THEN @ \ {n} ELSE @ \cup {n}]
  /\ disturbed' = TRUE
  /\ UNCHANGED <<gone, cwd, fds, at, call, path, dir_num, max, arr, j, rows, status, seen>>

RemoveDir ==
  /\ Changing /\ changes' = changes + 1
  /\ path \in Dirs \ gone /\ entries[path] = Dots
  /\ gone' = gone \cup {path}
  /\ entries' = [entries EXCEPT ![Home] = @ \ {path}]
  /\ disturbed' = TRUE
  /\ UNCHANGED <<cwd, fds, at, call, path, dir_num, max, arr, j, rows, status, seen>>

---------------------------------------------------------------------------

(* Every row of a listing describes the entry its link leads to, although  *)
(* each step finds its own way to the directory and back: an entry that    *)
(* the second pass saw and the flags do not hide.  None has two rows, and  *)
(* unless the directory was changed none that has an owner is missing.     *)
RowsLead ==
  at = "return0" /\ rows # <<>> /\ path \notin gone =>
    /\ \A k \in DOMAIN rows :
         /\ Resolve(Front(rows[k].link)) = rows[k].of
         /\ Last(rows[k].link) = rows[k].name
         /\ rows[k].name \in seen /\ (rows[k].name \in Hidden => aflag)
    /\ \A k, m \in DOMAIN rows : k < m => Key[rows[k].name] <= Key[rows[m].name]
    /\ IsInjective(rows)
    /\ ~disturbed => {rows[k].name : k \in DOMAIN rows}
                     = {n \in seen \ Nameless : n \in Hidden => aflag}
=============================================================================
