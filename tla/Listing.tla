------------------------------- MODULE Listing -------------------------------
(***************************************************************************)
(* The ls of Web1_3/2021202045_final_ls.c: which directories a command     *)
(* line lists, and how one is listed: a pass that counts its entries, one  *)
(* that stores their names, the sort, the sum of their blocks, and a line  *)
(* for each, while other processes create and delete files.  The functions *)
(* that look at a file change to its directory and back.  Patterns and     *)
(* operands that are no directories are not modelled, and every operand is *)
(* a name relative to Home.                                                *)
(***************************************************************************)
EXTENDS Naturals, Sequences, FiniteSets, SequencesExt, FiniteSetsExt, NameOrder

CONSTANTS
  Home,      \* the directory ls is started in
  Dirs,      \* the directories in it
  Names,     \* names of entries
  Dots,      \* "." and "..", which are always there
  Hidden,    \* the names that begin with a dot
  Nameless,  \* those of files whose owner or group has no name
  Key,       \* order of a name, without that dot and in capitals
  Length,    \* characters of a name
  Size,      \* size of the file
  Blocks,    \* its blocks
  Contents,  \* what a directory may contain at first besides Dot
  Commands,  \* command lines: [argc, flags, operands]
  MAX_CHANGES  \* bound: files created or deleted during one run

ASSUME ListingAssumption ==
  /\ Home \notin Dirs
  /\ Dots # {} /\ Dots \subseteq Hidden /\ Hidden \subseteq Names /\ IsFiniteSet(Names)
  /\ Nameless \subseteq Names
  /\ {Length, Size, Blocks} \subseteq [Names -> Nat]
  /\ Key \in [Names \cup Dirs -> Nat]
  /\ Contents \subseteq SUBSET (Names \ Dots)
  /\ \A c \in Commands :
       /\ c.flags \subseteq {"a", "l", "r", "S", "h"}
       /\ c.operands \in Seq(Dirs) /\ c.argc \in Nat
       /\ c.argc > Len(c.operands) + (IF c.flags = {} THEN 0 ELSE 1)
  /\ MAX_CHANGES \in Nat

VARIABLES
  entries,   \* the directories on the disk
  gone,      \* those that were removed
  cwd,       \* where the process is
  cmd,       \* the command line
  pc,
  dirs,      \* arr_dir, from i on
  dir,       \* the directory being listed
  prev_dir,  \* where option_l and the others go back to
  dir_num, max,   \* what the first pass found
  arr, j,    \* what the second one found, and the loops over it
  total,
  out,       \* the names printed for dir
  listed,    \* history: directories that have been listed
  seen,      \* history: the contents of dir in the second pass
  disturbed, \* history: dir has changed since the first pass
  changes

place == <<cmd, dirs, listed>>
vars == <<entries, gone, cwd, cmd, pc, dirs, dir, prev_dir, dir_num, max, arr, j,
          total, out, listed, seen, disturbed, changes>>
fs == <<entries, gone, disturbed, changes>>

Flag(f) == f \in cmd.flags

Init ==
  /\ cmd \in Commands
  /\ entries \in [Dirs \cup {Home} -> {Dots \cup c : c \in Contents}]
  /\ gone = {}
  /\ pc = "start" /\ cwd = Home
  /\ dirs = <<>> /\ dir = Home /\ prev_dir = Home
  /\ dir_num = 0 /\ max = 0 /\ arr = <<>> /\ j = 1 /\ total = 0
  /\ out = <<>> /\ listed = <<>> /\ seen = {} /\ disturbed = FALSE /\ changes = 0

---------------------------------------------------------------------------
(* Sorting.                                                                *)

(* Directories are names, too: they are entries of Home.                   *)
Behind == {x \in (Names \cup Dirs) \X (Names \cup Dirs) : Key[x[1]] > Key[x[2]]}

SortHiddenOneLess(s) ==
  IF s = <<>> THEN s ELSE Append(Exchange(Front(s), Behind, {}), Last(s))
SortHidden(s) == Exchange(s, Behind, {})

(* option_s: the largest first; it gives up when a file is gone.           *)
SortBySize(s, there) ==
  Exchange(s, {x \in Names \X Names :
                 \/ Size[x[1]] < Size[x[2]]
                 \/ Size[x[1]] = Size[x[2]] /\ x \in Behind},
              (Names \X Names) \ (there \X there))

---------------------------------------------------------------------------
(* main                                                                    *)

(* One word at most, and neither -a nor -l: names that are not hidden.     *)
Short == \/ cmd.argc = 1
         \/ cmd.argc = 2 /\ ~Flag("a") /\ ~Flag("l")
(* One word with -a or -l: the current directory.                          *)
Here == cmd.argc = 2 /\ (Flag("a") \/ Flag("l"))
(* More words: lists that -a or -l selects, or none of the flags.          *)
Handled == Short \/ Here \/ Flag("a") \/ Flag("l") \/ cmd.flags = {}

Long == ~Short /\ Flag("l")
All == ~Short /\ Flag("a")

Start ==
  /\ pc = "start" /\ pc' = "next"
  /\ dirs' = IF Short /\ cmd.operands # <<>> THEN cmd.operands
             ELSE IF Short \/ Here THEN <<Home>>
             ELSE IF ~Handled THEN <<>>
             ELSE IF Flag("r") /\ cmd.flags # {}
                    THEN Reverse(SortHidden(cmd.operands))
             ELSE SortHidden(cmd.operands)
  /\ UNCHANGED <<fs, cwd, cmd, dir, prev_dir, dir_num, max, arr, j, total, out,
                 listed, seen>>

(* Operands are relative: they are found from Home only.                   *)
Found(d) == d \notin gone /\ (cwd = Home \/ d = Home)

(* access says that the directory is there ...                             *)
Access ==
  /\ pc = "next" /\ dirs # <<>> /\ Found(Head(dirs))
  /\ pc' = "open"
  /\ dir' = Head(dirs) /\ dirs' = Tail(dirs)
  /\ prev_dir' = cwd
  /\ total' = 0 /\ out' = <<>> /\ disturbed' = FALSE
  /\ UNCHANGED <<entries, gone, changes, cwd, cmd, dir_num, max, arr, j, listed, seen>>

CannotAccess ==
  /\ pc = "next" /\ dirs # <<>> /\ ~Found(Head(dirs))
  /\ dirs' = Tail(dirs)
  /\ UNCHANGED <<fs, cwd, cmd, pc, dir, prev_dir, dir_num, max, arr, j, total,
                 out, listed, seen>>

(* ... which opendir may find no longer: readdir(NULL).                    *)
Open ==
  /\ pc = "open"
  /\ pc' = IF dir \in gone THEN "undefined" ELSE "count"
  /\ UNCHANGED <<fs, cwd, place, dir, prev_dir, dir_num, max, arr, j, total,
                 out, seen>>

Finish ==
  /\ pc = "next" /\ dirs = <<>>
  /\ pc' = "done"
  /\ UNCHANGED <<fs, cwd, place, dir, prev_dir, dir_num, max, arr, j, total,
                 out, seen>>

(* The first pass.  The entries of a small directory are read by one       *)
(* system call, so a pass sees one state of it.                            *)
CountPass ==
  /\ pc = "count" /\ pc' = "store"
  /\ dir_num' = Cardinality(entries[dir])
  /\ max' = Max({max} \cup {Length[n] : n \in entries[dir]}) + 1
  /\ UNCHANGED <<fs, cwd, place, dir, prev_dir, arr, j, total, out, seen>>

(* The names no longer fit: too many, too long, or some were never stored. *)
Outgrown ==
  \/ Cardinality(entries[dir]) # dir_num
  \/ \E n \in entries[dir] : Length[n] >= max

(* The second pass, in whatever order, and the sort.                       *)
StorePass ==
  /\ pc = "store" /\ ~Outgrown
  /\ pc' = IF Long THEN "total" ELSE "print"
  /\ \E s \in SetToSeqs(entries[dir]) : arr' = SortHidden(s)
  /\ j' = 1 /\ seen' = entries[dir]
  /\ UNCHANGED <<fs, cwd, place, dir, prev_dir, dir_num, max, total, out>>

(* Otherwise it writes outside the array or sorts what was never written;  *)
(* nothing is said about what follows.                                     *)
StoreFails ==
  /\ pc = "store" /\ Outgrown
  /\ pc' = "undefined"
  /\ UNCHANGED <<fs, cwd, place, dir, prev_dir, dir_num, max, arr, j, total, out, seen>>

---------------------------------------------------------------------------
(* -l                                                                      *)

(* total_blockSize returns 0, and stays there, when the file is gone.      *)
TotalStep(n) ==
  IF n \notin entries[dir] THEN total' = 0 /\ cwd' = dir
  ELSE /\ total' = IF n \in Hidden /\ ~All THEN total ELSE total + Blocks[n]
       /\ cwd' = prev_dir

Total ==
  /\ pc = "total"
  /\ TotalStep(arr[j])
  /\ IF j < dir_num THEN j' = j + 1 /\ UNCHANGED pc
     ELSE j' = 1 /\ pc' = IF Flag("S") THEN "size" ELSE "print"
  /\ UNCHANGED <<fs, place, dir, prev_dir, dir_num, max, arr, out, seen>>

SizeOrder ==
  /\ pc = "size" /\ pc' = "print"
  /\ arr' = SortBySize(arr, entries[dir])
  /\ cwd' = prev_dir
  /\ UNCHANGED <<fs, place, dir, prev_dir, dir_num, max, j, total, out, seen>>

(* option_l prints no line when the file is gone or hidden, or when its    *)
(* owner or its group is not found by name.                                *)
OptionLPrints(n) == n \in entries[dir] /\ (n \in Hidden => All) /\ n \notin Nameless
OptionLStays(n) ==
  IF OptionLPrints(n) THEN out' = Append(out, n) /\ cwd' = prev_dir
  ELSE UNCHANGED out /\ cwd' = dir
(* option_l goes back to prev_dir whatever it finds.                       *)
OptionL(n) ==
  /\ out' = IF OptionLPrints(n) THEN Append(out, n) ELSE out
  /\ cwd' = prev_dir

(* The loop over the names, from the last one with -r.                     *)
Printed == arr[IF Flag("r") THEN dir_num + 1 - j ELSE j]
NextPrinted ==
  /\ IF j < dir_num THEN j' = j + 1 /\ UNCHANGED <<pc, listed>>
     ELSE j' = 1 /\ pc' = "next" /\ listed' = Append(listed, dir)
  /\ UNCHANGED <<fs, cmd, dirs, dir, prev_dir, dir_num, max, arr, total, seen>>

PrintLong == pc = "print" /\ Long /\ OptionL(Printed) /\ NextPrinted

(* Without -l nothing but the name is printed.                             *)
PrintName ==
  /\ pc = "print" /\ ~Long
  /\ out' = IF Printed \in Hidden /\ ~All THEN out ELSE Append(out, Printed)
  /\ NextPrinted /\ UNCHANGED cwd

Ls == \/ Start \/ Access \/ CannotAccess \/ Open \/ Finish \/ CountPass \/ StorePass
      \/ StoreFails \/ Total \/ SizeOrder \/ PrintLong \/ PrintName

(* Another process.  What it does to a directory before ls looks at it     *)
(* makes no difference to other initial contents.                          *)
Change ==
  /\ pc \in {"store", "total", "size", "print"} /\ changes < MAX_CHANGES
  /\ \E n \in Names \ Dots :
       entries' = [entries EXCEPT ![dir] = IF n \in @ THEN @ \ {n} ELSE @ \cup {n}]
  /\ disturbed' = TRUE /\ changes' = changes + 1
  /\ UNCHANGED <<gone, cwd, place, pc, dir, prev_dir, dir_num, max, arr, j, total, out, seen>>

(* An empty directory, after main has found that it is one.  The operand   *)
(* of a short command stays open from then on.                             *)
RemoveDir ==
  /\ changes < MAX_CHANGES /\ changes' = changes + 1
  /\ ~Short
  /\ \E d \in Dirs \ gone :
       /\ (pc = "next" /\ Contains(dirs, d)) \/ (pc = "open" /\ d = dir)
       /\ entries[d] = Dots
       /\ gone' = gone \cup {d}
  /\ UNCHANGED <<entries, disturbed, cwd, place, pc, dir, prev_dir, dir_num, max, arr,
                 j, total, out, seen>>

Next == Ls \/ Change \/ RemoveDir

Spec == Init /\ [][Next]_vars

---------------------------------------------------------------------------
(* Properties.                                                             *)

Visible == {n \in seen : (n \in Hidden => All) /\ (n \in Nameless => ~Long)}

(* Smaller keys first or, with -l and -S, larger files first.              *)
InOrder(x, y) ==
  IF Long /\ Flag("S") THEN \/ Size[x] > Size[y]
                            \/ Size[x] = Size[y] /\ Key[x] <= Key[y]
  ELSE Key[x] <= Key[y]

(* A listing names entries of the directory, none twice and none that the  *)
(* flags hide, and all of them in order, from the last one with -r, if     *)
(* nobody has changed the directory meanwhile - with -l all but those      *)
(* whose owner or group has no name.                                       *)
SortedListing ==
  pc = "next" /\ listed # <<>> =>
    /\ IsInjective(out)
    /\ ToSet(out) \subseteq Visible
    /\ ~disturbed =>
         /\ ToSet(out) = Visible
         /\ \A k, m \in DOMAIN out :
              k < m => IF Flag("r") THEN InOrder(out[m], out[k])
                       ELSE InOrder(out[k], out[m])

Times(d, s) == Cardinality({k \in DOMAIN s : s[k] = d})

(* ls is back where it was started, whatever happened to the files on the  *)
(* way, and has listed every directory it was asked for and could find, in *)
(* order.  The flags -r, -S and -h alone are not handled with operands.    *)
OperandsListed ==
  pc = "done" /\ Handled =>
    /\ cwd = Home
    /\ cmd.operands = <<>> /\ cmd.argc <= 2 => listed = <<Home>>
    /\ \A d \in ToSet(cmd.operands) \ gone : Times(d, listed) = Times(d, cmd.operands)
    /\ ~Short => \A k, m \in DOMAIN listed :
         k < m => IF Flag("r") THEN Key[listed[k]] >= Key[listed[m]]
                  ELSE Key[listed[k]] <= Key[listed[m]]
=============================================================================
