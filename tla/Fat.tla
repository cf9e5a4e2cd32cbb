-------------------------------- MODULE Fat --------------------------------
(***************************************************************************)
(* The FAT file system of Assignment5-2/fat.c.  The state is the global    *)
(* struct myfat: the FAT table, the directory and the data area.  Between  *)
(* two commands it lives in fs_state.dat; main() loads it, runs one        *)
(* command and saves it, so the commands of one user follow each other on  *)
(* the same state; commands that overlap or die half way are not modelled. *)
(*                                                                         *)
(* The search loops of the code (first slot with a name, first free block) *)
(* are single guards; the loops that walk or extend a chain are one action *)
(* per iteration, because whether they end is a question of its own.       *)
(***************************************************************************)
EXTENDS Integers, Sequences

CONSTANTS
  Names,          \* the file names given on the command line, without the empty one
  NoName,         \* the empty string: the name of an unused directory slot
  MAX_FILE_NUM,   \* number of directory slots (100 in the code)
  NUM_BLOCKS,     \* number of blocks (1024 in the code)
  BLOCK_SIZE,     \* bytes in a block (32 in the code)
  MAX_DATA        \* longest data argument of a write command

ASSUME FatAssumption ==
  /\ NoName \notin Names
  /\ MAX_FILE_NUM \in Nat
  /\ NUM_BLOCKS \in Nat \ {0} /\ NUM_BLOCKS <= 65535  \* 0xFFFF is the index of none
  /\ BLOCK_SIZE \in Nat \ {0}
  /\ MAX_DATA \in Nat

Slot == 0 .. MAX_FILE_NUM - 1
Blocks == 0 .. NUM_BLOCKS - 1

FREE == 0        \* "not used", also the index of the first block
EOF  == 65535    \* 0xFFFF: end of chain as create_file writes it
EOC  == -1       \* end of chain as write_file writes it

VARIABLES
  fat_table,   \* [Blocks -> FREE, EOF, EOC or the index of the next block]
  directory,   \* [Slot -> [filename, start_block, size]]
  data_area,   \* [Blocks -> the nonzero bytes at the front of the block]
  cmd,         \* the loop the running command is in, or "idle"
  slot,        \* its directory slot (i)
  block,       \* the block it has reached
  left,        \* bytes still to write (remaining_data) or read (total_size)
  ret,         \* what the last command returned: 0 or -1
  taint        \* history: which of the irregular events have happened

vars == <<fat_table, directory, data_area, cmd, slot, block, left, ret, taint>>
disk == <<fat_table, directory, data_area>>
loop == <<slot, block, left>>

(* A byte is represented by the name of the file that wrote it.            *)
Entry == [filename : Names \cup {NoName},
          start_block : Blocks \cup {EOC},
          size : Nat]

(* The irregular events: write_file links a block to block 0 (the link     *)
(* reads as FREE), overwrites a link that was already there, or links a    *)
(* block that still holds bytes of a deleted file (so does create_file),   *)
(* or a command other than create is given the empty name, which it finds  *)
(* in the first unused slot, and takes that slot for a file.               *)
Events == {"zero", "relink", "stale", "unnamed"}

TypeOK ==
  /\ fat_table \in [Blocks -> Blocks \cup {EOF, EOC}]
  /\ directory \in [Slot -> Entry]
  /\ data_area \in [Blocks -> Seq(Names \cup {NoName})]
  /\ \A b \in Blocks : Len(data_area[b]) <= BLOCK_SIZE
  /\ cmd \in {"idle", "write", "read", "delete"}
  /\ slot \in Int
  /\ cmd # "idle" => slot \in Slot
  /\ block \in Blocks \cup {EOF, EOC}
  /\ left \in Nat
  /\ ret \in {0, -1}
  /\ taint \subseteq Events

---------------------------------------------------------------------------

(* i is the first slot that holds the name n.                              *)
FirstSlot(i, n) ==
  /\ directory[i].filename = n
  /\ \A k \in Slot : k < i => directory[k].filename # n

Missing(n) == \A k \in Slot : directory[k].filename # n

(* b is the first free block.                                              *)
FirstFree(b) ==
  /\ fat_table[b] = FREE
  /\ \A c \in Blocks : c < b => fat_table[c] # FREE

DiskFull == \A b \in Blocks : fat_table[b] # FREE

Least(a, b) == IF a < b THEN a ELSE b

(* The history left behind when block b of a chain becomes block t.        *)
LinkEvents(b, t) ==
  (IF t = 0 THEN {"zero"} ELSE {}) \cup
  (IF fat_table[b] \in Blocks THEN {"relink"} ELSE {}) \cup
  (IF data_area[t] # <<>> THEN {"stale"} ELSE {})

Init ==
  /\ fat_table = [b \in Blocks |-> FREE]
  /\ directory = [i \in Slot |->
                    [filename |-> NoName, start_block |-> 0, size |-> 0]]
  /\ data_area = [b \in Blocks |-> <<>>]
  /\ cmd = "idle"
  /\ slot = 0
  /\ block = 0
  /\ left = 0
  /\ ret = 0
  /\ taint = {}

---------------------------------------------------------------------------

(* create_file: the first empty slot and the first free block.             *)
CreateFile(n) ==
  /\ cmd = "idle"
  /\ Missing(n)
  /\ \E i \in Slot, b \in Blocks :
       /\ FirstSlot(i, NoName)
       /\ FirstFree(b)
       /\ fat_table' = [fat_table EXCEPT ![b] = EOF]
       /\ directory' = [directory EXCEPT ![i] =
                          [filename |-> n, start_block |-> b, size |-> 0]]
       /\ taint' = taint \cup (IF data_area[b] # <<>> THEN {"stale"} ELSE {})
  /\ ret' = 0
  /\ UNCHANGED <<data_area, cmd, loop>>

(* create_file: the name is taken, or no slot or no block is left.         *)
CreateRefused(n) ==
  /\ cmd = "idle"
  /\ ~Missing(n) \/ Missing(NoName) \/ DiskFull
  /\ ret' = -1
  /\ UNCHANGED <<disk, cmd, loop, taint>>

(* write_file, read_file and delete_file do not find the name.             *)
NotFound(n) ==
  /\ cmd = "idle"
  /\ Missing(n)
  /\ ret' = -1
  /\ UNCHANGED <<disk, cmd, loop, taint>>

(* write_file and read_file refuse a slot that delete_file has cleared,    *)
(* which only the empty name finds.                                        *)
Uninitialized(n) ==
  /\ cmd = "idle"
  /\ \E i \in Slot : FirstSlot(i, n) /\ directory[i].start_block = EOC
  /\ ret' = -1
  /\ UNCHANGED <<disk, cmd, loop, taint>>

(* The three commands that find the name enter their loop at the start     *)
(* block of the file.                                                      *)
Enter(n, c, amount) ==
  /\ cmd = "idle"
  /\ \E i \in Slot :
       /\ FirstSlot(i, n)
       /\ c = "delete" \/ directory[i].start_block # EOC
       /\ slot' = i
       /\ block' = directory[i].start_block
       /\ left' = amount[i]
  /\ cmd' = c
  /\ ret' = 0
  /\ taint' = taint \cup (IF n = NoName THEN {"unnamed"} ELSE {})
  /\ UNCHANGED disk

(* The command returns: its local variables are gone.                      *)
Return ==
  /\ cmd' = "idle"
  /\ slot' = 0
  /\ block' = 0
  /\ left' = 0

StartWrite(n, len) == Enter(n, "write", [i \in Slot |-> len])
StartRead(n)       == Enter(n, "read", [i \in Slot |-> directory[i].size])
StartDelete(n)     == Enter(n, "delete", [i \in Slot |-> 0])

(* Seeded faults: a size that counts the whole request; a write that       *)
(* starts at the front of the block.                                       *)
FillBlockCountsAll ==
  /\ data_area' = [data_area EXCEPT ![block] =
         @ \o [k \in 1..Least(left, BLOCK_SIZE - Len(@)) |->
                 directory[slot].filename]]
  /\ directory' = [directory EXCEPT ![slot].size = @ + left]

FillBlockOverwrites ==
  LET k == Least(left, BLOCK_SIZE)
  IN /\ data_area' = [data_area EXCEPT ![block] =
            [q \in 1..k |-> directory[slot].filename]]
     /\ directory' = [directory EXCEPT ![slot].size = @ + k]

(* write_file: the bytes that fit go behind the last nonzero byte of the   *)
(* block and are added to the size.                                        *)
BytesToWrite == Least(left, BLOCK_SIZE - Len(data_area[block]))

FillBlock ==
  /\ data_area' = [data_area EXCEPT ![block] =
         @ \o [k \in 1..BytesToWrite |-> directory[slot].filename]]
  /\ directory' = [directory EXCEPT ![slot].size = @ + BytesToWrite]

(* Seeded fault: the new block is not marked as the end of the chain.      *)
WriteBlockUnmarked ==
  /\ cmd = "write"
  /\ left > BytesToWrite
  /\ FillBlock
  /\ \E t \in Blocks :
       /\ FirstFree(t)
       /\ fat_table' = [fat_table EXCEPT ![block] = t]
       /\ block' = t
       /\ taint' = taint \cup LinkEvents(block, t)
  /\ left' = left - BytesToWrite
  /\ UNCHANGED <<cmd, slot, ret>>

(* One iteration after which data remain: the next block is the first free *)
(* one, whatever the entry of the current block was.                       *)
WriteBlock ==
  /\ cmd = "write"
  /\ left > BytesToWrite
  /\ FillBlock
  /\ \E t \in Blocks :
       /\ FirstFree(t)
       /\ fat_table' = [fat_table EXCEPT ![block] = t, ![t] = EOC]
       /\ block' = t
       /\ taint' = taint \cup LinkEvents(block, t)
  /\ left' = left - BytesToWrite
  /\ UNCHANGED <<cmd, slot, ret>>

(* The same with no block free: the bytes written so far stay.             *)
WriteNoSpace ==
  /\ cmd = "write"
  /\ left > BytesToWrite
  /\ DiskFull
  /\ FillBlock
  /\ ret' = -1
  /\ Return
  /\ UNCHANGED <<fat_table, taint>>

(* The last iteration.                                                     *)
WriteLast ==
  /\ cmd = "write"
  /\ left <= BytesToWrite
  /\ FillBlock
  /\ Return
  /\ UNCHANGED <<fat_table, ret, taint>>

(* read_file: one block per iteration.  The loop tests the block against   *)
(* -1 only, so a block outside the data area stops the process.            *)
ReadBlock ==
  /\ cmd = "read"
  /\ block \in Blocks
  /\ left > 0
  /\ left' = left - Least(left, BLOCK_SIZE)
  /\ block' = fat_table[block]
  /\ UNCHANGED <<disk, cmd, slot, ret, taint>>

ReadDone ==
  /\ cmd = "read"
  /\ block = EOC \/ left = 0
  /\ Return
  /\ UNCHANGED <<disk, ret, taint>>

ReadFault ==
  /\ cmd = "read"
  /\ block = EOF
  /\ left > 0
  /\ ret' = -1
  /\ Return
  /\ UNCHANGED <<disk, taint>>

(* Seeded faults: the link is read after it was cleared; only the first    *)
(* block is freed.                                                         *)
DeleteBlockClearsFirst ==
  /\ cmd = "delete"
  /\ block \notin {EOC, EOF}
  /\ fat_table' = [fat_table EXCEPT ![block] = FREE]
  /\ block' = FREE
  /\ UNCHANGED <<directory, data_area, cmd, slot, left, ret, taint>>
DeleteBlockOnlyHead ==
  /\ cmd = "delete"
  /\ block \notin {EOC, EOF}
  /\ block' = EOC
  /\ fat_table' = [fat_table EXCEPT ![block] = FREE]
  /\ UNCHANGED <<directory, data_area, cmd, slot, left, ret, taint>>

(* delete_file: frees one block per iteration, then clears the slot.  The  *)
(* data area keeps its bytes.                                              *)
DeleteBlock ==
  /\ cmd = "delete"
  /\ block \notin {EOC, EOF}
  /\ block' = fat_table[block]
  /\ fat_table' = [fat_table EXCEPT ![block] = FREE]
  /\ UNCHANGED <<directory, data_area, cmd, slot, left, ret, taint>>

DeleteSlot ==
  /\ cmd = "delete"
  /\ block \in {EOC, EOF}
  /\ directory' = [directory EXCEPT ![slot] =
                     [filename |-> NoName, start_block |-> EOC, size |-> 0]]
  /\ Return
  /\ UNCHANGED <<fat_table, data_area, ret, taint>>

---------------------------------------------------------------------------

Step ==
  \/ WriteBlock \/ WriteNoSpace \/ WriteLast
  \/ ReadBlock \/ ReadDone \/ ReadFault
  \/ DeleteBlock \/ DeleteSlot

Command(n) ==
  \/ CreateFile(n)
  \/ CreateRefused(n)
  \/ NotFound(n)
  \/ Uninitialized(n)
  \/ \E len \in 0..MAX_DATA : StartWrite(n, len)
  \/ StartRead(n)
  \/ StartDelete(n)

Next == Step \/ \E n \in Names \cup {NoName} : Command(n)

Spec == Init /\ [][Next]_vars

(* A process that runs a command keeps running; nobody has to start one.   *)
FairSpec == Spec /\ WF_vars(Step)

---------------------------------------------------------------------------
(* Chains.                                                                 *)

Live == {i \in Slot : directory[i].filename # NoName}

(* Where the chain of slot i begins; delete_file eats it from the front.   *)
HeadOf(i) == IF cmd = "delete" /\ slot = i THEN block
                                         ELSE directory[i].start_block

(* b points to a next block in a way that FirstFree does not mistake.      *)
Linked(b) == fat_table[b] \in Blocks \ {FREE}

(* The k-th block read_file and delete_file reach from block b.            *)
Walk(table, b) ==
  LET w[k \in 0..NUM_BLOCKS] ==
        IF k = 0 THEN b
        ELSE IF w[k-1] \in Blocks THEN table[w[k-1]] ELSE w[k-1]
  IN w

Chain(i) == {Walk(fat_table, HeadOf(i))[k] : k \in 0..NUM_BLOCKS} \cap Blocks

HeadsAllocated ==
  \A i \in Live :
    IF HeadOf(i) \in Blocks THEN fat_table[HeadOf(i)] # FREE
                          ELSE cmd = "delete" /\ slot = i

LinksAllocated ==
  \A b \in Blocks : Linked(b) => fat_table[fat_table[b]] \notin {FREE, EOF}

LinksInjective ==
  \A b, c \in Blocks :
    Linked(b) /\ Linked(c) /\ fat_table[b] = fat_table[c] => b = c

HeadsUnlinked ==
  \A i \in Live, b \in Blocks : Linked(b) => fat_table[b] # HeadOf(i)

HeadsDistinct ==
  \A i, k \in Live :
    HeadOf(i) \in Blocks /\ HeadOf(i) = HeadOf(k) => i = k

(* A file that consists of one block as create_file made it fits into it.  *)
SizeOfSingle ==
  \A i \in Live :
    LET s == directory[i].start_block
    IN s \in Blocks /\ fat_table[s] = EOF
         => directory[i].size <= Len(data_area[s])

(* A file has a first block, and a command runs on a file that exists.     *)
LiveInv ==
  /\ \A i \in Live : directory[i].start_block \in Blocks
  /\ cmd # "idle" => slot \in Live
  /\ cmd = "write" => block \in Blocks

(* Where the running command is.                                           *)
LoopInv ==
  /\ cmd = "write" =>
       /\ fat_table[block] # FREE
       /\ fat_table[directory[slot].start_block] = EOF
            => block = directory[slot].start_block
  /\ cmd = "read" =>
       /\ block \in Blocks => fat_table[block] # FREE
       /\ block \in Blocks /\ fat_table[block] = EOF => left <= BLOCK_SIZE
       /\ block = EOF => left = 0

(* The FAT is a forest of disjoint chains, one per directory entry, and a  *)
(* command in progress stands on an allocated block of its own file: what  *)
(* lines 105-145, 173-188 and 208-214 rely on when they follow fat_table.  *)
(* It holds as long as no block was linked to block 0 and no command took  *)
(* an unused slot for a file.                                              *)
ChainInv ==
  /\ HeadsAllocated
  /\ LinksAllocated
  /\ LinksInjective
  /\ HeadsUnlinked
  /\ HeadsDistinct
  /\ SizeOfSingle
  /\ LoopInv

ChainIntegrity ==
  "unnamed" \notin taint => LiveInv /\ ("zero" \notin taint => ChainInv)

(* The read loop (lines 173-188) tests its block against -1 only, and      *)
(* create_file ends a chain with 0xFFFF (line 75): a read still never      *)
(* indexes data_area with 0xFFFF, because a chain that ends in 0xFFFF is   *)
(* one block long and its size fits in it.                                 *)
ReadInBounds ==
  taint \cap {"zero", "unnamed"} = {} /\ cmd = "read" /\ left > 0 => block # EOF

(* Every allocated block belongs to a file: delete_file gives back all of  *)
(* a chain, and a failed write (lines 133-136) loses none.  It holds until *)
(* write_file replaces a link (line 139) or an unused slot is a file.      *)
NoLostBlocks ==
  taint \cap {"zero", "relink", "unnamed"} = {} =>
    \A b \in Blocks :
      fat_table[b] # FREE => \E i \in Live : b \in Chain(i)

(* Every command ends once it is started, under the fairness of a running  *)
(* process: the loops at 105, 173 and 208 never go in circles, not even    *)
(* after a block was linked to block 0 and chains run into each other.     *)
(* They do once a command was given the empty name: the delete of an       *)
(* unused slot walks from block 0, and where that is free it clears its    *)
(* entry for ever.                                                         *)
CommandTerminates == cmd # "idle" /\ "unnamed" \notin taint ~> cmd = "idle"

---------------------------------------------------------------------------
(* What a reader sees, and the store it implements.                        *)

(* Byte p of block b; behind the written ones there are zero bytes, and    *)
(* nothing outside the data area.                                          *)
Byte(b, p) ==
  IF b \in Blocks /\ p <= Len(data_area[b]) THEN data_area[b][p] ELSE NoName

(* The bytes read_file prints for the file in slot i.                      *)
Content(i) ==
  LET w == Walk(fat_table, directory[i].start_block)
  IN [p \in 1..directory[i].size |->
        IF (p - 1) \div BLOCK_SIZE <= NUM_BLOCKS
          THEN Byte(w[(p - 1) \div BLOCK_SIZE], 1 + ((p - 1) % BLOCK_SIZE))
          ELSE NoName]

(* A file under deletion is gone from the start.                           *)
Visible == {i \in Live : ~(cmd = "delete" /\ slot = i)}

FilesView ==
  [n \in {directory[i].filename : i \in Visible} |->
     Content(CHOOSE i \in Visible : directory[i].filename = n)]

Store == INSTANCE FileStore WITH files <- FilesView, MAX_GROW <- BLOCK_SIZE

(* The file system is a store of named files: every step of every command  *)
(* is, for a reader, one step of FileStore or none, until the first        *)
(* irregular event (a link to block 0, a replaced link, a block with bytes *)
(* of a deleted file in it, an unused slot taken for a file).              *)
ImplementsStore ==
  Store!Init /\ [][taint' = {} => Store!Next]_FilesView

---------------------------------------------------------------------------
(* What the documentation and the comments say, and the code does not do.  *)

(* Comment at line 127: an entry of 0 means that the block is not used -   *)
(* already when every command was given a name.                            *)
FreeMeansNotUsed ==
  cmd = "idle" /\ "unnamed" \notin taint =>
    \A i \in Live : \A b \in Chain(i) : fat_table[b] # FREE
=============================================================================
