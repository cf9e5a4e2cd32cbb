---------------------------- MODULE StorageProofs ----------------------------
(***************************************************************************)
(* What is kept where: the blocks of a disk and the frames of a memory.    *)
(*                                                                         *)
(* Fat, for every number of slots, blocks and names and every block size:  *)
(* the type invariant, the integrity of the chains, the bounds of the read *)
(* loop, that no block is lost, and that the commands implement FileStore. *)
(*                                                                         *)
(* PageReplacement, for every number of frames and every string of         *)
(* references: every policy keeps the pages its name promises.  The pages  *)
(* in the frames are the last ones used (LRU) or loaded (FIFO), because    *)
(* each replacement takes out the page that is behind all others in that   *)
(* order.  And the optimal policy is: Belady's exchange argument, over the *)
(* fewest faults that are left with given pages in the frames.             *)
(***************************************************************************)
EXTENDS Fat, PageReplacement, FiniteSetTheorems, SequenceTheorems, TLAPS

---------------------------------------------------------------------------
(* The disk.                                                               *)

(* Facts about the constants that the provers need as they stand.          *)
LEMMA Constants ==
  /\ NoName \notin Names
  /\ MAX_FILE_NUM \in Nat
  /\ NUM_BLOCKS \in Nat
  /\ NUM_BLOCKS > 0
  /\ NUM_BLOCKS <= 65535
  /\ BLOCK_SIZE \in Nat
  /\ BLOCK_SIZE > 0
  /\ MAX_DATA \in Nat
  /\ FREE \in Blocks
  /\ EOF \notin Blocks
  /\ EOC \notin Blocks
  /\ EOF # EOC
  /\ Blocks \subseteq Nat
<1>1. /\ NUM_BLOCKS \in Nat /\ NUM_BLOCKS > 0 /\ NUM_BLOCKS <= 65535
      /\ BLOCK_SIZE \in Nat /\ BLOCK_SIZE > 0
  BY FatAssumption
<1>2. FREE \in Blocks /\ EOF \notin Blocks /\ EOC \notin Blocks /\ EOF # EOC
  BY <1>1 DEF Blocks, FREE, EOF, EOC
<1>3. Blocks \subseteq Nat  BY DEF Blocks
<1> QED  BY <1>1, <1>2, <1>3, FatAssumption

(***************************************************************************)
(* Until a command takes an unused slot for a file, the empty name has no  *)
(* effect: whatever gets it is refused.  So the lemmas up to the theorems  *)
(* are about commands that have a name, or do nothing but refuse.          *)
(***************************************************************************)

NamedTypes ==
  /\ fat_table \in [Blocks -> Blocks \cup {EOF, EOC}]
  /\ directory \in [Slot -> Entry]
  /\ data_area \in [Blocks -> Seq(Names)]
  /\ \A b \in Blocks : Len(data_area[b]) <= BLOCK_SIZE
  /\ cmd \in {"idle", "write", "read", "delete"}
  /\ slot \in Int
  /\ cmd # "idle" => slot \in Slot
  /\ block \in Blocks \cup {EOF, EOC}
  /\ left \in Nat
  /\ ret \in {0, -1}
  /\ taint \subseteq Events
NamedIntegrity == LiveInv /\ ("zero" \notin taint => ChainInv)
NamedBlocks ==
  taint \cap {"zero", "relink"} = {} =>
    \A b \in Blocks :
      fat_table[b] # FREE => \E i \in Live : b \in Chain(i)

Refused == cmd = "idle" /\ ret' = -1 /\ UNCHANGED <<disk, cmd, loop, taint>>
NamedCommand(n) ==
  \/ CreateFile(n)
  \/ \E len \in 0..MAX_DATA : StartWrite(n, len)
  \/ StartRead(n)
  \/ StartDelete(n)
NamedNext == Step \/ Refused \/ \E n \in Names : NamedCommand(n)

LEMMA LeastFacts ==
  ASSUME NEW a \in Nat, NEW b \in Nat
  PROVE  Least(a, b) \in Nat /\ Least(a, b) <= a /\ Least(a, b) <= b
BY DEF Least

(* FillBlock keeps the types, adds only bytes that fit and only to block   *)
(* and slot.                                                               *)
LEMMA FillBlockTypes ==
  ASSUME NEW Bytes, data_area \in [Blocks -> Seq(Bytes)], directory \in [Slot -> Entry],
         \A b \in Blocks : Len(data_area[b]) <= BLOCK_SIZE, slot \in Slot, left \in Nat,
         block \in Blocks, directory[slot].filename \in Bytes, FillBlock
  PROVE  /\ directory' \in [Slot -> Entry]
         /\ data_area' \in [Blocks -> Seq(Bytes)]
         /\ \A b \in Blocks : Len(data_area'[b]) <= BLOCK_SIZE
         /\ BytesToWrite \in Nat
         /\ BytesToWrite <= left
         /\ \A b \in Blocks :
              Len(data_area'[b]) =
                IF b = block THEN Len(data_area[b]) + BytesToWrite
                             ELSE Len(data_area[b])
         /\ \A i \in Slot :
              /\ directory'[i].filename = directory[i].filename
              /\ directory'[i].start_block = directory[i].start_block
              /\ directory'[i].size =
                   IF i = slot THEN directory[i].size + BytesToWrite
                               ELSE directory[i].size
<1> DEFINE room == BLOCK_SIZE - Len(data_area[block])
           new == [k \in 1..BytesToWrite |-> directory[slot].filename]
<1>1. /\ slot \in Slot
      /\ left \in Nat
      /\ data_area[block] \in Seq(Bytes)
      /\ Len(data_area[block]) \in Nat
  OBVIOUS
<1>2. room \in Nat
  <2>1. Len(data_area[block]) <= BLOCK_SIZE
    OBVIOUS
  <2> QED BY <2>1, <1>1, Constants
<1>3. BytesToWrite = Least(left, room)
  BY DEF BytesToWrite
<1>4. /\ BytesToWrite \in Nat
      /\ BytesToWrite <= left
      /\ Len(data_area[block]) + BytesToWrite <= BLOCK_SIZE
  <2>1. BytesToWrite \in Nat /\ BytesToWrite <= left /\ BytesToWrite <= room
    BY <1>1, <1>2, <1>3, LeastFacts
  <2> QED BY <2>1, <1>1, Constants
<1> HIDE DEF room
<1>5. new \in Seq(Bytes) /\ Len(new) = BytesToWrite
  <2>1. new \in [1..BytesToWrite -> Bytes]
    OBVIOUS
  <2> HIDE DEF new
  <2>2. DOMAIN new = 1..BytesToWrite
    BY <2>1
  <2>3. new \in Seq(Bytes)
    BY <2>1, <1>4
  <2> QED BY <2>2, <2>3, <1>4
<1>6. /\ data_area[block] \o new \in Seq(Bytes)
      /\ Len(data_area[block] \o new) = Len(data_area[block]) + BytesToWrite
  <2> HIDE DEF new
  <2>1. PICK old : old = data_area[block]
    OBVIOUS
  <2>2. old \o new \in Seq(Bytes) /\ Len(old \o new) = Len(old) + Len(new)
    BY <1>1, <1>5, <2>1, ConcatProperties
  <2> QED BY <1>5, <2>1, <2>2
<1>7. data_area' = [data_area EXCEPT ![block] = data_area[block] \o new]
  BY DEF FillBlock
<1> HIDE DEF new
<1>8. /\ data_area' \in [Blocks -> Seq(Bytes)]
      /\ \A b \in Blocks :
           Len(data_area'[b]) =
             IF b = block THEN Len(data_area[b]) + BytesToWrite
                          ELSE Len(data_area[b])
  BY <1>6, <1>7
<1>9. \A b \in Blocks : Len(data_area'[b]) <= BLOCK_SIZE
  BY <1>4, <1>8
<1>10. /\ directory' \in [Slot -> Entry]
       /\ \A i \in Slot :
            /\ directory'[i].filename = directory[i].filename
            /\ directory'[i].start_block = directory[i].start_block
            /\ directory'[i].size = IF i = slot
                                      THEN directory[i].size + BytesToWrite
                                      ELSE directory[i].size
  <2> DEFINE e == [directory[slot] EXCEPT !.size = @ + BytesToWrite]
  <2>1. directory \in [Slot -> Entry]
    OBVIOUS
  <2>2. directory[slot] \in Entry
    BY <2>1, <1>1
  <2>3. directory[slot].size + BytesToWrite \in Nat
    BY <2>2, <1>4 DEF Entry
  <2>4. /\ e \in Entry
        /\ e.filename = directory[slot].filename
        /\ e.start_block = directory[slot].start_block
        /\ e.size = directory[slot].size + BytesToWrite
    BY <2>2, <2>3 DEF Entry
  <2>5. directory' = [directory EXCEPT ![slot] = e]
    BY DEF FillBlock
  <2> HIDE DEF e
  <2>6. /\ directory' \in [Slot -> Entry]
        /\ \A i \in Slot : directory'[i] = IF i = slot THEN e ELSE directory[i]
    BY <2>1, <2>4, <2>5, <1>1
  <2> QED BY <2>4, <2>6
<1> QED BY <1>4, <1>8, <1>9, <1>10

(***************************************************************************)
(* Types.  That a write appends bytes to a block at all needs the facts of *)
(* LiveInv, so the two are one invariant.                                  *)
(***************************************************************************)

LEMMA EnterTypes ==
  ASSUME NEW n \in Names, NEW c \in {"write", "read", "delete"},
         NEW amount \in [Slot -> Nat], NamedTypes, LiveInv, Enter(n, c, amount)
  PROVE  NamedTypes' /\ LiveInv'
<1>1. PICK i \in Slot : /\ FirstSlot(i, n)
                        /\ slot' = i
                        /\ block' = directory[i].start_block
                        /\ left' = amount[i]
  BY DEF Enter
<1>2. i \in Live
  BY <1>1, Constants DEF FirstSlot, Live
<1>3. directory[i].start_block \in Blocks
  BY <1>2 DEF LiveInv
<1>4. cmd' = c /\ ret' = 0 /\ UNCHANGED <<disk, taint>>
  BY Constants DEF Enter
<1>5. slot' \in Int
  BY <1>1, Constants DEF Slot
<1>6. NamedTypes'
  BY <1>1, <1>3, <1>4, <1>5 DEF NamedTypes, disk
<1>7. Live' = Live
  BY <1>4 DEF Live, disk
<1>8. LiveInv'
  BY <1>1, <1>2, <1>3, <1>4, <1>7 DEF LiveInv, disk
<1> QED BY <1>6, <1>8

(* A command that returns leaves idle locals.                              *)
LEMMA ReturnTypes ==
  ASSUME Return
  PROVE  cmd' = "idle" /\ slot' \in Int /\ block' \in Blocks /\ left' \in Nat
BY Constants DEF Return, FREE

LEMMA TypeStep ==
  ASSUME NamedTypes, LiveInv, [NamedNext]_vars
  PROVE  NamedTypes' /\ LiveInv'
<1>1. ASSUME NEW n \in Names, CreateFile(n)
      PROVE  NamedTypes' /\ LiveInv'
  <2>1. PICK i \in Slot, b \in Blocks :
          /\ fat_table' = [fat_table EXCEPT ![b] = EOF]
          /\ directory' = [directory EXCEPT ![i] =
                [filename |-> n, start_block |-> b, size |-> 0]]
          /\ taint' = taint \cup (IF data_area[b] # <<>> THEN {"stale"} ELSE {})
    BY <1>1 DEF CreateFile
  <2>2. cmd = "idle" /\ ret' = 0 /\ UNCHANGED <<data_area, cmd, slot, block, left>>
    BY <1>1 DEF CreateFile, loop
  <2>3. [filename |-> n, start_block |-> b, size |-> 0] \in Entry
    BY <2>1 DEF Entry
  <2>4. directory' \in [Slot -> Entry]
    BY <2>1, <2>3 DEF NamedTypes
  <2>5. NamedTypes'
    BY <2>1, <2>2, <2>4 DEF NamedTypes, Events
  <2>6. \A k \in Live' : directory'[k].start_block \in Blocks
    BY <2>1 DEF LiveInv, Live, NamedTypes
  <2> QED BY <2>2, <2>5, <2>6 DEF LiveInv
<1>2. ASSUME Refused
      PROVE  NamedTypes' /\ LiveInv'
  BY <1>2 DEF Refused, NamedTypes, LiveInv, Live, disk, loop
<1>3. ASSUME NEW n \in Names, NEW len \in 0..MAX_DATA, StartWrite(n, len)
      PROVE  NamedTypes' /\ LiveInv'
  <2>1. [i \in Slot |-> len] \in [Slot -> Nat]
    BY Constants
  <2> QED BY <2>1, <1>3, EnterTypes DEF StartWrite
<1>4. ASSUME NEW n \in Names, StartRead(n)
      PROVE  NamedTypes' /\ LiveInv'
  <2>1. [i \in Slot |-> directory[i].size] \in [Slot -> Nat]
    BY DEF NamedTypes, Entry
  <2> QED BY <2>1, <1>4, EnterTypes DEF StartRead
<1>5. ASSUME NEW n \in Names, StartDelete(n)
      PROVE  NamedTypes' /\ LiveInv'
  <2>1. [i \in Slot |-> 0] \in [Slot -> Nat]
    OBVIOUS
  <2> QED BY <2>1, <1>5, EnterTypes DEF StartDelete
<1>6. ASSUME cmd = "write", FillBlock
      PROVE  /\ directory' \in [Slot -> Entry]
             /\ data_area' \in [Blocks -> Seq(Names)]
             /\ \A b \in Blocks : Len(data_area'[b]) <= BLOCK_SIZE
             /\ BytesToWrite \in Nat
             /\ BytesToWrite <= left
             /\ Live' = Live
             /\ \A i \in Live : directory'[i].start_block \in Blocks
  <2>1. block \in Blocks /\ slot \in Live
    BY <1>6 DEF LiveInv
  <2>2. directory[slot].filename \in Names
    BY <2>1 DEF Live, NamedTypes, Entry
  <2>3. \A i \in Slot : /\ directory'[i].filename = directory[i].filename
                        /\ directory'[i].start_block = directory[i].start_block
    BY <1>6, <2>1, <2>2, FillBlockTypes DEF NamedTypes
  <2>4. Live' = Live /\ \A i \in Live : directory'[i].start_block \in Blocks
    BY <2>3 DEF Live, LiveInv
  <2> QED BY <1>6, <2>1, <2>2, <2>4, FillBlockTypes DEF NamedTypes
<1>7. CASE WriteBlock
  <2>1. cmd = "write" /\ FillBlock /\ left' = left - BytesToWrite
        /\ UNCHANGED <<cmd, slot, ret>>
    BY <1>7 DEF WriteBlock
  <2>2. PICK t \in Blocks :
          /\ fat_table' = [fat_table EXCEPT ![block] = t, ![t] = EOC]
          /\ block' = t
          /\ taint' = taint \cup LinkEvents(block, t)
    BY <1>7 DEF WriteBlock
  <2>3. left' \in Nat
    BY <1>6, <2>1 DEF NamedTypes
  <2>4. NamedTypes'
    BY <1>6, <2>1, <2>2, <2>3 DEF NamedTypes, LinkEvents, Events
  <2>5. LiveInv'
    BY <1>6, <2>1, <2>2 DEF LiveInv
  <2> QED BY <2>4, <2>5
<1>8. CASE WriteNoSpace
  <2>1. cmd = "write" /\ FillBlock /\ ret' = -1 /\ Return
        /\ UNCHANGED <<fat_table, taint>>
    BY <1>8 DEF WriteNoSpace
  <2> QED BY <1>6, <2>1, ReturnTypes DEF NamedTypes, LiveInv
<1>9. CASE WriteLast
  <2>1. cmd = "write" /\ FillBlock /\ Return
        /\ UNCHANGED <<fat_table, ret, taint>>
    BY <1>9 DEF WriteLast
  <2> QED BY <1>6, <2>1, ReturnTypes DEF NamedTypes, LiveInv
<1>10. CASE ReadBlock
  <2>1. Least(left, BLOCK_SIZE) \in Nat /\ Least(left, BLOCK_SIZE) <= left
    <3>1. left \in Nat /\ BLOCK_SIZE \in Nat
      BY Constants DEF NamedTypes
    <3> QED BY <3>1, LeastFacts
  <2>2. left' \in Nat
    BY <1>10, <2>1 DEF ReadBlock, NamedTypes
  <2>3. /\ block' \in Blocks \cup {EOF, EOC}
        /\ cmd = "read"
        /\ UNCHANGED <<fat_table, directory, data_area, cmd, slot, ret, taint>>
    BY <1>10 DEF ReadBlock, NamedTypes, disk
  <2>4. NamedTypes'
    BY <2>2, <2>3 DEF NamedTypes
  <2>5. LiveInv'
    BY <2>3 DEF LiveInv, Live
  <2> QED BY <2>4, <2>5
<1>11. CASE ReadDone \/ ReadFault
  <2>1. Return /\ UNCHANGED <<disk, taint>> /\ ret' \in {ret, -1}
    BY <1>11 DEF ReadDone, ReadFault
  <2>2. NamedTypes'
    BY <2>1, ReturnTypes DEF NamedTypes, disk
  <2>3. LiveInv'
    BY <2>1, ReturnTypes DEF LiveInv, Live, disk
  <2> QED BY <2>2, <2>3
<1>12. CASE DeleteBlock
  <2>1. block \in Blocks
    BY <1>12 DEF DeleteBlock, NamedTypes
  <2>2. NamedTypes'
    BY <1>12, <2>1, Constants DEF DeleteBlock, NamedTypes
  <2>3. LiveInv'
    BY <1>12 DEF DeleteBlock, LiveInv, Live
  <2> QED BY <2>2, <2>3
<1>13. CASE DeleteSlot
  <2>1. /\ cmd = "delete"
        /\ directory' = [directory EXCEPT ![slot] =
              [filename |-> NoName, start_block |-> EOC, size |-> 0]]
        /\ Return
        /\ UNCHANGED <<fat_table, data_area, ret, taint>>
    BY <1>13 DEF DeleteSlot
  <2>2. [filename |-> NoName, start_block |-> EOC, size |-> 0] \in Entry
    BY DEF Entry
  <2>3. directory' \in [Slot -> Entry]
    BY <2>1, <2>2 DEF NamedTypes
  <2>4. NamedTypes'
    BY <2>1, <2>3, ReturnTypes DEF NamedTypes
  <2>5. \A k \in Live' : directory'[k].start_block \in Blocks
    BY <2>1 DEF LiveInv, Live, NamedTypes
  <2> QED BY <2>1, <2>4, <2>5, ReturnTypes DEF LiveInv
<1>14. CASE UNCHANGED vars
  BY <1>14 DEF vars, NamedTypes, LiveInv, Live
<1> QED
  BY <1>1, <1>2, <1>3, <1>4, <1>5, <1>7, <1>8, <1>9, <1>10, <1>11, <1>12,
     <1>13, <1>14 DEF NamedNext, NamedCommand, Step

LEMMA TypeInit ==
  ASSUME Init
  PROVE  NamedTypes /\ LiveInv
<1>1. Live = {}
  BY DEF Init, Live
<1>2. directory \in [Slot -> Entry]
  BY Constants DEF Init, Entry, FREE
<1>3. NamedTypes
  BY <1>2, Constants DEF Init, NamedTypes, FREE
<1> QED BY <1>1, <1>3 DEF LiveInv, Init

(* The types of every command, with a name or without.                     *)
WriteInv == cmd = "write" => block \in Blocks

LEMMA AnyEnterTypes ==
  ASSUME NEW n \in Names \cup {NoName}, NEW c \in {"write", "read", "delete"},
         NEW amount \in [Slot -> Nat], TypeOK, Enter(n, c, amount)
  PROVE  TypeOK' /\ WriteInv'
<1>1. PICK i \in Slot : /\ c = "delete" \/ directory[i].start_block # EOC
                        /\ slot' = i
                        /\ block' = directory[i].start_block
                        /\ left' = amount[i]
  BY DEF Enter
<1>2. directory[i].start_block \in Blocks \cup {EOC}
  BY DEF TypeOK, Entry
<1>3. cmd' = c /\ ret' = 0 /\ UNCHANGED disk
  BY DEF Enter
<1>4. taint' \subseteq Events
  BY DEF Enter, TypeOK, Events
<1>5. slot' \in Int
  BY <1>1, Constants DEF Slot
<1>6. left' \in Nat
  BY <1>1
<1>7. TypeOK'
  BY <1>1, <1>2, <1>3, <1>4, <1>5, <1>6 DEF TypeOK, disk
<1>8. WriteInv'
  BY <1>1, <1>2, <1>3 DEF WriteInv
<1> QED BY <1>7, <1>8

LEMMA AnyTypeStep ==
  ASSUME TypeOK, WriteInv, [Next]_vars
  PROVE  TypeOK' /\ WriteInv'
<1> DEFINE AnyName == Names \cup {NoName}
<1>1. ASSUME NEW n \in AnyName, CreateFile(n)
      PROVE  TypeOK' /\ WriteInv'
  <2>1. PICK i \in Slot, b \in Blocks :
          /\ fat_table' = [fat_table EXCEPT ![b] = EOF]
          /\ directory' = [directory EXCEPT ![i] =
                [filename |-> n, start_block |-> b, size |-> 0]]
          /\ taint' = taint \cup (IF data_area[b] # <<>> THEN {"stale"} ELSE {})
    BY <1>1 DEF CreateFile
  <2>2. cmd = "idle" /\ ret' = 0 /\ UNCHANGED <<data_area, cmd, slot, block, left>>
    BY <1>1 DEF CreateFile, loop
  <2>3. [filename |-> n, start_block |-> b, size |-> 0] \in Entry
    BY <2>1 DEF Entry
  <2>4. directory' \in [Slot -> Entry]
    BY <2>1, <2>3 DEF TypeOK
  <2>5. TypeOK'
    BY <2>1, <2>2, <2>4 DEF TypeOK, Events
  <2> QED BY <2>2, <2>5 DEF WriteInv
<1>2. ASSUME NEW n \in AnyName, CreateRefused(n) \/ NotFound(n) \/ Uninitialized(n)
      PROVE  TypeOK' /\ WriteInv'
  BY <1>2 DEF CreateRefused, NotFound, Uninitialized, TypeOK, WriteInv, disk, loop
<1>3. ASSUME NEW n \in AnyName, NEW len \in 0..MAX_DATA, StartWrite(n, len)
      PROVE  TypeOK' /\ WriteInv'
  <2>1. [i \in Slot |-> len] \in [Slot -> Nat]
    BY Constants
  <2> QED BY <2>1, <1>3, AnyEnterTypes DEF StartWrite
<1>4. ASSUME NEW n \in AnyName, StartRead(n)
      PROVE  TypeOK' /\ WriteInv'
  <2>1. [i \in Slot |-> directory[i].size] \in [Slot -> Nat]
    BY DEF TypeOK, Entry
  <2> QED BY <2>1, <1>4, AnyEnterTypes DEF StartRead
<1>5. ASSUME NEW n \in AnyName, StartDelete(n)
      PROVE  TypeOK' /\ WriteInv'
  <2>1. [i \in Slot |-> 0] \in [Slot -> Nat]
    OBVIOUS
  <2> QED BY <2>1, <1>5, AnyEnterTypes DEF StartDelete
<1>6. ASSUME cmd = "write", FillBlock
      PROVE  /\ directory' \in [Slot -> Entry]
             /\ data_area' \in [Blocks -> Seq(AnyName)]
             /\ \A b \in Blocks : Len(data_area'[b]) <= BLOCK_SIZE
             /\ BytesToWrite \in Nat
             /\ BytesToWrite <= left
  <2>1. block \in Blocks /\ slot \in Slot /\ left \in Nat
    BY <1>6 DEF WriteInv, TypeOK
  <2>2. directory[slot].filename \in AnyName
    BY <2>1 DEF TypeOK, Entry
  <2> QED BY <1>6, <2>1, <2>2, FillBlockTypes DEF TypeOK
<1>7. CASE WriteBlock
  <2>1. cmd = "write" /\ FillBlock /\ left' = left - BytesToWrite
        /\ UNCHANGED <<cmd, slot, ret>>
    BY <1>7 DEF WriteBlock
  <2>2. PICK t \in Blocks :
          /\ fat_table' = [fat_table EXCEPT ![block] = t, ![t] = EOC]
          /\ block' = t
          /\ taint' = taint \cup LinkEvents(block, t)
    BY <1>7 DEF WriteBlock
  <2>3. left' \in Nat
    BY <1>6, <2>1 DEF TypeOK
  <2>4. TypeOK'
    BY <1>6, <2>1, <2>2, <2>3 DEF TypeOK, LinkEvents, Events
  <2> QED BY <2>2, <2>4 DEF WriteInv
<1>8. CASE WriteNoSpace \/ WriteLast
  <2>1. cmd = "write" /\ FillBlock /\ Return /\ ret' \in {ret, -1}
        /\ UNCHANGED <<fat_table, taint>>
    BY <1>8 DEF WriteNoSpace, WriteLast
  <2> QED BY <1>6, <2>1, ReturnTypes DEF TypeOK, WriteInv
<1>9. CASE ReadBlock
  <2>1. left \in Nat /\ BLOCK_SIZE \in Nat
    BY Constants DEF TypeOK
  <2>2. Least(left, BLOCK_SIZE) \in Nat /\ Least(left, BLOCK_SIZE) <= left
    BY <2>1, LeastFacts
  <2>3. left' \in Nat
    BY <1>9, <2>1, <2>2 DEF ReadBlock
  <2>4. /\ block' \in Blocks \cup {EOF, EOC}
        /\ cmd = "read"
        /\ UNCHANGED <<fat_table, directory, data_area, cmd, slot, ret, taint>>
    BY <1>9 DEF ReadBlock, TypeOK, disk
  <2> QED BY <2>3, <2>4 DEF TypeOK, WriteInv
<1>10. CASE ReadDone \/ ReadFault
  <2>1. Return /\ UNCHANGED <<disk, taint>> /\ ret' \in {ret, -1}
    BY <1>10 DEF ReadDone, ReadFault
  <2> QED BY <2>1, ReturnTypes DEF TypeOK, WriteInv, disk
<1>11. CASE DeleteBlock
  <2>1. block \in Blocks
    BY <1>11 DEF DeleteBlock, TypeOK
  <2> QED BY <1>11, <2>1, Constants DEF DeleteBlock, TypeOK, WriteInv
<1>12. CASE DeleteSlot
  <2>1. /\ cmd = "delete"
        /\ directory' = [directory EXCEPT ![slot] =
              [filename |-> NoName, start_block |-> EOC, size |-> 0]]
        /\ Return
        /\ UNCHANGED <<fat_table, data_area, ret, taint>>
    BY <1>12 DEF DeleteSlot
  <2>2. [filename |-> NoName, start_block |-> EOC, size |-> 0] \in Entry
    BY DEF Entry
  <2>3. directory' \in [Slot -> Entry]
    BY <2>1, <2>2 DEF TypeOK
  <2> QED BY <2>1, <2>3, ReturnTypes DEF TypeOK, WriteInv
<1>13. CASE UNCHANGED vars
  BY <1>13 DEF vars, TypeOK, WriteInv
<1> QED
  BY <1>1, <1>2, <1>3, <1>4, <1>5, <1>7, <1>8, <1>9, <1>10, <1>11, <1>12, <1>13
     DEF Next, Step, Command

(* The file system keeps its types: table entries name blocks or end       *)
(* chains, no block holds more than BLOCK_SIZE bytes - also when commands  *)
(* are given the empty name.                                               *)
THEOREM TypeCorrect == Spec => []TypeOK
<1>1. Init => TypeOK /\ WriteInv
  BY Constants DEF Init, TypeOK, WriteInv, Entry, FREE
<1>2. TypeOK /\ WriteInv /\ [Next]_vars => (TypeOK /\ WriteInv)'
  BY AnyTypeStep
<1> QED BY <1>1, <1>2, PTL DEF Spec

(* A step after which no unused slot was taken for a file.                 *)
LEMMA Named ==
  ASSUME [Next]_vars, "unnamed" \notin taint'
  PROVE  "unnamed" \notin taint /\ [NamedNext]_vars
<1>1. ASSUME NEW n \in Names \cup {NoName}, Command(n)
      PROVE  "unnamed" \notin taint /\ (Refused \/ (n \in Names /\ NamedCommand(n)))
  <2>1. CASE CreateRefused(n) \/ NotFound(n) \/ Uninitialized(n)
    BY <2>1 DEF CreateRefused, NotFound, Uninitialized, Refused
  <2>2. CASE CreateFile(n)
    <3>1. n # NoName
      BY <2>2 DEF CreateFile, Missing, FirstSlot
    <3> QED BY <2>2, <3>1 DEF CreateFile, NamedCommand
  <2>3. ASSUME NEW c, NEW amount, Enter(n, c, amount)
        PROVE  n # NoName /\ "unnamed" \notin taint
    BY <2>3 DEF Enter
  <2>4. CASE (\E len \in 0..MAX_DATA : StartWrite(n, len)) \/ StartRead(n) \/ StartDelete(n)
    BY <2>3, <2>4 DEF StartWrite, StartRead, StartDelete, NamedCommand
  <2> QED BY <1>1, <2>1, <2>2, <2>4 DEF Command
<1>2. CASE Step
  BY <1>2 DEF Step, WriteBlock, WriteNoSpace, WriteLast, ReadBlock, ReadDone, ReadFault,
     DeleteBlock, DeleteSlot, NamedNext
<1>3. CASE UNCHANGED vars
  BY <1>3 DEF vars
<1> QED BY <1>1, <1>2, <1>3 DEF Next, NamedNext

(***************************************************************************)
(* Chains.  No free block can be pointed at and no block can be pointed at *)
(* twice; the five structural facts are inductive together, and the bounds *)
(* of the read loop follow from them and SizeOfSingle.                     *)
(***************************************************************************)

Structure ==
  /\ HeadsAllocated
  /\ LinksAllocated
  /\ LinksInjective
  /\ HeadsUnlinked
  /\ HeadsDistinct

(* Steps that leave the table alone and move no head.                      *)
LEMMA StructureFrame ==
  ASSUME Structure, UNCHANGED fat_table, Live' \subseteq Live,
         \A k \in Live' : HeadOf(k) \in Blocks /\ HeadOf(k)' = HeadOf(k)
  PROVE  Structure'
<1>1. HeadsAllocated'
  BY DEF Structure, HeadsAllocated
<1>2. LinksAllocated' /\ LinksInjective'
  BY DEF Structure, LinksAllocated, LinksInjective, Linked
<1>3. HeadsUnlinked' /\ HeadsDistinct'
  BY DEF Structure, HeadsUnlinked, HeadsDistinct, Linked
<1> QED BY <1>1, <1>2, <1>3 DEF Structure

(* Outside delete_file every head is the start block of its file.          *)
LEMMA HeadsAreStarts ==
  ASSUME LiveInv, cmd # "delete"
  PROVE  \A k \in Live :
           HeadOf(k) = directory[k].start_block /\ HeadOf(k) \in Blocks
BY DEF LiveInv, HeadOf

LEMMA EnterChain ==
  ASSUME NEW n \in Names, NEW c \in {"write", "read", "delete"},
         NEW amount \in [Slot -> Nat],
         c = "read" => \A k \in Slot : amount[k] = directory[k].size,
         NamedTypes, LiveInv, Structure, SizeOfSingle, Enter(n, c, amount)
  PROVE  Structure' /\ SizeOfSingle' /\ LoopInv'
<1>1. PICK i \in Slot : /\ FirstSlot(i, n)
                        /\ slot' = i
                        /\ block' = directory[i].start_block
                        /\ left' = amount[i]
  BY DEF Enter
<1>2. i \in Live
  BY <1>1, Constants DEF FirstSlot, Live
<1>3. /\ cmd = "idle"
      /\ cmd' = c
      /\ UNCHANGED <<fat_table, directory, data_area>>
  BY DEF Enter, disk
<1>4. Live' = Live
  BY <1>3 DEF Live
<1>5. \A k \in Live : /\ HeadOf(k) = directory[k].start_block
                      /\ HeadOf(k) \in Blocks
  BY <1>3, HeadsAreStarts
<1>6. \A k \in Live : HeadOf(k)' = HeadOf(k)
  BY <1>1, <1>3, <1>5 DEF HeadOf
<1>7. Structure'
  BY <1>3, <1>4, <1>5, <1>6, StructureFrame
<1>8. SizeOfSingle'
  BY <1>3, <1>4 DEF SizeOfSingle
<1>9. block' \in Blocks /\ fat_table[block'] # FREE
  BY <1>1, <1>2, <1>5 DEF Structure, HeadsAllocated
<1>10. fat_table[block'] = EOF => directory[i].size <= BLOCK_SIZE
  <2> SUFFICES ASSUME fat_table[block'] = EOF
               PROVE  directory[i].size <= BLOCK_SIZE
    OBVIOUS
  <2>1. directory[i].size <= Len(data_area[block'])
    BY <1>1, <1>2, <1>9 DEF SizeOfSingle
  <2>2. Len(data_area[block']) <= BLOCK_SIZE
    BY <1>9 DEF NamedTypes
  <2>3. /\ Len(data_area[block']) \in Nat
        /\ directory[i].size \in Nat
        /\ BLOCK_SIZE \in Nat
    BY <1>9, Constants DEF NamedTypes, Entry
  <2> QED BY <2>1, <2>2, <2>3
<1>11. LoopInv'
  <2>1. CASE c = "write"
    BY <2>1, <1>1, <1>3, <1>9 DEF LoopInv
  <2>2. CASE c = "read"
    BY <2>2, <1>1, <1>3, <1>9, <1>10, Constants DEF LoopInv
  <2>3. CASE c = "delete"
    BY <2>3, <1>3 DEF LoopInv
  <2> QED BY <2>1, <2>2, <2>3
<1> QED BY <1>7, <1>8, <1>11

LEMMA CreateChain ==
  ASSUME NEW n \in Names, NamedTypes, LiveInv, Structure, SizeOfSingle,
         CreateFile(n)
  PROVE  Structure' /\ SizeOfSingle' /\ LoopInv'
<1>1. PICK i \in Slot, b \in Blocks :
        /\ FirstSlot(i, NoName)
        /\ FirstFree(b)
        /\ fat_table' = [fat_table EXCEPT ![b] = EOF]
        /\ directory' = [directory EXCEPT ![i] =
              [filename |-> n, start_block |-> b, size |-> 0]]
  BY DEF CreateFile
<1>2. cmd = "idle" /\ UNCHANGED <<data_area, cmd, slot, block, left>>
  BY DEF CreateFile, loop
<1>3. fat_table[b] = FREE
  BY <1>1 DEF FirstFree
<1>4. \A k \in Live : /\ HeadOf(k) = directory[k].start_block
                      /\ HeadOf(k) \in Blocks
  BY <1>2, HeadsAreStarts
<1>5. Live' = Live \cup {i} /\ i \notin Live
  BY <1>1, Constants DEF FirstSlot, Live, NamedTypes
<1>6. /\ HeadOf(i)' = b
      /\ \A k \in Live : HeadOf(k)' = HeadOf(k)
  BY <1>1, <1>2, <1>4, <1>5 DEF HeadOf, NamedTypes, Live
<1>7. \A k \in Live : HeadOf(k) # b
  BY <1>3, <1>4 DEF Structure, HeadsAllocated
<1>8. \A c \in Blocks : fat_table'[c] = IF c = b THEN EOF ELSE fat_table[c]
  BY <1>1 DEF NamedTypes
<1>9. \A c \in Blocks :
        Linked(c)' => /\ Linked(c)
                      /\ fat_table'[c] = fat_table[c]
                      /\ fat_table[c] \in Blocks
                      /\ fat_table[c] # b
  <2> SUFFICES ASSUME NEW c \in Blocks, Linked(c)'
               PROVE  /\ Linked(c)
                      /\ fat_table'[c] = fat_table[c]
                      /\ fat_table[c] \in Blocks
                      /\ fat_table[c] # b
    OBVIOUS
  <2>1. fat_table'[c] \in Blocks \ {FREE}
    BY DEF Linked
  <2>2. c # b /\ fat_table'[c] = fat_table[c]
    BY <2>1, <1>8, Constants
  <2>3. Linked(c) /\ fat_table[c] \in Blocks
    BY <2>1, <2>2 DEF Linked
  <2>4. fat_table[c] # b
    BY <2>3, <1>3 DEF Structure, LinksAllocated
  <2> QED BY <2>2, <2>3, <2>4
<1>10. HeadsAllocated'
  <2> SUFFICES ASSUME NEW k \in Live'
               PROVE  HeadOf(k)' \in Blocks /\ fat_table'[HeadOf(k)'] # FREE
    BY DEF HeadsAllocated
  <2>1. CASE k = i
    <3>1. HeadOf(k)' = b
      BY <2>1, <1>6
    <3>2. EOF # FREE
      BY Constants
    <3> QED BY <3>1, <3>2, <1>8
  <2>2. CASE k # i
    <3>1. k \in Live
      BY <2>2, <1>5
    <3>2. HeadOf(k)' = HeadOf(k) /\ HeadOf(k) \in Blocks /\ HeadOf(k) # b
      BY <3>1, <1>4, <1>6, <1>7
    <3>3. fat_table[HeadOf(k)] # FREE
      BY <3>1, <3>2 DEF Structure, HeadsAllocated
    <3> QED BY <3>2, <3>3, <1>8
  <2> QED BY <2>1, <2>2
<1>11. LinksAllocated'
  BY <1>8, <1>9 DEF Structure, LinksAllocated
<1>12. LinksInjective'
  BY <1>9 DEF Structure, LinksInjective
<1>13. HeadsUnlinked'
  BY <1>5, <1>6, <1>9 DEF Structure, HeadsUnlinked
<1>14. HeadsDistinct'
  BY <1>4, <1>5, <1>6, <1>7 DEF Structure, HeadsDistinct
<1>15. SizeOfSingle'
  <2> SUFFICES ASSUME NEW k \in Live', directory'[k].start_block \in Blocks,
                      fat_table'[directory'[k].start_block] = EOF
               PROVE  directory'[k].size <=
                        Len(data_area'[directory'[k].start_block])
    BY DEF SizeOfSingle
  <2>1. CASE k = i
    <3>1. directory'[k].size = 0 /\ directory'[k].start_block = b
      BY <1>1, <2>1 DEF NamedTypes
    <3>2. Len(data_area[b]) \in Nat
      BY DEF NamedTypes
    <3> QED BY <3>1, <3>2, <1>2
  <2>2. CASE k # i
    <3>1. k \in Live /\ directory'[k] = directory[k]
      BY <1>1, <1>5, <2>2 DEF NamedTypes
    <3>2. fat_table[directory[k].start_block] = EOF
      BY <3>1, <1>4, <1>7, <1>8
    <3> QED BY <3>1, <3>2, <1>2, <1>4 DEF SizeOfSingle
  <2> QED BY <2>1, <2>2
<1>16. LoopInv'
  BY <1>2 DEF LoopInv
<1> QED BY <1>10, <1>11, <1>12, <1>13, <1>14, <1>15, <1>16 DEF Structure

(* The bytes a write appends keep the size of a one-block file within it.  *)
LEMMA FillSizeOfSingle ==
  ASSUME NamedTypes, LiveInv, SizeOfSingle, LoopInv, cmd = "write", FillBlock,
         NEW k \in Live, fat_table[directory[k].start_block] = EOF
  PROVE  directory'[k].size <= Len(data_area'[directory[k].start_block])
<1> DEFINE s == directory[k].start_block
<1>1. s \in Blocks /\ slot \in Live /\ block \in Blocks /\ slot \in Slot
  BY DEF LiveInv, Live
<1>2. directory[slot].filename \in Names
  BY <1>1 DEF Live, NamedTypes, Entry
<1>3. /\ BytesToWrite \in Nat
      /\ Len(data_area'[s]) = IF s = block THEN Len(data_area[s]) + BytesToWrite
                                           ELSE Len(data_area[s])
      /\ directory'[k].size = IF k = slot THEN directory[k].size + BytesToWrite
                                          ELSE directory[k].size
  BY <1>1, <1>2, FillBlockTypes DEF Live, NamedTypes
<1>4. directory[k].size <= Len(data_area[s])
  BY <1>1 DEF SizeOfSingle
<1>5. directory[k].size \in Nat /\ Len(data_area[s]) \in Nat
  BY <1>1 DEF NamedTypes, Entry, Live
<1>6. k = slot => s = block
  BY DEF LoopInv
<1> HIDE DEF s
<1> QED BY <1>3, <1>4, <1>5, <1>6 DEF s

(* FillBlock moves no file.                                                *)
LEMMA FillFrame ==
  ASSUME NamedTypes, LiveInv, cmd = "write", FillBlock
  PROVE  /\ Live' = Live
         /\ \A k \in Live : directory'[k].start_block = directory[k].start_block
<1>1. slot \in Live /\ block \in Blocks
  BY DEF LiveInv
<1>2. directory[slot].filename \in Names
  BY <1>1 DEF Live, NamedTypes, Entry
<1>3. \A i \in Slot : /\ directory'[i].filename = directory[i].filename
                      /\ directory'[i].start_block = directory[i].start_block
  BY <1>1, <1>2, FillBlockTypes DEF NamedTypes
<1> QED BY <1>3 DEF Live

LEMMA WriteEndChain ==
  ASSUME NamedTypes, LiveInv, Structure, SizeOfSingle, LoopInv,
         cmd = "write", FillBlock, Return, UNCHANGED fat_table
  PROVE  Structure' /\ SizeOfSingle' /\ LoopInv'
<1>1. cmd' = "idle"
  BY DEF Return
<1>2. /\ Live' = Live
      /\ \A k \in Live : directory'[k].start_block = directory[k].start_block
  BY FillFrame
<1>3. \A k \in Live : HeadOf(k) \in Blocks /\ HeadOf(k)' = HeadOf(k)
  BY <1>1, <1>2, HeadsAreStarts DEF HeadOf
<1>4. Structure'
  BY <1>2, <1>3, StructureFrame
<1>5. SizeOfSingle'
  BY <1>2, FillSizeOfSingle DEF SizeOfSingle
<1>6. LoopInv'
  BY <1>1 DEF LoopInv
<1> QED BY <1>4, <1>5, <1>6

LEMMA WriteBlockChain ==
  ASSUME NamedTypes, LiveInv, Structure, SizeOfSingle, LoopInv, WriteBlock,
         "zero" \notin taint'
  PROVE  Structure' /\ SizeOfSingle' /\ LoopInv'
<1>1. PICK t \in Blocks :
        /\ FirstFree(t)
        /\ fat_table' = [fat_table EXCEPT ![block] = t, ![t] = EOC]
        /\ block' = t
        /\ taint' = taint \cup LinkEvents(block, t)
  BY DEF WriteBlock
<1>2. cmd = "write" /\ FillBlock /\ UNCHANGED <<cmd, slot>>
  BY DEF WriteBlock
<1>3. t # FREE
  BY <1>1 DEF LinkEvents, FREE
<1>4. fat_table[t] = FREE
  BY <1>1 DEF FirstFree
<1>5. block \in Blocks /\ slot \in Live /\ fat_table[block] # FREE /\ block # t
  BY <1>2, <1>4 DEF LiveInv, LoopInv
<1>6. \A c \in Blocks : fat_table'[c] = IF c = t THEN EOC
                                       ELSE IF c = block THEN t
                                       ELSE fat_table[c]
  BY <1>1, <1>5 DEF NamedTypes
<1>7. /\ Live' = Live
      /\ \A k \in Live : directory'[k].start_block = directory[k].start_block
  BY <1>2, FillFrame
<1>8. \A k \in Live : /\ HeadOf(k) = directory[k].start_block
                      /\ HeadOf(k) \in Blocks
                      /\ HeadOf(k)' = HeadOf(k)
  BY <1>2, <1>7, HeadsAreStarts DEF HeadOf
<1>9. \A k \in Live : HeadOf(k) # t /\ fat_table[HeadOf(k)] # FREE
  BY <1>4, <1>8 DEF Structure, HeadsAllocated
<1>10. EOC # FREE /\ EOC # EOF /\ EOC \notin Blocks
  BY Constants
<1>11. \A c \in Blocks :
         Linked(c)' => \/ c = block /\ fat_table'[c] = t
                       \/ /\ c # block
                          /\ Linked(c)
                          /\ fat_table'[c] = fat_table[c]
                          /\ fat_table[c] \in Blocks
                          /\ fat_table[c] # t
  BY <1>4, <1>6, <1>10 DEF Linked, Structure, LinksAllocated
<1>12. HeadsAllocated'
  BY <1>3, <1>6, <1>7, <1>8, <1>9 DEF Structure, HeadsAllocated
<1>13. LinksAllocated'
  <2> SUFFICES ASSUME NEW c \in Blocks, Linked(c)'
               PROVE  fat_table'[fat_table'[c]] \notin {FREE, EOF}
    BY DEF LinksAllocated
  <2>1. CASE c = block /\ fat_table'[c] = t
    BY <2>1, <1>6, <1>10
  <2>2. CASE /\ c # block
             /\ Linked(c)
             /\ fat_table'[c] = fat_table[c]
             /\ fat_table[c] \in Blocks
             /\ fat_table[c] # t
    <3>1. fat_table[fat_table[c]] \notin {FREE, EOF}
      BY <2>2 DEF Structure, LinksAllocated
    <3>2. t # EOF
      BY Constants
    <3> QED BY <2>2, <3>1, <3>2, <1>3, <1>6
  <2> QED BY <1>11, <2>1, <2>2
<1>14. LinksInjective'
  BY <1>11 DEF Structure, LinksInjective
<1>15. HeadsUnlinked'
  BY <1>7, <1>8, <1>9, <1>11 DEF Structure, HeadsUnlinked
<1>16. HeadsDistinct'
  BY <1>7, <1>8 DEF Structure, HeadsDistinct
<1>17. \A k \in Live : fat_table'[directory[k].start_block] = EOF
                       => fat_table[directory[k].start_block] = EOF
  <2> SUFFICES ASSUME NEW k \in Live,
                      fat_table'[directory[k].start_block] = EOF
               PROVE  fat_table[directory[k].start_block] = EOF
    OBVIOUS
  <2>1. directory[k].start_block \in Blocks
    BY <1>8
  <2>2. t # EOF
    BY Constants
  <2> QED BY <2>1, <2>2, <1>6, <1>10
<1>18. SizeOfSingle'
  BY <1>2, <1>7, <1>17, FillSizeOfSingle DEF SizeOfSingle
<1>19. LoopInv'
  <2>1. fat_table'[block'] # FREE
    BY <1>1, <1>6, <1>10
  <2>2. fat_table'[directory'[slot'].start_block] # EOF
    <3>1. directory'[slot'].start_block = directory[slot].start_block
      BY <1>2, <1>5, <1>7
    <3>2. fat_table[directory[slot].start_block] = EOF
            => directory[slot].start_block = block
      BY <1>2 DEF LoopInv
    <3> QED BY <3>1, <3>2, <1>5, <1>6, <1>8, <1>10, <1>17, Constants
  <2> QED BY <2>1, <2>2, <1>2 DEF LoopInv
<1> QED
  BY <1>12, <1>13, <1>14, <1>15, <1>16, <1>18, <1>19 DEF Structure

LEMMA ReadBlockChain ==
  ASSUME NamedTypes, LiveInv, Structure, SizeOfSingle, LoopInv, ReadBlock
  PROVE  Structure' /\ SizeOfSingle' /\ LoopInv'
<1>1. /\ cmd = "read" /\ block \in Blocks
      /\ left' = left - Least(left, BLOCK_SIZE)
      /\ block' = fat_table[block]
      /\ UNCHANGED <<fat_table, directory, data_area, cmd, slot>>
  BY DEF ReadBlock, disk
<1>2. Live' = Live
  BY <1>1 DEF Live
<1>3. \A k \in Live : HeadOf(k) \in Blocks /\ HeadOf(k)' = HeadOf(k)
  BY <1>1, HeadsAreStarts DEF HeadOf
<1>4. Structure'
  BY <1>1, <1>2, <1>3, StructureFrame
<1>5. SizeOfSingle'
  BY <1>1, <1>2 DEF SizeOfSingle
<1>6. fat_table[block] # FREE
  BY <1>1 DEF LoopInv
<1>7. block' \in Blocks => fat_table[block'] \notin {FREE, EOF}
  BY <1>1, <1>6 DEF Structure, LinksAllocated, Linked
<1>8. block' = EOF => left' = 0
  <2>1. block' = EOF => left <= BLOCK_SIZE
    BY <1>1 DEF LoopInv
  <2>2. left \in Nat /\ BLOCK_SIZE \in Nat
    BY Constants DEF NamedTypes
  <2> QED BY <2>1, <2>2, <1>1 DEF Least
<1>9. LoopInv'
  BY <1>1, <1>7, <1>8 DEF LoopInv
<1> QED BY <1>4, <1>5, <1>9

LEMMA DeleteBlockChain ==
  ASSUME NamedTypes, LiveInv, Structure, SizeOfSingle, LoopInv, DeleteBlock
  PROVE  Structure' /\ SizeOfSingle' /\ LoopInv'
<1>1. /\ cmd = "delete" /\ block \in Blocks
      /\ block' = fat_table[block]
      /\ fat_table' = [fat_table EXCEPT ![block] = FREE]
      /\ UNCHANGED <<directory, data_area, cmd, slot>>
  BY DEF DeleteBlock, NamedTypes
<1>2. slot \in Live /\ Live' = Live
  BY <1>1 DEF LiveInv, Live
<1>3. \A k \in Live : k = slot => /\ HeadOf(k) = block
                                  /\ HeadOf(k)' = fat_table[block]
  BY <1>1 DEF HeadOf
<1>4. \A k \in Live : k # slot => /\ HeadOf(k) \in Blocks
                                  /\ HeadOf(k)' = HeadOf(k)
                                  /\ HeadOf(k) # block
  <2>1. \A k \in Live : k # slot => /\ HeadOf(k) \in Blocks
                                    /\ HeadOf(k)' = HeadOf(k)
    BY <1>1, <1>2 DEF HeadOf, LiveInv
  <2> QED BY <2>1, <1>1, <1>2, <1>3 DEF Structure, HeadsDistinct
<1>5. fat_table[block] # FREE
  BY <1>1, <1>2, <1>3 DEF Structure, HeadsAllocated
<1>6. \A c \in Blocks : fat_table'[c] = IF c = block THEN FREE ELSE fat_table[c]
  BY <1>1 DEF NamedTypes
<1>7. \A c \in Blocks :
        Linked(c) => fat_table[c] # block
  BY <1>2, <1>3 DEF Structure, HeadsUnlinked
<1>8. \A c \in Blocks :
        Linked(c)' => /\ c # block
                      /\ Linked(c)
                      /\ fat_table'[c] = fat_table[c]
                      /\ fat_table[c] \in Blocks
  BY <1>6 DEF Linked
<1>9. fat_table[block] \in Blocks => Linked(block) /\ fat_table[block] # block
  BY <1>1, <1>5, <1>7 DEF Linked
<1>10. HeadsAllocated'
  <2> SUFFICES ASSUME NEW k \in Live
               PROVE  IF HeadOf(k)' \in Blocks
                        THEN fat_table'[HeadOf(k)'] # FREE
                        ELSE cmd' = "delete" /\ slot' = k
    BY <1>2 DEF HeadsAllocated
  <2>1. CASE k = slot
    BY <2>1, <1>1, <1>3, <1>6, <1>9 DEF Structure, LinksAllocated
  <2>2. CASE k # slot
    BY <2>2, <1>4, <1>6 DEF Structure, HeadsAllocated
  <2> QED BY <2>1, <2>2
<1>11. LinksAllocated'
  BY <1>6, <1>7, <1>8 DEF Structure, LinksAllocated
<1>12. LinksInjective'
  BY <1>8 DEF Structure, LinksInjective
<1>13. HeadsUnlinked'
  <2> SUFFICES ASSUME NEW k \in Live, NEW c \in Blocks, Linked(c)'
               PROVE  fat_table'[c] # HeadOf(k)'
    BY <1>2 DEF HeadsUnlinked
  <2>1. CASE k = slot
    <3>1. fat_table'[c] = fat_table[c] /\ fat_table[c] \in Blocks /\ c # block
          /\ Linked(c)
      BY <1>8
    <3>2. CASE fat_table[block] \in Blocks
      <4>1. Linked(block)
        BY <3>2, <1>9
      <4>2. fat_table[c] # fat_table[block]
        BY <4>1, <3>1, <1>1 DEF Structure, LinksInjective
      <4> QED BY <4>2, <3>1, <2>1, <1>3
    <3>3. CASE fat_table[block] \notin Blocks
      BY <3>3, <3>1, <2>1, <1>3
    <3> QED BY <3>2, <3>3
  <2>2. CASE k # slot
    BY <2>2, <1>4, <1>8 DEF Structure, HeadsUnlinked
  <2> QED BY <2>1, <2>2
<1>14. HeadsDistinct'
  <2>1. \A k, l \in Live :
          k # slot /\ l = slot => HeadOf(k)' # HeadOf(l)'
    <3> SUFFICES ASSUME NEW k \in Live, NEW l \in Live, k # slot, l = slot
                 PROVE  HeadOf(k)' # HeadOf(l)'
      OBVIOUS
    <3>1. HeadOf(k)' = HeadOf(k) /\ HeadOf(k) \in Blocks
      BY <1>4
    <3>2. HeadOf(l)' = fat_table[block]
      BY <1>3
    <3>3. fat_table[block] \in Blocks => fat_table[block] # HeadOf(k)
      BY <1>1, <1>9 DEF Structure, HeadsUnlinked
    <3> QED BY <3>1, <3>2, <3>3
  <2> QED BY <2>1, <1>2, <1>4 DEF Structure, HeadsDistinct
<1>15. SizeOfSingle'
  BY <1>1, <1>2, <1>6, Constants DEF SizeOfSingle
<1>16. LoopInv'
  BY <1>1 DEF LoopInv
<1> QED
  BY <1>10, <1>11, <1>12, <1>13, <1>14, <1>15, <1>16 DEF Structure

LEMMA DeleteSlotChain ==
  ASSUME NamedTypes, LiveInv, Structure, SizeOfSingle, LoopInv, DeleteSlot
  PROVE  Structure' /\ SizeOfSingle' /\ LoopInv'
<1>1. /\ cmd = "delete" /\ cmd' = "idle"
      /\ directory' = [directory EXCEPT ![slot] =
            [filename |-> NoName, start_block |-> EOC, size |-> 0]]
      /\ UNCHANGED <<fat_table, data_area>>
  BY DEF DeleteSlot, Return
<1>2. \A k \in Live' : /\ k \in Live
                       /\ k # slot
                       /\ directory'[k] = directory[k]
  BY <1>1 DEF Live, NamedTypes
<1>3. \A k \in Live' : HeadOf(k) \in Blocks /\ HeadOf(k)' = HeadOf(k)
  BY <1>1, <1>2 DEF HeadOf, LiveInv
<1>4. Structure'
  BY <1>1, <1>2, <1>3, StructureFrame
<1>5. SizeOfSingle'
  BY <1>1, <1>2 DEF SizeOfSingle
<1>6. LoopInv'
  BY <1>1 DEF LoopInv
<1> QED BY <1>4, <1>5, <1>6

LEMMA ReadEndChain ==
  ASSUME NamedTypes, LiveInv, Structure, SizeOfSingle, ReadDone \/ ReadFault
  PROVE  Structure' /\ SizeOfSingle' /\ LoopInv'
<1>1. /\ cmd = "read" /\ cmd' = "idle"
      /\ UNCHANGED <<fat_table, directory, data_area>>
  BY DEF ReadDone, ReadFault, Return, disk
<1>2. Live' = Live
  BY <1>1 DEF Live
<1>3. \A k \in Live : HeadOf(k) \in Blocks /\ HeadOf(k)' = HeadOf(k)
  BY <1>1, HeadsAreStarts DEF HeadOf
<1>4. Structure'
  BY <1>1, <1>2, <1>3, StructureFrame
<1> QED BY <1>1, <1>2, <1>4 DEF SizeOfSingle, LoopInv

LEMMA ChainStep ==
  ASSUME NamedTypes, LiveInv, ChainInv, [NamedNext]_vars, "zero" \notin taint'
  PROVE  ChainInv'
<1>0. Structure /\ SizeOfSingle /\ LoopInv
  BY DEF ChainInv, Structure
<1> SUFFICES Structure' /\ SizeOfSingle' /\ LoopInv'
  BY DEF ChainInv, Structure
<1>1. ASSUME NEW n \in Names, CreateFile(n)
      PROVE  Structure' /\ SizeOfSingle' /\ LoopInv'
  BY <1>0, <1>1, CreateChain
<1>2. ASSUME UNCHANGED <<fat_table, directory, data_area, cmd, slot, block, left>>
      PROVE  Structure' /\ SizeOfSingle' /\ LoopInv'
  BY <1>0, <1>2 DEF Structure, HeadsAllocated, LinksAllocated, LinksInjective,
     HeadsUnlinked, HeadsDistinct, SizeOfSingle, LoopInv, Live, HeadOf, Linked
<1>3. ASSUME Refused
      PROVE  Structure' /\ SizeOfSingle' /\ LoopInv'
  BY <1>2, <1>3 DEF Refused, disk, loop
<1>4. ASSUME NEW n \in Names, NEW len \in 0..MAX_DATA, StartWrite(n, len)
      PROVE  Structure' /\ SizeOfSingle' /\ LoopInv'
  <2>1. [i \in Slot |-> len] \in [Slot -> Nat]
    BY Constants
  <2> QED BY <2>1, <1>0, <1>4, EnterChain DEF StartWrite
<1>5. ASSUME NEW n \in Names, StartRead(n)
      PROVE  Structure' /\ SizeOfSingle' /\ LoopInv'
  <2>1. [i \in Slot |-> directory[i].size] \in [Slot -> Nat]
    BY DEF NamedTypes, Entry
  <2> QED BY <2>1, <1>0, <1>5, EnterChain DEF StartRead
<1>6. ASSUME NEW n \in Names, StartDelete(n)
      PROVE  Structure' /\ SizeOfSingle' /\ LoopInv'
  <2>1. [i \in Slot |-> 0] \in [Slot -> Nat]
    OBVIOUS
  <2> QED BY <2>1, <1>0, <1>6, EnterChain DEF StartDelete
<1>7. CASE WriteBlock
  BY <1>0, <1>7, WriteBlockChain
<1>8. CASE WriteNoSpace
  BY <1>0, <1>8, WriteEndChain DEF WriteNoSpace
<1>9. CASE WriteLast
  BY <1>0, <1>9, WriteEndChain DEF WriteLast
<1>10. CASE ReadBlock
  BY <1>0, <1>10, ReadBlockChain
<1>11. CASE ReadDone \/ ReadFault
  BY <1>0, <1>11, ReadEndChain
<1>12. CASE DeleteBlock
  BY <1>0, <1>12, DeleteBlockChain
<1>13. CASE DeleteSlot
  BY <1>0, <1>13, DeleteSlotChain
<1>14. CASE UNCHANGED vars
  BY <1>2, <1>14 DEF vars
<1> QED
  BY <1>1, <1>3, <1>4, <1>5, <1>6, <1>7, <1>8, <1>9, <1>10, <1>11, <1>12,
     <1>13, <1>14 DEF NamedNext, NamedCommand, Step

LEMMA ChainInit ==
  ASSUME Init
  PROVE  ChainInv
<1>1. Live = {} /\ cmd = "idle"
  BY DEF Init, Live
<1>2. \A b \in Blocks : ~Linked(b)
  BY DEF Init, Linked
<1> QED BY <1>1, <1>2 DEF ChainInv, HeadsAllocated, LinksAllocated,
        LinksInjective, HeadsUnlinked, HeadsDistinct, SizeOfSingle, LoopInv

(* The history only grows.                                                 *)
LEMMA TaintGrows ==
  ASSUME [NamedNext]_vars, "zero" \notin taint'
  PROVE  "zero" \notin taint
BY DEF NamedNext, NamedCommand, Step, vars, CreateFile, Refused, Enter,
   StartWrite, StartRead, StartDelete, WriteBlock, WriteNoSpace, WriteLast,
   ReadBlock, ReadDone, ReadFault, DeleteBlock, DeleteSlot

LEMMA NamedStep ==
  ASSUME NamedTypes, NamedIntegrity, [NamedNext]_vars
  PROVE  NamedTypes' /\ NamedIntegrity'
<1>1. NamedTypes' /\ LiveInv'
  BY TypeStep DEF NamedIntegrity
<1>2. ASSUME "zero" \notin taint' PROVE ChainInv'
  <2>1. ChainInv
    BY <1>2, TaintGrows DEF NamedIntegrity
  <2> QED BY <2>1, <1>2, ChainStep DEF NamedIntegrity
<1> QED BY <1>1, <1>2 DEF NamedIntegrity

LEMMA NamedInit ==
  ASSUME Init
  PROVE  NamedTypes /\ NamedIntegrity
BY TypeInit, ChainInit DEF NamedIntegrity

NamedInv == "unnamed" \notin taint => NamedTypes /\ NamedIntegrity

LEMMA Inductive == Spec => []NamedInv
<1>1. Init => NamedInv
  BY NamedInit DEF NamedInv
<1>2. NamedInv /\ [Next]_vars => NamedInv'
  BY Named, NamedStep DEF NamedInv
<1> QED BY <1>1, <1>2, PTL DEF Spec

(* As long as no block was linked to block 0 and no unused slot taken for  *)
(* a file, the FAT is a set of disjoint chains of allocated blocks, one    *)
(* per directory entry, at every step of every command.                    *)
THEOREM ChainsIntact == Spec => []ChainIntegrity
<1>1. NamedInv => ChainIntegrity
  BY DEF NamedInv, NamedIntegrity, ChainIntegrity
<1> QED BY <1>1, Inductive, PTL

(* read_file, whose loop tests for -1 but not for 0xFFFF, never indexes    *)
(* the data area with 0xFFFF, in the same circumstances.                   *)
THEOREM ReadsInBounds == Spec => []ReadInBounds
<1>1. NamedInv => ReadInBounds
  BY DEF NamedInv, NamedTypes, NamedIntegrity, ChainInv, LoopInv, ReadInBounds
<1> QED BY <1>1, Inductive, PTL

---------------------------------------------------------------------------
(* Walks along the table.                                                  *)

(* Induction up to n: were there a k in 0..n outside S, there would be one *)
(* with the smallest interval 0..k.                                        *)
LEMMA Climb ==
  ASSUME NEW n \in Nat, NEW S, 0 \in S, \A k \in 0 .. n - 1 : k \in S => k + 1 \in S
  PROVE  0 .. n \subseteq S
<1> DEFINE T == (0 .. n) \ S
<1> SUFFICES ASSUME T # {} PROVE FALSE
  OBVIOUS
<1> DEFINE U == {0 .. k : k \in T}
<1>1. PICK X \in U : \A Y \in U : <<Y, X>> \notin StrictSubsetOrdering(Nat)
  <2>1. U \subseteq FiniteSubsetsOf(Nat)
    <3>1. ASSUME NEW k \in T
          PROVE  0 .. k \subseteq Nat /\ IsFiniteSet(0 .. k)
      BY FS_Interval
    <3> QED
      BY <3>1 DEF FiniteSubsetsOf
  <2>2. U # {}
    OBVIOUS
  <2> HIDE DEF U
  <2> QED
    BY <2>1, <2>2, FS_StrictSubsetOrderingWellFounded, WFMin
<1>2. PICK x \in T : X = 0 .. x
  BY <1>1
<1>3. x # 0 /\ x - 1 \in 0 .. n - 1 /\ x - 1 + 1 = x
  OBVIOUS
<1>4. x - 1 \notin T
  <2>1. 0 .. x - 1 \subseteq 0 .. x /\ x \notin 0 .. x - 1 /\ x \in 0 .. x /\ 0 .. x \subseteq Nat
    BY <1>3
  <2>2. 0 .. x - 1 # 0 .. x
    BY <2>1
  <2>3. <<0 .. x - 1, X>> \in StrictSubsetOrdering(Nat)
    BY <1>2, <2>1, <2>2 DEF StrictSubsetOrdering
  <2> QED
    BY <1>1, <2>3
<1> QED
  BY <1>3, <1>4

(* What one step of a walk does; the recursive function has one value only. *)
LEMMA WalkSteps ==
  ASSUME NEW F, NEW b, NEW w, w = Walk(F, b)
  PROVE  /\ w[0] = b
         /\ \A k \in 0 .. NUM_BLOCKS - 1 : w[k + 1] = IF w[k] \in Blocks THEN F[w[k]] ELSE w[k]
<1> DEFINE Upto(f, m) == /\ f[0] = b
                         /\ \A k \in 0 .. m - 1 : f[k + 1] = IF f[k] \in Blocks THEN F[f[k]] ELSE f[k]
           N == NUM_BLOCKS
<1>0. N \in Nat
  BY Constants
<1>1. ASSUME NEW m \in 0 .. N
      PROVE  \E f : f = [k \in 0 .. N |-> f[k]] /\ Upto(f, m)
  <2> DEFINE S == {k \in 0 .. N : \E f : f = [l \in 0 .. N |-> f[l]] /\ Upto(f, k)}
  <2>1. 0 \in S
    <3> DEFINE g == [l \in 0 .. N |-> b]
    <3>1. g = [l \in 0 .. N |-> g[l]] /\ Upto(g, 0) /\ 0 \in 0 .. N
      BY <1>0
    <3> HIDE DEF g
    <3> QED
      BY <1>0, <3>1
  <2>2. ASSUME NEW k \in 0 .. N - 1, k \in S
        PROVE  k + 1 \in S
    <3>1. PICK f : f = [l \in 0 .. N |-> f[l]] /\ Upto(f, k)
      BY <2>2
    <3> DEFINE g == [l \in 0 .. N |-> IF l = k + 1 THEN IF f[k] \in Blocks THEN F[f[k]] ELSE f[k] ELSE f[l]]
    <3>2. Upto(g, k + 1)
      <4>1. g[0] = b
        BY <1>0, <3>1
      <4>2. ASSUME NEW l \in 0 .. k + 1 - 1
            PROVE  g[l + 1] = IF g[l] \in Blocks THEN F[g[l]] ELSE g[l]
        <5>1. l \in 0 .. N /\ l + 1 \in 0 .. N /\ l # k + 1 /\ g[l] = f[l]
          BY <1>0
        <5>2. CASE l = k
          BY <5>1, <5>2
        <5>3. CASE l # k
          <6>1. l \in 0 .. k - 1 /\ l + 1 # k + 1
            BY <1>0, <5>3
          <6> QED
            BY <3>1, <5>1, <6>1
        <5> QED
          BY <5>2, <5>3
      <4> QED
        BY <4>1, <4>2, SMTT(30)
    <3>3. g = [l \in 0 .. N |-> g[l]]
      OBVIOUS
    <3>4. k + 1 \in 0 .. N
      BY <1>0
    <3> HIDE DEF g, Upto
    <3> QED
      BY <3>2, <3>3, <3>4
  <2> HIDE DEF S
  <2>3. 0 .. N \subseteq S
    BY <1>0, <2>1, <2>2, Climb
  <2> QED
    BY <2>3 DEF S
<1>2. PICK f : f = [k \in 0 .. N |-> f[k]] /\ Upto(f, N)
  BY <1>0, <1>1
<1>3. f = [k \in 0 .. N |-> IF k = 0 THEN b ELSE IF f[k - 1] \in Blocks THEN F[f[k - 1]] ELSE f[k - 1]]
  <2>1. ASSUME NEW k \in 0 .. N
        PROVE  f[k] = IF k = 0 THEN b ELSE IF f[k - 1] \in Blocks THEN F[f[k - 1]] ELSE f[k - 1]
    <3>1. CASE k = 0
      BY <1>2, <3>1
    <3>2. CASE k # 0
      <4>1. k - 1 \in 0 .. N - 1 /\ k - 1 + 1 = k
        BY <1>0, <3>2
      <4> QED
        BY <1>2, <3>2, <4>1
    <3> QED
      BY <3>1, <3>2
  <2> QED
    BY <1>2, <2>1
<1>4. w = [k \in 0 .. N |-> IF k = 0 THEN b ELSE IF w[k - 1] \in Blocks THEN F[w[k - 1]] ELSE w[k - 1]]
  BY <1>3 DEF Walk
<1>5. ASSUME NEW k \in 0 .. N
      PROVE  w[k] = IF k = 0 THEN b ELSE IF w[k - 1] \in Blocks THEN F[w[k - 1]] ELSE w[k - 1]
  <2> DEFINE body(k_1) == IF k_1 = 0 THEN b ELSE IF w[k_1 - 1] \in Blocks THEN F[w[k_1 - 1]] ELSE w[k_1 - 1]
  <2>1. w = [k_1 \in 0 .. N |-> body(k_1)]
    BY <1>4
  <2> HIDE DEF body
  <2>2. w[k] = body(k)
    BY <2>1
  <2> QED
    BY <2>2 DEF body
<1>6. ASSUME NEW k \in 0 .. N - 1
      PROVE  w[k + 1] = IF w[k] \in Blocks THEN F[w[k]] ELSE w[k]
  <2>1. k + 1 \in 0 .. N /\ k + 1 # 0 /\ k + 1 - 1 = k
    BY <1>0
  <2> QED
    BY <1>5, <2>1
<1> QED
  BY <1>0, <1>5, <1>6

(* Before a block there are blocks.                                        *)
LEMMA WalkBack ==
  ASSUME NEW F, NEW b, NEW k \in 0 .. NUM_BLOCKS, NEW l \in 0 .. k, Walk(F, b)[k] \in Blocks
  PROVE  Walk(F, b)[l] \in Blocks
<1> DEFINE w == Walk(F, b)
           S == {d \in 0 .. NUM_BLOCKS - l : w[l + d] \notin Blocks}
<1> SUFFICES ASSUME w[l] \notin Blocks
             PROVE  FALSE
  OBVIOUS
<1>1. NUM_BLOCKS \in Nat /\ NUM_BLOCKS - l \in Nat
  BY Constants
<1>2. 0 \in S
  BY <1>1
<1>3. ASSUME NEW d \in 0 .. NUM_BLOCKS - l - 1, d \in S
      PROVE  d + 1 \in S
  <2>1. l + d \in 0 .. NUM_BLOCKS - 1 /\ l + (d + 1) = l + d + 1 /\ d + 1 \in 0 .. NUM_BLOCKS - l
    BY <1>1
  <2> HIDE DEF w
  <2>2. w[l + d + 1] = w[l + d]
    BY <1>3, <2>1, WalkSteps DEF w
  <2> QED
    BY <1>3, <2>1, <2>2
<1> HIDE DEF S, w
<1>4. 0 .. NUM_BLOCKS - l \subseteq S
  BY <1>1, <1>2, <1>3, Climb
<1>5. k - l \in 0 .. NUM_BLOCKS - l /\ l + (k - l) = k
  BY <1>1
<1> QED
  BY <1>4, <1>5 DEF S, w

(* Two tables that agree on the way lead the same way.                     *)
LEMMA WalkSame ==
  ASSUME NEW F, NEW G, NEW b, NEW m \in 0 .. NUM_BLOCKS,
         \A k \in 0 .. m - 1 : Walk(F, b)[k] \in Blocks => G[Walk(F, b)[k]] = F[Walk(F, b)[k]]
  PROVE  \A k \in 0 .. m : Walk(G, b)[k] = Walk(F, b)[k]
<1> DEFINE w == Walk(F, b)
           v == Walk(G, b)
           S == {k \in 0 .. m : v[k] = w[k]}
<1>1. m \in Nat /\ NUM_BLOCKS \in Nat
  BY Constants
<1>2. /\ w[0] = b /\ v[0] = b
      /\ \A k \in 0 .. NUM_BLOCKS - 1 :
           /\ w[k + 1] = IF w[k] \in Blocks THEN F[w[k]] ELSE w[k]
           /\ v[k + 1] = IF v[k] \in Blocks THEN G[v[k]] ELSE v[k]
  <2> HIDE DEF w, v
  <2> QED
    BY WalkSteps DEF w, v
<1> HIDE DEF w, v
<1>3. 0 \in S
  BY <1>1, <1>2
<1>4. ASSUME NEW k \in 0 .. m - 1, k \in S
      PROVE  k + 1 \in S
  <2>1. k \in 0 .. NUM_BLOCKS - 1 /\ k + 1 \in 0 .. m
    BY <1>1
  <2> QED
    BY <1>2, <1>4, <2>1 DEF w
<1> HIDE DEF S
<1>5. 0 .. m \subseteq S
  BY <1>1, <1>3, <1>4, Climb
<1> QED
  BY <1>5 DEF S, w, v

(* And behind its first block the way leads on.                            *)
LEMMA WalkTail ==
  ASSUME NEW F, NEW G, NEW b \in Blocks,
         \A k \in 1 .. NUM_BLOCKS : Walk(F, b)[k] \in Blocks => G[Walk(F, b)[k]] = F[Walk(F, b)[k]]
  PROVE  \A k \in 0 .. NUM_BLOCKS - 1 : Walk(G, F[b])[k] = Walk(F, b)[k + 1]
<1> DEFINE w == Walk(F, b)
           v == Walk(G, F[b])
           S == {k \in 0 .. NUM_BLOCKS - 1 : v[k] = w[k + 1]}
<1>1. NUM_BLOCKS \in Nat /\ NUM_BLOCKS > 0 /\ NUM_BLOCKS - 1 \in Nat
  BY Constants
<1>2. /\ w[0] = b /\ v[0] = F[b]
      /\ \A k \in 0 .. NUM_BLOCKS - 1 :
           /\ w[k + 1] = IF w[k] \in Blocks THEN F[w[k]] ELSE w[k]
           /\ v[k + 1] = IF v[k] \in Blocks THEN G[v[k]] ELSE v[k]
  <2> HIDE DEF w, v
  <2> QED
    BY WalkSteps DEF w, v
<1> HIDE DEF w, v
<1>3. 0 \in S
  <2>1. 0 \in 0 .. NUM_BLOCKS - 1 /\ 0 + 1 = 1
    BY <1>1
  <2> QED
    BY <1>2, <2>1
<1>4. ASSUME NEW k \in 0 .. NUM_BLOCKS - 1 - 1, k \in S
      PROVE  k + 1 \in S
  <2>1. k \in 0 .. NUM_BLOCKS - 1 /\ k + 1 \in 0 .. NUM_BLOCKS - 1 /\ k + 1 \in 1 .. NUM_BLOCKS
    BY <1>1
  <2>2. v[k + 1] = IF w[k + 1] \in Blocks THEN G[w[k + 1]] ELSE w[k + 1]
    BY <1>2, <1>4, <2>1
  <2>3. v[k + 1] = w[k + 1 + 1]
    BY <1>2, <2>1, <2>2 DEF w
  <2> QED
    BY <2>1, <2>3
<1> HIDE DEF S
<1>5. 0 .. NUM_BLOCKS - 1 \subseteq S
  BY <1>1, <1>3, <1>4, Climb
<1> QED
  BY <1>5 DEF S, w, v

---------------------------------------------------------------------------
(* The chains of the files.                                                *)

Reached(i) == Walk(fat_table, HeadOf(i))

(* A block that is reached is the one the block before it names.           *)
LEMMA ReachedLinked ==
  ASSUME Structure, NEW i \in Live, NEW k \in 0 .. NUM_BLOCKS - 1, Reached(i)[k + 1] \in Blocks
  PROVE  /\ Reached(i)[k] \in Blocks
         /\ fat_table[Reached(i)[k]] = Reached(i)[k + 1]
<1> DEFINE w == Reached(i)
<1>1. w[k + 1] = IF w[k] \in Blocks THEN fat_table[w[k]] ELSE w[k]
  BY WalkSteps DEF Reached
<1> QED
  BY <1>1

(* Every block of a chain is allocated.                                    *)
LEMMA ReachedAllocated ==
  ASSUME Structure, NEW i \in Live
  PROVE  \A k \in 0 .. NUM_BLOCKS : Reached(i)[k] \in Blocks => fat_table[Reached(i)[k]] # FREE
<1> DEFINE w == Reached(i)
           S == {k \in 0 .. NUM_BLOCKS : w[k] \in Blocks => fat_table[w[k]] # FREE}
<1>1. NUM_BLOCKS \in Nat
  BY Constants
<1> HIDE DEF w
<1>2. 0 \in S
  <2>1. w[0] = HeadOf(i)
    BY WalkSteps DEF w, Reached
  <2> QED
    BY <1>1, <2>1 DEF Structure, HeadsAllocated
<1>3. ASSUME NEW k \in 0 .. NUM_BLOCKS - 1, k \in S
      PROVE  k + 1 \in S
  <2>1. k + 1 \in 0 .. NUM_BLOCKS
    BY <1>1
  <2>2. w[k + 1] \in Blocks => w[k] \in Blocks /\ fat_table[w[k]] = w[k + 1]
    BY ReachedLinked DEF w
  <2>3. w[k + 1] \in Blocks => fat_table[w[k + 1]] # FREE
    BY <1>3, <2>2 DEF Structure, LinksAllocated, Linked
  <2> QED
    BY <2>1, <2>3
<1> HIDE DEF S
<1>4. 0 .. NUM_BLOCKS \subseteq S
  BY <1>1, <1>2, <1>3, Climb
<1> QED
  BY <1>4 DEF S, w

(* A block is reached in one place of one chain only.                      *)
LEMMA ReachedApart ==
  ASSUME Structure
  PROVE  \A k, l \in 0 .. NUM_BLOCKS : \A i, t \in Live :
           Reached(i)[k] \in Blocks /\ Reached(i)[k] = Reached(t)[l] => i = t /\ k = l
<1> DEFINE S == {k \in 0 .. NUM_BLOCKS : \A l \in 0 .. NUM_BLOCKS : \A i, t \in Live :
                   Reached(i)[k] \in Blocks /\ Reached(i)[k] = Reached(t)[l] => i = t /\ k = l}
<1>1. NUM_BLOCKS \in Nat
  BY Constants
<1>2. \A i \in Live : Reached(i)[0] = HeadOf(i)
  BY WalkSteps DEF Reached
<1>3. ASSUME NEW i \in Live, NEW t \in Live, NEW l \in 0 .. NUM_BLOCKS, l # 0,
             HeadOf(i) \in Blocks, HeadOf(i) = Reached(t)[l]
      PROVE  FALSE
  <2>1. l - 1 \in 0 .. NUM_BLOCKS - 1 /\ l - 1 + 1 = l /\ l - 1 \in 0 .. NUM_BLOCKS
    BY <1>1, <1>3
  <2>2. Reached(t)[l - 1] \in Blocks /\ fat_table[Reached(t)[l - 1]] = HeadOf(i)
    BY <1>3, <2>1, ReachedLinked
  <2>3. fat_table[Reached(t)[l - 1]] # FREE
    BY <2>1, <2>2, ReachedAllocated
  <2> QED
    BY <1>3, <2>2, <2>3 DEF Structure, HeadsUnlinked, Linked
<1>4. 0 \in S
  BY <1>1, <1>2, <1>3 DEF Structure, HeadsDistinct
<1>5. ASSUME NEW k \in 0 .. NUM_BLOCKS - 1, k \in S
      PROVE  k + 1 \in S
  <2>1. k + 1 \in 0 .. NUM_BLOCKS /\ k \in 0 .. NUM_BLOCKS /\ k + 1 # 0
    BY <1>1
  <2> SUFFICES ASSUME NEW l \in 0 .. NUM_BLOCKS, NEW i \in Live, NEW t \in Live,
                      Reached(i)[k + 1] \in Blocks, Reached(i)[k + 1] = Reached(t)[l]
               PROVE  i = t /\ k + 1 = l
    BY <2>1
  <2>2. l # 0
    BY <1>2, <1>3, <2>1
  <2>3. l - 1 \in 0 .. NUM_BLOCKS - 1 /\ l - 1 + 1 = l /\ l - 1 \in 0 .. NUM_BLOCKS
    BY <1>1, <2>2
  <2>4. Reached(i)[k] \in Blocks /\ fat_table[Reached(i)[k]] = Reached(i)[k + 1]
    BY ReachedLinked
  <2>5. Reached(t)[l - 1] \in Blocks /\ fat_table[Reached(t)[l - 1]] = Reached(i)[k + 1]
    BY <2>3, ReachedLinked
  <2>6. fat_table[Reached(i)[k]] # FREE /\ fat_table[Reached(t)[l - 1]] # FREE
    BY <2>1, <2>3, <2>4, <2>5, ReachedAllocated
  <2>7. Reached(i)[k] = Reached(t)[l - 1]
    BY <2>4, <2>5, <2>6 DEF Structure, LinksInjective, Linked
  <2>8. i = t /\ k = l - 1
    BY <1>5, <2>3, <2>4, <2>7
  <2> QED
    BY <2>3, <2>8
<1> HIDE DEF S
<1>6. 0 .. NUM_BLOCKS \subseteq S
  BY <1>1, <1>4, <1>5, Climb
<1> QED
  BY <1>6 DEF S

(* A chain has no more blocks than there are.                              *)
LEMMA ReachedShort ==
  ASSUME Structure, NEW i \in Live, NEW k \in 0 .. NUM_BLOCKS, Reached(i)[k] \in Blocks
  PROVE  k \in 0 .. NUM_BLOCKS - 1
<1> DEFINE w == Reached(i)
           f == [l \in 0 .. NUM_BLOCKS |-> w[l]]
<1>1. NUM_BLOCKS \in Nat /\ NUM_BLOCKS > 0
  BY Constants
<1> SUFFICES ASSUME k = NUM_BLOCKS
             PROVE  FALSE
  BY <1>1
<1>2. \A l \in 0 .. NUM_BLOCKS : w[l] \in Blocks
  BY WalkBack DEF Reached
<1>3. f \in [0 .. NUM_BLOCKS -> Blocks]
  BY <1>2
<1>4. /\ IsFiniteSet(0 .. NUM_BLOCKS) /\ IsFiniteSet(Blocks)
      /\ Cardinality(Blocks) < Cardinality(0 .. NUM_BLOCKS)
  <2>1. /\ IsFiniteSet(0 .. NUM_BLOCKS) /\ Cardinality(0 .. NUM_BLOCKS) = NUM_BLOCKS - 0 + 1
    BY <1>1, FS_Interval
  <2>2. /\ IsFiniteSet(Blocks) /\ Cardinality(Blocks) = NUM_BLOCKS - 1 - 0 + 1
    BY <1>1, FS_Interval DEF Blocks
  <2> QED
    BY <1>1, <2>1, <2>2
<1> HIDE DEF f, w
<1>5. PICK m, n \in 0 .. NUM_BLOCKS : m # n /\ f[m] = f[n]
  BY <1>3, <1>4, FS_PigeonHole
<1>6. w[m] = w[n] /\ w[m] \in Blocks
  BY <1>2, <1>5 DEF f
<1> QED
  BY <1>5, <1>6, ReachedApart DEF w

---------------------------------------------------------------------------
(* No block is lost.                                                       *)

(* A write stands on a block of its own file.                              *)
OnItsChain == "zero" \notin taint /\ cmd = "write" => block \in Chain(slot)

(* The blocks of a chain are the ones that are reached.                    *)
LEMMA ChainFacts ==
  ASSUME NEW i, NEW b
  PROVE  b \in Chain(i) <=> b \in Blocks /\ \E k \in 0 .. NUM_BLOCKS : Reached(i)[k] = b
BY DEF Chain, Reached

(* The same after a step.                                                  *)
LEMMA ChainNext ==
  ASSUME NEW i, NEW b
  PROVE  (b \in Chain(i))' <=> b \in Blocks /\ \E k \in 0 .. NUM_BLOCKS : Reached(i)'[k] = b
BY DEF Chain, Reached

(* A step that allocates nothing loses nothing if all that is reached and  *)
(* stays allocated is still reached.                                       *)
LEMMA KeptBlocks ==
  ASSUME NamedBlocks, taint \cap {"zero", "relink"} = {},
         \A b \in Blocks : fat_table'[b] # FREE => fat_table[b] # FREE,
         \A i \in Live, k \in 0 .. NUM_BLOCKS :
           /\ Reached(i)[k] \in Blocks
           /\ fat_table'[Reached(i)[k]] # FREE
           => i \in Live' /\ \E l \in 0 .. NUM_BLOCKS : Reached(i)'[l] = Reached(i)[k]
  PROVE  NamedBlocks'
<1> SUFFICES ASSUME NEW b \in Blocks, fat_table'[b] # FREE
             PROVE  \E i \in Live' : (b \in Chain(i))'
  BY DEF NamedBlocks
<1>1. PICK i \in Live : b \in Chain(i)
  BY DEF NamedBlocks
<1>2. PICK k \in 0 .. NUM_BLOCKS : Reached(i)[k] = b
  BY <1>1, ChainFacts
<1>3. i \in Live' /\ \E l \in 0 .. NUM_BLOCKS : Reached(i)'[l] = b
  BY <1>2
<1> QED
  BY <1>3, ChainNext

(* Steps that leave the table alone and move no head of a chain.           *)
LEMMA FrameBlocks ==
  ASSUME NamedBlocks, taint' = taint, UNCHANGED fat_table,
         \A i \in Live : \/ i \in Live' /\ HeadOf(i)' = HeadOf(i)
                         \/ HeadOf(i) \notin Blocks
  PROVE  NamedBlocks'
<1> SUFFICES ASSUME taint \cap {"zero", "relink"} = {}
             PROVE  NamedBlocks'
  BY DEF NamedBlocks
<1>1. ASSUME NEW i \in Live, NEW k \in 0 .. NUM_BLOCKS, Reached(i)[k] \in Blocks
      PROVE  i \in Live' /\ \E l \in 0 .. NUM_BLOCKS : Reached(i)'[l] = Reached(i)[k]
  <2>1. 0 \in 0 .. k
    BY Constants
  <2>2. Reached(i)[0] \in Blocks
    BY <1>1, <2>1, WalkBack DEF Reached
  <2>3. HeadOf(i) \in Blocks
    BY <2>2, WalkSteps DEF Reached
  <2>4. i \in Live' /\ Reached(i)' = Reached(i)
    BY <2>3 DEF Reached
  <2> QED
    BY <2>4
<1> QED
  BY <1>1, KeptBlocks

(* create_file: the new block is the start of the new file.                *)
LEMMA CreateBlocks ==
  ASSUME NEW n \in Names, NamedTypes, LiveInv, Structure, NamedBlocks,
         taint' \cap {"zero", "relink"} = {}, CreateFile(n)
  PROVE  NamedBlocks'
<1>1. PICK i \in Slot, b \in Blocks :
        /\ FirstSlot(i, NoName)
        /\ FirstFree(b)
        /\ fat_table' = [fat_table EXCEPT ![b] = EOF]
        /\ directory' = [directory EXCEPT ![i] =
              [filename |-> n, start_block |-> b, size |-> 0]]
        /\ taint \subseteq taint'
  BY DEF CreateFile
<1>2. cmd = "idle" /\ UNCHANGED <<cmd, slot, block>>
  BY DEF CreateFile, loop
<1>3. Live' = Live \cup {i} /\ i \notin Live
  BY <1>1, Constants DEF FirstSlot, Live, NamedTypes
<1>4. /\ HeadOf(i)' = b
      /\ \A k \in Live : HeadOf(k)' = HeadOf(k)
  BY <1>1, <1>2, <1>3 DEF HeadOf, NamedTypes, Live
<1>5. \A c \in Blocks : fat_table'[c] = IF c = b THEN EOF ELSE fat_table[c]
  BY <1>1 DEF NamedTypes
<1>6. ASSUME NEW t \in Live
      PROVE  \A k \in 0 .. NUM_BLOCKS : Reached(t)'[k] = Reached(t)[k]
  <2>1. \A k \in 0 .. NUM_BLOCKS : Reached(t)[k] \in Blocks => Reached(t)[k] # b
    BY <1>1, ReachedAllocated DEF FirstFree
  <2>2. NUM_BLOCKS \in 0 .. NUM_BLOCKS /\ 0 .. NUM_BLOCKS - 1 \subseteq 0 .. NUM_BLOCKS
    BY Constants
  <2>3. \A k \in 0 .. NUM_BLOCKS - 1 :
          Reached(t)[k] \in Blocks => fat_table'[Reached(t)[k]] = fat_table[Reached(t)[k]]
    BY <1>5, <2>1, <2>2
  <2>4. \A k \in 0 .. NUM_BLOCKS : Walk(fat_table', HeadOf(t))[k] = Walk(fat_table, HeadOf(t))[k]
    BY <2>2, <2>3, WalkSame DEF Reached
  <2> QED
    BY <1>4, <2>4 DEF Reached
<1> SUFFICES ASSUME NEW c \in Blocks, fat_table'[c] # FREE
             PROVE  \E t \in Live' : (c \in Chain(t))'
  BY DEF NamedBlocks
<1>7. CASE c = b
  <2>1. Reached(i)'[0] = b /\ 0 \in 0 .. NUM_BLOCKS
    BY <1>4, WalkSteps, Constants DEF Reached
  <2> QED
    BY <1>3, <1>7, <2>1, ChainNext
<1>8. CASE c # b
  <2>1. PICK t \in Live : c \in Chain(t)
    BY <1>1, <1>5, <1>8 DEF NamedBlocks
  <2>2. PICK k \in 0 .. NUM_BLOCKS : Reached(t)[k] = c
    BY <2>1, ChainFacts
  <2>3. Reached(t)'[k] = c
    BY <1>6, <2>2
  <2> QED
    BY <1>3, <2>3, ChainNext
<1> QED
  BY <1>7, <1>8

(* A new block comes behind the one the write stands on; until there the   *)
(* chain of the file stays as it is, and the other chains do.              *)
LEMMA WriteWalks ==
  ASSUME NamedTypes, LiveInv, Structure, WriteBlock,
         NEW s, s = slot, NEW m \in 0 .. NUM_BLOCKS, Reached(s)[m] = block
  PROVE  /\ s \in Live /\ Live' = Live /\ block \in Blocks
         /\ m + 1 \in 0 .. NUM_BLOCKS
         /\ Reached(s)'[m + 1] = block'
         /\ \A k \in 0 .. m : Reached(s)'[k] = Reached(s)[k]
         /\ \A i \in Live \ {s}, k \in 0 .. NUM_BLOCKS : Reached(i)'[k] = Reached(i)[k]
<1>1. PICK t \in Blocks :
        /\ FirstFree(t)
        /\ fat_table' = [fat_table EXCEPT ![block] = t, ![t] = EOC]
        /\ block' = t
  BY DEF WriteBlock
<1>2. cmd = "write" /\ FillBlock /\ UNCHANGED <<cmd, slot>>
  BY DEF WriteBlock
<1>3. /\ block \in Blocks /\ s \in Live /\ fat_table[t] = FREE
      /\ NUM_BLOCKS \in Nat /\ NUM_BLOCKS \in 0 .. NUM_BLOCKS
      /\ 0 .. NUM_BLOCKS - 1 \subseteq 0 .. NUM_BLOCKS
  BY <1>1, <1>2, Constants DEF LiveInv, FirstFree
<1>4. fat_table[block] # FREE
  BY <1>3, ReachedAllocated
<1>5. \A c \in Blocks : fat_table'[c] = IF c = t THEN EOC
                                       ELSE IF c = block THEN t
                                       ELSE fat_table[c]
  BY <1>1, <1>3 DEF NamedTypes
<1>6. /\ Live' = Live
      /\ \A k \in Live : directory'[k].start_block = directory[k].start_block
  BY <1>2, FillFrame
<1>7. \A k \in Live : HeadOf(k)' = HeadOf(k)
  BY <1>2, <1>6 DEF HeadOf
<1>8. \A i \in Live, k \in 0 .. NUM_BLOCKS : Reached(i)[k] \in Blocks => Reached(i)[k] # t
  BY <1>3, ReachedAllocated
<1>9. ASSUME NEW i \in Live \ {s}, NEW k \in 0 .. NUM_BLOCKS
      PROVE  Reached(i)'[k] = Reached(i)[k]
  <2>1. \A l \in 0 .. NUM_BLOCKS : Reached(i)[l] \in Blocks => Reached(i)[l] # block
    BY <1>3, ReachedApart
  <2>2. \A l \in 0 .. NUM_BLOCKS - 1 :
          Reached(i)[l] \in Blocks => fat_table'[Reached(i)[l]] = fat_table[Reached(i)[l]]
    BY <1>3, <1>5, <1>8, <2>1
  <2>3. \A l \in 0 .. NUM_BLOCKS : Walk(fat_table', HeadOf(i))[l] = Walk(fat_table, HeadOf(i))[l]
    BY <1>3, <2>2, WalkSame DEF Reached
  <2> QED
    BY <1>7, <2>3 DEF Reached
<1>10. m + 1 \in 0 .. NUM_BLOCKS /\ m \in 0 .. NUM_BLOCKS - 1
  <2>1. m \in 0 .. NUM_BLOCKS - 1
    BY <1>3, ReachedShort
  <2> QED
    BY <1>3, <2>1
<1>11. ASSUME NEW k \in 0 .. m
       PROVE  Reached(s)'[k] = Reached(s)[k]
  <2>1. \A l \in 0 .. m - 1 : l \in 0 .. NUM_BLOCKS /\ l # m
    BY <1>3
  <2>2. \A l \in 0 .. m - 1 : Reached(s)[l] \in Blocks => Reached(s)[l] # block
    BY <1>3, <2>1, ReachedApart
  <2>3. \A l \in 0 .. m - 1 :
          Reached(s)[l] \in Blocks => fat_table'[Reached(s)[l]] = fat_table[Reached(s)[l]]
    BY <1>3, <1>5, <1>8, <2>1, <2>2
  <2>4. \A l \in 0 .. m : Walk(fat_table', HeadOf(s))[l] = Walk(fat_table, HeadOf(s))[l]
    BY <2>3, WalkSame DEF Reached
  <2> QED
    BY <1>2, <1>3, <1>7, <2>4 DEF Reached
<1>12. Reached(s)'[m + 1] = t
  <2>1. Reached(s)'[m] = block
    BY <1>3, <1>11
  <2>2. Reached(s)'[m + 1] = fat_table'[block]
    BY <1>3, <1>10, <2>1, WalkSteps DEF Reached
  <2> QED
    BY <1>3, <1>4, <1>5, <2>2
<1> QED
  BY <1>1, <1>3, <1>6, <1>9, <1>10, <1>11, <1>12

(* write_file: the new block comes behind the last one of the file.        *)
LEMMA WriteBlocks ==
  ASSUME NamedTypes, LiveInv, Structure, NamedBlocks, OnItsChain, WriteBlock,
         taint' \cap {"zero", "relink"} = {}
  PROVE  NamedBlocks'
<1>1. PICK t \in Blocks :
        /\ FirstFree(t)
        /\ fat_table' = [fat_table EXCEPT ![block] = t, ![t] = EOC]
        /\ block' = t
        /\ taint' = taint \cup LinkEvents(block, t)
  BY DEF WriteBlock
<1>2. cmd = "write" /\ "zero" \notin taint /\ UNCHANGED slot
  BY <1>1 DEF WriteBlock
<1>0. PICK s \in Live : s = slot
  BY <1>2 DEF LiveInv
<1>3. PICK m \in 0 .. NUM_BLOCKS : Reached(s)[m] = block
  BY <1>0, <1>2, ChainFacts DEF OnItsChain
<1>4. /\ s \in Live /\ Live' = Live /\ block \in Blocks
      /\ m + 1 \in 0 .. NUM_BLOCKS
      /\ Reached(s)'[m + 1] = t
      /\ \A k \in 0 .. m : Reached(s)'[k] = Reached(s)[k]
      /\ \A i \in Live \ {s}, k \in 0 .. NUM_BLOCKS : Reached(i)'[k] = Reached(i)[k]
  BY <1>0, <1>1, <1>3, WriteWalks
<1>5. fat_table[block] \notin Blocks
  BY <1>1 DEF LinkEvents
<1> SUFFICES ASSUME NEW b \in Blocks, fat_table'[b] # FREE
             PROVE  \E i \in Live' : (b \in Chain(i))'
  BY DEF NamedBlocks
<1>6. CASE b = t
  BY <1>4, <1>6, ChainNext
<1>7. CASE b # t
  <2>1. fat_table[b] # FREE
    <3>1. b # block => fat_table'[b] = fat_table[b]
      BY <1>1, <1>7 DEF NamedTypes
    <3>2. fat_table[block] # FREE
      BY <1>3, <1>4, ReachedAllocated
    <3> QED
      BY <3>1, <3>2
  <2>2. PICK i \in Live : b \in Chain(i)
    BY <1>1, <2>1 DEF NamedBlocks
  <2>3. PICK k \in 0 .. NUM_BLOCKS : Reached(i)[k] = b
    BY <2>2, ChainFacts
  <2>4. i = s => k \in 0 .. m
    <3> SUFFICES ASSUME i = s, k \notin 0 .. m
                 PROVE  FALSE
      OBVIOUS
    <3>1. m + 1 \in 0 .. k /\ m \in 0 .. NUM_BLOCKS - 1
      BY <1>4, Constants
    <3>2. Reached(s)[m + 1] \in Blocks
      BY <2>3, <3>1, WalkBack DEF Reached
    <3>3. fat_table[block] \in Blocks
      BY <1>3, <1>4, <3>1, <3>2, ReachedLinked
    <3> QED
      BY <1>5, <3>3
  <2>5. Reached(i)'[k] = b
    BY <1>4, <2>3, <2>4
  <2> QED
    BY <1>4, <2>5, ChainNext
<1> QED
  BY <1>6, <1>7

(* delete_file: what comes behind the freed block is still reached from its *)
(* successor.                                                              *)
LEMMA DeleteBlocks ==
  ASSUME NamedTypes, LiveInv, Structure, NamedBlocks, DeleteBlock, taint \cap {"zero", "relink"} = {}
  PROVE  NamedBlocks'
<1>1. /\ cmd = "delete" /\ block \in Blocks
      /\ block' = fat_table[block]
      /\ fat_table' = [fat_table EXCEPT ![block] = FREE]
      /\ UNCHANGED <<directory, cmd, slot>>
  BY DEF DeleteBlock, NamedTypes
<1>2. PICK s \in Live : s = slot /\ Live' = Live
  BY <1>1 DEF LiveInv, Live
<1>3. HeadOf(s) = block /\ HeadOf(s)' = fat_table[block]
  BY <1>1, <1>2 DEF HeadOf
<1>4. \A i \in Live : i # s => HeadOf(i)' = HeadOf(i)
  BY <1>1, <1>2 DEF HeadOf
<1>5. \A c \in Blocks : fat_table'[c] = IF c = block THEN FREE ELSE fat_table[c]
  BY <1>1 DEF NamedTypes
<1>6. /\ NUM_BLOCKS \in 0 .. NUM_BLOCKS /\ 0 \in 0 .. NUM_BLOCKS
      /\ 0 .. NUM_BLOCKS - 1 \subseteq 0 .. NUM_BLOCKS
      /\ \A k \in 1 .. NUM_BLOCKS : k \in 0 .. NUM_BLOCKS /\ k # 0
      /\ \A k \in 0 .. NUM_BLOCKS : k # 0 => k - 1 \in 0 .. NUM_BLOCKS - 1 /\ k - 1 + 1 = k
  BY Constants
<1>7. Reached(s)[0] = block
  BY <1>3, WalkSteps DEF Reached
<1>8. ASSUME NEW i \in Live, NEW k \in 0 .. NUM_BLOCKS, Reached(i)[k] \in Blocks,
             Reached(i)[k] # block
      PROVE  \E l \in 0 .. NUM_BLOCKS : Reached(i)'[l] = Reached(i)[k]
  <2>1. CASE i # s
    <3>1. \A l \in 0 .. NUM_BLOCKS : Reached(i)[l] \in Blocks => Reached(i)[l] # block
      BY <1>2, <1>6, <1>7, <2>1, ReachedApart
    <3>2. \A l \in 0 .. NUM_BLOCKS - 1 :
            Reached(i)[l] \in Blocks => fat_table'[Reached(i)[l]] = fat_table[Reached(i)[l]]
      BY <1>5, <1>6, <3>1
    <3>3. \A l \in 0 .. NUM_BLOCKS : Walk(fat_table', HeadOf(i))[l] = Walk(fat_table, HeadOf(i))[l]
      BY <1>6, <3>2, WalkSame DEF Reached
    <3> QED
      BY <1>4, <2>1, <3>3 DEF Reached
  <2>2. CASE i = s
    <3>1. k # 0
      BY <1>7, <1>8, <2>2
    <3>2. \A l \in 1 .. NUM_BLOCKS : Reached(s)[l] \in Blocks => Reached(s)[l] # block
      BY <1>1, <1>2, <1>6, <1>7, ReachedApart
    <3>3. PICK c, F, G : c \in Blocks /\ c = block /\ F = fat_table /\ G = fat_table'
      BY <1>1
    <3>4. \A l \in 0 .. NUM_BLOCKS - 1 : Walk(G, F[c])[l] = Walk(F, c)[l + 1]
      <4>1. \A l \in 1 .. NUM_BLOCKS : Walk(F, c)[l] \in Blocks => G[Walk(F, c)[l]] = F[Walk(F, c)[l]]
        BY <1>3, <1>5, <3>2, <3>3 DEF Reached
      <4>2. c \in Blocks
        BY <3>3
      <4> QED
        BY ONLY <4>1, <4>2, WalkTail
    <3>5. \A l \in 0 .. NUM_BLOCKS - 1 : Reached(s)'[l] = Reached(s)[l + 1]
      BY <1>3, <3>3, <3>4 DEF Reached
    <3> QED
      BY <1>6, <2>2, <3>1, <3>5
  <2> QED
    BY <2>1, <2>2
<1>9. \A b \in Blocks : fat_table'[b] # FREE => b # block /\ fat_table[b] # FREE
  BY <1>5
<1> QED
  BY <1>2, <1>8, <1>9, KeptBlocks

(* Where a delete neither runs nor removes, the chains begin where they did. *)
LEMMA HeadsStay ==
  ASSUME LiveInv, cmd # "delete", cmd' # "delete" \/ slot' \in Live,
         cmd' = "delete" => block' = directory'[slot'].start_block,
         Live' = Live, \A i \in Live : directory'[i].start_block = directory[i].start_block
  PROVE  \A i \in Live : i \in Live' /\ HeadOf(i)' = HeadOf(i)
BY DEF HeadOf

(* A command that finds a file stands on its first block.                  *)
LEMMA EnterBlocks ==
  ASSUME NEW n \in Names, NEW c \in {"write", "read", "delete"},
         NEW amount \in [Slot -> Nat], NamedTypes, LiveInv, NamedBlocks, Enter(n, c, amount)
  PROVE  NamedBlocks' /\ OnItsChain'
<1>1. PICK i \in Slot : /\ FirstSlot(i, n)
                        /\ slot' = i
                        /\ block' = directory[i].start_block
  BY DEF Enter
<1>2. /\ cmd = "idle" /\ cmd' = c
      /\ UNCHANGED <<fat_table, directory, taint>>
  BY Constants DEF Enter, disk
<1>3. i \in Live /\ Live' = Live
  BY <1>1, <1>2, Constants DEF FirstSlot, Live
<1>4. \A k \in Live : k \in Live' /\ HeadOf(k)' = HeadOf(k)
  BY <1>1, <1>2, <1>3, HeadsStay
<1>5. NamedBlocks'
  BY <1>2, <1>4, FrameBlocks
<1>6. ASSUME cmd' = "write"
      PROVE  (block \in Chain(slot))'
  <2>1. HeadOf(i)' = directory[i].start_block /\ directory[i].start_block \in Blocks
    BY <1>2, <1>3, <1>6 DEF HeadOf, LiveInv
  <2>2. Reached(i)'[0] = directory[i].start_block /\ 0 \in 0 .. NUM_BLOCKS
    BY <2>1, WalkSteps, Constants DEF Reached
  <2>3. (directory[i].start_block \in Chain(i))'
    <3>1. PICK b \in Blocks : b = directory[i].start_block
      BY <2>1
    <3>2. (b \in Chain(i))'
      BY <2>2, <3>1, ChainNext
    <3> QED
      BY <1>2, <3>1, <3>2
  <2> QED
    BY <1>1, <1>2, <2>3
<1> QED
  BY <1>5, <1>6 DEF OnItsChain

(* Every step keeps the blocks, and a write on the chain of its file.      *)
LEMMA BlocksStep ==
  ASSUME NamedTypes, LiveInv, "zero" \notin taint => ChainInv, NamedBlocks, OnItsChain, [NamedNext]_vars
  PROVE  NamedBlocks' /\ OnItsChain'
<1>1. "zero" \notin taint => Structure
  BY DEF ChainInv, Structure
<1>2. taint \subseteq taint'
  BY DEF NamedNext, NamedCommand, Step, vars, CreateFile, Refused, Enter,
     StartWrite, StartRead, StartDelete, WriteBlock, WriteNoSpace, WriteLast,
     ReadBlock, ReadDone, ReadFault, DeleteBlock, DeleteSlot
<1>3. ASSUME NEW n \in Names, CreateFile(n)
      PROVE  NamedBlocks' /\ OnItsChain'
  <2>1. cmd' # "write"
    BY <1>3 DEF CreateFile
  <2>2. ASSUME taint' \cap {"zero", "relink"} = {}
        PROVE  NamedBlocks'
    BY <1>1, <1>2, <1>3, <2>2, CreateBlocks
  <2> QED
    BY <2>1, <2>2 DEF OnItsChain, NamedBlocks
<1>4. ASSUME UNCHANGED <<fat_table, directory, cmd, slot, block, taint>>
      PROVE  NamedBlocks' /\ OnItsChain'
  <2>1. Live' = Live /\ \A i \in Live : HeadOf(i)' = HeadOf(i)
    BY <1>4 DEF Live, HeadOf
  <2>2. NamedBlocks'
    BY <1>4, <2>1, FrameBlocks
  <2> QED
    BY <1>4, <2>2 DEF OnItsChain, Chain, HeadOf
<1>5. ASSUME Refused
      PROVE  NamedBlocks' /\ OnItsChain'
  BY <1>4, <1>5 DEF Refused, disk, loop
<1>6. ASSUME NEW n \in Names, NEW len \in 0..MAX_DATA, StartWrite(n, len)
      PROVE  NamedBlocks' /\ OnItsChain'
  <2>1. [i \in Slot |-> len] \in [Slot -> Nat]
    BY Constants
  <2> QED BY <2>1, <1>6, EnterBlocks DEF StartWrite
<1>7. ASSUME NEW n \in Names, StartRead(n)
      PROVE  NamedBlocks' /\ OnItsChain'
  <2>1. [i \in Slot |-> directory[i].size] \in [Slot -> Nat]
    BY DEF NamedTypes, Entry
  <2> QED BY <2>1, <1>7, EnterBlocks DEF StartRead
<1>8. ASSUME NEW n \in Names, StartDelete(n)
      PROVE  NamedBlocks' /\ OnItsChain'
  <2>1. [i \in Slot |-> 0] \in [Slot -> Nat]
    OBVIOUS
  <2> QED BY <2>1, <1>8, EnterBlocks DEF StartDelete
<1>9. CASE WriteBlock
  <2>1. ASSUME taint' \cap {"zero", "relink"} = {}
        PROVE  NamedBlocks'
    BY <1>1, <1>2, <1>9, <2>1, WriteBlocks
  <2>2. ASSUME "zero" \notin taint'
        PROVE  (block \in Chain(slot))'
    <3>1. /\ Structure /\ block \in Chain(slot)
          /\ UNCHANGED slot /\ block' \in Blocks
      BY <1>1, <1>2, <1>9, <2>2 DEF OnItsChain, WriteBlock
    <3>2. PICK s, c : s = slot /\ s = slot' /\ c = block'
      BY <3>1
    <3>3. PICK m \in 0 .. NUM_BLOCKS : Reached(s)[m] = block
      BY <3>1, <3>2, ChainFacts
    <3>4. m + 1 \in 0 .. NUM_BLOCKS /\ Reached(s)'[m + 1] = c
      BY <1>9, <3>1, <3>2, <3>3, WriteWalks
    <3>5. (c \in Chain(s))'
      BY <3>1, <3>2, <3>4, ChainNext
    <3> QED
      BY <3>2, <3>5 DEF Chain, HeadOf
  <2> QED
    BY <2>1, <2>2 DEF NamedBlocks, OnItsChain
<1>10. CASE WriteNoSpace \/ WriteLast
  <2>1. cmd = "write" /\ FillBlock /\ Return /\ UNCHANGED <<fat_table, taint>>
    BY <1>10 DEF WriteNoSpace, WriteLast
  <2>2. /\ Live' = Live /\ cmd' = "idle"
        /\ \A k \in Live : directory'[k].start_block = directory[k].start_block
    BY <2>1, FillFrame DEF Return
  <2>3. \A i \in Live : i \in Live' /\ HeadOf(i)' = HeadOf(i)
    BY <2>1, <2>2, HeadsStay
  <2> QED
    BY <2>1, <2>2, <2>3, FrameBlocks DEF OnItsChain
<1>11. CASE ReadBlock \/ ReadDone \/ ReadFault
  <2>1. /\ cmd = "read" /\ cmd' \in {"read", "idle"}
        /\ UNCHANGED <<fat_table, directory, taint>>
    BY <1>11 DEF ReadBlock, ReadDone, ReadFault, Return, disk
  <2>2. Live' = Live
    BY <2>1 DEF Live
  <2>3. \A i \in Live : i \in Live' /\ HeadOf(i)' = HeadOf(i)
    BY <2>1, <2>2, HeadsStay
  <2> QED
    BY <2>1, <2>3, FrameBlocks DEF OnItsChain
<1>12. CASE DeleteBlock
  <2>1. cmd' = "delete" /\ taint' = taint
    BY <1>12 DEF DeleteBlock
  <2>2. ASSUME taint' \cap {"zero", "relink"} = {}
        PROVE  NamedBlocks'
    BY <1>1, <1>12, <2>1, <2>2, DeleteBlocks
  <2> QED
    BY <2>1, <2>2 DEF OnItsChain, NamedBlocks
<1>13. CASE DeleteSlot
  <2>1. /\ cmd = "delete" /\ cmd' = "idle" /\ block \notin Blocks
        /\ directory' = [directory EXCEPT ![slot] =
              [filename |-> NoName, start_block |-> EOC, size |-> 0]]
        /\ UNCHANGED <<fat_table, taint>>
    BY <1>13, Constants DEF DeleteSlot, Return
  <2>2. \A i \in Live : i # slot => i \in Live' /\ HeadOf(i)' = HeadOf(i)
    BY <2>1 DEF Live, NamedTypes, HeadOf
  <2>3. HeadOf(slot) \notin Blocks
    BY <2>1 DEF HeadOf
  <2>4. \A i \in Live : (i \in Live' /\ HeadOf(i)' = HeadOf(i)) \/ HeadOf(i) \notin Blocks
    BY <2>2, <2>3
  <2> QED
    BY <2>1, <2>4, FrameBlocks DEF OnItsChain
<1>14. CASE UNCHANGED vars
  BY <1>4, <1>14 DEF vars
<1> QED
  BY <1>3, <1>5, <1>6, <1>7, <1>8, <1>9, <1>10, <1>11, <1>12, <1>13, <1>14
     DEF NamedNext, NamedCommand, Step

(* Every allocated block belongs to the chain of a file that exists, at    *)
(* every step of every command, as long as write_file has neither linked a *)
(* block to block 0 nor replaced a link, and no unused slot was taken for  *)
(* a file.                                                                 *)
THEOREM BlocksKept == Spec => []NoLostBlocks
<1> DEFINE BlocksInv == "unnamed" \notin taint => NamedBlocks /\ OnItsChain
<1>1. Init => BlocksInv
  BY DEF Init, NamedBlocks, OnItsChain
<1>2. NamedInv /\ BlocksInv /\ [Next]_vars => BlocksInv'
  BY Named, BlocksStep DEF NamedInv, NamedIntegrity
<1>3. BlocksInv => NoLostBlocks
  BY DEF NamedBlocks, NoLostBlocks
<1> HIDE DEF BlocksInv
<1> QED
  BY <1>1, <1>2, <1>3, Inductive, PTL DEF Spec

---------------------------------------------------------------------------
(* What a reader sees.                                                     *)

(* The block a position is in, and its place there.                        *)
LEMMA Quotient ==
  ASSUME NEW m \in Nat
  PROVE  /\ m \div BLOCK_SIZE \in Nat /\ m % BLOCK_SIZE \in 0 .. BLOCK_SIZE - 1
         /\ m = (m \div BLOCK_SIZE) * BLOCK_SIZE + (m % BLOCK_SIZE)
         /\ (m \div BLOCK_SIZE) * BLOCK_SIZE \in Nat
<1>1. BLOCK_SIZE \in Nat \ {0}
  BY Constants
<1>2. m \div BLOCK_SIZE \in Nat /\ m % BLOCK_SIZE \in 0 .. BLOCK_SIZE - 1
  BY <1>1
<1>3. m % BLOCK_SIZE = m - BLOCK_SIZE * (m \div BLOCK_SIZE)
  BY <1>1
<1>4. BLOCK_SIZE * (m \div BLOCK_SIZE) = (m \div BLOCK_SIZE) * BLOCK_SIZE
  BY <1>1, <1>2
<1>5. (m \div BLOCK_SIZE) * BLOCK_SIZE \in Nat
  BY <1>1, <1>2
<1> QED
  BY <1>1, <1>2, <1>3, <1>4, <1>5

(* A position in front of byte l of block k is in a block before k, or in  *)
(* block k in front of byte l.                                             *)
LEMMA Before ==
  ASSUME NEW m \in Nat, NEW k \in Nat, NEW l \in 0 .. BLOCK_SIZE, m < k * BLOCK_SIZE + l
  PROVE  /\ m \div BLOCK_SIZE <= k
         /\ m \div BLOCK_SIZE = k => m % BLOCK_SIZE < l
<1> DEFINE q == m \div BLOCK_SIZE
<1>1. BLOCK_SIZE \in Nat \ {0} /\ q \in Nat /\ l \in Nat /\ l <= BLOCK_SIZE
  BY Constants, Quotient
<1>2. q * BLOCK_SIZE \in Nat /\ m % BLOCK_SIZE \in Nat /\ m = q * BLOCK_SIZE + (m % BLOCK_SIZE)
  BY Quotient
<1>3. k * BLOCK_SIZE \in Nat
  BY <1>1
<1> HIDE DEF q
<1>4. q > k => q * BLOCK_SIZE >= k * BLOCK_SIZE + BLOCK_SIZE
  BY <1>1
<1>5. q <= k
  BY <1>1, <1>2, <1>3, <1>4
<1>6. q = k => m % BLOCK_SIZE < l
  <2>1. q = k => q * BLOCK_SIZE = k * BLOCK_SIZE
    OBVIOUS
  <2> QED
    BY <1>1, <1>2, <1>3, <2>1
<1> QED
  BY <1>5, <1>6 DEF q

(* The place r of block k.                                                 *)
LEMMA At ==
  ASSUME NEW k \in Nat, NEW r \in 0 .. BLOCK_SIZE - 1
  PROVE  (k * BLOCK_SIZE + r) \div BLOCK_SIZE = k /\ (k * BLOCK_SIZE + r) % BLOCK_SIZE = r
<1>1. BLOCK_SIZE \in Nat \ {0}
  BY Constants
<1> QED
  BY <1>1

(* Byte p of a block, the bytes of a file and how they depend on the walk  *)
(* through its blocks and on what these hold.                              *)
ByteIn(data, b, p) == IF b \in Blocks /\ p <= Len(data[b]) THEN data[b][p] ELSE NoName
Bytes(w, data, size) ==
  [p \in 1 .. size |->
     IF (p - 1) \div BLOCK_SIZE <= NUM_BLOCKS
       THEN ByteIn(data, w[(p - 1) \div BLOCK_SIZE], 1 + ((p - 1) % BLOCK_SIZE))
       ELSE NoName]

(* What a reader of slot i gets, and gets after a step.                    *)
LEMMA ContentBytes ==
  ASSUME NEW i
  PROVE  Content(i) = Bytes(Walk(fat_table, directory[i].start_block), data_area, directory[i].size)
BY DEF Content, Bytes, Byte, ByteIn

LEMMA ContentNext ==
  ASSUME NEW i
  PROVE  Content(i)' = Bytes(Walk(fat_table', directory'[i].start_block), data_area', directory'[i].size)
BY DEF Content, Bytes, Byte, ByteIn

(* Bytes behind the end of a file in its last block are not read.          *)
LEMMA BytesSame ==
  ASSUME NEW w, NEW v, NEW data, NEW new, NEW k \in 0 .. NUM_BLOCKS, NEW l \in 0 .. BLOCK_SIZE,
         \A q \in 0 .. k : v[q] = w[q],
         \A q \in 0 .. k, p \in 1 .. BLOCK_SIZE :
           (q = k => p <= l) => ByteIn(new, w[q], p) = ByteIn(data, w[q], p),
         NEW size \in Nat, size = k * BLOCK_SIZE + l
  PROVE  Bytes(v, new, size) = Bytes(w, data, size)
<1> SUFFICES ASSUME NEW p \in 1 .. size
             PROVE  LET q == (p - 1) \div BLOCK_SIZE
                        r == 1 + ((p - 1) % BLOCK_SIZE)
                    IN  ByteIn(new, v[q], r) = ByteIn(data, w[q], r)
  BY DEF Bytes
<1>1. p - 1 \in Nat /\ p - 1 < size /\ k \in Nat /\ NUM_BLOCKS \in Nat /\ BLOCK_SIZE \in Nat
  BY Constants
<1> DEFINE q == (p - 1) \div BLOCK_SIZE
           r == (p - 1) % BLOCK_SIZE
<1>2. /\ q <= k /\ (q = k => r < l) /\ q \in Nat /\ r \in 0 .. BLOCK_SIZE - 1
  BY <1>1, Before, Quotient
<1> HIDE DEF q, r
<1>3. q \in 0 .. k /\ 1 + r \in 1 .. BLOCK_SIZE /\ (q = k => 1 + r <= l)
  BY <1>1, <1>2
<1>4. ByteIn(new, v[q], 1 + r) = ByteIn(data, w[q], 1 + r)
  BY <1>3
<1> QED
  BY <1>4 DEF q, r

(* Way and data change from w and data to v and new: n bytes x come behind *)
(* the first l bytes of block k, the last one of a file of size bytes,     *)
(* which makes it total bytes long.                                        *)
Appended(w, v, data, new, k, l, n, x, size, total, more) ==
  /\ k \in 0 .. NUM_BLOCKS /\ l \in 0 .. BLOCK_SIZE /\ n \in Nat /\ l + n <= BLOCK_SIZE
  /\ size \in Nat /\ size = k * BLOCK_SIZE + l /\ total = size + n
  /\ \A q \in 0 .. k : v[q] = w[q]
  /\ \A q \in 0 .. k, p \in 1 .. BLOCK_SIZE :
       (q = k => p <= l) => ByteIn(new, w[q], p) = ByteIn(data, w[q], p)
  /\ \A p \in 1 .. n : ByteIn(new, w[k], l + p) = x
  /\ more \in Seq({x}) /\ Len(more) = n

(* Bytes appended to the last block are appended to the file.              *)
LEMMA BytesGrow ==
  ASSUME NEW w, NEW v, NEW data, NEW new, NEW k, NEW l, NEW n, NEW x, NEW size, NEW total, NEW more,
         Appended(w, v, data, new, k, l, n, x, size, total, more)
  PROVE  Bytes(v, new, total) = Bytes(w, data, size) \o more
<1> DEFINE old == Bytes(w, data, size)
           all == Bytes(v, new, total)
<1>0. /\ k \in 0 .. NUM_BLOCKS /\ l \in 0 .. BLOCK_SIZE /\ n \in Nat /\ size \in Nat
      /\ more \in Seq({x}) /\ Len(more) = n
      /\ size = k * BLOCK_SIZE + l /\ l + n <= BLOCK_SIZE /\ total = size + n
  BY DEF Appended
<1>1. k \in Nat /\ NUM_BLOCKS \in Nat /\ BLOCK_SIZE \in Nat /\ k <= NUM_BLOCKS
      /\ k * BLOCK_SIZE \in Nat /\ l \in Nat
  BY <1>0, Constants
<1>2. Len(old) = size /\ Len(more) = n /\ \A p \in 1 .. n : more[p] = x
  BY <1>0 DEF Bytes
<1>3. all = [p \in 1 .. size + n |-> all[p]]
  BY <1>0 DEF Bytes
<1>4. ASSUME NEW p \in 1 .. size
      PROVE  all[p] = old[p]
  <2>1. Bytes(v, new, size) = old
    BY <1>0, BytesSame DEF Appended
  <2>2. p \in 1 .. size + n
    BY <1>0
  <2>3. all[p] = Bytes(v, new, size)[p]
    BY <1>0, <2>2 DEF Bytes
  <2> QED
    BY <2>1, <2>3
<1>5. ASSUME NEW p \in 1 .. n
      PROVE  all[size + p] = x
  <2>1. /\ size + p \in 1 .. size + n
        /\ size + p - 1 = k * BLOCK_SIZE + (l + p - 1)
        /\ l + p - 1 \in 0 .. BLOCK_SIZE - 1
    BY <1>0, <1>1
  <2>2. (size + p - 1) \div BLOCK_SIZE = k /\ (size + p - 1) % BLOCK_SIZE = l + p - 1
    <3>1. k \in Nat
      BY <1>1
    <3>2. PICK r \in 0 .. BLOCK_SIZE - 1 : r = l + p - 1
      BY <2>1
    <3>3. (k * BLOCK_SIZE + r) \div BLOCK_SIZE = k /\ (k * BLOCK_SIZE + r) % BLOCK_SIZE = r
      BY <3>1, At
    <3> QED
      BY <2>1, <3>2, <3>3
  <2>3. all[size + p] = ByteIn(new, v[k], 1 + (l + p - 1))
    BY <1>0, <1>1, <2>1, <2>2 DEF Bytes
  <2>4. 1 + (l + p - 1) = l + p /\ k \in 0 .. k
    BY <1>0, <1>1
  <2> QED
    BY <2>3, <2>4 DEF Appended
<1> HIDE DEF old, all
<1>6. old \o more = [p \in 1 .. size + n |-> IF p <= size THEN old[p] ELSE more[p - size]]
  <2>1. more = [p \in 1 .. n |-> x]
    BY <1>0, <1>2
  <2>2. old = [p \in 1 .. size |-> old[p]]
    BY DEF old, Bytes
  <2> QED
    BY <1>0, <1>2, <2>1, <2>2, SMTT(30)
<1>7. ASSUME NEW p \in 1 .. size + n
      PROVE  all[p] = IF p <= size THEN old[p] ELSE more[p - size]
  <2>1. CASE p <= size
    BY <1>4, <2>1
  <2>2. CASE p > size
    <3>1. p - size \in 1 .. n /\ size + (p - size) = p
      BY <1>0, <2>2
    <3>2. PICK r \in 1 .. n : r = p - size
      BY <3>1
    <3>3. all[size + r] = x /\ more[r] = x /\ ~(p <= size)
      BY <1>0, <1>2, <1>5, <2>2
    <3> QED
      BY <3>1, <3>2, <3>3
  <2> QED
    BY <1>0, <2>1, <2>2
<1> QED
  BY <1>3, <1>6, <1>7 DEF old, all

(* The same blocks with the same bytes make the same file.                 *)
LEMMA BytesEqual ==
  ASSUME NEW w, NEW v, NEW data, NEW new, NEW size \in Nat,
         \A q \in 0 .. NUM_BLOCKS : v[q] = w[q],
         \A q \in 0 .. NUM_BLOCKS, p \in 1 .. BLOCK_SIZE : ByteIn(new, w[q], p) = ByteIn(data, w[q], p)
  PROVE  Bytes(v, new, size) = Bytes(w, data, size)
<1> SUFFICES ASSUME NEW p \in 1 .. size, (p - 1) \div BLOCK_SIZE <= NUM_BLOCKS
             PROVE  LET q == (p - 1) \div BLOCK_SIZE
                        r == 1 + ((p - 1) % BLOCK_SIZE)
                    IN  ByteIn(new, v[q], r) = ByteIn(data, w[q], r)
  BY DEF Bytes
<1>1. /\ (p - 1) \div BLOCK_SIZE \in 0 .. NUM_BLOCKS
      /\ 1 + ((p - 1) % BLOCK_SIZE) \in 1 .. BLOCK_SIZE
  <2>1. /\ p - 1 \in Nat /\ NUM_BLOCKS \in Nat /\ BLOCK_SIZE \in Nat
    BY Constants
  <2>2. (p - 1) \div BLOCK_SIZE \in Nat /\ (p - 1) % BLOCK_SIZE \in 0 .. BLOCK_SIZE - 1
    BY <2>1, Quotient
  <2> QED
    BY <2>1, <2>2
<1> QED
  BY <1>1

---------------------------------------------------------------------------
(* The files of the store, in terms of the slots.                          *)

Way(i) == Walk(fat_table, directory[i].start_block)

(* No two files have one name.                                             *)
NamesOnce ==
  \A i, t \in Live : directory[i].filename = directory[t].filename => i = t

(* A block with another one behind it is full, and a file is as long as    *)
(* the blocks that lead to its last one and what that one holds.           *)
LastBlock(i, k) ==
  /\ Way(i)[k] \in Blocks /\ fat_table[Way(i)[k]] \notin Blocks
  /\ directory[i].size = k * BLOCK_SIZE + Len(data_area[Way(i)[k]])
FullBlocks == \A b \in Blocks : Linked(b) => Len(data_area[b]) = BLOCK_SIZE
Contents ==
  taint = {} => FullBlocks /\ \A i \in Visible : \E k \in 0 .. NUM_BLOCKS : LastBlock(i, k)

(* The reader's view, slot by slot, now and after a step.                  *)
LEMMA View ==
  ASSUME NamesOnce
  PROVE  /\ FilesView = [n \in DOMAIN FilesView |-> FilesView[n]]
         /\ DOMAIN FilesView = {directory[i].filename : i \in Visible}
         /\ \A i \in Visible : FilesView[directory[i].filename] = Content(i)
<1>1. Visible \subseteq Live
  BY DEF Visible
<1>2. \A i \in Visible :
        (CHOOSE t \in Visible : directory[t].filename = directory[i].filename) = i
  BY <1>1 DEF NamesOnce
<1>3. /\ FilesView = [n \in DOMAIN FilesView |-> FilesView[n]]
      /\ DOMAIN FilesView = {directory[i].filename : i \in Visible}
  BY DEF FilesView
<1>4. ASSUME NEW i \in Visible
      PROVE  FilesView[directory[i].filename] = Content(i)
  <2>1. FilesView[directory[i].filename] =
          Content(CHOOSE t \in Visible : directory[t].filename = directory[i].filename)
    BY DEF FilesView
  <2> QED
    BY <1>2, <2>1
<1> QED
  BY <1>3, <1>4

LEMMA ViewNext ==
  ASSUME NamesOnce'
  PROVE  /\ FilesView' = [n \in DOMAIN FilesView' |-> FilesView'[n]]
         /\ DOMAIN FilesView' = {directory'[i].filename : i \in Visible'}
         /\ \A i \in Visible' : FilesView'[directory'[i].filename] = Content(i)'
<1>1. Visible' \subseteq Live'
  BY DEF Visible
<1>2. \A i \in Visible' :
        (CHOOSE t \in Visible' : directory'[t].filename = directory'[i].filename) = i
  BY <1>1 DEF NamesOnce
<1> QED
  BY <1>2 DEF FilesView

(* No file a reader sees has changed.                                      *)
LEMMA SameFiles ==
  ASSUME NamesOnce, NamesOnce', Visible' = Visible,
         \A i \in Visible : directory'[i].filename = directory[i].filename /\ Content(i)' = Content(i)
  PROVE  FilesView' = FilesView
<1> DEFINE old == FilesView
           new == FilesView'
<1>1. /\ old = [n \in DOMAIN old |-> old[n]] /\ new = [n \in DOMAIN new |-> new[n]]
      /\ DOMAIN old = {directory[i].filename : i \in Visible}
      /\ DOMAIN new = {directory[i].filename : i \in Visible}
      /\ \A i \in Visible : /\ old[directory[i].filename] = Content(i)
                            /\ new[directory[i].filename] = Content(i)
  BY View, ViewNext
<1> HIDE DEF old, new
<1>2. \A n \in DOMAIN old : new[n] = old[n]
  BY <1>1
<1> QED
  BY <1>1, <1>2 DEF old, new

(* One more file, and it is empty.                                         *)
LEMMA CreatedFile ==
  ASSUME NamesOnce, NamesOnce', NEW s, s \notin Visible, Visible' = Visible \cup {s},
         \A i \in Visible : directory'[i].filename = directory[i].filename /\ Content(i)' = Content(i),
         \A i \in Visible : directory[i].filename # directory'[s].filename, Content(s)' = <<>>
  PROVE  Store!Create(directory'[s].filename)
<1> DEFINE old == FilesView
           new == FilesView'
           x == directory'[s].filename
<1>1. /\ new = [n \in DOMAIN new |-> new[n]]
      /\ DOMAIN old = {directory[i].filename : i \in Visible}
      /\ DOMAIN new = {directory'[i].filename : i \in Visible'}
      /\ \A i \in Visible : old[directory[i].filename] = Content(i)
      /\ \A i \in Visible' : new[directory'[i].filename] = Content(i)'
  BY View, ViewNext
<1> HIDE DEF old, new
<1>2. x \notin DOMAIN old /\ DOMAIN new = DOMAIN old \cup {x}
  BY <1>1
<1>3. new[x] = <<>> /\ \A n \in DOMAIN old : new[n] = old[n]
  BY <1>1
<1>4. new = [n \in DOMAIN old \cup {x} |-> IF n = x THEN <<>> ELSE old[n]]
  <2>1. \A n \in DOMAIN old \cup {x} : new[n] = IF n = x THEN <<>> ELSE old[n]
    BY <1>2, <1>3
  <2> QED
    BY <1>1, <1>2, <2>1
<1> QED
  BY <1>2, <1>4 DEF Store!Create, old, new

(* One file less.                                                          *)
LEMMA RemovedFile ==
  ASSUME NamesOnce, NamesOnce', NEW s \in Visible, Visible' = Visible \ {s},
         \A i \in Visible : directory'[i].filename = directory[i].filename /\ Content(i)' = Content(i)
  PROVE  Store!Remove(directory[s].filename)
<1> DEFINE old == FilesView
           new == FilesView'
           x == directory[s].filename
<1>1. /\ new = [n \in DOMAIN new |-> new[n]]
      /\ DOMAIN old = {directory[i].filename : i \in Visible}
      /\ DOMAIN new = {directory[i].filename : i \in Visible'}
      /\ \A i \in Visible : old[directory[i].filename] = Content(i)
      /\ \A i \in Visible' : new[directory[i].filename] = Content(i)
  BY View, ViewNext
<1>2. \A i \in Visible' : directory[i].filename # x
  BY DEF NamesOnce, Visible
<1> HIDE DEF old, new
<1>3. x \in DOMAIN old /\ DOMAIN new = DOMAIN old \ {x}
  BY <1>1, <1>2
<1>4. \A n \in DOMAIN new : new[n] = old[n]
  BY <1>1
<1>5. new = [n \in DOMAIN old \ {x} |-> old[n]]
  BY <1>1, <1>3, <1>4
<1> QED
  BY <1>3, <1>5 DEF Store!Remove, old, new

(* One file has k more bytes of its own at its end.                        *)
LEMMA GrownFile ==
  ASSUME NamesOnce, NamesOnce', NEW s \in Visible, Visible' = Visible, NEW k \in Nat,
         \A i \in Visible : directory'[i].filename = directory[i].filename,
         \A i \in Visible \ {s} : Content(i)' = Content(i),
         Content(s)' = Content(s) \o [p \in 1 .. k |-> directory[s].filename]
  PROVE  Store!Grow(directory[s].filename, k)
<1> DEFINE old == FilesView
           new == FilesView'
           x == directory[s].filename
<1>1. /\ old = [n \in DOMAIN old |-> old[n]]
      /\ DOMAIN old = {directory[i].filename : i \in Visible}
      /\ \A i \in Visible : old[directory[i].filename] = Content(i)
  BY View
<1>0. /\ new = [n \in DOMAIN new |-> new[n]]
      /\ DOMAIN new = {directory[i].filename : i \in Visible}
      /\ \A i \in Visible : new[directory[i].filename] = Content(i)'
  <2>1. /\ new = [n \in DOMAIN new |-> new[n]]
        /\ DOMAIN new = {directory'[i].filename : i \in Visible'}
        /\ \A i \in Visible' : new[directory'[i].filename] = Content(i)'
    BY ViewNext
  <2> HIDE DEF new
  <2>2. {directory'[i].filename : i \in Visible'} = {directory[i].filename : i \in Visible}
    OBVIOUS
  <2>3. ASSUME NEW i \in Visible
        PROVE  new[directory[i].filename] = Content(i)'
    <3>1. i \in Visible' /\ directory'[i].filename = directory[i].filename
      OBVIOUS
    <3>2. new[directory'[i].filename] = Content(i)'
      BY <2>1, <3>1
    <3> QED
      BY <3>1, <3>2
  <2> QED
    BY <2>1, <2>2, <2>3
<1>2. \A i \in Visible \ {s} : directory[i].filename # x
  BY DEF NamesOnce, Visible
<1> HIDE DEF old, new
<1>3. x \in DOMAIN old /\ DOMAIN new = DOMAIN old
  BY <1>0, <1>1
<1>4. new[x] = old[x] \o [p \in 1 .. k |-> x]
  BY <1>0, <1>1
<1>5. \A n \in DOMAIN old : n # x => new[n] = old[n]
  BY <1>0, <1>1, <1>2
<1>6. new = [old EXCEPT ![x] = old[x] \o [p \in 1 .. k |-> x]]
  BY <1>0, <1>1, <1>3, <1>4, <1>5
<1> QED
  BY <1>3, <1>6 DEF Store!Grow, old, new

(* Every step keeps the names apart.                                       *)
LEMMA NamesStep ==
  ASSUME NamedTypes, LiveInv, NamesOnce, [NamedNext]_vars
  PROVE  NamesOnce'
<1>1. ASSUME NEW n \in Names, CreateFile(n)
      PROVE  NamesOnce'
  <2>1. PICK i \in Slot, b \in Blocks :
          /\ directory' = [directory EXCEPT ![i] =
                [filename |-> n, start_block |-> b, size |-> 0]]
    BY <1>1 DEF CreateFile
  <2>2. \A k \in Slot : directory[k].filename # n
    BY <1>1 DEF CreateFile, Missing
  <2>3. /\ directory'[i].filename = n
        /\ \A k \in Slot \ {i} : directory'[k] = directory[k]
    BY <2>1 DEF NamedTypes
  <2> QED
    BY <2>2, <2>3 DEF NamesOnce, Live
<1>2. ASSUME UNCHANGED directory
      PROVE  NamesOnce'
  BY <1>2 DEF NamesOnce, Live
<1>3. ASSUME cmd = "write", FillBlock
      PROVE  NamesOnce'
  <2>1. slot \in Live /\ block \in Blocks
    BY <1>3 DEF LiveInv
  <2>2. directory[slot].filename \in Names
    BY <2>1 DEF Live, NamedTypes, Entry
  <2>3. \A i \in Slot : directory'[i].filename = directory[i].filename
    BY <1>3, <2>1, <2>2, FillBlockTypes DEF NamedTypes
  <2> QED
    BY <2>3 DEF NamesOnce, Live
<1>4. CASE DeleteSlot
  <2>1. directory' = [directory EXCEPT ![slot] =
              [filename |-> NoName, start_block |-> EOC, size |-> 0]]
    BY <1>4 DEF DeleteSlot
  <2>2. \A i \in Live' : i \in Live /\ directory'[i] = directory[i]
    BY <2>1 DEF Live, NamedTypes
  <2> QED
    BY <2>2 DEF NamesOnce
<1> QED
  BY <1>1, <1>2, <1>3, <1>4 DEF NamedNext, NamedCommand, Step, vars, Refused, Enter,
     StartWrite, StartRead, StartDelete, WriteBlock, WriteNoSpace, WriteLast,
     ReadBlock, ReadDone, ReadFault, DeleteBlock, disk

(* A file that is seen is reached from its start block.                    *)
LEMMA VisibleWay ==
  ASSUME NEW i \in Visible
  PROVE  i \in Live /\ i \in Slot /\ Way(i) = Reached(i)
BY DEF Visible, Live, Way, Reached, HeadOf

(* A step that goes past the blocks of a file leaves the file alone.       *)
LEMMA OtherFile ==
  ASSUME NamedTypes, NEW i \in Slot, directory'[i] = directory[i],
         \A k \in 0 .. NUM_BLOCKS : Way(i)[k] \in Blocks =>
           /\ fat_table'[Way(i)[k]] = fat_table[Way(i)[k]]
           /\ data_area'[Way(i)[k]] = data_area[Way(i)[k]]
  PROVE  /\ Content(i)' = Content(i)
         /\ \A k \in 0 .. NUM_BLOCKS : LastBlock(i, k) => LastBlock(i, k)'
<1>1. NUM_BLOCKS \in 0 .. NUM_BLOCKS /\ 0 .. NUM_BLOCKS - 1 \subseteq 0 .. NUM_BLOCKS
  BY Constants
<1>2. \A k \in 0 .. NUM_BLOCKS - 1 :
        Way(i)[k] \in Blocks => fat_table'[Way(i)[k]] = fat_table[Way(i)[k]]
  BY <1>1
<1>3. \A k \in 0 .. NUM_BLOCKS :
        Walk(fat_table', directory[i].start_block)[k] = Walk(fat_table, directory[i].start_block)[k]
  BY <1>1, <1>2, WalkSame DEF Way
<1>4. \A k \in 0 .. NUM_BLOCKS : Way(i)'[k] = Way(i)[k]
  BY <1>3 DEF Way
<1>5. \A k \in 0 .. NUM_BLOCKS, p \in 1 .. BLOCK_SIZE :
        ByteIn(data_area', Way(i)[k], p) = ByteIn(data_area, Way(i)[k], p)
  BY DEF ByteIn
<1>6. directory[i].size \in Nat
  BY DEF NamedTypes, Entry
<1>7. Bytes(Way(i)', data_area', directory[i].size) = Bytes(Way(i), data_area, directory[i].size)
  BY <1>4, <1>5, <1>6, BytesEqual
<1>8. Content(i)' = Content(i)
  BY <1>7, ContentBytes, ContentNext DEF Way
<1>9. \A k \in 0 .. NUM_BLOCKS : LastBlock(i, k) => LastBlock(i, k)'
  BY <1>4 DEF LastBlock
<1> QED
  BY <1>8, <1>9

(* What FillBlock does to block b, which holds l bytes, and to slot s: n   *)
(* bytes x are added.                                                      *)
Filled(s, b, l, n, x) ==
  /\ s \in Live /\ s \in Slot /\ b \in Blocks /\ x \in Names
  /\ l \in 0 .. BLOCK_SIZE /\ n \in Nat /\ l + n <= BLOCK_SIZE
  /\ left > n => l + n = BLOCK_SIZE
  /\ Len(data_area'[b]) = l + n
  /\ \A c \in Blocks \ {b} : data_area'[c] = data_area[c]
  /\ \A p \in 1 .. l : ByteIn(data_area', b, p) = ByteIn(data_area, b, p)
  /\ \A p \in 1 .. n : ByteIn(data_area', b, l + p) = x
  /\ directory'[s].size = directory[s].size + n
  /\ directory'[s].filename = x /\ directory'[s].start_block = directory[s].start_block
  /\ \A i \in Slot \ {s} : directory'[i] = directory[i]
  /\ n = 0 => UNCHANGED <<data_area, directory>>

LEMMA FillBytes ==
  ASSUME NamedTypes, LiveInv, cmd = "write", FillBlock, NEW b, b = block, NEW s, s = slot,
         NEW l, l = Len(data_area[b]), NEW n, n = BytesToWrite, NEW x, x = directory[s].filename
  PROVE  Filled(s, b, l, n, x)
<1>1. s \in Live /\ s \in Slot /\ b \in Blocks /\ x \in Names
  BY DEF LiveInv, Live, NamedTypes, Entry
<1>2. /\ l \in Nat /\ l <= BLOCK_SIZE /\ left \in Nat /\ BLOCK_SIZE \in Nat
      /\ data_area[b] \in Seq(Names)
  BY <1>1, Constants DEF NamedTypes
<1>3. n = Least(left, BLOCK_SIZE - l)
  BY DEF BytesToWrite
<1>4. /\ n \in Nat /\ l + n <= BLOCK_SIZE
      /\ left > n => l + n = BLOCK_SIZE
  <2>1. n = IF left < BLOCK_SIZE - l THEN left ELSE BLOCK_SIZE - l
    BY <1>3 DEF Least
  <2>2. CASE left < BLOCK_SIZE - l
    BY <1>2, <2>1, <2>2
  <2>3. CASE ~(left < BLOCK_SIZE - l)
    BY <1>2, <2>1, <2>3
  <2> QED
    BY <2>2, <2>3
<1> DEFINE more == [k \in 1 .. n |-> x]
<1>5. data_area' = [data_area EXCEPT ![b] = data_area[b] \o more]
  BY DEF FillBlock
<1>6. more \in Seq(Names) /\ Len(more) = n /\ \A p \in 1 .. n : more[p] = x
  <2>1. more \in [1 .. n -> Names] /\ DOMAIN more = 1 .. n /\ \A p \in 1 .. n : more[p] = x
    BY <1>1
  <2> HIDE DEF more
  <2>2. more \in Seq(Names)
    BY <1>4, <2>1
  <2> QED
    BY <1>4, <2>1, <2>2
<1> HIDE DEF more
<1>7. /\ Len(data_area[b] \o more) = l + n
      /\ \A p \in 1 .. l : (data_area[b] \o more)[p] = data_area[b][p]
      /\ \A p \in 1 .. n : (data_area[b] \o more)[l + p] = more[p]
  BY <1>2, <1>4, <1>6
<1>8. /\ data_area'[b] = data_area[b] \o more
      /\ \A c \in Blocks \ {b} : data_area'[c] = data_area[c]
  BY <1>1, <1>5 DEF NamedTypes
<1>9. \A p \in 1 .. l : ByteIn(data_area', b, p) = ByteIn(data_area, b, p)
  BY <1>1, <1>2, <1>4, <1>7, <1>8 DEF ByteIn
<1>10. ASSUME NEW p \in 1 .. n
       PROVE  ByteIn(data_area', b, l + p) = x
  BY <1>1, <1>2, <1>4, <1>6, <1>7, <1>8 DEF ByteIn
<1>11. directory' = [directory EXCEPT ![s].size = directory[s].size + n]
  BY DEF FillBlock
<1>12. /\ directory'[s].size = directory[s].size + n
       /\ directory'[s].filename = x /\ directory'[s].start_block = directory[s].start_block
       /\ \A i \in Slot \ {s} : directory'[i] = directory[i]
  BY <1>1, <1>11 DEF NamedTypes, Entry
<1>13. ASSUME n = 0
       PROVE  UNCHANGED <<data_area, directory>>
  <2>1. data_area[b] \o more = data_area[b]
    BY <1>2, <1>6, <1>7, <1>13
  <2>2. data_area' = data_area
    BY <1>1, <1>5, <2>1 DEF NamedTypes
  <2>3. directory[s].size + n = directory[s].size
    BY <1>1, <1>13 DEF NamedTypes, Entry
  <2>4. directory' = directory
    BY <1>1, <1>11, <2>3 DEF NamedTypes, Entry
  <2> QED
    BY <2>2, <2>4
<1>14. l \in 0 .. BLOCK_SIZE /\ Len(data_area'[b]) = l + n
  BY <1>2, <1>7, <1>8
<1> QED
  BY <1>1, <1>4, <1>8, <1>9, <1>10, <1>12, <1>13, <1>14 DEF Filled

StoreStep == Store!Next \/ FilesView' = FilesView

(* create_file adds an empty file.                                         *)
LEMMA CreateStore ==
  ASSUME NEW n \in Names, NamedTypes, LiveInv, Structure, NamesOnce, NamesOnce', Contents,
         taint' = {}, CreateFile(n)
  PROVE  StoreStep /\ Contents'
<1>1. PICK i \in Slot, b \in Blocks :
        /\ FirstSlot(i, NoName)
        /\ FirstFree(b)
        /\ fat_table' = [fat_table EXCEPT ![b] = EOF]
        /\ directory' = [directory EXCEPT ![i] =
              [filename |-> n, start_block |-> b, size |-> 0]]
        /\ taint' = taint \cup (IF data_area[b] # <<>> THEN {"stale"} ELSE {})
  BY DEF CreateFile
<1>2. /\ cmd = "idle" /\ cmd' = "idle" /\ UNCHANGED data_area
      /\ \A k \in Slot : directory[k].filename # n
  BY DEF CreateFile, Missing
<1>3. taint = {} /\ data_area[b] = <<>>
  BY <1>1
<1>4. /\ \A c \in Blocks : fat_table'[c] = IF c = b THEN EOF ELSE fat_table[c]
      /\ \A k \in Slot \ {i} : directory'[k] = directory[k]
      /\ directory'[i].filename = n /\ directory'[i].size = 0 /\ directory'[i].start_block = b
  BY <1>1 DEF NamedTypes
<1>5. Visible' = Visible \cup {i} /\ i \notin Visible /\ Visible \subseteq Slot
  BY <1>1, <1>2, <1>4, Constants DEF FirstSlot, Visible, Live
<1>6. ASSUME NEW t \in Visible
      PROVE  /\ directory'[t] = directory[t] /\ Content(t)' = Content(t)
             /\ \A k \in 0 .. NUM_BLOCKS : LastBlock(t, k) => LastBlock(t, k)'
  <2>1. t \in Live /\ t \in Slot /\ Way(t) = Reached(t)
    BY VisibleWay
  <2>2. \A k \in 0 .. NUM_BLOCKS : Way(t)[k] \in Blocks => Way(t)[k] # b
    BY <1>1, <2>1, ReachedAllocated DEF FirstFree
  <2>3. \A k \in 0 .. NUM_BLOCKS : Way(t)[k] \in Blocks =>
          /\ fat_table'[Way(t)[k]] = fat_table[Way(t)[k]]
          /\ data_area'[Way(t)[k]] = data_area[Way(t)[k]]
    BY <1>2, <1>4, <2>2
  <2>4. directory'[t] = directory[t]
    BY <1>4, <1>5
  <2> QED
    BY <2>1, <2>3, <2>4, OtherFile
<1>7. Content(i)' = <<>>
  <2>1. Content(i)' = Bytes(Walk(fat_table', directory'[i].start_block), data_area', 0)
    BY <1>4, ContentNext
  <2> QED
    BY <2>1 DEF Bytes
<1>8. Store!Create(directory'[i].filename)
  <2>1. \A t \in Visible : /\ directory'[t].filename = directory[t].filename
                           /\ Content(t)' = Content(t)
                           /\ directory[t].filename # directory'[i].filename
    BY <1>2, <1>4, <1>5, <1>6
  <2> QED
    BY <1>5, <1>7, <2>1, CreatedFile
<1>9. StoreStep
  BY <1>4, <1>8 DEF StoreStep, Store!Next
<1>10. LastBlock(i, 0)'
  <2>1. Way(i)'[0] = b
    BY <1>4, WalkSteps DEF Way
  <2>2. EOF \notin Blocks /\ Len(data_area[b]) = 0 /\ 0 * BLOCK_SIZE + 0 = 0
    BY <1>3, Constants
  <2> QED
    BY <1>2, <1>4, <2>1, <2>2 DEF LastBlock
<1>11. FullBlocks'
  <2>1. \A c \in Blocks : Linked(c)' => Linked(c)
    BY <1>4, Constants DEF Linked
  <2> QED
    BY <1>2, <1>3, <2>1 DEF Contents, FullBlocks
<1>12. 0 \in 0 .. NUM_BLOCKS
  BY Constants
<1>13. \A t \in Visible' : \E k \in 0 .. NUM_BLOCKS : LastBlock(t, k)'
  BY <1>3, <1>5, <1>6, <1>10, <1>12 DEF Contents
<1> QED
  BY <1>9, <1>11, <1>13 DEF Contents

(* A command that finds a file and begins; only delete_file is seen.       *)
LEMMA EnterStore ==
  ASSUME NEW n \in Names, NEW c \in {"write", "read", "delete"}, NEW amount,
         NamedTypes, NamesOnce, NamesOnce', Contents, Enter(n, c, amount)
  PROVE  StoreStep /\ Contents'
<1>1. PICK i \in Slot : FirstSlot(i, n) /\ slot' = i
  BY DEF Enter
<1>2. /\ cmd = "idle" /\ cmd' = c
      /\ UNCHANGED <<fat_table, directory, data_area, taint>>
  BY Constants DEF Enter, disk
<1>3. Visible = Live /\ Live' = Live /\ i \in Live /\ directory[i].filename = n
  BY <1>1, <1>2, Constants DEF FirstSlot, Visible, Live
<1>4. Visible' = IF c = "delete" THEN Visible \ {i} ELSE Visible
  BY <1>1, <1>2, <1>3 DEF Visible
<1>5. \A t \in Visible : /\ directory'[t].filename = directory[t].filename
                         /\ Content(t)' = Content(t)
  BY <1>2 DEF Content, Byte
<1>6. StoreStep
  <2>1. CASE c = "delete"
    <3>1. Store!Remove(directory[i].filename)
      BY <1>3, <1>4, <1>5, <2>1, RemovedFile
    <3> QED
      BY <1>3, <3>1 DEF StoreStep, Store!Next
  <2>2. CASE c # "delete"
    <3>1. FilesView' = FilesView
      BY <1>4, <1>5, <2>2, SameFiles
    <3> QED
      BY <3>1 DEF StoreStep
  <2> QED
    BY <2>1, <2>2
<1>7. Contents'
  <2>1. \A t, k : LastBlock(t, k)' <=> LastBlock(t, k)
    BY <1>2 DEF LastBlock, Way
  <2>2. FullBlocks' <=> FullBlocks
    BY <1>2 DEF FullBlocks, Linked
  <2>3. Visible' \subseteq Visible
    BY <1>4
  <2> QED
    BY <1>2, <2>1, <2>2, <2>3 DEF Contents
<1> QED
  BY <1>6, <1>7

(* Steps that change no block and no file that is seen.                    *)
LEMMA FrameStore ==
  ASSUME NamesOnce, NamesOnce', Contents, Visible' = Visible,
         UNCHANGED <<fat_table, data_area, taint>>, \A i \in Visible : directory'[i] = directory[i]
  PROVE  StoreStep /\ Contents'
<1>1. \A i \in Visible : /\ directory'[i].filename = directory[i].filename
                         /\ Content(i)' = Content(i)
  BY DEF Content, Byte
<1>2. StoreStep
  BY <1>1, SameFiles DEF StoreStep
<1>3. \A i \in Visible, k \in 0 .. NUM_BLOCKS : LastBlock(i, k)' <=> LastBlock(i, k)
  BY DEF LastBlock, Way
<1>4. FullBlocks' <=> FullBlocks
  BY DEF FullBlocks, Linked
<1> QED
  BY <1>2, <1>3, <1>4 DEF Contents

(* A block that is freed belongs to no file that is seen.                  *)
LEMMA DeleteStore ==
  ASSUME NamedTypes, LiveInv, Structure, NamesOnce, NamesOnce', Contents, taint' = {}, DeleteBlock
  PROVE  StoreStep /\ Contents'
<1>1. /\ cmd = "delete" /\ cmd' = "delete" /\ block \in Blocks
      /\ fat_table' = [fat_table EXCEPT ![block] = FREE]
      /\ UNCHANGED <<directory, data_area, slot, taint>>
  BY DEF DeleteBlock, NamedTypes
<1>2. Visible' = Visible
  BY <1>1 DEF Visible, Live
<1>3. PICK s \in Live : s = slot
  BY <1>1 DEF LiveInv
<1>4. Reached(s)[0] = block /\ 0 \in 0 .. NUM_BLOCKS
  BY <1>1, <1>3, WalkSteps, Constants DEF Reached, HeadOf
<1>5. \A c \in Blocks : fat_table'[c] = IF c = block THEN FREE ELSE fat_table[c]
  BY <1>1 DEF NamedTypes
<1>6. ASSUME NEW i \in Visible
      PROVE  /\ Content(i)' = Content(i)
             /\ \A k \in 0 .. NUM_BLOCKS : LastBlock(i, k) => LastBlock(i, k)'
  <2>1. i \in Live /\ i \in Slot /\ Way(i) = Reached(i) /\ i # s
    BY <1>1, <1>3, VisibleWay DEF Visible
  <2>2. \A k \in 0 .. NUM_BLOCKS : Way(i)[k] \in Blocks => Way(i)[k] # block
    BY <1>3, <1>4, <2>1, ReachedApart
  <2>3. \A k \in 0 .. NUM_BLOCKS : Way(i)[k] \in Blocks =>
          /\ fat_table'[Way(i)[k]] = fat_table[Way(i)[k]]
          /\ data_area'[Way(i)[k]] = data_area[Way(i)[k]]
    BY <1>1, <1>5, <2>2
  <2> QED
    BY <1>1, <2>1, <2>3, OtherFile
<1>7. StoreStep
  BY <1>1, <1>2, <1>6, SameFiles DEF StoreStep
<1>8. FullBlocks'
  <2>1. \A c \in Blocks : Linked(c)' => Linked(c)
    BY <1>5 DEF Linked
  <2> QED
    BY <1>1, <2>1 DEF Contents, FullBlocks
<1> QED
  BY <1>1, <1>2, <1>6, <1>7, <1>8 DEF Contents

(* A write stands on the last block of its file, or on a full one.         *)
LEMMA WriteSpot ==
  ASSUME NamedTypes, LiveInv, Structure, OnItsChain, Contents, taint = {}, cmd = "write",
         NEW s, s = slot
  PROVE  /\ s \in Visible /\ block \in Blocks /\ fat_table[block] # FREE
         /\ fat_table[block] \in Blocks => Len(data_area[block]) = BLOCK_SIZE
         /\ \E m \in 0 .. NUM_BLOCKS :
              /\ Reached(s)[m] = block
              /\ fat_table[block] \notin Blocks => LastBlock(s, m)
<1>1. s \in Visible /\ s \in Live /\ block \in Blocks
  BY DEF LiveInv, Visible
<1>2. PICK m \in 0 .. NUM_BLOCKS : Reached(s)[m] = block
  BY <1>1, ChainFacts DEF OnItsChain
<1>3. fat_table[block] # FREE
  BY <1>1, <1>2, ReachedAllocated
<1>4. fat_table[block] \in Blocks => Len(data_area[block]) = BLOCK_SIZE
  BY <1>1, <1>3 DEF Contents, FullBlocks, Linked
<1>5. ASSUME fat_table[block] \notin Blocks
      PROVE  LastBlock(s, m)
  <2>1. PICK k \in 0 .. NUM_BLOCKS : LastBlock(s, k)
    BY <1>1 DEF Contents
  <2>2. Reached(s)[k] \in Blocks /\ fat_table[Reached(s)[k]] \notin Blocks
    BY <1>1, <2>1, VisibleWay DEF LastBlock
  <2>3. ~(k < m)
    <3> SUFFICES ASSUME k < m
                 PROVE  FALSE
      OBVIOUS
    <3>1. k + 1 \in 0 .. m /\ k \in 0 .. NUM_BLOCKS - 1
      BY Constants
    <3>2. Reached(s)[k + 1] \in Blocks
      BY <1>1, <1>2, <3>1, WalkBack DEF Reached
    <3> QED
      BY <1>1, <2>2, <3>1, <3>2, ReachedLinked
  <2>4. ~(m < k)
    <3> SUFFICES ASSUME m < k
                 PROVE  FALSE
      OBVIOUS
    <3>1. m + 1 \in 0 .. k /\ m \in 0 .. NUM_BLOCKS - 1
      BY Constants
    <3>2. Reached(s)[m + 1] \in Blocks
      BY <2>2, <3>1, WalkBack DEF Reached
    <3> QED
      BY <1>1, <1>2, <1>5, <3>1, <3>2, ReachedLinked
  <2>5. k = m
    BY <2>3, <2>4, Constants
  <2> QED
    BY <2>1, <2>5
<1> QED
  BY <1>1, <1>2, <1>3, <1>4, <1>5

(* A write touches the blocks of no other file.                            *)
LEMMA OthersStay ==
  ASSUME NamedTypes, LiveInv, Structure, cmd = "write", FillBlock, NEW s, s = slot,
         NEW m \in 0 .. NUM_BLOCKS, Reached(s)[m] = block,
         \A b \in Blocks \ {block} : fat_table[b] # FREE => fat_table'[b] = fat_table[b]
  PROVE  \A i \in Visible \ {s} :
           /\ directory'[i] = directory[i] /\ Content(i)' = Content(i)
           /\ \A k \in 0 .. NUM_BLOCKS : LastBlock(i, k) => LastBlock(i, k)'
<1> SUFFICES ASSUME NEW i \in Visible \ {s}
             PROVE  /\ directory'[i] = directory[i] /\ Content(i)' = Content(i)
                    /\ \A k \in 0 .. NUM_BLOCKS : LastBlock(i, k) => LastBlock(i, k)'
  OBVIOUS
<1>1. /\ s \in Live /\ block \in Blocks
      /\ \A c \in Blocks \ {block} : data_area'[c] = data_area[c]
      /\ \A t \in Slot \ {s} : directory'[t] = directory[t]
  <2>1. Filled(s, block, Len(data_area[block]), BytesToWrite, directory[s].filename)
    BY FillBytes
  <2> QED
    BY <2>1 DEF Filled
<1>2. i \in Live /\ i \in Slot /\ Way(i) = Reached(i)
  BY VisibleWay
<1>3. \A k \in 0 .. NUM_BLOCKS : Way(i)[k] \in Blocks =>
        Way(i)[k] # block /\ fat_table[Way(i)[k]] # FREE
  BY <1>1, <1>2, ReachedApart, ReachedAllocated
<1>4. \A k \in 0 .. NUM_BLOCKS : Way(i)[k] \in Blocks =>
        /\ fat_table'[Way(i)[k]] = fat_table[Way(i)[k]]
        /\ data_area'[Way(i)[k]] = data_area[Way(i)[k]]
  BY <1>1, <1>3
<1>5. directory'[i] = directory[i]
  BY <1>1, <1>2
<1> QED
  BY <1>2, <1>4, <1>5, OtherFile

(* Bytes written into the last block of a file are appended to the file.   *)
LEMMA FilledStore ==
  ASSUME NamedTypes, LiveInv, Structure, NamesOnce, NamesOnce', cmd = "write", FillBlock,
         NEW s, s = slot, s \in Visible, Visible' = Visible,
         NEW m \in 0 .. NUM_BLOCKS, Reached(s)[m] = block, LastBlock(s, m),
         \A q \in 0 .. m : Way(s)'[q] = Way(s)[q],
         \A i \in Visible \ {s} : directory'[i] = directory[i] /\ Content(i)' = Content(i)
  PROVE  /\ StoreStep
         /\ directory'[s].size = m * BLOCK_SIZE + Len(data_area'[block])
<1>0. /\ block \in Blocks /\ directory[s].filename \in Names
      /\ Len(data_area[block]) \in 0 .. BLOCK_SIZE /\ BytesToWrite \in Nat
      /\ directory[s].size \in Nat
  <2>1. /\ s \in Slot /\ block \in Blocks /\ directory[s].filename \in Names
        /\ Len(data_area[block]) \in 0 .. BLOCK_SIZE /\ BytesToWrite \in Nat
    <3>1. Filled(s, block, Len(data_area[block]), BytesToWrite, directory[s].filename)
      BY FillBytes
    <3> QED
      BY <3>1 DEF Filled
  <2> QED
    BY <2>1 DEF NamedTypes, Entry
<1>1. PICK b \in Blocks, x \in Names, l \in 0 .. BLOCK_SIZE, n \in Nat, size \in Nat :
        /\ b = block /\ l = Len(data_area[b]) /\ n = BytesToWrite
        /\ x = directory[s].filename /\ size = directory[s].size
  BY <1>0
<1>2. /\ s \in Live /\ s \in Slot /\ b \in Blocks /\ x \in Names
      /\ l \in 0 .. BLOCK_SIZE /\ n \in Nat /\ l + n <= BLOCK_SIZE
      /\ Len(data_area'[b]) = l + n
      /\ \A c \in Blocks \ {b} : data_area'[c] = data_area[c]
      /\ \A p \in 1 .. l : ByteIn(data_area', b, p) = ByteIn(data_area, b, p)
      /\ \A p \in 1 .. n : ByteIn(data_area', b, l + p) = x
      /\ directory'[s].size = size + n
      /\ directory'[s].filename = x /\ directory'[s].start_block = directory[s].start_block
  <2>1. Filled(s, b, l, n, x)
    BY <1>1, FillBytes
  <2> QED
    BY <1>1, <2>1 DEF Filled
<1>3. size \in Nat /\ m \in Nat /\ BLOCK_SIZE \in Nat
  BY <1>1, <1>2, Constants DEF NamedTypes, Entry
<1>4. Way(s) = Reached(s) /\ Way(s)[m] = b
  BY <1>1, VisibleWay
<1>5. size = m * BLOCK_SIZE + l
  BY <1>1, <1>4 DEF LastBlock
<1>6. directory'[s].size = m * BLOCK_SIZE + Len(data_area'[block])
  <2>1. m * BLOCK_SIZE \in Nat
    BY <1>3
  <2> QED
    BY <1>1, <1>2, <1>5, <2>1
<1>7. \A q \in 0 .. m, p \in 1 .. BLOCK_SIZE :
        (q = m => p <= l) =>
          ByteIn(data_area', Way(s)[q], p) = ByteIn(data_area, Way(s)[q], p)
  <2> SUFFICES ASSUME NEW q \in 0 .. m, NEW p \in 1 .. BLOCK_SIZE, q = m => p <= l
               PROVE  ByteIn(data_area', Way(s)[q], p) = ByteIn(data_area, Way(s)[q], p)
    OBVIOUS
  <2>1. CASE q = m
    BY <1>2, <1>4, <2>1
  <2>2. CASE q # m
    <3>1. q \in 0 .. NUM_BLOCKS
      BY Constants
    <3>2. Way(s)[q] # b
      BY <1>2, <1>4, <2>2, <3>1, ReachedApart
    <3> QED
      BY <1>2, <3>2 DEF ByteIn
  <2> QED
    BY <2>1, <2>2
<1>8. Content(s)' = Content(s) \o [p \in 1 .. n |-> x]
  <2>1. PICK w, v, data, new : /\ w = Way(s) /\ v = Way(s)'
                               /\ data = data_area /\ new = data_area'
    OBVIOUS
  <2>2. PICK more, total : more = [p \in 1 .. n |-> x] /\ total = size + n
    OBVIOUS
  <2>3. more \in Seq({x}) /\ Len(more) = n
    BY <1>2, <2>2
  <2>4. Bytes(v, new, total) = Bytes(w, data, size) \o more
    <3>1. Appended(w, v, data, new, m, l, n, x, size, total, more)
      BY <1>2, <1>4, <1>5, <1>7, <2>1, <2>2, <2>3 DEF Appended
    <3> QED
      BY ONLY <3>1, BytesGrow
  <2>5. Content(s) = Bytes(w, data, size)
    BY <1>1, <2>1, ContentBytes DEF Way
  <2>6. Content(s)' = Bytes(v, new, total)
    BY <1>2, <2>1, <2>2, ContentNext DEF Way
  <2> QED
    BY <2>2, <2>4, <2>5, <2>6
<1>9. CASE n = 0
  <2>1. Content(s)' = Content(s)
    <3>1. UNCHANGED <<data_area, directory>>
      <4>1. Filled(s, b, l, n, x)
        BY <1>1, FillBytes
      <4> QED
        BY <1>9, <4>1 DEF Filled
    <3>2. Content(s) \in Seq(Names \cup {NoName})
      <4>1. size \in Nat /\ Content(s) = [p \in 1 .. size |-> Content(s)[p]]
        BY <1>1, <1>3, ContentBytes DEF Bytes
      <4>2. \A c, p : p \in Nat \ {0} => ByteIn(data_area, c, p) \in Names \cup {NoName}
        BY DEF ByteIn, NamedTypes
      <4>3. ASSUME NEW p \in 1 .. size
            PROVE  Content(s)[p] \in Names \cup {NoName}
        <5>1. p - 1 \in Nat /\ 1 + ((p - 1) % BLOCK_SIZE) \in Nat \ {0}
          BY <1>3, Quotient
        <5> QED
          BY <1>1, <4>2, <5>1, ContentBytes DEF Bytes
      <4> QED
        BY <4>1, <4>3
    <3>3. Content(s) \o [p \in 1 .. n |-> x] = Content(s)
      <4>1. [p \in 1 .. n |-> x] = <<>>
        BY <1>9
      <4>2. \A c \in Seq(Names \cup {NoName}) : c \o <<>> = c
        OBVIOUS
      <4> QED
        BY <3>2, <4>1, <4>2
    <3> QED
      BY <1>8, <3>3
  <2>2. \A i \in Visible : /\ directory'[i].filename = directory[i].filename
                           /\ Content(i)' = Content(i)
    BY <1>1, <1>2, <2>1
  <2> QED
    BY <1>6, <2>2, SameFiles DEF StoreStep
<1>10. CASE n # 0
  <2>1. n \in 1 .. BLOCK_SIZE
    BY <1>2, <1>3, <1>10
  <2>2. \A i \in Visible : directory'[i].filename = directory[i].filename
    BY <1>1, <1>2
  <2>3. Store!Grow(directory[s].filename, n)
    BY <1>1, <1>2, <1>8, <2>2, GrownFile, ZenonT(30)
  <2> QED
    BY <1>1, <1>2, <1>6, <2>1, <2>3 DEF StoreStep, Store!Next
<1> QED
  BY <1>9, <1>10

(* write_file appends to the file, and takes a fresh block for the rest.   *)
LEMMA WriteBlockStore ==
  ASSUME NamedTypes, LiveInv, Structure, OnItsChain, NamesOnce, NamesOnce', Contents,
         taint' = {}, WriteBlock
  PROVE  StoreStep /\ Contents'
<1>1. PICK t \in Blocks :
        /\ FirstFree(t)
        /\ fat_table' = [fat_table EXCEPT ![block] = t, ![t] = EOC]
        /\ block' = t
        /\ taint' = taint \cup LinkEvents(block, t)
  BY DEF WriteBlock
<1>2. cmd = "write" /\ cmd' = "write" /\ FillBlock /\ UNCHANGED slot /\ left > BytesToWrite
  BY DEF WriteBlock
<1>3. /\ taint = {} /\ t # FREE /\ fat_table[block] \notin Blocks
      /\ data_area[t] = <<>> /\ fat_table[t] = FREE
  BY <1>1 DEF LinkEvents, FREE, FirstFree
<1>4. PICK s \in Visible : s = slot
  BY <1>2, <1>3, WriteSpot
<1>5. PICK m \in 0 .. NUM_BLOCKS : Reached(s)[m] = block /\ LastBlock(s, m)
  BY <1>2, <1>3, <1>4, WriteSpot
<1>6. block \in Blocks /\ fat_table[block] # FREE /\ block # t
  BY <1>2, <1>3, <1>4, WriteSpot
<1>7. \A c \in Blocks : fat_table'[c] = IF c = t THEN EOC
                                       ELSE IF c = block THEN t
                                       ELSE fat_table[c]
  BY <1>1, <1>6 DEF NamedTypes
<1>8. /\ m + 1 \in 0 .. NUM_BLOCKS
      /\ Reached(s)'[m + 1] = t
      /\ \A k \in 0 .. m : Reached(s)'[k] = Reached(s)[k]
      /\ Live' = Live
  BY <1>1, <1>4, <1>5, WriteWalks
<1>9. /\ Visible' = Visible
      /\ Way(s) = Reached(s) /\ Way(s)' = Reached(s)'
  BY <1>2, <1>8 DEF Visible, Way, Reached, HeadOf
<1>10. \A i \in Visible \ {s} :
         /\ directory'[i] = directory[i] /\ Content(i)' = Content(i)
         /\ \A k \in 0 .. NUM_BLOCKS : LastBlock(i, k) => LastBlock(i, k)'
  <2>1. \A b \in Blocks \ {block} : fat_table[b] # FREE => fat_table'[b] = fat_table[b]
    BY <1>3, <1>7
  <2> QED
    BY <1>2, <1>4, <1>5, <2>1, OthersStay
<1>11. StoreStep /\ directory'[s].size = m * BLOCK_SIZE + Len(data_area'[block])
  BY <1>2, <1>4, <1>5, <1>8, <1>9, <1>10, FilledStore
<1>12. /\ Len(data_area'[block]) = BLOCK_SIZE
       /\ \A c \in Blocks \ {block} : data_area'[c] = data_area[c]
  <2>1. Filled(s, block, Len(data_area[block]), BytesToWrite, directory[s].filename)
    BY <1>2, <1>4, FillBytes
  <2> QED
    BY <1>2, <2>1 DEF Filled
<1>13. LastBlock(s, m + 1)'
  <2>1. fat_table'[t] = EOC /\ EOC \notin Blocks
    BY <1>7, Constants
  <2>2. Len(data_area'[t]) = 0
    BY <1>3, <1>6, <1>12
  <2>3. m * BLOCK_SIZE + BLOCK_SIZE = (m + 1) * BLOCK_SIZE + 0
    BY Constants
  <2> QED
    BY <1>8, <1>9, <1>11, <1>12, <2>1, <2>2, <2>3 DEF LastBlock
<1>14. FullBlocks'
  <2> SUFFICES ASSUME NEW c \in Blocks, Linked(c)'
               PROVE  Len(data_area'[c]) = BLOCK_SIZE
    BY DEF FullBlocks
  <2>1. c # t
    BY <1>7, Constants DEF Linked
  <2>2. c # block => Linked(c)
    BY <1>7, <2>1 DEF Linked
  <2> QED
    BY <1>3, <1>12, <2>2 DEF Contents, FullBlocks
<1>15. \A i \in Visible' : \E k \in 0 .. NUM_BLOCKS : LastBlock(i, k)'
  BY <1>3, <1>8, <1>9, <1>10, <1>13 DEF Contents
<1> QED
  BY <1>11, <1>14, <1>15 DEF Contents

(* The last iteration of a write, or the one that finds no free block.     *)
LEMMA WriteEndStore ==
  ASSUME NamedTypes, LiveInv, Structure, OnItsChain, NamesOnce, NamesOnce', Contents,
         taint = {}, cmd = "write", FillBlock, Return, UNCHANGED <<fat_table, taint>>
  PROVE  StoreStep /\ Contents'
<1>1. PICK s \in Visible : s = slot
  BY WriteSpot
<1>2. PICK m \in 0 .. NUM_BLOCKS :
        Reached(s)[m] = block /\ (fat_table[block] \notin Blocks => LastBlock(s, m))
  BY <1>1, WriteSpot
<1>3. Live' = Live /\ Visible' = Visible
  BY FillFrame DEF Return, Visible
<1>4. Filled(s, block, Len(data_area[block]), BytesToWrite, directory[s].filename)
  BY <1>1, FillBytes
<1>5. \A i \in Visible \ {s} :
        /\ directory'[i] = directory[i] /\ Content(i)' = Content(i)
        /\ \A k \in 0 .. NUM_BLOCKS : LastBlock(i, k) => LastBlock(i, k)'
  BY <1>1, <1>2, OthersStay
<1>6. ASSUME NEW b \in Blocks, Linked(b)
      PROVE  Len(data_area'[b]) = BLOCK_SIZE
  <2>1. Len(data_area[b]) = BLOCK_SIZE
    BY <1>6 DEF Contents, FullBlocks
  <2> QED
    BY <1>4, <2>1, Constants DEF Filled
<1>7. CASE fat_table[block] \in Blocks
  <2>1. Len(data_area[block]) = BLOCK_SIZE
    BY <1>1, <1>7, WriteSpot
  <2>2. BytesToWrite = 0
    BY <1>4, <2>1, Constants DEF Filled
  <2>3. UNCHANGED <<data_area, directory>>
    BY <1>4, <2>2 DEF Filled
  <2> QED
    BY <1>3, <2>3, FrameStore
<1>8. CASE fat_table[block] \notin Blocks
  <2>1. LastBlock(s, m) /\ Way(s) = Reached(s)
    BY <1>2, <1>8, VisibleWay
  <2>2. Way(s)' = Way(s)
    BY <1>4 DEF Filled, Way
  <2>3. StoreStep /\ directory'[s].size = m * BLOCK_SIZE + Len(data_area'[block])
    BY <1>1, <1>2, <1>3, <1>5, <2>1, <2>2, FilledStore
  <2>4. LastBlock(s, m)'
    BY <1>2, <2>1, <2>2, <2>3 DEF LastBlock
  <2>5. FullBlocks'
    BY <1>6 DEF FullBlocks, Linked
  <2>6. \A i \in Visible' : \E k \in 0 .. NUM_BLOCKS : LastBlock(i, k)'
    BY <1>3, <1>5, <2>4 DEF Contents
  <2> QED
    BY <2>3, <2>5, <2>6 DEF Contents
<1> QED
  BY <1>7, <1>8

---------------------------------------------------------------------------
(* Every step is a step of the store or none.                              *)

(* Every step of a command is a step of the store or none.                 *)
LEMMA StoreSteps ==
  ASSUME NamedTypes, NamedIntegrity, OnItsChain, NamesOnce, NamesOnce', Contents,
         [NamedNext]_vars, taint' = {}
  PROVE  StoreStep /\ Contents'
<1>1. taint = {}
  BY DEF NamedNext, NamedCommand, Step, vars, CreateFile, Refused, Enter,
     StartWrite, StartRead, StartDelete, WriteBlock, WriteNoSpace, WriteLast,
     ReadBlock, ReadDone, ReadFault, DeleteBlock, DeleteSlot
<1>2. LiveInv /\ Structure
  BY <1>1 DEF NamedIntegrity, ChainInv, Structure
<1>3. ASSUME NEW n \in Names, CreateFile(n)
      PROVE  StoreStep /\ Contents'
  BY <1>2, <1>3, CreateStore
<1>4. ASSUME UNCHANGED <<disk, taint>>, Visible' = Visible
      PROVE  StoreStep /\ Contents'
  BY <1>4, FrameStore DEF disk
<1>5. ASSUME Refused
      PROVE  StoreStep /\ Contents'
  BY <1>4, <1>5 DEF Refused, disk, loop, Visible, Live
<1>6. ASSUME NEW n \in Names, NEW len \in 0..MAX_DATA, StartWrite(n, len)
      PROVE  StoreStep /\ Contents'
  BY <1>6, EnterStore DEF StartWrite
<1>7. ASSUME NEW n \in Names, StartRead(n)
      PROVE  StoreStep /\ Contents'
  BY <1>7, EnterStore DEF StartRead
<1>8. ASSUME NEW n \in Names, StartDelete(n)
      PROVE  StoreStep /\ Contents'
  BY <1>8, EnterStore DEF StartDelete
<1>9. CASE WriteBlock
  BY <1>2, <1>9, WriteBlockStore
<1>10. CASE WriteNoSpace \/ WriteLast
  <2>1. cmd = "write" /\ FillBlock /\ Return /\ UNCHANGED <<fat_table, taint>>
    BY <1>10 DEF WriteNoSpace, WriteLast
  <2> QED
    BY <1>1, <1>2, <2>1, WriteEndStore
<1>11. CASE ReadBlock \/ ReadDone \/ ReadFault
  <2>1. UNCHANGED <<disk, taint>> /\ cmd = "read" /\ cmd' \in {"read", "idle"}
    BY <1>11 DEF ReadBlock, ReadDone, ReadFault, Return
  <2>2. Visible' = Visible
    BY <2>1 DEF Visible, Live, disk
  <2> QED
    BY <1>4, <2>1, <2>2
<1>12. CASE DeleteBlock
  BY <1>2, <1>12, DeleteStore
<1>13. CASE DeleteSlot
  <2>1. /\ cmd = "delete" /\ cmd' = "idle"
        /\ directory' = [directory EXCEPT ![slot] =
              [filename |-> NoName, start_block |-> EOC, size |-> 0]]
        /\ UNCHANGED <<fat_table, data_area, taint>>
    BY <1>13 DEF DeleteSlot, Return
  <2>2. \A i \in Slot \ {slot} : directory'[i] = directory[i]
    BY <2>1 DEF NamedTypes
  <2>3. slot \in Slot /\ directory'[slot].filename = NoName
    BY <2>1 DEF NamedTypes
  <2>4. Visible = Live \ {slot} /\ Visible' = Live \ {slot}
    BY <2>1, <2>2, <2>3 DEF Visible, Live
  <2>5. \A i \in Visible : directory'[i] = directory[i]
    BY <2>2, <2>4 DEF Live
  <2> QED
    BY <2>1, <2>4, <2>5, FrameStore
<1>14. CASE UNCHANGED vars
  BY <1>4, <1>14 DEF vars, disk, Visible, Live
<1> QED
  BY <1>3, <1>5, <1>6, <1>7, <1>8, <1>9, <1>10, <1>11, <1>12, <1>13, <1>14
     DEF NamedNext, NamedCommand, Step

(* No file at the start, as in the store.                                  *)
LEMMA StoreInit ==
  ASSUME Init
  PROVE  Store!Init /\ NamesOnce /\ Contents /\ OnItsChain
<1>1. Live = {} /\ Visible = {}
  BY DEF Init, Live, Visible
<1>2. \A b \in Blocks : ~Linked(b)
  BY DEF Init, Linked
<1>3. Store!Init
  BY <1>1 DEF Store!Init, FilesView
<1>4. OnItsChain
  BY DEF Init, OnItsChain
<1> QED
  BY <1>1, <1>2, <1>3, <1>4 DEF NamesOnce, Contents, FullBlocks

(* The commands implement the store of named files: what a reader sees     *)
(* starts empty, and each step of each command is one step of the store or *)
(* none, until the first irregular event.                                  *)
THEOREM StoreImplemented == Spec => ImplementsStore
<1> DEFINE StoreInv == "unnamed" \notin taint => NamedBlocks /\ OnItsChain /\ NamesOnce /\ Contents
<1>1. Init => Store!Init /\ StoreInv
  <2>1. Init => NamedBlocks
    BY DEF Init, NamedBlocks
  <2> QED
    BY <2>1, StoreInit
<1>2. NamedInv /\ StoreInv /\ [Next]_vars =>
        StoreInv' /\ (taint' = {} => StoreStep)
  <2> SUFFICES ASSUME NamedInv, StoreInv, [Next]_vars, "unnamed" \notin taint'
               PROVE  (NamedBlocks /\ OnItsChain /\ NamesOnce /\ Contents)'
                      /\ (taint' = {} => StoreStep)
    OBVIOUS
  <2>1. [NamedNext]_vars /\ NamedTypes /\ NamedIntegrity /\ LiveInv
        /\ NamedBlocks /\ OnItsChain /\ NamesOnce /\ Contents
    BY Named DEF NamedInv, NamedIntegrity
  <2>2. NamedBlocks' /\ OnItsChain'
    BY <2>1, BlocksStep DEF NamedIntegrity
  <2>3. NamesOnce'
    BY <2>1, NamesStep
  <2>4. taint' = {} => StoreStep /\ Contents'
    BY <2>1, <2>3, StoreSteps
  <2>5. taint' # {} => Contents'
    BY DEF Contents
  <2> QED
    BY <2>2, <2>3, <2>4, <2>5
<1>3. (taint' = {} => StoreStep) => [taint' = {} => Store!Next]_FilesView
  BY DEF StoreStep
<1> HIDE DEF StoreInv
<1>4. Spec => Store!Init /\ [][taint' = {} => Store!Next]_FilesView
  BY <1>1, <1>2, <1>3, Inductive, PTL DEF Spec
<1> QED
  BY <1>4 DEF ImplementsStore

---------------------------------------------------------------------------
(* The frames.                                                             *)

PagesOf(f) == {f[i] : i \in DOMAIN f} \ {EMPTY}
HasEmpty(f) == \E i \in DOMAIN f : f[i] = EMPTY
Distinct(f) == \A i, k \in DOMAIN f : f[i] = f[k] /\ f[i] # EMPTY => i = k
Fills(f, s) == HasEmpty(f) => ToSet(s) \subseteq PagesOf(f)

(* In s, p comes once more after the last q.                               *)
Later(s, p, q) == \E k \in 1 .. Len(s) : s[k] = p /\ \A m \in k .. Len(s) : s[m] # q
Behind(s, S) == \A p \in S : \A q \in ToSet(s) \ S : Later(s, p, q)

Seen == SubSeq(rf_string, 1, j)
(* How many frames fifo replaces before it comes to frame i.               *)
Turn(i, o, n) == IF i >= o THEN i - o ELSE i - o + n
InOrder(f, o, s, n) ==
  \A a, b \in DOMAIN f : f[a] # EMPTY /\ f[b] # EMPTY /\ Turn(a, o, n) < Turn(b, o, n)
                           => Later(s, f[b], f[a])
FilledTo(f, o) == HasEmpty(f) => \A i \in DOMAIN f : f[i] = EMPTY <=> i >= o

(* While a frame is empty the hand is at the last frame that is filled.    *)
Filling(f, bit, hand) ==
  HasEmpty(f) => \/ hand = 0 /\ \A i \in DOMAIN f : f[i] = EMPTY /\ bit[i] = 0
                 \/ /\ f[hand] # EMPTY /\ bit[hand] = 1
                    /\ \A i \in DOMAIN f : /\ f[i] = EMPTY <=> i > hand
                                           /\ i > hand => bit[i] = 0

Running == at \in {"optimal", "fifo", "lru", "clock"}
TypeInv ==
  /\ file \in Files
  /\ Running => /\ j \in 0 .. rf_count
                /\ count = 0 => rf_count = 0
                /\ page_frame_arr \in [Frames -> Nat \cup {EMPTY}]
                /\ loaded \in Seq(Nat)
                /\ count > 0 => oldest \in Frames /\ clock_hand \in Frames
                /\ use_bit \in [Frames -> {0, 1}]
FrameInv ==
  Running => /\ Distinct(page_frame_arr)
             /\ PagesOf(page_frame_arr) \subseteq ToSet(loaded)
             /\ at # "optimal" => Fills(page_frame_arr, loaded)
LruInv ==
  at = "lru" => /\ PagesOf(page_frame_arr) \subseteq ToSet(Seen)
                /\ Fills(page_frame_arr, Seen)
                /\ Behind(Seen, PagesOf(page_frame_arr))
FifoInv ==
  at = "fifo" => /\ Behind(loaded, PagesOf(page_frame_arr))
                 /\ InOrder(page_frame_arr, oldest, loaded, count)
                 /\ FilledTo(page_frame_arr, oldest)
ClockInv ==
  at = "clock" =>
    /\ Filling(page_frame_arr, use_bit, clock_hand)
    /\ j > 0 => \E i \in Frames : page_frame_arr[i] = rf_string[j] /\ use_bit[i] = 1
Inv == TypeInv /\ FrameInv /\ LruInv /\ FifoInv /\ ClockInv

---------------------------------------------------------------------------
(* The members of a sequence, and of one that is one longer.               *)
LEMMA Members ==
  ASSUME NEW s \in Seq(Nat)
  PROVE  /\ ToSet(s) = {s[i] : i \in 1 .. Len(s)} /\ Len(s) \in Nat
         /\ ToSet(s) \subseteq Nat /\ IsFiniteSet(ToSet(s))
<1>1. Len(s) \in Nat /\ DOMAIN s = 1 .. Len(s) /\ s \in [1 .. Len(s) -> Nat]  BY LenProperties
<1>2. ToSet(s) = {s[i] : i \in 1 .. Len(s)} /\ ToSet(s) \subseteq Nat  BY <1>1 DEF ToSet
<1>3. s \in Surjection(1 .. Len(s), ToSet(s))  BY <1>1, <1>2 DEF Surjection
<1>4. IsFiniteSet(1 .. Len(s))  BY <1>1, FS_Interval
<1>5. IsFiniteSet(ToSet(s))  BY <1>3, <1>4, FS_Surjection
<1> QED  BY <1>1, <1>2, <1>5

LEMMA Added ==
  ASSUME NEW s \in Seq(Nat), NEW x \in Nat
  PROVE  LET t == Append(s, x)
         IN  /\ t \in Seq(Nat) /\ Len(t) = Len(s) + 1 /\ t[Len(t)] = x
             /\ \A k \in 1 .. Len(s) : t[k] = s[k]
             /\ ToSet(t) = ToSet(s) \cup {x}
<1> DEFINE t == Append(s, x)
<1>1. Len(s) \in Nat /\ t \in Seq(Nat) /\ Len(t) = Len(s) + 1 /\ t[Len(t)] = x
      /\ \A k \in 1 .. Len(s) : t[k] = s[k]
  BY Members
<1>2. ToSet(s) = {s[k] : k \in 1 .. Len(s)} /\ ToSet(t) = {t[k] : k \in 1 .. Len(t)}  BY <1>1, Members
<1>3. ToSet(t) \subseteq ToSet(s) \cup {x}
  <2> SUFFICES ASSUME NEW k \in 1 .. Len(t) PROVE t[k] \in ToSet(s) \cup {x}  BY <1>2
  <2>1. k = Len(t) \/ k \in 1 .. Len(s)  BY <1>1
  <2> QED  BY <2>1, <1>1, <1>2
<1>4. ToSet(s) \cup {x} \subseteq ToSet(t)
  <2>1. Len(t) \in 1 .. Len(t) /\ \A k \in 1 .. Len(s) : k \in 1 .. Len(t)  BY <1>1
  <2> QED  BY <2>1, <1>1, <1>2
<1> QED  BY <1>1, <1>3, <1>4

(* The newest member is later than every other, and no other changes place.*)
LEMMA LaterAppended ==
  ASSUME NEW s \in Seq(Nat), NEW x \in Nat, NEW p, NEW q, q # x, p = x \/ Later(s, p, q)
  PROVE  Later(Append(s, x), p, q)
<1> DEFINE t == Append(s, x)
<1>1. Len(s) \in Nat /\ Len(t) = Len(s) + 1 /\ t[Len(t)] = x /\ \A k \in 1 .. Len(s) : t[k] = s[k]
  BY Members, Added
<1>2. CASE p = x
  <2>1. Len(t) \in 1 .. Len(t) /\ \A m \in Len(t) .. Len(t) : m = Len(t)  BY <1>1
  <2> QED  BY <2>1, <1>1, <1>2 DEF Later
<1>3. CASE Later(s, p, q)
  <2>1. PICK k \in 1 .. Len(s) : s[k] = p /\ \A m \in k .. Len(s) : s[m] # q  BY <1>3 DEF Later
  <2>2. k \in 1 .. Len(t) /\ t[k] = p  BY <2>1, <1>1
  <2>3. ASSUME NEW m \in k .. Len(t) PROVE t[m] # q
    <3>1. m = Len(t) \/ (m \in k .. Len(s) /\ m \in 1 .. Len(s))  BY <1>1, <2>1
    <3> QED  BY <3>1, <2>1, <1>1
  <2> QED  BY <2>2, <2>3 DEF Later
<1> QED  BY <1>2, <1>3

LEMMA LaterIsOneWay ==
  ASSUME NEW s \in Seq(Nat), NEW p, NEW q, Later(s, p, q)
  PROVE  ~Later(s, q, p)
<1>1. Len(s) \in Nat  BY Members
<1>2. PICK k \in 1 .. Len(s) : s[k] = p /\ \A m \in k .. Len(s) : s[m] # q  BY DEF Later
<1>3. SUFFICES ASSUME NEW n \in 1 .. Len(s), s[n] = q, \A m \in n .. Len(s) : s[m] # p PROVE FALSE
  BY DEF Later
<1>4. k \in n .. Len(s) \/ n \in k .. Len(s)  BY <1>1
<1> QED  BY <1>2, <1>3, <1>4

LEMMA LaterOfTail ==
  ASSUME NEW s \in Seq(Nat), NEW p, NEW q
  PROVE  Later(s, p, q) <=> \E k \in DOMAIN s : s[k] = p /\ q \notin ToSet(SubSeq(s, k, Len(s)))
<1>1. Len(s) \in Nat /\ DOMAIN s = 1 .. Len(s) /\ s \in [1 .. Len(s) -> Nat]  BY LenProperties
<1>2. SUFFICES ASSUME NEW k \in 1 .. Len(s)
               PROVE  q \notin ToSet(SubSeq(s, k, Len(s))) <=> \A m \in k .. Len(s) : s[m] # q
  BY <1>1 DEF Later
<1> DEFINE t == SubSeq(s, k, Len(s))
<1>3. t \in Seq(Nat) /\ Len(t) = Len(s) - k + 1 /\ \A i \in 1 .. Len(s) - k + 1 : t[i] = s[k + i - 1]
  <2>1. \A i \in k .. Len(s) : s[i] \in Nat  BY <1>1
  <2> QED  BY <2>1, <1>1, SubSeqProperties
<1>4. ToSet(t) = {t[i] : i \in 1 .. Len(s) - k + 1}  BY <1>3, Members
<1>5. ASSUME q \in ToSet(t) PROVE \E m \in k .. Len(s) : s[m] = q
  <2>1. PICK i \in 1 .. Len(s) - k + 1 : q = t[i]  BY <1>4, <1>5
  <2>2. k + i - 1 \in k .. Len(s) /\ s[k + i - 1] = q  BY <2>1, <1>1, <1>3
  <2> QED  BY <2>2
<1>6. ASSUME NEW m \in k .. Len(s), s[m] = q PROVE q \in ToSet(t)
  <2>1. m - k + 1 \in 1 .. Len(s) - k + 1 /\ k + (m - k + 1) - 1 = m  BY <1>1
  <2>2. t[m - k + 1] = s[k + (m - k + 1) - 1]  BY <2>1, <1>3
  <2>3. t[m - k + 1] = q  BY <2>1, <2>2, <1>6
  <2> QED  BY <2>1, <2>3, <1>4
<1> QED  BY <1>5, <1>6

(* A set of the last members that is as large as it may be is Recent.      *)
LEMMA RecentIs ==
  ASSUME NEW s \in Seq(Nat), NEW S, S \subseteq ToSet(s), Behind(s, S), count \in Nat,
         Cardinality(S) <= count, Cardinality(S) < count => ToSet(s) \subseteq S
  PROVE  Recent(s) = S
<1> DEFINE Newer(p) == {q \in ToSet(s) : Later(s, q, p)}
<1>1. Recent(s) = {p \in ToSet(s) : Cardinality(Newer(p)) < count}  BY LaterOfTail DEF Recent
<1>2. IsFiniteSet(ToSet(s)) /\ IsFiniteSet(S)  BY Members, FS_Subset
<1>3. \A p : IsFiniteSet(Newer(p)) /\ Cardinality(Newer(p)) \in Nat
  BY <1>2, FS_Subset, FS_CardinalityType
<1>4. ASSUME NEW p \in S PROVE Cardinality(Newer(p)) < count
  <2>1. ~Later(s, p, p)  BY LaterIsOneWay
  <2>2. Newer(p) \subseteq S \ {p}  BY <2>1, LaterIsOneWay DEF Behind
  <2>3. IsFiniteSet(S \ {p}) /\ Cardinality(S \ {p}) = Cardinality(S) - 1  BY <1>2, FS_RemoveElement
  <2>4. Cardinality(Newer(p)) <= Cardinality(S \ {p})  BY <2>2, <2>3, FS_Subset
  <2>5. Cardinality(S) \in Nat  BY <1>2, FS_CardinalityType
  <2> HIDE DEF Newer
  <2> QED  BY <2>3, <2>4, <2>5, <1>3
<1>5. ASSUME NEW p \in ToSet(s) \ S PROVE ~(Cardinality(Newer(p)) < count)
  <2>1. S \subseteq Newer(p)  BY DEF Behind
  <2>2. Cardinality(S) <= Cardinality(Newer(p)) /\ Cardinality(S) \in Nat
    BY <2>1, <1>2, <1>3, FS_Subset, FS_CardinalityType
  <2>3. ~(Cardinality(S) < count)  BY <1>5
  <2> HIDE DEF Newer
  <2> QED  BY <2>2, <2>3, <1>3
<1> HIDE DEF Newer
<1> QED  BY <1>1, <1>4, <1>5

---------------------------------------------------------------------------
(* A set of integers with a bound has a least and a greatest member.       *)
LEMMA SomeLeast ==
  ASSUME NEW T \in SUBSET Nat, T # {}
  PROVE  \E x \in T : \A y \in T : x <= y
<1>1. PICK x \in T : \A y \in T : ~(<<y, x>> \in OpToRel(<, Nat))
  BY NatLessThanWellFounded, WFMin
<1>2. \A y \in T : y \in Nat /\ x \in Nat /\ ~(y < x)  BY <1>1 DEF OpToRel
<1> QED  BY <1>2

LEMMA MinIs ==
  ASSUME NEW T \in SUBSET Int, T # {}, NEW b \in Int, \A x \in T : x >= b
  PROVE  Min(T) \in T /\ \A y \in T : Min(T) <= y
<1> DEFINE U == {x - b : x \in T}
<1>1. \A x \in T : x \in Int /\ x - b \in Nat  OBVIOUS
<1>2. U \in SUBSET Nat /\ U # {}  BY <1>1
<1>3. PICK u \in U : \A y \in U : u <= y  BY <1>2, SomeLeast
<1>4. PICK x \in T : u = x - b  BY <1>3
<1>5. ASSUME NEW y \in T PROVE x <= y
  <2>1. u <= y - b  BY <1>3
  <2> QED  BY <2>1, <1>1, <1>4
<1> QED  BY <1>5 DEF Min

LEMMA MaxIs ==
  ASSUME NEW T \in SUBSET Int, T # {}, NEW b \in Int, \A x \in T : x <= b
  PROVE  Max(T) \in T /\ \A y \in T : Max(T) >= y
<1> DEFINE U == {b - x : x \in T}
<1>1. \A x \in T : x \in Int /\ b - x \in Nat  OBVIOUS
<1>2. U \in SUBSET Nat /\ U # {}  BY <1>1
<1>3. PICK u \in U : \A y \in U : u <= y  BY <1>2, SomeLeast
<1>4. PICK x \in T : u = b - x  BY <1>3
<1>5. ASSUME NEW y \in T PROVE x >= y
  <2>1. u <= b - y  BY <1>3
  <2> QED  BY <2>1, <1>1, <1>4
<1> QED  BY <1>5 DEF Max

(* The frame the optimal policy and LRU choose.                            *)
LEMMA FirstMinIs ==
  ASSUME NEW g \in [Frames -> Int], NEW b \in Int, \A i \in Frames : g[i] >= b,
         count \in Nat, count > 0
  PROVE  FirstMin(g) \in Frames /\ \A k \in Frames : g[FirstMin(g)] <= g[k]
<1> DEFINE T == {g[i] : i \in Frames}
           Best == {i \in Frames : \A k \in Frames : g[i] <= g[k]}
<1>1. 0 \in Frames  BY DEF Frames
<1>2. T \in SUBSET Int /\ T # {} /\ \A x \in T : x >= b  BY <1>1
<1>3. Min(T) \in T /\ \A y \in T : Min(T) <= y  BY <1>2, MinIs
<1>4. PICK i \in Frames : Min(T) = g[i]  BY <1>3
<1>5. i \in Best  BY <1>3, <1>4
<1>6. Best \in SUBSET Int /\ Best # {} /\ 0 \in Int /\ \A k \in Best : k >= 0
  BY <1>5 DEF Frames
<1>7. Min(Best) \in Best
  <2> HIDE DEF Best
  <2> QED  BY <1>6, MinIs
<1> QED  BY <1>7 DEF FirstMin

LEMMA FirstMaxIs ==
  ASSUME NEW g \in [Frames -> Int], NEW b \in Int, \A i \in Frames : g[i] <= b,
         count \in Nat, count > 0
  PROVE  FirstMax(g) \in Frames /\ \A k \in Frames : g[k] <= g[FirstMax(g)]
<1> DEFINE T == {g[i] : i \in Frames}
           Best == {i \in Frames : \A k \in Frames : g[k] <= g[i]}
<1>1. 0 \in Frames  BY DEF Frames
<1>2. T \in SUBSET Int /\ T # {} /\ \A x \in T : x <= b  BY <1>1
<1>3. Max(T) \in T /\ \A y \in T : Max(T) >= y  BY <1>2, MaxIs
<1>4. PICK i \in Frames : Max(T) = g[i]  BY <1>3
<1>5. i \in Best  BY <1>3, <1>4
<1>6. Best \in SUBSET Int /\ Best # {} /\ 0 \in Int /\ \A k \in Best : k >= 0
  BY <1>5 DEF Frames
<1>7. Min(Best) \in Best
  <2> HIDE DEF Best
  <2> QED  BY <1>6, MinIs
<1> QED  BY <1>7 DEF FirstMax

---------------------------------------------------------------------------
Put(f, i, x) == [f EXCEPT ![i] = x]

(* What replacing the page of frame i does to the pages in the frames.     *)
LEMMA Replaced ==
  ASSUME NEW F, NEW f \in [F -> Nat \cup {EMPTY}], NEW i \in F, NEW x \in Nat, x \notin PagesOf(f),
         Distinct(f), NEW g, g = Put(f, i, x)
  PROVE  /\ g \in [F -> Nat \cup {EMPTY}] /\ Distinct(g)
         /\ PagesOf(g) = (PagesOf(f) \ {f[i]}) \cup {x}
         /\ HasEmpty(g) => HasEmpty(f)
<1>1. g \in [F -> Nat \cup {EMPTY}] /\ g[i] = x /\ \A k \in F : k # i => g[k] = f[k]  BY DEF Put
<1>2. x # EMPTY /\ \A k \in F : f[k] # x  BY DEF EMPTY, PagesOf
<1>3. Distinct(g)  BY <1>1, <1>2 DEF Distinct
<1>4. PagesOf(g) \subseteq (PagesOf(f) \ {f[i]}) \cup {x}  BY <1>1 DEF PagesOf, Distinct
<1>5. (PagesOf(f) \ {f[i]}) \cup {x} \subseteq PagesOf(g)
  <2>1. x \in PagesOf(g)  BY <1>1, <1>2 DEF PagesOf
  <2>2. ASSUME NEW p \in PagesOf(f), p # f[i] PROVE p \in PagesOf(g)
    <3>1. PICK k \in F : p = f[k] /\ p # EMPTY  BY DEF PagesOf
    <3>2. k # i /\ g[k] = p  BY <3>1, <2>2, <1>1
    <3> QED  BY <3>1, <3>2, <1>1 DEF PagesOf
  <2> QED  BY <2>1, <2>2
<1>6. HasEmpty(g) => HasEmpty(f)  BY <1>1, <1>2 DEF HasEmpty
<1> QED  BY <1>1, <1>3, <1>4, <1>5, <1>6

LEMMA FillsOn ==
  ASSUME NEW F, NEW f \in [F -> Nat \cup {EMPTY}], NEW i \in F, NEW x \in Nat, x \notin PagesOf(f),
         Distinct(f), NEW s \in Seq(Nat), Fills(f, s), HasEmpty(f) => f[i] = EMPTY,
         NEW g, g = Put(f, i, x)
  PROVE  Fills(g, Append(s, x))
<1>1. SUFFICES ASSUME HasEmpty(g) PROVE ToSet(Append(s, x)) \subseteq PagesOf(g)  BY DEF Fills
<1>2. PagesOf(g) = (PagesOf(f) \ {f[i]}) \cup {x} /\ HasEmpty(f)  BY <1>1, Replaced
<1>3. ToSet(s) \subseteq PagesOf(f) /\ f[i] \notin PagesOf(f)  BY <1>2 DEF Fills, PagesOf
<1>4. ToSet(Append(s, x)) = ToSet(s) \cup {x}  BY Added
<1> QED  BY <1>2, <1>3, <1>4

(* The pages in the frames stay the last ones, when the one taken out was  *)
(* behind the others.                                                      *)
LEMMA BehindOn ==
  ASSUME NEW F, NEW f \in [F -> Nat \cup {EMPTY}], NEW i \in F, NEW x \in Nat, x \notin PagesOf(f),
         Distinct(f), NEW s \in Seq(Nat), Behind(s, PagesOf(f)),
         f[i] # EMPTY => \A k \in F : k # i /\ f[k] # EMPTY => Later(s, f[k], f[i]),
         PagesOf(f) \subseteq ToSet(s), NEW g, g = Put(f, i, x)
  PROVE  Behind(Append(s, x), PagesOf(g)) /\ PagesOf(g) \subseteq ToSet(Append(s, x))
<1> DEFINE t == Append(s, x)
<1>1. PagesOf(g) = (PagesOf(f) \ {f[i]}) \cup {x}  BY Replaced
<1>2. ToSet(t) = ToSet(s) \cup {x}  BY Added
<1>3. ASSUME NEW p \in PagesOf(g), NEW q \in ToSet(t) \ PagesOf(g) PROVE Later(t, p, q)
  <2>1. q # x /\ q \in ToSet(s) /\ (q \notin PagesOf(f) \/ q = f[i])  BY <1>1, <1>2, <1>3
  <2>2. CASE p = x  BY <2>1, <2>2, LaterAppended
  <2>3. CASE p # x
    <3>1. p \in PagesOf(f) /\ p # f[i]  BY <2>3, <1>1, <1>3
    <3>2. Later(s, p, q)
      <4>1. CASE q \notin PagesOf(f)  BY <4>1, <3>1, <2>1 DEF Behind
      <4>2. CASE q \in PagesOf(f) /\ q = f[i]
        <5>1. PICK k \in F : p = f[k] /\ f[k] # EMPTY  BY <3>1 DEF PagesOf
        <5>2. k # i /\ f[i] # EMPTY  BY <5>1, <3>1, <4>2 DEF PagesOf
        <5> QED  BY <5>1, <5>2, <4>2
      <4> QED  BY <4>1, <4>2, <2>1
    <3> QED  BY <3>2, <2>1, LaterAppended
  <2> QED  BY <2>2, <2>3
<1>4. PagesOf(g) \subseteq ToSet(t)  BY <1>1, <1>2
<1>5. Behind(t, PagesOf(g))  BY <1>3 DEF Behind
<1> QED  BY <1>4, <1>5

---------------------------------------------------------------------------
(* The frames and the references of a policy that is running.              *)
LEMMA Basics ==
  ASSUME TypeInv, Running
  PROVE  /\ count \in Nat /\ rf_string \in Seq(Nat) /\ rf_count \in Nat
         /\ j \in 0 .. rf_count /\ DOMAIN page_frame_arr = Frames /\ Frames \subseteq Nat
         /\ \A k \in 1 .. rf_count : rf_string[k] \in Nat
         /\ Seen \in Seq(Nat) /\ Len(Seen) = j /\ \A k \in 1 .. j : Seen[k] = rf_string[k]
         /\ ToSet(Seen) = {rf_string[k] : k \in 1 .. j}
<1>1. file \in Files /\ j \in 0 .. rf_count /\ page_frame_arr \in [Frames -> Nat \cup {EMPTY}]
  BY DEF TypeInv
<1>2. count \in Nat /\ rf_string \in Seq(Nat)
  BY <1>1, PageReplacementAssumption DEF count, rf_string
<1>3. rf_count \in Nat /\ \A k \in 1 .. rf_count : rf_string[k] \in Nat  BY <1>2, LenProperties DEF rf_count
<1>4. DOMAIN page_frame_arr = Frames /\ Frames \subseteq Nat  BY <1>1, <1>2 DEF Frames
<1>5. Seen \in Seq(Nat) /\ Len(Seen) = j /\ \A k \in 1 .. j : Seen[k] = rf_string[k]
  <2>1. 1 \in Int /\ j \in Int /\ \A k \in 1 .. j : rf_string[k] \in Nat  BY <1>1, <1>3
  <2>2. /\ Seen \in Seq(Nat) /\ Len(Seen) = IF 1 <= j THEN j - 1 + 1 ELSE 0
        /\ \A k \in 1 .. j - 1 + 1 : Seen[k] = rf_string[1 + k - 1]
    BY <2>1, SubSeqProperties DEF Seen
  <2> QED  BY <2>1, <2>2, <1>1, <1>3
<1>6. ToSet(Seen) = {rf_string[k] : k \in 1 .. j}  BY <1>5, Members
<1> QED  BY <1>1, <1>2, <1>3, <1>4, <1>5, <1>6

(* The next reference.                                                     *)
LEMMA PageIs ==
  ASSUME TypeInv, Running, j < rf_count
  PROVE  /\ count > 0 /\ Page \in Nat /\ Page # EMPTY
         /\ j + 1 \in 1 .. rf_count /\ SubSeq(rf_string, 1, j + 1) = Append(Seen, Page)
         /\ IsHit <=> Page \in PagesOf(page_frame_arr)
<1>1. /\ count \in Nat /\ rf_string \in Seq(Nat) /\ rf_count \in Nat /\ j \in 0 .. rf_count
      /\ DOMAIN page_frame_arr = Frames /\ \A k \in 1 .. rf_count : rf_string[k] \in Nat
      /\ Seen \in Seq(Nat) /\ Len(Seen) = j /\ \A k \in 1 .. j : Seen[k] = rf_string[k]
  BY Basics
<1>2. count > 0  BY <1>1 DEF TypeInv
<1>3. j + 1 \in 1 .. rf_count /\ Page \in Nat /\ Page # EMPTY  BY <1>1 DEF Page, EMPTY
<1>4. IsHit <=> Page \in PagesOf(page_frame_arr)  BY <1>1, <1>3 DEF IsHit, PagesOf
<1>5. SubSeq(rf_string, 1, j + 1) = Append(Seen, Page)
  <2> DEFINE s == SubSeq(rf_string, 1, j + 1)  t == Append(Seen, Page)
  <2>1. PICK n \in Nat : n = j + 1 /\ n >= 1 /\ \A k \in 1 .. n : rf_string[k] \in Nat  BY <1>1, <1>3
  <2>2. /\ s \in Seq(Nat) /\ Len(s) = IF 1 <= n THEN n - 1 + 1 ELSE 0
        /\ \A k \in 1 .. n - 1 + 1 : s[k] = rf_string[1 + k - 1]
    <3>1. 1 \in Int /\ n \in Int /\ s = SubSeq(rf_string, 1, n)  BY <2>1
    <3> HIDE DEF s
    <3> QED  BY <2>1, <3>1, SubSeqProperties
  <2>3. Len(s) = j + 1 /\ \A k \in 1 .. j + 1 : s[k] = rf_string[k]
    <3> HIDE DEF s
    <3> QED  BY <2>1, <2>2, <1>1
  <2>4. /\ t \in Seq(Nat) /\ Len(t) = j + 1 /\ t[j + 1] = Page
        /\ \A k \in 1 .. j : t[k] = Seen[k]
    BY <1>1, <1>3, Added
  <2>5. ASSUME NEW k \in 1 .. j + 1 PROVE s[k] = t[k]
    <3>1. k \in 1 .. j \/ k = j + 1  BY <1>1
    <3> QED  BY <3>1, <2>3, <2>4, <1>1 DEF Page
  <2> HIDE DEF s, t
  <2>6. Len(s) = Len(t) /\ \A k \in 1 .. Len(s) : s[k] = t[k]  BY <2>3, <2>4, <2>5
  <2>7. s = t  BY <2>2, <2>4, <2>6, SeqEqual
  <2> QED  BY <2>7 DEF s, t
<1> QED  BY <1>2, <1>3, <1>4, <1>5

LEMMA PolicyNames ==
  /\ ToSet(Policies) = {"optimal", "fifo", "lru", "clock"}
  /\ Policies[1] = "optimal" /\ Last(Policies) = "clock"
  /\ \A a \in ToSet(Policies) \ {"clock"} :
       Policies[1 + CHOOSE k \in DOMAIN Policies : Policies[k] = a] =
         IF a = "optimal" THEN "fifo" ELSE IF a = "fifo" THEN "lru" ELSE "clock"
<1>1. DOMAIN Policies = 1 .. 4 /\ Len(Policies) = 4  BY DEF Policies
<1>2. /\ Policies[1] = "optimal" /\ Policies[2] = "fifo"
      /\ Policies[3] = "lru" /\ Policies[4] = "clock"
  BY DEF Policies
<1>3. ToSet(Policies) = {"optimal", "fifo", "lru", "clock"}
  <2>1. ToSet(Policies) = {Policies[k] : k \in 1 .. 4}  BY <1>1 DEF ToSet
  <2>2. 1 .. 4 = {1, 2, 3, 4}  OBVIOUS
  <2> QED  BY <2>1, <2>2, <1>2
<1>4. Last(Policies) = "clock"  BY <1>1, <1>2 DEF Last
<1>5. ASSUME NEW a \in ToSet(Policies) \ {"clock"}
      PROVE  Policies[1 + CHOOSE k \in DOMAIN Policies : Policies[k] = a] =
               IF a = "optimal" THEN "fifo" ELSE IF a = "fifo" THEN "lru" ELSE "clock"
  <2> DEFINE c == CHOOSE k \in DOMAIN Policies : Policies[k] = a
  <2>1. \E k \in DOMAIN Policies : Policies[k] = a  BY DEF ToSet
  <2>2. c \in 1 .. 4 /\ Policies[c] = a  BY <2>1, <1>1
  <2>3. a # "clock"  BY <1>5
  <2> HIDE DEF c
  <2>4. c \in {1, 2, 3}  BY <2>2, <2>3, <1>2
  <2>5. Policies[1 + c] = IF a = "optimal" THEN "fifo" ELSE IF a = "fifo" THEN "lru" ELSE "clock"
    <3>1. CASE c = 1  BY <3>1, <2>2, <1>2
    <3>2. CASE c = 2  BY <3>2, <2>2, <1>2
    <3>3. CASE c = 3  BY <3>3, <2>2, <1>2
    <3> QED  BY <2>4, <3>1, <3>2, <3>3
  <2> QED  BY <2>5 DEF c
<1> QED  BY <1>2, <1>3, <1>4, <1>5

---------------------------------------------------------------------------
(* Which frame each policy chooses.                                        *)
Again(i) == {k \in j + 1 .. rf_count : rf_string[k] = page_frame_arr[i]}

LEMMA OptimalChoice ==
  ASSUME TypeInv, Running, j < rf_count
  PROVE  /\ FirstMax(NextUse) \in Frames
         /\ \A i \in Frames : NextUse[i] <= NextUse[FirstMax(NextUse)]
         /\ \A i \in Frames : Again(i) = {} => NextUse[i] = MAX + 1
         /\ \A i \in Frames : Again(i) # {} => /\ NextUse[i] \in Again(i)
                                               /\ \A k \in Again(i) : NextUse[i] <= k
<1> DEFINE b == MAX + 1 + rf_count
<1>1. MAX \in Nat /\ rf_count \in Nat /\ count \in Nat /\ count > 0 /\ j \in Nat
  BY Basics, PageIs, PageReplacementAssumption
<1>2. NextUse = [i \in Frames |-> IF Again(i) = {} THEN MAX + 1 ELSE Min(Again(i))]
  BY DEF NextUse, Again
<1>3. ASSUME NEW i \in Frames, Again(i) # {}
      PROVE  /\ Min(Again(i)) \in Again(i) /\ \A k \in Again(i) : Min(Again(i)) <= k
             /\ Min(Again(i)) \in 0 .. rf_count
  <2>1. Again(i) \in SUBSET Int /\ \A k \in Again(i) : k >= 0  BY <1>1 DEF Again
  <2>2. Min(Again(i)) \in Again(i) /\ \A k \in Again(i) : Min(Again(i)) <= k
    BY <2>1, <1>3, MinIs
  <2>3. \A k \in Again(i) : k \in 0 .. rf_count  BY <1>1 DEF Again
  <2> QED  BY <2>2, <2>3
<1>4. NextUse \in [Frames -> Int] /\ b \in Int /\ \A i \in Frames : NextUse[i] <= b
  BY <1>1, <1>2, <1>3
<1>5. FirstMax(NextUse) \in Frames /\ \A i \in Frames : NextUse[i] <= NextUse[FirstMax(NextUse)]
  BY <1>1, <1>4, FirstMaxIs
<1>6. \A i \in Frames : NextUse[i] = IF Again(i) = {} THEN MAX + 1 ELSE Min(Again(i))  BY <1>2
<1> QED  BY <1>3, <1>5, <1>6

(* LRU takes an empty frame while there is one, and then the page whose    *)
(* last use is before that of every other.                                 *)
LEMMA LruChoice ==
  ASSUME TypeInv, at = "lru", j < rf_count, ~IsHit, FrameInv, LruInv,
         NEW v, v = FirstMin(PrevUse)
  PROVE  /\ v \in Frames
         /\ HasEmpty(page_frame_arr) => page_frame_arr[v] = EMPTY
         /\ page_frame_arr[v] # EMPTY =>
              \A k \in Frames : k # v /\ page_frame_arr[k] # EMPTY
                                  => Later(Seen, page_frame_arr[k], page_frame_arr[v])
<1>1. Running  BY DEF Running
<1>2. /\ count \in Nat /\ rf_count \in Nat /\ j \in 0 .. rf_count
      /\ DOMAIN page_frame_arr = Frames /\ \A k \in 1 .. rf_count : rf_string[k] \in Nat
      /\ Len(Seen) = j /\ \A k \in 1 .. j : Seen[k] = rf_string[k]
      /\ ToSet(Seen) = {rf_string[k] : k \in 1 .. j}
  BY <1>1, Basics
<1>3. count > 0 /\ Page \in Nat /\ Page \notin PagesOf(page_frame_arr)  BY <1>1, PageIs
<1>4. \A i \in Frames : Uses(i) \subseteq 1 .. j + 1 /\ \A k \in Uses(i) : rf_string[k] = page_frame_arr[i]
  BY DEF Uses
<1>5. ASSUME NEW i \in Frames, Uses(i) # {}
      PROVE  PrevUse[i] \in Uses(i) /\ PrevUse[i] \in Int /\ \A k \in Uses(i) : PrevUse[i] >= k
  <2>1. Uses(i) \in SUBSET Int /\ j + 1 \in Int /\ \A k \in Uses(i) : k <= j + 1  BY <1>2, <1>4
  <2>2. Max(Uses(i)) \in Uses(i) /\ \A k \in Uses(i) : Max(Uses(i)) >= k  BY <2>1, <1>5, MaxIs
  <2>3. PrevUse[i] = Max(Uses(i))  BY <1>5 DEF PrevUse
  <2> QED  BY <2>1, <2>2, <2>3
<1>6. ASSUME NEW i \in Frames, Uses(i) = {} PROVE PrevUse[i] = -1  BY <1>6 DEF PrevUse
<1>7. ASSUME NEW i \in Frames, page_frame_arr[i] = EMPTY PROVE Uses(i) = {}
  <2>1. \A k \in Uses(i) : k \in 1 .. rf_count /\ rf_string[k] = EMPTY
    BY <1>2, <1>4, <1>7
  <2> QED  BY <2>1, <1>2 DEF EMPTY
<1>8. ASSUME NEW i \in Frames, page_frame_arr[i] # EMPTY PROVE Uses(i) # {}
  <2>1. page_frame_arr[i] \in ToSet(Seen)  BY <1>2, <1>8 DEF LruInv, PagesOf
  <2>2. PICK k \in 1 .. j : page_frame_arr[i] = rf_string[k]  BY <2>1, <1>2
  <2> QED  BY <2>2, <1>2 DEF Uses
<1>9. v \in Frames /\ \A k \in Frames : PrevUse[v] <= PrevUse[k]
  <2>1. ASSUME NEW i \in Frames PROVE PrevUse[i] \in Int /\ PrevUse[i] >= -1
    <3>1. CASE Uses(i) = {}  BY <3>1, <1>6
    <3>2. CASE Uses(i) # {}
      <4>1. PrevUse[i] \in 1 .. j + 1  BY <3>2, <1>4, <1>5
      <4> QED  BY <4>1, <1>2
    <3> QED  BY <3>1, <3>2
  <2>2. PrevUse \in [Frames -> Int] /\ -1 \in Int  BY <2>1 DEF PrevUse
  <2> QED  BY <2>1, <2>2, <1>2, <1>3, FirstMinIs
<1>10. ASSUME HasEmpty(page_frame_arr) PROVE page_frame_arr[v] = EMPTY
  <2>1. PICK i \in Frames : page_frame_arr[i] = EMPTY  BY <1>10, <1>2 DEF HasEmpty
  <2>2. PrevUse[v] <= -1  BY <2>1, <1>6, <1>7, <1>9
  <2>3. ~(PrevUse[v] \in 1 .. j + 1)  BY <2>2, <1>2
  <2>4. Uses(v) = {}  BY <2>3, <1>4, <1>5, <1>9
  <2> QED  BY <2>4, <1>8, <1>9
<1>11. ASSUME page_frame_arr[v] # EMPTY, NEW k \in Frames, k # v, page_frame_arr[k] # EMPTY
       PROVE  Later(Seen, page_frame_arr[k], page_frame_arr[v])
  <2>1. PrevUse[k] \in Uses(k) /\ PrevUse[v] \in Uses(v) /\ \A n \in Uses(v) : PrevUse[v] >= n
    BY <1>5, <1>8, <1>9, <1>11
  <2>2. PICK m \in 1 .. j + 1 : m = PrevUse[k] /\ rf_string[m] = page_frame_arr[k]
    BY <2>1, <1>4
  <2>3. m \in 1 .. j
    <3>1. page_frame_arr[k] # Page  BY <1>3, <1>11, <1>2 DEF PagesOf
    <3>2. m # j + 1  BY <3>1, <2>2 DEF Page
    <3> QED  BY <3>2, <1>2
  <2>4. ASSUME NEW n \in m .. j, Seen[n] = page_frame_arr[v] PROVE FALSE
    <3>1. n \in 1 .. j  BY <2>3, <1>2
    <3>2. n \in Uses(v)  BY <3>1, <2>4, <1>2 DEF Uses
    <3>3. n <= PrevUse[v] /\ PrevUse[v] <= m /\ PrevUse[v] \in 1 .. j + 1
      BY <3>2, <2>1, <2>2, <1>4, <1>9
    <3>4. n = m  BY <3>1, <3>3, <1>2, <2>3
    <3>5. page_frame_arr[k] = page_frame_arr[v]  BY <3>1, <3>4, <2>2, <2>4, <1>2
    <3> QED  BY <3>5, <1>1, <1>2, <1>9, <1>11 DEF FrameInv, Distinct
  <2>5. m \in 1 .. Len(Seen) /\ Seen[m] = page_frame_arr[k]  BY <2>2, <2>3, <1>2
  <2> QED  BY <2>4, <2>5, <1>2 DEF Later
<1> QED  BY <1>9, <1>10, <1>11

(* The hand stays on the frames, and goes to the first empty one.          *)
LEMMA ClockChoice ==
  ASSUME TypeInv, at = "clock", count > 0, ClockInv
  PROVE  /\ Chosen \in Frames
         /\ HasEmpty(page_frame_arr) =>
              \A i \in Frames : /\ page_frame_arr[i] = EMPTY <=> i >= Chosen
                                /\ i >= Chosen => use_bit[i] = 0
<1> DEFINE h == clock_hand
           K == {n \in 0 .. count : n = count \/ use_bit[(h + n) % count] = 0}
<1>1. Running  BY DEF Running
<1>2. /\ count \in Nat /\ DOMAIN page_frame_arr = Frames /\ h \in Frames
      /\ \A i : i \in Frames <=> i \in 0 .. count - 1
  BY <1>1, Basics DEF TypeInv, Frames
<1>3. ASSUME NEW a \in Nat PROVE a % count \in Frames  BY <1>2
<1>4. ASSUME NEW a \in Frames PROVE a % count = a  BY <1>2
<1>5. Min(K) \in K /\ \A n \in K : Min(K) <= n
  <2>1. count \in K /\ K \in SUBSET Int /\ 0 \in Int /\ \A n \in K : n >= 0  BY <1>2
  <2> HIDE DEF K
  <2> QED  BY <2>1, MinIs
<1>6. Passed = {(h + n) % count : n \in 0 .. Min(K) - 1}  BY DEF Passed
<1>7. Min(K) \in Nat  BY <1>5, <1>2
<1> HIDE DEF K
<1>8. Passed \subseteq Frames
  <2>1. \A n \in 0 .. Min(K) - 1 : h + n \in Nat  BY <1>2, <1>7
  <2> QED  BY <2>1, <1>3, <1>6
<1>9. Cardinality(Passed) \in Nat
  <2>1. IsFiniteSet(Frames)  BY <1>2, FS_Interval DEF Frames
  <2> QED  BY <2>1, <1>8, FS_Subset, FS_CardinalityType
<1>10. Chosen \in Frames
  <2>1. h + Cardinality(Passed) \in Nat  BY <1>2, <1>9
  <2> QED  BY <2>1, <1>2, <1>3 DEF Chosen
<1>11. ASSUME HasEmpty(page_frame_arr),
              h = 0, \A i \in Frames : page_frame_arr[i] = EMPTY /\ use_bit[i] = 0
       PROVE  Chosen = 0
  <2>1. (h + 0) % count = 0 /\ 0 \in Frames  BY <1>2, <1>4, <1>11
  <2>2. 0 \in K  BY <2>1, <1>2, <1>11 DEF K
  <2>3. Min(K) = 0  BY <2>2, <1>5, <1>7
  <2>4. Passed = {}  BY <2>3, <1>6
  <2>5. Passed # Frames /\ Cardinality(Passed) = 0  BY <2>1, <2>4, FS_EmptySet
  <2> QED  BY <2>1, <2>5 DEF Chosen
<1>12. ASSUME HasEmpty(page_frame_arr), use_bit[h] = 1,
              \A i \in Frames : /\ page_frame_arr[i] = EMPTY <=> i > h
                                /\ i > h => use_bit[i] = 0
       PROVE  Chosen = h + 1
  <2>1. h + 1 \in Frames
    <3>1. PICK i \in Frames : i > h  BY <1>12, <1>2 DEF HasEmpty
    <3> QED  BY <3>1, <1>2
  <2>2. (h + 0) % count = h /\ (h + 1) % count = h + 1
    <3>1. h + 0 = h  BY <1>2
    <3> QED  BY <3>1, <2>1, <1>2, <1>4
  <2>3. 0 \notin K  BY <2>2, <1>2, <1>12 DEF K
  <2>4. 1 \in K
    <3>1. h + 1 > h  BY <1>2
    <3>2. use_bit[h + 1] = 0  BY <3>1, <2>1, <1>12
    <3> QED  BY <3>2, <2>2, <1>2 DEF K
  <2>5. Min(K) = 1
    <3>1. Min(K) # 0 /\ Min(K) <= 1  BY <2>3, <2>4, <1>5
    <3> QED  BY <3>1, <1>7
  <2>6. Passed = {h}
    <3>1. 0 .. Min(K) - 1 = {0}  BY <2>5
    <3> QED  BY <3>1, <2>2, <1>6
  <2>7. Passed # Frames
    <3>1. h + 1 # h  BY <1>2
    <3> QED  BY <3>1, <2>1, <2>6
  <2>8. Cardinality(Passed) = 1  BY <2>6, FS_Singleton
  <2> QED  BY <2>2, <2>7, <2>8 DEF Chosen
<1>13. ASSUME HasEmpty(page_frame_arr)
       PROVE  \A i \in Frames : /\ page_frame_arr[i] = EMPTY <=> i >= Chosen
                                /\ i >= Chosen => use_bit[i] = 0
  <2>1. Filling(page_frame_arr, use_bit, h)  BY DEF ClockInv
  <2>2. CASE h = 0 /\ \A i \in Frames : page_frame_arr[i] = EMPTY /\ use_bit[i] = 0
    <3>1. Chosen = 0  BY <2>2, <1>11, <1>13
    <3> QED  BY <3>1, <2>2, <1>2
  <2>3. CASE /\ use_bit[h] = 1
             /\ \A i \in Frames : /\ page_frame_arr[i] = EMPTY <=> i > h
                                  /\ i > h => use_bit[i] = 0
    <3>1. Chosen = h + 1  BY <2>3, <1>12, <1>13
    <3>2. \A i \in Frames : i >= h + 1 <=> i > h  BY <1>2
    <3> QED  BY <3>1, <3>2, <2>3
  <2> QED  BY <2>1, <2>2, <2>3, <1>2, <1>13 DEF Filling
<1> QED  BY <1>10, <1>13

---------------------------------------------------------------------------
(* A policy starts with empty frames.                                      *)
LEMMA Starts ==
  ASSUME NEW p \in ToSet(Policies), file \in Files, count = 0 => rf_count = 0,
         Start(p), UNCHANGED file
  PROVE  Inv'
<1>1. count \in Nat /\ rf_string \in Seq(Nat) /\ rf_count \in Nat
  BY PageReplacementAssumption, LenProperties DEF count, rf_string, rf_count
<1>2. /\ count' = count /\ rf_string' = rf_string /\ rf_count' = rf_count /\ Frames' = Frames
      /\ at' = p /\ j' = 0 /\ loaded' = <<>> /\ oldest' = 0 /\ clock_hand' = 0
      /\ page_frame_arr' = [i \in Frames |-> EMPTY] /\ use_bit' = [i \in Frames |-> 0]
  BY DEF Start, count, rf_string, rf_count, Frames
<1>3. DOMAIN (page_frame_arr') = Frames /\ \A i \in Frames : page_frame_arr'[i] = EMPTY  BY <1>2
<1>4. PagesOf(page_frame_arr') = {}  BY <1>3 DEF PagesOf
<1>5. Seen' = <<>> /\ ToSet(<<>>) = {} /\ Len(<<>>) = 0 /\ <<>> \in Seq(Nat)
  <2>1. Seen' = SubSeq(rf_string, 1, 0)  BY <1>2 DEF Seen
  <2>2. SubSeq(rf_string, 1, 0) = <<>>  BY SubSeqEmpty
  <2> QED  BY <2>1, <2>2 DEF ToSet
<1>6. TypeInv'  BY <1>1, <1>2, <1>5 DEF TypeInv, Frames
<1>7. FrameInv'  BY <1>2, <1>3, <1>4, <1>5 DEF FrameInv, Distinct, Fills
<1>8. LruInv'  BY <1>4, <1>5 DEF LruInv, Fills, Behind
<1>9. FifoInv'
  <2>1. Behind(loaded', PagesOf(page_frame_arr'))  BY <1>4 DEF Behind
  <2>2. InOrder(page_frame_arr', oldest', loaded', count')  BY <1>3 DEF InOrder
  <2>3. FilledTo(page_frame_arr', oldest')  BY <1>1, <1>2, <1>3 DEF FilledTo, Frames
  <2> QED  BY <2>1, <2>2, <2>3 DEF FifoInv
<1>10. ClockInv'
  <2>1. Filling(page_frame_arr', use_bit', clock_hand')  BY <1>2, <1>3 DEF Filling
  <2> QED  BY <2>1, <1>2 DEF ClockInv
<1> QED  BY <1>6, <1>7, <1>8, <1>9, <1>10 DEF Inv

(* What a fault does to the frames, whichever frame the policy chooses.    *)
LEMMA Faults ==
  ASSUME TypeInv, FrameInv, Running, NEW i \in Frames, Fault(i),
         at # "optimal" /\ HasEmpty(page_frame_arr) => page_frame_arr[i] = EMPTY
  PROVE  /\ FrameInv' /\ j < rf_count /\ ~IsHit
         /\ Page \in Nat /\ Page \notin PagesOf(page_frame_arr)
         /\ page_frame_arr' = Put(page_frame_arr, i, Page) /\ loaded' = Append(loaded, Page)
         /\ at' = at /\ file' = file /\ count' = count /\ Frames' = Frames
         /\ rf_count' = rf_count /\ rf_string' = rf_string /\ j' \in 0 .. rf_count /\ j' = j + 1
         /\ page_frame_arr' \in [Frames -> Nat \cup {EMPTY}] /\ loaded' \in Seq(Nat)
         /\ Seen' = Append(Seen, Page)
<1>1. /\ j < rf_count /\ ~IsHit /\ j' = j + 1 /\ loaded' = Append(loaded, Page)
      /\ page_frame_arr' = Put(page_frame_arr, i, Page) /\ at' = at /\ file' = file
  BY DEF Fault, Put
<1>2. count' = count /\ Frames' = Frames /\ rf_count' = rf_count /\ rf_string' = rf_string
  BY <1>1 DEF count, Frames, rf_count, rf_string
<1>3. Page \in Nat /\ Page \notin PagesOf(page_frame_arr)  BY <1>1, PageIs
<1>4. j' \in 0 .. rf_count  BY <1>1, Basics
<1>5. Seen' = Append(Seen, Page)  BY <1>1, <1>2, PageIs DEF Seen
<1>6. page_frame_arr \in [Frames -> Nat \cup {EMPTY}] /\ Distinct(page_frame_arr) /\ loaded \in Seq(Nat)
      /\ PagesOf(page_frame_arr) \subseteq ToSet(loaded)
  BY DEF TypeInv, FrameInv
<1>7. PICK g : g = Put(page_frame_arr, i, Page)  OBVIOUS
<1>8. /\ g \in [Frames -> Nat \cup {EMPTY}] /\ Distinct(g)
      /\ PagesOf(g) = (PagesOf(page_frame_arr) \ {page_frame_arr[i]}) \cup {Page}
  BY <1>3, <1>6, <1>7, Replaced
<1>9. Append(loaded, Page) \in Seq(Nat) /\ ToSet(Append(loaded, Page)) = ToSet(loaded) \cup {Page}
  BY <1>3, <1>6, Added
<1>10. at # "optimal" => Fills(g, Append(loaded, Page))
  BY <1>3, <1>6, <1>7, FillsOn DEF FrameInv
<1>11. FrameInv'  BY <1>1, <1>6, <1>7, <1>8, <1>9, <1>10 DEF FrameInv, Running
<1> QED  BY <1>1, <1>2, <1>3, <1>4, <1>5, <1>7, <1>8, <1>9, <1>11

(* The order of fifo's frames after it has replaced the oldest.            *)
LEMMA FifoOn ==
  ASSUME NEW n \in Nat, NEW F, F = 0 .. n - 1, NEW f \in [F -> Nat \cup {EMPTY}], NEW o \in F,
         NEW x \in Nat, x \notin PagesOf(f), Distinct(f), NEW s \in Seq(Nat),
         InOrder(f, o, s, n), FilledTo(f, o),
         NEW g, g = Put(f, o, x), NEW o2, o2 = IF o = n - 1 THEN 0 ELSE o + 1
  PROVE  InOrder(g, o2, Append(s, x), n) /\ FilledTo(g, o2)
<1>1. /\ DOMAIN g = F /\ DOMAIN f = F /\ g[o] = x /\ x # EMPTY
      /\ \A k \in F : k # o => g[k] = f[k]
  BY DEF Put, EMPTY
<1>2. Distinct(g) /\ (HasEmpty(g) => HasEmpty(f))  BY Replaced
<1>3. \A k \in F \ {o} : Turn(k, o2, n) = Turn(k, o, n) - 1 /\ Turn(k, o, n) \in Nat
  BY DEF Turn
<1>4. Turn(o, o2, n) = n - 1 /\ \A k \in F : Turn(k, o2, n) <= n - 1  BY DEF Turn
<1>5. ASSUME NEW a \in F, NEW b \in F, g[a] # EMPTY, g[b] # EMPTY, Turn(a, o2, n) < Turn(b, o2, n)
      PROVE  Later(Append(s, x), g[b], g[a])
  <2>1. a # o
    <3>1. Turn(b, o2, n) \in Int /\ n \in Int
      <4>1. Turn(b, o2, n) \in Int  BY <1>5 DEF Turn
      <4> QED  BY <4>1
    <3>2. ~(Turn(o, o2, n) < Turn(b, o2, n))  BY <3>1, <1>4, <1>5
    <3> QED  BY <3>2, <1>5
  <2>2. g[a] = f[a] /\ g[a] # x  BY <2>1, <1>1, <1>2, <1>5 DEF Distinct
  <2>3. CASE b = o  BY <2>2, <2>3, <1>1, LaterAppended
  <2>4. CASE b # o
    <3>1. Turn(a, o, n) < Turn(b, o, n)  BY <2>1, <2>4, <1>3, <1>5
    <3>2. Later(s, f[b], f[a])  BY <3>1, <2>2, <2>4, <1>1, <1>5 DEF InOrder
    <3>3. Later(s, g[b], g[a])  BY <3>2, <2>2, <2>4, <1>1, <1>5
    <3> QED  BY <3>3, <2>2, LaterAppended
  <2> QED  BY <2>3, <2>4
<1>6. InOrder(g, o2, Append(s, x), n)  BY <1>1, <1>5 DEF InOrder
<1>7. ASSUME HasEmpty(g), NEW k \in F PROVE g[k] = EMPTY <=> k >= o2
  <2>1. \A i \in F : f[i] = EMPTY <=> i >= o  BY <1>1, <1>2, <1>7 DEF FilledTo
  <2>2. PICK e \in F : g[e] = EMPTY  BY <1>1, <1>7 DEF HasEmpty
  <2>3. e # o /\ e >= o  BY <2>1, <2>2, <1>1
  <2>4. o # n - 1 /\ o2 = o + 1  BY <2>3
  <2>5. CASE k = o  BY <2>4, <2>5, <1>1
  <2>6. CASE k # o
    <3>1. g[k] = EMPTY <=> k >= o  BY <2>1, <2>6, <1>1, <1>7
    <3>2. k >= o <=> k >= o + 1  BY <2>6, <1>7
    <3> QED  BY <3>1, <3>2, <2>4
  <2> QED  BY <2>5, <2>6
<1>8. FilledTo(g, o2)  BY <1>1, <1>7 DEF FilledTo
<1> QED  BY <1>6, <1>8

---------------------------------------------------------------------------
(* Every step keeps the invariant.                                         *)
LEMMA InitHolds == PagingInit => Inv
<1> SUFFICES ASSUME PagingInit PROVE Inv  OBVIOUS
<1>1. file \in Files /\ at = "read"  BY DEF PagingInit
<1> QED  BY <1>1 DEF Inv, TypeInv, FrameInv, LruInv, FifoInv, ClockInv, Running

LEMMA ReadFileKeeps ==
  ASSUME Inv, ReadFile
  PROVE  Inv'
<1>1. file \in Files /\ UNCHANGED file  BY DEF Inv, TypeInv, ReadFile
<1>2. CASE Outside
  <2>1. at' = "undefined"  BY <1>2 DEF ReadFile
  <2> QED  BY <1>1, <2>1 DEF Inv, TypeInv, FrameInv, LruInv, FifoInv, ClockInv, Running
<1>3. CASE ~Outside
  <2>1. Start(Policies[1])  BY <1>3 DEF ReadFile
  <2>2. Policies[1] \in ToSet(Policies)  BY PolicyNames
  <2>3. count = 0 => rf_count = 0
    <3>1. rf_count \in Nat /\ (count = 0 => ~(rf_count > 0))
      BY <1>1, <1>3, PageReplacementAssumption, LenProperties DEF Outside, rf_count, rf_string
    <3> QED  BY <3>1
  <2> QED  BY <1>1, <2>1, <2>2, <2>3, Starts
<1> QED  BY <1>2, <1>3

LEMMA NextPolicyKeeps ==
  ASSUME Inv, NextPolicy
  PROVE  Inv'
<1>1. file \in Files /\ UNCHANGED file /\ at \in ToSet(Policies)  BY DEF Inv, TypeInv, NextPolicy
<1>2. count = 0 => rf_count = 0  BY <1>1, PolicyNames DEF Inv, TypeInv, Running
<1>3. CASE at = Last(Policies)
  <2>1. at' = "done"  BY <1>3 DEF NextPolicy
  <2> QED  BY <1>1, <2>1 DEF Inv, TypeInv, FrameInv, LruInv, FifoInv, ClockInv, Running
<1>4. CASE at # Last(Policies)
  <2>1. Start(Policies[1 + CHOOSE k \in DOMAIN Policies : Policies[k] = at])
    BY <1>4 DEF NextPolicy
  <2>2. Policies[1 + CHOOSE k \in DOMAIN Policies : Policies[k] = at] \in ToSet(Policies)
    BY <1>1, <1>4, PolicyNames
  <2> QED  BY <1>1, <1>2, <2>1, <2>2, Starts
<1> QED  BY <1>3, <1>4

(* A page that is in a frame already is used: for LRU it is the last now.  *)
LEMMA HitKeeps ==
  ASSUME TypeInv, FrameInv, LruInv, FifoInv, Running, Hit
  PROVE  /\ FrameInv' /\ LruInv' /\ FifoInv' /\ Page \in Nat /\ IsHit
         /\ at' = at /\ file' = file /\ count' = count /\ Frames' = Frames
         /\ rf_count' = rf_count /\ rf_string' = rf_string /\ j' \in 0 .. rf_count /\ j' = j + 1
         /\ page_frame_arr' = page_frame_arr /\ loaded' = loaded
         /\ oldest' = oldest /\ clock_hand' = clock_hand
<1>1. /\ j < rf_count /\ IsHit /\ j' = j + 1 /\ at' = at /\ file' = file
      /\ page_frame_arr' = page_frame_arr /\ loaded' = loaded
      /\ oldest' = oldest /\ clock_hand' = clock_hand
  BY DEF Hit
<1>2. count' = count /\ Frames' = Frames /\ rf_count' = rf_count /\ rf_string' = rf_string
  BY <1>1 DEF count, Frames, rf_count, rf_string
<1>3. Page \in Nat /\ Page \in PagesOf(page_frame_arr)  BY <1>1, PageIs
<1>4. j' \in 0 .. rf_count  BY <1>1, Basics
<1>5. Seen' = Append(Seen, Page) /\ Seen \in Seq(Nat)  BY <1>1, <1>2, Basics, PageIs DEF Seen
<1>6. FrameInv'  BY <1>1 DEF FrameInv, Running
<1>7. LruInv'
  <2> DEFINE t == Append(Seen, Page)  S == PagesOf(page_frame_arr)
  <2>1. SUFFICES ASSUME at = "lru"
                 PROVE  S \subseteq ToSet(t) /\ Fills(page_frame_arr, t) /\ Behind(t, S)
    BY <1>1, <1>5 DEF LruInv
  <2>2. ToSet(t) = ToSet(Seen) \cup {Page}  BY <1>3, <1>5, Added
  <2>3. S \subseteq ToSet(t) /\ Fills(page_frame_arr, t)  BY <1>3, <2>1, <2>2 DEF LruInv, Fills
  <2>4. ASSUME NEW p \in S, NEW q \in ToSet(t) \ S PROVE Later(t, p, q)
    <3>1. q # Page /\ q \in ToSet(Seen) \ S  BY <1>3, <2>2, <2>4
    <3>2. Later(Seen, p, q)  BY <2>1, <3>1, <2>4 DEF LruInv, Behind
    <3> QED  BY <1>3, <1>5, <3>1, <3>2, LaterAppended
  <2>5. Behind(t, S)  BY <2>4 DEF Behind
  <2> QED  BY <2>3, <2>5
<1>8. FifoInv'  BY <1>1, <1>2 DEF FifoInv
<1> QED  BY <1>1, <1>2, <1>3, <1>4, <1>6, <1>7, <1>8

LEMMA PlainHitKeeps ==
  ASSUME Inv, PlainHit
  PROVE  Inv'
<1>1. Hit /\ UNCHANGED use_bit /\ at # "clock" /\ Running  BY PolicyNames DEF PlainHit, Running
<1>2. /\ FrameInv' /\ LruInv' /\ FifoInv' /\ at' = at /\ file' = file /\ count' = count
      /\ Frames' = Frames /\ rf_count' = rf_count /\ j' \in 0 .. rf_count
      /\ page_frame_arr' = page_frame_arr /\ loaded' = loaded
      /\ oldest' = oldest /\ clock_hand' = clock_hand
  BY <1>1, HitKeeps DEF Inv
<1>3. TypeInv'  BY <1>1, <1>2 DEF Inv, TypeInv
<1>4. ClockInv'  BY <1>1, <1>2 DEF ClockInv
<1> QED  BY <1>2, <1>3, <1>4 DEF Inv

LEMMA ClockHitKeeps ==
  ASSUME Inv, ClockHit
  PROVE  Inv'
<1>1. /\ Hit /\ at = "clock" /\ Running
      /\ use_bit' = [i \in Frames |-> IF page_frame_arr[i] = Page THEN 1 ELSE use_bit[i]]
  BY DEF ClockHit, Running
<1>2. /\ FrameInv' /\ LruInv' /\ FifoInv' /\ at' = at /\ file' = file /\ count' = count
      /\ Frames' = Frames /\ rf_count' = rf_count /\ rf_string' = rf_string /\ j' \in 0 .. rf_count
      /\ page_frame_arr' = page_frame_arr /\ loaded' = loaded /\ j' = j + 1
      /\ oldest' = oldest /\ clock_hand' = clock_hand /\ Page \in Nat /\ IsHit
  BY <1>1, HitKeeps DEF Inv
<1>3. use_bit' \in [Frames -> {0, 1}]  BY <1>1 DEF Inv, TypeInv
<1>4. TypeInv'  BY <1>1, <1>2, <1>3 DEF Inv, TypeInv
<1>5. PICK i \in Frames : page_frame_arr[i] = Page  BY <1>2 DEF IsHit
<1>6. use_bit'[i] = 1 /\ rf_string'[j'] = Page  BY <1>1, <1>2, <1>5 DEF Page
<1>7. Filling(page_frame_arr, use_bit', clock_hand)
  <2> DEFINE f == page_frame_arr  h == clock_hand
  <2>1. SUFFICES ASSUME HasEmpty(f)
                 PROVE  /\ f[h] # EMPTY /\ use_bit'[h] = 1
                        /\ \A k \in Frames : /\ f[k] = EMPTY <=> k > h
                                             /\ k > h => use_bit'[k] = 0
    <3>1. DOMAIN f = Frames  BY <1>1 DEF Inv, TypeInv
    <3> QED  BY <3>1 DEF Filling
  <2>2. DOMAIN f = Frames /\ h \in Frames /\ f[i] # EMPTY
    <3>1. count \in Nat /\ count > 0
      <4>1. j < rf_count  BY <1>1 DEF Hit
      <4> QED  BY <4>1, <1>1, Basics, PageIs DEF Inv
    <3>2. Page # EMPTY  BY <1>2 DEF EMPTY
    <3> QED  BY <3>1, <3>2, <1>1, <1>5 DEF Inv, TypeInv
  <2>3. /\ f[h] # EMPTY /\ use_bit[h] = 1
        /\ \A k \in Frames : /\ f[k] = EMPTY <=> k > h
                             /\ k > h => use_bit[k] = 0
    BY <1>1, <2>1, <2>2 DEF Inv, ClockInv, Filling
  <2>4. \A k \in Frames : f[k] = EMPTY => f[k] # Page  BY <1>2 DEF EMPTY
  <2> QED  BY <1>1, <2>2, <2>3, <2>4
<1>8. ClockInv'  BY <1>2, <1>5, <1>6, <1>7 DEF ClockInv
<1> QED  BY <1>2, <1>4, <1>8 DEF Inv

LEMMA OptimalKeeps ==
  ASSUME Inv, Optimal
  PROVE  Inv'
<1> DEFINE v == FirstMax(NextUse)
<1>1. at = "optimal" /\ Running /\ Fault(v) /\ UNCHANGED <<oldest, use_bit, clock_hand>>
  BY DEF Optimal, Running
<1>2. v \in Frames  BY <1>1, OptimalChoice DEF Inv, Fault
<1>3. /\ FrameInv' /\ at' = at /\ file' = file /\ count' = count /\ Frames' = Frames
      /\ rf_count' = rf_count /\ j' \in 0 .. rf_count
      /\ page_frame_arr' \in [Frames -> Nat \cup {EMPTY}] /\ loaded' \in Seq(Nat)
  <2> HIDE DEF v
  <2> QED  BY <1>1, <1>2, Faults DEF Inv
<1>4. TypeInv'  BY <1>1, <1>3 DEF Inv, TypeInv
<1> QED  BY <1>1, <1>3, <1>4 DEF Inv, LruInv, FifoInv, ClockInv

LEMMA LruKeeps ==
  ASSUME Inv, Lru
  PROVE  Inv'
<1>1. PICK v : v = FirstMin(PrevUse)  OBVIOUS
<1>2. at = "lru" /\ Running /\ Fault(v) /\ UNCHANGED <<oldest, use_bit, clock_hand>>
  BY <1>1 DEF Lru, Running
<1>3. j < rf_count /\ ~IsHit  BY <1>2 DEF Fault
<1> DEFINE f == page_frame_arr
<1>4. /\ v \in Frames /\ (HasEmpty(f) => f[v] = EMPTY)
      /\ f[v] # EMPTY => \A k \in Frames : k # v /\ f[k] # EMPTY => Later(Seen, f[k], f[v])
  BY <1>1, <1>2, <1>3, LruChoice DEF Inv
<1>5. /\ FrameInv' /\ at' = at /\ file' = file /\ count' = count /\ Frames' = Frames
      /\ rf_count' = rf_count /\ j' \in 0 .. rf_count
      /\ page_frame_arr' \in [Frames -> Nat \cup {EMPTY}] /\ loaded' \in Seq(Nat)
      /\ Page \in Nat /\ Page \notin PagesOf(f)
      /\ page_frame_arr' = Put(f, v, Page) /\ Seen' = Append(Seen, Page)
  BY <1>2, <1>4, Faults DEF Inv
<1>6. TypeInv'  BY <1>2, <1>5 DEF Inv, TypeInv
<1>7. PICK g : g = Put(f, v, Page)  OBVIOUS
<1>8. f \in [Frames -> Nat \cup {EMPTY}] /\ Distinct(f) /\ Seen \in Seq(Nat)
      /\ Fills(f, Seen) /\ Behind(Seen, PagesOf(f)) /\ PagesOf(f) \subseteq ToSet(Seen)
  BY <1>2, Basics DEF Inv, TypeInv, FrameInv, LruInv
<1>9. Fills(g, Append(Seen, Page))
  <2> HIDE DEF f
  <2> QED  BY <1>4, <1>5, <1>7, <1>8, FillsOn
<1>10. Behind(Append(Seen, Page), PagesOf(g)) /\ PagesOf(g) \subseteq ToSet(Append(Seen, Page))
  <2> HIDE DEF f
  <2> QED  BY <1>4, <1>5, <1>7, <1>8, BehindOn
<1>11. LruInv'  BY <1>5, <1>7, <1>9, <1>10 DEF LruInv
<1> QED  BY <1>2, <1>5, <1>6, <1>11 DEF Inv, FifoInv, ClockInv

LEMMA FifoKeeps ==
  ASSUME Inv, Fifo
  PROVE  Inv'
<1> DEFINE f == page_frame_arr  o == oldest
<1>1. /\ at = "fifo" /\ Running /\ Fault(o) /\ UNCHANGED <<use_bit, clock_hand>>
      /\ oldest' = IF o = count - 1 THEN 0 ELSE o + 1
  BY DEF Fifo, Running
<1>2. j < rf_count /\ ~IsHit  BY <1>1 DEF Fault
<1>3. count \in Nat /\ count > 0 /\ o \in Frames /\ DOMAIN f = Frames /\ Frames = 0 .. count - 1
  BY <1>1, <1>2, Basics, PageIs DEF Inv, TypeInv, Frames
<1>4. HasEmpty(f) => f[o] = EMPTY  BY <1>1, <1>3 DEF Inv, FifoInv, FilledTo
<1>5. /\ FrameInv' /\ at' = at /\ file' = file /\ count' = count /\ Frames' = Frames
      /\ rf_count' = rf_count /\ j' \in 0 .. rf_count
      /\ page_frame_arr' \in [Frames -> Nat \cup {EMPTY}] /\ loaded' \in Seq(Nat)
      /\ Page \in Nat /\ Page \notin PagesOf(f)
      /\ page_frame_arr' = Put(f, o, Page) /\ loaded' = Append(loaded, Page)
  BY <1>1, <1>3, <1>4, Faults DEF Inv
<1>6. oldest' \in Frames  BY <1>1, <1>3
<1>7. TypeInv'  BY <1>1, <1>5, <1>6 DEF Inv, TypeInv
<1>8. PICK g : g = Put(f, o, Page)  OBVIOUS
<1>9. PICK o2 : o2 = IF o = count - 1 THEN 0 ELSE o + 1  OBVIOUS
<1>10. f \in [Frames -> Nat \cup {EMPTY}] /\ Distinct(f) /\ loaded \in Seq(Nat)
       /\ Behind(loaded, PagesOf(f)) /\ PagesOf(f) \subseteq ToSet(loaded)
       /\ InOrder(f, o, loaded, count) /\ FilledTo(f, o)
  BY <1>1, <1>3 DEF Inv, TypeInv, FrameInv, FifoInv
<1>11. InOrder(g, o2, Append(loaded, Page), count) /\ FilledTo(g, o2)
  <2> HIDE DEF f, o
  <2> QED  BY <1>3, <1>5, <1>8, <1>9, <1>10, FifoOn
<1>12. ASSUME f[o] # EMPTY, NEW k \in Frames, k # o, f[k] # EMPTY PROVE Later(loaded, f[k], f[o])
  <2>1. Turn(o, o, count) < Turn(k, o, count)  BY <1>3, <1>12 DEF Turn
  <2> QED  BY <2>1, <1>3, <1>10, <1>12 DEF InOrder
<1>13. Behind(Append(loaded, Page), PagesOf(g))
  <2> HIDE DEF f, o
  <2> QED  BY <1>3, <1>5, <1>8, <1>10, <1>12, BehindOn
<1>14. FifoInv'  BY <1>1, <1>5, <1>8, <1>9, <1>11, <1>13 DEF FifoInv
<1> QED  BY <1>1, <1>5, <1>7, <1>14 DEF Inv, LruInv, ClockInv

LEMMA ClockKeeps ==
  ASSUME Inv, Clock
  PROVE  Inv'
<1> DEFINE f == page_frame_arr
<1>1. PICK c : c = Chosen  OBVIOUS
<1>2. /\ at = "clock" /\ Running /\ Fault(c) /\ clock_hand' = c /\ UNCHANGED oldest
      /\ use_bit' = [i \in Frames |-> IF i = c THEN 1 ELSE IF i \in Passed THEN 0 ELSE use_bit[i]]
  BY <1>1 DEF Clock, Running
<1>3. j < rf_count /\ ~IsHit  BY <1>2 DEF Fault
<1>4. count \in Nat /\ count > 0 /\ DOMAIN f = Frames /\ Frames = 0 .. count - 1
  BY <1>2, <1>3, Basics, PageIs DEF Inv, Frames
<1>5. /\ c \in Frames
      /\ HasEmpty(f) => \A i \in Frames : /\ f[i] = EMPTY <=> i >= c
                                          /\ i >= c => use_bit[i] = 0
  BY <1>1, <1>2, <1>4, ClockChoice DEF Inv
<1>6. HasEmpty(f) => f[c] = EMPTY  BY <1>4, <1>5
<1>7. /\ FrameInv' /\ at' = at /\ file' = file /\ count' = count /\ Frames' = Frames
      /\ rf_count' = rf_count /\ j' \in 0 .. rf_count /\ j' = j + 1 /\ rf_string' = rf_string
      /\ page_frame_arr' \in [Frames -> Nat \cup {EMPTY}] /\ loaded' \in Seq(Nat)
      /\ Page \in Nat /\ Page \notin PagesOf(f) /\ page_frame_arr' = Put(f, c, Page)
  BY <1>2, <1>5, <1>6, Faults DEF Inv
<1>8. use_bit' \in [Frames -> {0, 1}]  BY <1>2 DEF Inv, TypeInv
<1>9. TypeInv'  BY <1>2, <1>5, <1>7, <1>8 DEF Inv, TypeInv
<1>10. PICK g : g = Put(f, c, Page)  OBVIOUS
<1>11. PICK bit : bit = [i \in Frames |-> IF i = c THEN 1 ELSE IF i \in Passed THEN 0 ELSE use_bit[i]]
  OBVIOUS
<1>12. DOMAIN g = Frames /\ g[c] = Page /\ Page # EMPTY /\ \A i \in Frames : i # c => g[i] = f[i]
  BY <1>4, <1>5, <1>7, <1>10 DEF Put, EMPTY
<1>13. bit[c] = 1 /\ \A i \in Frames : i # c => bit[i] = 0 \/ bit[i] = use_bit[i]  BY <1>5, <1>11
<1>14. Filling(g, bit, c)
  <2>1. SUFFICES ASSUME HasEmpty(g)
                 PROVE  \A i \in Frames : /\ g[i] = EMPTY <=> i > c
                                          /\ i > c => bit[i] = 0
    BY <1>12, <1>13 DEF Filling
  <2>2. HasEmpty(f)  BY <1>4, <1>12, <2>1 DEF HasEmpty
  <2> SUFFICES ASSUME NEW i \in Frames
               PROVE  /\ g[i] = EMPTY <=> i > c
                      /\ i > c => bit[i] = 0
    OBVIOUS
  <2>3. CASE i = c  BY <2>3, <1>4, <1>12
  <2>4. CASE i # c
    <3>1. i > c <=> i >= c  BY <2>4, <1>4, <1>5
    <3> QED  BY <3>1, <2>2, <2>4, <1>5, <1>12, <1>13
  <2> QED  BY <2>3, <2>4
<1>15. g[c] = rf_string'[j'] /\ bit[c] = 1  BY <1>7, <1>12, <1>13 DEF Page
<1>16. page_frame_arr' = g /\ use_bit' = bit /\ clock_hand' = c  BY <1>2, <1>7, <1>10, <1>11
<1>17. ClockInv'  BY <1>5, <1>7, <1>14, <1>15, <1>16 DEF ClockInv
<1> QED  BY <1>2, <1>7, <1>9, <1>17 DEF Inv, LruInv, FifoInv

LEMMA StepKeeps == Inv /\ [PagingNext]_pagingVars => Inv'
<1> SUFFICES ASSUME Inv, [PagingNext]_pagingVars PROVE Inv'  OBVIOUS
<1>1. CASE ReadFile  BY <1>1, ReadFileKeeps
<1>2. CASE PlainHit  BY <1>2, PlainHitKeeps
<1>3. CASE Optimal  BY <1>3, OptimalKeeps
<1>4. CASE Fifo  BY <1>4, FifoKeeps
<1>5. CASE Lru  BY <1>5, LruKeeps
<1>6. CASE ClockHit  BY <1>6, ClockHitKeeps
<1>7. CASE Clock  BY <1>7, ClockKeeps
<1>8. CASE NextPolicy  BY <1>8, NextPolicyKeeps
<1>9. CASE UNCHANGED pagingVars
  <2>1. UNCHANGED <<file, at, j, page_frame_arr, oldest, use_bit, clock_hand, loaded>>
    BY <1>9 DEF pagingVars, policy
  <2> QED
    BY <2>1 DEF Inv, TypeInv, FrameInv, LruInv, FifoInv, ClockInv, Running, Seen, Frames, count,
                rf_count, rf_string
<1> QED  BY <1>1, <1>2, <1>3, <1>4, <1>5, <1>6, <1>7, <1>8, <1>9 DEF PagingNext

(* As many pages as full frames, since no page is in two.                  *)
LEMMA FrameCount ==
  ASSUME TypeInv, FrameInv, Running, NEW S, S = PagesOf(page_frame_arr)
  PROVE  /\ IsFiniteSet(S) /\ Cardinality(S) \in Nat /\ Cardinality(S) <= count
         /\ Cardinality({i \in Frames : page_frame_arr[i] # EMPTY}) = Cardinality(S)
         /\ HasEmpty(page_frame_arr) <=> Cardinality(S) < count
<1> DEFINE f == page_frame_arr
           Full == {i \in Frames : f[i] # EMPTY}
<1>1. count \in Nat /\ DOMAIN f = Frames /\ Frames = 0 .. count - 1  BY Basics DEF Frames
<1>2. IsFiniteSet(Frames) /\ Cardinality(Frames) = count  BY <1>1, FS_Interval
<1>3. /\ IsFiniteSet(Full) /\ Cardinality(Full) \in Nat /\ Cardinality(Full) <= count
      /\ Cardinality(Full) = count => Full = Frames
  <2>1. Full \in SUBSET Frames  OBVIOUS
  <2> HIDE DEF Full
  <2> QED  BY <2>1, <1>2, FS_Subset, FS_CardinalityType
<1>4. IsFiniteSet(S) /\ Cardinality(S) = Cardinality(Full)
  <2> DEFINE m == [i \in Full |-> f[i]]
  <2>1. m \in Bijection(Full, S)
    <3>1. m \in [Full -> S]  BY <1>1 DEF PagesOf
    <3>2. \A a, b \in Full : m[a] = m[b] => a = b  BY <1>1 DEF FrameInv, Distinct
    <3>3. \A p \in S : \E i \in Full : m[i] = p  BY <1>1 DEF PagesOf
    <3> HIDE DEF m, Full
    <3> QED  BY <3>1, <3>2, <3>3 DEF Bijection, Injection, IsInjective, Surjection
  <2>2. ExistsBijection(Full, S)  BY <2>1 DEF ExistsBijection
  <2> QED  BY <2>2, <1>3, FS_Bijection
<1>5. Cardinality(S) < count => HasEmpty(f)
  <2>1. Cardinality(S) < count => Full # Frames
    <3> HIDE DEF Full
    <3> QED  BY <1>1, <1>2, <1>4
  <2> QED  BY <2>1, <1>1 DEF HasEmpty
<1>6. HasEmpty(f) => Cardinality(S) < count
  <2>1. HasEmpty(f) => Full # Frames  BY <1>1 DEF HasEmpty
  <2> QED  BY <2>1, <1>1, <1>3, <1>4
<1> QED  BY <1>3, <1>4, <1>5, <1>6

(* The invariant is about pages, the property about how many there are.    *)
LEMMA KeptPages ==
  ASSUME Inv
  PROVE  KeepsItsPages
<1> DEFINE f == page_frame_arr  S == PagesOf(f)
           Full == {i \in Frames : f[i] # EMPTY}
<1> SUFFICES ASSUME at \in ToSet(Policies)
             PROVE  /\ Cardinality(Full) = Cardinality(InFrames)
                    /\ at # "optimal" => Cardinality(InFrames) = Min({count, Cardinality(ToSet(loaded))})
                    /\ at = "lru" => InFrames = Recent(SubSeq(rf_string, 1, j))
                    /\ at = "fifo" => InFrames = Recent(loaded)
                    /\ at = "clock" /\ j > 0 =>
                         \E i \in Frames : f[i] = rf_string[j] /\ use_bit[i] = 1
  BY DEF KeepsItsPages
<1>1. Running /\ TypeInv /\ FrameInv  BY PolicyNames DEF Running, Inv
<1>2. count \in Nat /\ DOMAIN f = Frames /\ Frames = 0 .. count - 1 /\ loaded \in Seq(Nat)
      /\ Seen \in Seq(Nat)
  BY <1>1, Basics DEF TypeInv, Frames
<1>3. InFrames = S  BY DEF InFrames, PagesOf
<1>4. /\ IsFiniteSet(S) /\ Cardinality(S) \in Nat /\ Cardinality(S) <= count
      /\ Cardinality(Full) = Cardinality(S) /\ (HasEmpty(f) <=> Cardinality(S) < count)
  BY <1>1, FrameCount
<1>5. ASSUME at # "optimal"
      PROVE  Cardinality(InFrames) = Min({count, Cardinality(ToSet(loaded))})
  <2> DEFINE c == Cardinality(ToSet(loaded))
  <2>1. IsFiniteSet(ToSet(loaded)) /\ c \in Nat  BY <1>2, Members, FS_CardinalityType
  <2>2. S \subseteq ToSet(loaded) /\ Cardinality(S) <= c
    <3>1. S \subseteq ToSet(loaded)  BY <1>1 DEF FrameInv
    <3> QED  BY <3>1, <2>1, FS_Subset
  <2>3. Cardinality(S) < count => Cardinality(S) = c
    <3>1. Cardinality(S) < count => ToSet(loaded) = S  BY <2>2, <1>1, <1>4, <1>5 DEF FrameInv, Fills
    <3> QED  BY <3>1
  <2> HIDE DEF c
  <2>4. Min({count, c}) \in {count, c} /\ \A y \in {count, c} : Min({count, c}) <= y
    <3>1. {count, c} \in SUBSET Int /\ {count, c} # {} /\ 0 \in Int /\ \A y \in {count, c} : y >= 0
      BY <1>2, <2>1
    <3> QED  BY <3>1, MinIs
  <2>5. Min({count, c}) = Cardinality(S)
    <3>1. Cardinality(S) \in Nat /\ Cardinality(S) <= count  BY <1>4
    <3> HIDE DEF S
    <3> QED  BY <3>1, <2>1, <2>2, <2>3, <2>4, <1>2
  <2> QED  BY <2>5, <1>3 DEF c
<1>6. ASSUME at = "lru" PROVE InFrames = Recent(SubSeq(rf_string, 1, j))
  <2>1. S \subseteq ToSet(Seen) /\ Behind(Seen, S) /\ (HasEmpty(f) => ToSet(Seen) \subseteq S)
    BY <1>6 DEF Inv, LruInv, Fills
  <2> HIDE DEF S
  <2>2. Recent(Seen) = S  BY <2>1, <1>2, <1>4, RecentIs
  <2> QED  BY <2>2, <1>3 DEF Seen
<1>7. ASSUME at = "fifo" PROVE InFrames = Recent(loaded)
  <2>1. S \subseteq ToSet(loaded) /\ Behind(loaded, S) /\ (HasEmpty(f) => ToSet(loaded) \subseteq S)
    BY <1>1, <1>7 DEF Inv, FrameInv, FifoInv, Fills
  <2> HIDE DEF S
  <2>2. Recent(loaded) = S  BY <2>1, <1>2, <1>4, RecentIs
  <2> QED  BY <2>2, <1>3
<1>8. at = "clock" /\ j > 0 => \E i \in Frames : f[i] = rf_string[j] /\ use_bit[i] = 1
  BY DEF Inv, ClockInv
<1>9. Cardinality(Full) = Cardinality(InFrames)  BY <1>3, <1>4
<1> HIDE DEF Full, f, S
<1> QED  BY <1>5, <1>6, <1>7, <1>8, <1>9

(* While a policy runs, no page is in two frames; the pages in the frames  *)
(* are the ones referenced last for LRU, loaded last for FIFO, and clock   *)
(* has the page referenced last in a frame with its bit set.               *)
THEOREM PagesKept == PagingSpec => []KeepsItsPages
<1>1. PagingInit => Inv  BY InitHolds
<1>2. Inv /\ [PagingNext]_pagingVars => Inv'  BY StepKeeps
<1>3. Inv => KeepsItsPages  BY KeptPages
<1> QED  BY <1>1, <1>2, <1>3, PTL DEF PagingSpec

---------------------------------------------------------------------------
(* Belady's argument: the fewest faults that are left from reference k on, *)
(* for the references r, c frames and the pages S in them, as LeastFaults  *)
(* computes them from those that are left after it.                        *)
Sets(r, c) == {T \in SUBSET ToSet(r) : Cardinality(T) <= c}
Swap(S, q, p) == (S \ {q}) \cup {p}
Cost(g, k, S, r, c) ==
  IF k > Len(r) THEN 0
  ELSE LET p == r[k]
       IN  IF p \in S THEN g[S]
           ELSE IF Cardinality(S) < c THEN 1 + g[S \cup {p}]
           ELSE 1 + Min({g[(S \ {q}) \cup {p}] : q \in S})
CostsFrom(L, k, r, c) ==
  L = [i \in k .. Len(r) + 1 |-> [S \in Sets(r, c) |-> Cost(L[i + 1], i, S, r, c)]]
LeastOf(r, c) == CHOOSE L : CostsFrom(L, 1, r, c)

LEMMA LeastFaultsIs == LeastFaults = LeastOf(rf_string, count)[1][{}]
BY DEF LeastFaults, LeastOf, CostsFrom, Cost, Sets, rf_count, Pages

(* Induction from the last reference to the first.                         *)
LEMMA Backward ==
  ASSUME NEW n \in Nat, NEW G, n + 1 \in G, \A k \in 1 .. n : k + 1 \in G => k \in G
  PROVE  \A k \in 1 .. n + 1 : k \in G
<1> DEFINE T == {m \in Nat : m <= n /\ n + 1 - m \notin G}
<1>1. SUFFICES ASSUME T # {} PROVE FALSE
  <2> SUFFICES ASSUME NEW k \in 1 .. n + 1, k \notin G PROVE T # {}  BY <1>1
  <2>1. PICK m \in Nat : m = n + 1 - k  OBVIOUS
  <2>2. m <= n /\ n + 1 - m = k  BY <2>1
  <2>3. m \in T  BY <2>2
  <2> QED  BY <2>3
<1>2. PICK x \in T : \A y \in T : x <= y
  <2>1. T \in SUBSET Nat  OBVIOUS
  <2> HIDE DEF T
  <2> QED  BY <1>1, <2>1, SomeLeast
<1>3. x \in Nat /\ x <= n /\ n + 1 - x \notin G  BY <1>2
<1>4. x # 0  BY <1>3
<1>5. x - 1 \in Nat /\ ~(x <= x - 1) /\ x - 1 <= n  BY <1>3, <1>4
<1>6. n + 1 - (x - 1) \in G
  <2>1. x - 1 \notin T  BY <1>2, <1>5
  <2> QED  BY <2>1, <1>5
<1>7. n + 1 - x \in 1 .. n /\ (n + 1 - x) + 1 = n + 1 - (x - 1)  BY <1>3, <1>4
<1> QED  BY <1>3, <1>6, <1>7

LEMMA LeastExists ==
  ASSUME NEW r \in Seq(Nat), NEW c
  PROVE  CostsFrom(LeastOf(r, c), 1, r, c)
<1> DEFINE n == Len(r)
           G == {k \in 1 .. n + 1 : \E L : CostsFrom(L, k, r, c)}
<1>1. n \in Nat  BY LenProperties
<1>2. n + 1 \in G
  <2> DEFINE L == [i \in n + 1 .. n + 1 |-> [S \in Sets(r, c) |-> 0]]
  <2>1. \A i \in n + 1 .. n + 1, S \in Sets(r, c) : Cost(L[i + 1], i, S, r, c) = 0
    BY <1>1 DEF Cost
  <2>2. CostsFrom(L, n + 1, r, c)  BY <2>1 DEF CostsFrom
  <2> QED  BY <1>1, <2>2
<1>3. ASSUME NEW k \in 1 .. n, k + 1 \in G PROVE k \in G
  <2>1. PICK K : CostsFrom(K, k + 1, r, c)  BY <1>3
  <2> DEFINE L == [i \in k .. n + 1 |-> IF i = k THEN [S \in Sets(r, c) |-> Cost(K[k + 1], k, S, r, c)]
                                        ELSE K[i]]
  <2>2. ASSUME NEW i \in k + 1 .. n + 1
        PROVE  L[i] = K[i] /\ K[i] = [S \in Sets(r, c) |-> Cost(K[i + 1], i, S, r, c)]
    <3>1. i \in k .. n + 1 /\ i # k  BY <1>1
    <3>2. L[i] = K[i]  BY <3>1
    <3>3. K = [m \in k + 1 .. n + 1 |-> [S \in Sets(r, c) |-> Cost(K[m + 1], m, S, r, c)]]
      BY <2>1 DEF CostsFrom
    <3>4. K[i] = [S \in Sets(r, c) |-> Cost(K[i + 1], i, S, r, c)]
      BY <3>3, Zenon
    <3> QED  BY <3>2, <3>4
  <2>3. L[k] = [S \in Sets(r, c) |-> Cost(L[k + 1], k, S, r, c)]
    <3>1. k \in k .. n + 1 /\ k + 1 \in k + 1 .. n + 1  BY <1>1
    <3>2. L[k + 1] = K[k + 1]  BY <2>2, <3>1
    <3>3. L[k] = [S \in Sets(r, c) |-> Cost(K[k + 1], k, S, r, c)]  BY <3>1
    <3> HIDE DEF L
    <3> QED  BY <3>2, <3>3
  <2>4. ASSUME NEW i \in k + 1 .. n + 1
        PROVE  L[i] = [S \in Sets(r, c) |-> Cost(L[i + 1], i, S, r, c)]
    <3>1. CASE i = n + 1
      <4>1. \A S \in Sets(r, c) : Cost(K[i + 1], i, S, r, c) = 0 /\ Cost(L[i + 1], i, S, r, c) = 0
        BY <1>1, <3>1 DEF Cost
      <4> HIDE DEF L
      <4> QED  BY <2>2, <2>4, <4>1
    <3>2. CASE i # n + 1
      <4>1. i + 1 \in k + 1 .. n + 1  BY <1>1, <2>4, <3>2
      <4>2. L[i + 1] = K[i + 1]  BY <2>2, <4>1
      <4> HIDE DEF L
      <4> QED  BY <2>2, <2>4, <4>2
    <3> QED  BY <3>1, <3>2
  <2>5. \A i \in k .. n + 1 : L[i] = [S \in Sets(r, c) |-> Cost(L[i + 1], i, S, r, c)]
    <3>1. \A i \in k .. n + 1 : i = k \/ i \in k + 1 .. n + 1  BY <1>1
    <3> HIDE DEF L
    <3> QED  BY <2>3, <2>4, <3>1
  <2>6. CostsFrom(L, k, r, c)
    <3>1. L = [i \in k .. n + 1 |-> L[i]]  OBVIOUS
    <3> HIDE DEF L
    <3> QED  BY <2>5, <3>1 DEF CostsFrom
  <2> QED  BY <1>1, <2>6
<1>4. 1 \in G
  <2>1. 1 \in 1 .. n + 1  BY <1>1
  <2> HIDE DEF G, n
  <2> QED  BY <1>1, <1>2, <1>3, <2>1, Backward
<1> QED  BY <1>4 DEF LeastOf

LEMMA SetsFacts ==
  ASSUME NEW r \in Seq(Nat), NEW c \in Nat, NEW S \in Sets(r, c)
  PROVE  /\ IsFiniteSet(S) /\ Cardinality(S) \in Nat /\ Cardinality(S) <= c /\ S \subseteq ToSet(r)
         /\ \A B \in SUBSET S : B \in Sets(r, c)
         /\ \A y : y \notin S => Cardinality(S \cup {y}) = Cardinality(S) + 1
         /\ \A p \in ToSet(r) : Cardinality(S) < c => S \cup {p} \in Sets(r, c)
         /\ \A p \in ToSet(r), q \in S : Swap(S, q, p) \in Sets(r, c)
<1>1. S \subseteq ToSet(r) /\ Cardinality(S) <= c /\ IsFiniteSet(ToSet(r))  BY Members DEF Sets
<1>2. IsFiniteSet(S) /\ Cardinality(S) \in Nat  BY <1>1, FS_Subset, FS_CardinalityType
<1>3. ASSUME NEW B \in SUBSET S PROVE B \in Sets(r, c) /\ IsFiniteSet(B) /\ Cardinality(B) \in Nat
  <2>1. IsFiniteSet(B) /\ Cardinality(B) <= Cardinality(S) /\ Cardinality(B) \in Nat
    BY <1>2, FS_Subset, FS_CardinalityType
  <2> QED  BY <1>1, <1>2, <2>1 DEF Sets
<1>4. ASSUME NEW y, y \notin S PROVE Cardinality(S \cup {y}) = Cardinality(S) + 1
  BY <1>2, <1>4, FS_AddElement
<1>5. ASSUME NEW p \in ToSet(r), Cardinality(S) < c PROVE S \cup {p} \in Sets(r, c)
  <2>1. Cardinality(S \cup {p}) = IF p \in S THEN Cardinality(S) ELSE Cardinality(S) + 1
    BY <1>2, FS_AddElement
  <2>2. Cardinality(S \cup {p}) <= c  BY <1>2, <1>5, <2>1
  <2> QED  BY <1>1, <1>5, <2>2 DEF Sets
<1>6. ASSUME NEW p \in ToSet(r), NEW q \in S PROVE Swap(S, q, p) \in Sets(r, c)
  <2>1. IsFiniteSet(S \ {q}) /\ Cardinality(S \ {q}) = Cardinality(S) - 1  BY <1>2, FS_RemoveElement
  <2>2. PICK B : B = S \ {q}  OBVIOUS
  <2>3. Cardinality(B \cup {p}) = IF p \in B THEN Cardinality(B) ELSE Cardinality(B) + 1
    BY <2>1, <2>2, FS_AddElement
  <2>4. Cardinality(B \cup {p}) <= c  BY <1>1, <1>2, <2>1, <2>2, <2>3
  <2>5. B \cup {p} \subseteq ToSet(r)  BY <1>1, <1>6, <2>2
  <2>6. Swap(S, q, p) = B \cup {p}  BY <2>2 DEF Swap
  <2> QED  BY <2>4, <2>5, <2>6 DEF Sets
<1> QED  BY <1>1, <1>2, <1>3, <1>4, <1>5, <1>6

(* A hit costs nothing, and a fault one and what is left after the best of *)
(* the replacements.                                                       *)
Steps(L, k, S, r, c) ==
  /\ L[k][S] \in Nat
  /\ r[k] \in S => L[k][S] = L[k + 1][S]
  /\ r[k] \notin S /\ Cardinality(S) < c => L[k][S] = 1 + L[k + 1][S \cup {r[k]}]
  /\ r[k] \notin S /\ Cardinality(S) = c =>
       /\ \E q \in S : L[k][S] = 1 + L[k + 1][Swap(S, q, r[k])]
       /\ \A q \in S : L[k][S] <= 1 + L[k + 1][Swap(S, q, r[k])]

LEMMA OneStep ==
  ASSUME NEW r \in Seq(Nat), NEW c \in Nat, c > 0, NEW L, CostsFrom(L, 1, r, c),
         NEW k \in 1 .. Len(r), \A S \in Sets(r, c) : L[k + 1][S] \in Nat
  PROVE  \A S \in Sets(r, c) : Steps(L, k, S, r, c)
<1>1. Len(r) \in Nat /\ r[k] \in ToSet(r)  BY Members
<1> SUFFICES ASSUME NEW S \in Sets(r, c) PROVE Steps(L, k, S, r, c)  OBVIOUS
<1>2. k \in 1 .. Len(r) + 1 /\ ~(k > Len(r))  BY <1>1
<1>3. L[k] = [T \in Sets(r, c) |-> Cost(L[k + 1], k, T, r, c)]  BY <1>2, Zenon DEF CostsFrom
<1>4. L[k][S] = Cost(L[k + 1], k, S, r, c)  BY <1>3
<1>5. CASE r[k] \in S  BY <1>2, <1>4, <1>5 DEF Cost, Steps
<1>6. CASE r[k] \notin S /\ Cardinality(S) < c
  <2>1. L[k][S] = 1 + L[k + 1][S \cup {r[k]}]  BY <1>2, <1>4, <1>6 DEF Cost
  <2>2. S \cup {r[k]} \in Sets(r, c)  BY <1>1, <1>6, SetsFacts
  <2> QED  BY <1>6, <2>1, <2>2 DEF Steps
<1>7. CASE r[k] \notin S /\ ~(Cardinality(S) < c)
  <2> DEFINE T == {L[k + 1][Swap(S, q, r[k])] : q \in S}
  <2>1. L[k][S] = 1 + Min(T)  BY <1>2, <1>4, <1>7 DEF Cost, Swap
  <2>2. Cardinality(S) = c /\ S # {}
    <3>1. Cardinality(S) \in Nat /\ Cardinality(S) <= c /\ IsFiniteSet(S)  BY SetsFacts
    <3> QED  BY <1>7, <3>1, FS_EmptySet
  <2>3. \A q \in S : L[k + 1][Swap(S, q, r[k])] \in Nat  BY <1>1, SetsFacts
  <2>4. T \in SUBSET Int /\ T # {} /\ 0 \in Int /\ \A x \in T : x >= 0  BY <2>2, <2>3
  <2>5. Min(T) \in T /\ \A x \in T : Min(T) <= x
    <3> HIDE DEF T
    <3> QED  BY <2>4, MinIs
  <2>6. PICK q \in S : Min(T) = L[k + 1][Swap(S, q, r[k])]  BY <2>5
  <2>7. \A x \in S : Min(T) <= L[k + 1][Swap(S, x, r[k])]  BY <2>5
  <2> HIDE DEF T
  <2>8. L[k][S] \in Nat /\ L[k][S] = 1 + L[k + 1][Swap(S, q, r[k])]  BY <2>1, <2>3, <2>6
  <2>9. \A x \in S : L[k][S] <= 1 + L[k + 1][Swap(S, x, r[k])]
    <3>1. Min(T) \in Nat  BY <2>3, <2>6
    <3> QED  BY <2>1, <2>3, <2>7, <3>1
  <2> QED  BY <1>7, <2>2, <2>8, <2>9 DEF Steps
<1> QED  BY <1>5, <1>6, <1>7

LEMMA LeastSteps ==
  ASSUME NEW r \in Seq(Nat), NEW c \in Nat, c = 0 => Len(r) = 0, NEW L, L = LeastOf(r, c)
  PROVE  /\ \A k \in 1 .. Len(r) + 1, S \in Sets(r, c) : L[k][S] \in Nat
         /\ \A S \in Sets(r, c) : L[Len(r) + 1][S] = 0
         /\ \A k \in 1 .. Len(r), S \in Sets(r, c) : Steps(L, k, S, r, c)
<1> DEFINE n == Len(r)
           G == {k \in 1 .. n + 1 : \A S \in Sets(r, c) : L[k][S] \in Nat}
<1>1. n \in Nat /\ CostsFrom(L, 1, r, c)  BY LeastExists, LenProperties
<1>2. \A S \in Sets(r, c) : L[n + 1][S] = 0
  <2>1. n + 1 \in 1 .. n + 1 /\ n + 1 > n  BY <1>1
  <2>2. L[n + 1] = [S \in Sets(r, c) |-> Cost(L[n + 1 + 1], n + 1, S, r, c)]
    BY <1>1, <2>1, Zenon DEF CostsFrom
  <2>3. \A S \in Sets(r, c) : Cost(L[n + 1 + 1], n + 1, S, r, c) = 0  BY <2>1 DEF Cost
  <2> QED  BY <2>2, <2>3
<1>3. n + 1 \in G  BY <1>1, <1>2
<1>4. ASSUME NEW k \in 1 .. n, k + 1 \in G
      PROVE  k \in G /\ \A S \in Sets(r, c) : Steps(L, k, S, r, c)
  <2>1. c > 0  BY <1>1
  <2>2. \A S \in Sets(r, c) : Steps(L, k, S, r, c)  BY <1>1, <1>4, <2>1, OneStep
  <2>3. \A S \in Sets(r, c) : L[k][S] \in Nat  BY <2>2 DEF Steps
  <2> QED  BY <1>1, <2>2, <2>3
<1>5. \A k \in 1 .. n + 1 : k \in G
  <2>1. \A k \in 1 .. n : k + 1 \in G => k \in G  BY <1>4
  <2> HIDE DEF G, n
  <2> QED  BY <1>1, <1>3, <2>1, Backward
<1>6. \A k \in 1 .. n, S \in Sets(r, c) : Steps(L, k, S, r, c)
  <2>1. \A k \in 1 .. n : k + 1 \in 1 .. n + 1  BY <1>1
  <2> QED  BY <1>4, <1>5, <2>1
<1> QED  BY <1>2, <1>5, <1>6

Context(L, r, c) == /\ r \in Seq(Nat) /\ c \in Nat /\ (c = 0 => Len(r) = 0)
                    /\ L = LeastOf(r, c)
OneMore(B, y) == Cardinality(B \cup {y}) = Cardinality(B) + 1
Room(B, y, r, c) == B \in Sets(r, c) /\ y \notin B /\ B \cup {y} \in Sets(r, c)
Unused(k, y, r) == \A m \in k .. Len(r) : r[m] # y
Sooner(k, a, b, r) == \A m \in k .. Len(r) : r[m] = b => \E i \in k .. m : r[i] = a

(* One more page in the frames saves a fault at most, and costs none ...   *)
Mono(L, k, r, c) == \A B, y : Room(B, y, r, c) =>
  L[k][B \cup {y}] <= L[k][B] /\ L[k][B] <= 1 + L[k][B \cup {y}]
(* ... it saves none if it is not used any more ...                        *)
Dead(L, k, r, c) == \A B, y : Room(B, y, r, c) /\ Unused(k, y, r) =>
  L[k][B] <= L[k][B \cup {y}]
(* ... and a page that is used sooner is as good as one that is used later.*)
Exchange(L, k, r, c) == \A A, a, b :
  Room(A, a, r, c) /\ Room(A, b, r, c) /\ a # b /\ Sooner(k, a, b, r) =>
    L[k][A \cup {a}] <= L[k][A \cup {b}]

LEMMA RoomFor ==
  ASSUME NEW L, NEW r, NEW c, Context(L, r, c), NEW B, NEW y, Room(B, y, r, c)
  PROVE  /\ Cardinality(B) \in Nat /\ Cardinality(B) < c
         /\ OneMore(B, y) /\ Cardinality(B \cup {y}) <= c
         /\ \A k \in 1 .. Len(r) + 1 : L[k][B] \in Nat /\ L[k][B \cup {y}] \in Nat
<1>1. r \in Seq(Nat) /\ c \in Nat /\ (c = 0 => Len(r) = 0) /\ L = LeastOf(r, c)  BY DEF Context
<1>2. B \in Sets(r, c) /\ y \notin B /\ B \cup {y} \in Sets(r, c)  BY DEF Room
<1>3. Cardinality(B) \in Nat /\ Cardinality(B \cup {y}) = Cardinality(B) + 1  BY <1>1, <1>2, SetsFacts
<1>8. OneMore(B, y)  BY <1>3 DEF OneMore
<1>4. Cardinality(B \cup {y}) <= c  BY <1>1, <1>2, SetsFacts
<1>5. \A k \in 1 .. Len(r) + 1, S \in Sets(r, c) : L[k][S] \in Nat  BY <1>1, LeastSteps
<1>6. Cardinality(B) < c  BY <1>1, <1>3, <1>4
<1>7. \A k \in 1 .. Len(r) + 1 : L[k][B] \in Nat /\ L[k][B \cup {y}] \in Nat  BY <1>2, <1>5
<1> QED  BY <1>3, <1>4, <1>6, <1>7, <1>8

LEMMA StepOf ==
  ASSUME NEW L, NEW r, NEW c, Context(L, r, c), NEW k \in 1 .. Len(r), NEW S \in Sets(r, c)
  PROVE  Steps(L, k, S, r, c) /\ r[k] \in ToSet(r) /\ k + 1 \in 1 .. Len(r) + 1 /\ Len(r) \in Nat
<1>1. r \in Seq(Nat) /\ c \in Nat /\ (c = 0 => Len(r) = 0) /\ L = LeastOf(r, c)  BY DEF Context
<1>2. Len(r) \in Nat /\ r[k] \in ToSet(r)  BY <1>1, Members
<1>3. \A i \in 1 .. Len(r), T \in Sets(r, c) : Steps(L, i, T, r, c)  BY <1>1, LeastSteps
<1> QED  BY <1>2, <1>3

(* What follows a fault with B and with one more page in the frames.       *)
BothMiss(L, k, B, y, r, c) ==
  LET p == r[k]  C == B \cup {y}  D(q) == Swap(B, q, p)
  IN  /\ L[k][B] = 1 + L[k + 1][B \cup {p}]
      /\ Cardinality(B) + 1 < c => Room(B \cup {p}, y, r, c) /\ L[k][C] = 1 + L[k + 1][(B \cup {p}) \cup {y}]
      /\ Cardinality(B) + 1 = c =>
           /\ L[k][C] <= 1 + L[k + 1][B \cup {p}]
           /\ \A q \in B : /\ L[k][C] <= 1 + L[k + 1][D(q) \cup {y}]
                           /\ Room(D(q), y, r, c) /\ Room(D(q), q, r, c) /\ D(q) \cup {q} = B \cup {p}
           /\ \/ L[k][C] = 1 + L[k + 1][B \cup {p}]
              \/ \E q \in B : L[k][C] = 1 + L[k + 1][D(q) \cup {y}]

LEMMA RoomSteps ==
  ASSUME NEW L, NEW r, NEW c, Context(L, r, c), NEW k \in 1 .. Len(r), NEW B, NEW y, Room(B, y, r, c)
  PROVE  /\ Cardinality(B) \in Nat /\ c \in Nat /\ r \in Seq(Nat)
         /\ Cardinality(B) + 1 < c \/ Cardinality(B) + 1 = c
         /\ OneMore(B, y)
         /\ B \in Sets(r, c) /\ B \cup {y} \in Sets(r, c) /\ y \notin B
         /\ r[k] \in ToSet(r) /\ k + 1 \in 1 .. Len(r) + 1 /\ Len(r) \in Nat
         /\ L[k][B] \in Nat /\ L[k][B \cup {y}] \in Nat
         /\ L[k + 1][B] \in Nat /\ L[k + 1][B \cup {y}] \in Nat
         /\ Steps(L, k, B, r, c) /\ Steps(L, k, B \cup {y}, r, c)
<1>1. B \in Sets(r, c) /\ B \cup {y} \in Sets(r, c) /\ y \notin B /\ r \in Seq(Nat) /\ c \in Nat
  BY DEF Context, Room
<1>2. Steps(L, k, B, r, c) /\ Steps(L, k, B \cup {y}, r, c)  BY <1>1, StepOf
<1>3. r[k] \in ToSet(r) /\ k + 1 \in 1 .. Len(r) + 1 /\ Len(r) \in Nat  BY <1>1, StepOf
<1>4. /\ Cardinality(B) \in Nat /\ Cardinality(B) < c
      /\ OneMore(B, y)
  BY RoomFor
<1>8. \A i \in 1 .. Len(r) + 1 : L[i][B] \in Nat /\ L[i][B \cup {y}] \in Nat  BY RoomFor
<1>5. L[k + 1][B] \in Nat /\ L[k + 1][B \cup {y}] \in Nat  BY <1>3, <1>8
<1>6. L[k][B] \in Nat /\ L[k][B \cup {y}] \in Nat  BY <1>2 DEF Steps
<1>7. Cardinality(B) + 1 < c \/ Cardinality(B) + 1 = c  BY <1>1, <1>4
<1> QED  BY <1>1, <1>2, <1>3, <1>4, <1>5, <1>6, <1>7

LEMMA BothMisses ==
  ASSUME NEW L, NEW r, NEW c, Context(L, r, c), NEW k \in 1 .. Len(r),
         NEW B, NEW y, Room(B, y, r, c), r[k] \notin B, r[k] # y
  PROVE  BothMiss(L, k, B, y, r, c)
<1>1. PICK p : p = r[k]  OBVIOUS
<1>2. PICK C : C = B \cup {y}  OBVIOUS
<1>3. /\ Cardinality(B) \in Nat /\ c \in Nat /\ r \in Seq(Nat) /\ Cardinality(C) = Cardinality(B) + 1
      /\ B \in Sets(r, c) /\ C \in Sets(r, c) /\ y \notin B /\ p \in ToSet(r)
      /\ Steps(L, k, B, r, c) /\ Steps(L, k, C, r, c) /\ Cardinality(B) < c
  <2>1. /\ Cardinality(B) \in Nat /\ c \in Nat /\ r \in Seq(Nat)
        /\ OneMore(B, y)
        /\ B \in Sets(r, c) /\ B \cup {y} \in Sets(r, c) /\ y \notin B /\ r[k] \in ToSet(r)
    BY RoomSteps
  <2>2. Steps(L, k, B, r, c) /\ Steps(L, k, B \cup {y}, r, c)  BY RoomSteps
  <2>3. Cardinality(B) < c  BY RoomFor
  <2> QED  BY <1>1, <1>2, <2>1, <2>2, <2>3 DEF OneMore
<1>4. p \notin B /\ p \notin C  BY <1>1, <1>2
<1>5. L[k][B] = 1 + L[k + 1][B \cup {p}] /\ B \cup {p} \in Sets(r, c) /\ y \notin B \cup {p}
  BY <1>1, <1>3, <1>4, SetsFacts DEF Steps
<1>6. ASSUME Cardinality(B) + 1 < c
      PROVE  Room(B \cup {p}, y, r, c) /\ L[k][C] = 1 + L[k + 1][(B \cup {p}) \cup {y}]
  <2>1. L[k][C] = 1 + L[k + 1][C \cup {p}] /\ C \cup {p} \in Sets(r, c)
    BY <1>1, <1>3, <1>4, <1>6, SetsFacts DEF Steps
  <2>2. C \cup {p} = (B \cup {p}) \cup {y}  BY <1>2
  <2> QED  BY <1>5, <2>1, <2>2 DEF Room
<1>7. ASSUME Cardinality(B) + 1 = c
      PROVE  /\ L[k][C] <= 1 + L[k + 1][B \cup {p}]
             /\ \A q \in B : LET D == Swap(B, q, p) IN
                  /\ L[k][C] <= 1 + L[k + 1][D \cup {y}]
                  /\ Room(D, y, r, c) /\ Room(D, q, r, c) /\ D \cup {q} = B \cup {p}
             /\ \/ L[k][C] = 1 + L[k + 1][B \cup {p}]
                \/ \E q \in B : L[k][C] = 1 + L[k + 1][Swap(B, q, p) \cup {y}]
  <2>1. y \in C /\ Swap(C, y, p) = B \cup {p}  BY <1>2, <1>3, <1>4 DEF Swap
  <2>2. \A q \in C : L[k][C] <= 1 + L[k + 1][Swap(C, q, p)]  BY <1>1, <1>3, <1>4, <1>7 DEF Steps
  <2>3. \E q \in C : L[k][C] = 1 + L[k + 1][Swap(C, q, p)]  BY <1>1, <1>3, <1>4, <1>7 DEF Steps
  <2>4. ASSUME NEW q \in B
        PROVE  LET D == Swap(B, q, p) IN
               /\ q \in C /\ Swap(C, q, p) = D \cup {y}
               /\ Room(D, y, r, c) /\ Room(D, q, r, c) /\ D \cup {q} = B \cup {p}
    <3>1. q \in C /\ q # y /\ q # p /\ y # p  BY <1>2, <1>3, <1>4
    <3>2. Swap(B, q, p) \in Sets(r, c) /\ Swap(C, q, p) \in Sets(r, c)  BY <1>3, <3>1, SetsFacts
    <3>3. Swap(C, q, p) = Swap(B, q, p) \cup {y} /\ y \notin Swap(B, q, p)
      BY <1>2, <1>3, <3>1 DEF Swap
    <3>4. Swap(B, q, p) \cup {q} = B \cup {p} /\ q \notin Swap(B, q, p)  BY <3>1 DEF Swap
    <3> QED  BY <1>5, <3>1, <3>2, <3>3, <3>4 DEF Room
  <2>5. \A q \in B : L[k][C] <= 1 + L[k + 1][Swap(B, q, p) \cup {y}]  BY <2>2, <2>4
  <2>6. \/ L[k][C] = 1 + L[k + 1][B \cup {p}]
        \/ \E q \in B : L[k][C] = 1 + L[k + 1][Swap(B, q, p) \cup {y}]
    <3>1. PICK q \in C : L[k][C] = 1 + L[k + 1][Swap(C, q, p)]  BY <2>3
    <3>2. CASE q = y  BY <2>1, <3>1, <3>2
    <3>3. CASE q \in B  BY <2>4, <3>1, <3>3
    <3> QED  BY <1>2, <3>2, <3>3
  <2> QED  BY <2>1, <2>2, <2>4, <2>5, <2>6
<1> QED  BY <1>1, <1>2, <1>5, <1>6, <1>7 DEF BothMiss

LEMMA MonoStep ==
  ASSUME NEW L, NEW r, NEW c, Context(L, r, c), NEW k \in 1 .. Len(r), Mono(L, k + 1, r, c)
  PROVE  Mono(L, k, r, c)
<1> SUFFICES ASSUME NEW B, NEW y, Room(B, y, r, c)
             PROVE  L[k][B \cup {y}] <= L[k][B] /\ L[k][B] <= 1 + L[k][B \cup {y}]
  BY DEF Mono
<1>1. PICK p : p = r[k]  OBVIOUS
<1>2. PICK C : C = B \cup {y}  OBVIOUS
<1>3. /\ Cardinality(B) \in Nat /\ c \in Nat /\ (Cardinality(B) + 1 < c \/ Cardinality(B) + 1 = c)
      /\ y \notin B /\ k + 1 \in 1 .. Len(r) + 1
      /\ L[k][B] \in Nat /\ L[k][C] \in Nat /\ L[k + 1][B] \in Nat /\ L[k + 1][C] \in Nat
      /\ Steps(L, k, B, r, c) /\ Steps(L, k, C, r, c)
  <2>1. /\ Cardinality(B) \in Nat /\ c \in Nat
        /\ (Cardinality(B) + 1 < c \/ Cardinality(B) + 1 = c)
        /\ y \notin B /\ k + 1 \in 1 .. Len(r) + 1 /\ Len(r) \in Nat
    BY RoomSteps
  <2>2. L[k][B] \in Nat /\ L[k][B \cup {y}] \in Nat /\ L[k + 1][B] \in Nat /\ L[k + 1][B \cup {y}] \in Nat
    BY RoomSteps
  <2>3. Steps(L, k, B, r, c) /\ Steps(L, k, B \cup {y}, r, c)  BY RoomSteps
  <2> QED  BY <1>2, <2>1, <2>2, <2>3
<1>4. L[k + 1][C] <= L[k + 1][B] /\ L[k + 1][B] <= 1 + L[k + 1][C]  BY <1>2 DEF Mono
<1>5. CASE p \in B
  <2>1. L[k][B] = L[k + 1][B] /\ L[k][C] = L[k + 1][C]  BY <1>1, <1>2, <1>3, <1>5 DEF Steps
  <2> QED  BY <1>2, <1>4, <2>1
<1>6. CASE p = y
  <2>1. r[k] = y /\ r[k] \in C /\ r[k] \notin B /\ B \cup {r[k]} = C /\ Cardinality(B) < c
    BY <1>1, <1>2, <1>3, <1>6
  <2>2. L[k][C] = L[k + 1][C] /\ L[k][B] = 1 + L[k + 1][C]  BY <1>3, <2>1 DEF Steps
  <2> QED  BY <1>2, <1>3, <2>2
<1>7. CASE p \notin B /\ p # y
  <2>1. BothMiss(L, k, B, y, r, c)  BY <1>1, <1>7, BothMisses
  <2>2. PICK B2 : B2 = B \cup {p}  OBVIOUS
  <2>3. L[k][B] = 1 + L[k + 1][B2]  BY <1>1, <2>1, <2>2 DEF BothMiss
  <2>4. CASE Cardinality(B) + 1 < c
    <3>1. Room(B2, y, r, c) /\ L[k][C] = 1 + L[k + 1][B2 \cup {y}]
      BY <1>1, <1>2, <2>1, <2>2, <2>4 DEF BothMiss
    <3>2. L[k + 1][B2 \cup {y}] <= L[k + 1][B2] /\ L[k + 1][B2] <= 1 + L[k + 1][B2 \cup {y}]
      BY <3>1 DEF Mono
    <3>3. L[k + 1][B2] \in Nat /\ L[k + 1][B2 \cup {y}] \in Nat  BY <3>1, RoomSteps, ZenonT(30)
    <3>4. L[k][C] <= L[k][B] /\ L[k][B] <= 1 + L[k][C]  BY <2>3, <3>1, <3>2, <3>3
    <3> QED  BY <1>2, <3>4
  <2>5. CASE Cardinality(B) + 1 = c
    <3>1. L[k][C] <= 1 + L[k + 1][B2]  BY <1>1, <1>2, <2>1, <2>2, <2>5 DEF BothMiss
    <3>2. CASE L[k][C] = 1 + L[k + 1][B2]
      <4>1. L[k][C] = L[k][B]  BY <2>3, <3>2
      <4> QED  BY <1>2, <1>3, <4>1
    <3>3. ASSUME NEW q \in B, L[k][C] = 1 + L[k + 1][Swap(B, q, p) \cup {y}]
          PROVE  L[k][B] <= 1 + L[k][C]
      <4>1. PICK D : D = Swap(B, q, p)  OBVIOUS
      <4>2. Room(D, y, r, c) /\ Room(D, q, r, c) /\ D \cup {q} = B2
        BY <1>1, <2>1, <2>2, <2>5, <4>1 DEF BothMiss
      <4>3. L[k + 1][B2] <= L[k + 1][D] /\ L[k + 1][D] <= 1 + L[k + 1][D \cup {y}]
        BY <4>2 DEF Mono
      <4>4. L[k + 1][D \cup {q}] \in Nat /\ L[k + 1][D] \in Nat  BY <4>2, RoomSteps
      <4>5. L[k + 1][D \cup {y}] \in Nat  BY <4>2, RoomSteps
      <4>6. L[k + 1][B2] \in Nat  BY <4>2, <4>4
      <4>7. L[k][C] = 1 + L[k + 1][D \cup {y}]  BY <3>3, <4>1
      <4>8. L[k + 1][B2] <= L[k][C]  BY <4>3, <4>4, <4>5, <4>6, <4>7
      <4> QED  BY <1>3, <2>3, <4>6, <4>8
    <3>4. L[k][B] <= 1 + L[k][C]
      <4>1. \/ L[k][C] = 1 + L[k + 1][B2]
            \/ \E q \in B : L[k][C] = 1 + L[k + 1][Swap(B, q, p) \cup {y}]
        BY <1>1, <1>2, <2>1, <2>2, <2>5 DEF BothMiss
      <4> QED  BY <1>2, <3>2, <3>3, <4>1
    <3> QED  BY <1>2, <2>3, <3>1, <3>4
  <2> QED  BY <1>3, <2>4, <2>5
<1> QED  BY <1>5, <1>6, <1>7

LEMMA DeadStep ==
  ASSUME NEW L, NEW r, NEW c, Context(L, r, c), NEW k \in 1 .. Len(r),
         Mono(L, k + 1, r, c), Dead(L, k + 1, r, c)
  PROVE  Dead(L, k, r, c)
<1> SUFFICES ASSUME NEW B, NEW y, Room(B, y, r, c), Unused(k, y, r)
             PROVE  L[k][B] <= L[k][B \cup {y}]
  BY DEF Dead
<1>1. PICK p : p = r[k]  OBVIOUS
<1>2. PICK C : C = B \cup {y}  OBVIOUS
<1>3. /\ Cardinality(B) \in Nat /\ c \in Nat /\ (Cardinality(B) + 1 < c \/ Cardinality(B) + 1 = c)
      /\ y \notin B /\ k + 1 \in 1 .. Len(r) + 1 /\ Len(r) \in Nat
      /\ L[k][B] \in Nat /\ L[k][C] \in Nat
      /\ Steps(L, k, B, r, c) /\ Steps(L, k, C, r, c)
  <2>1. /\ Cardinality(B) \in Nat /\ c \in Nat
        /\ (Cardinality(B) + 1 < c \/ Cardinality(B) + 1 = c)
        /\ y \notin B /\ k + 1 \in 1 .. Len(r) + 1 /\ Len(r) \in Nat
    BY RoomSteps
  <2>2. L[k][B] \in Nat /\ L[k][B \cup {y}] \in Nat /\ L[k + 1][B] \in Nat /\ L[k + 1][B \cup {y}] \in Nat
    BY RoomSteps
  <2>3. Steps(L, k, B, r, c) /\ Steps(L, k, B \cup {y}, r, c)  BY RoomSteps
  <2> QED  BY <1>2, <2>1, <2>2, <2>3
<1>4. p # y /\ Unused(k + 1, y, r)
  <2>1. k \in k .. Len(r) /\ \A m \in k + 1 .. Len(r) : m \in k .. Len(r)  BY <1>3
  <2> QED  BY <1>1, <2>1 DEF Unused
<1>5. CASE p \in B
  <2>1. L[k][B] = L[k + 1][B] /\ L[k][C] = L[k + 1][C]  BY <1>1, <1>2, <1>3, <1>5 DEF Steps
  <2>2. L[k + 1][B] <= L[k + 1][C]  BY <1>2, <1>4 DEF Dead
  <2> QED  BY <1>2, <2>1, <2>2
<1>6. CASE p \notin B
  <2>1. BothMiss(L, k, B, y, r, c)  BY <1>1, <1>4, <1>6, BothMisses
  <2>2. PICK B2 : B2 = B \cup {p}  OBVIOUS
  <2>3. L[k][B] = 1 + L[k + 1][B2]  BY <1>1, <2>1, <2>2 DEF BothMiss
  <2>4. CASE Cardinality(B) + 1 < c
    <3>1. Room(B2, y, r, c) /\ L[k][C] = 1 + L[k + 1][B2 \cup {y}]
      BY <1>1, <1>2, <2>1, <2>2, <2>4 DEF BothMiss
    <3>2. L[k + 1][B2] <= L[k + 1][B2 \cup {y}]  BY <1>4, <3>1 DEF Dead
    <3>3. L[k + 1][B2] \in Nat /\ L[k + 1][B2 \cup {y}] \in Nat  BY <3>1, RoomSteps, ZenonT(30)
    <3>4. L[k][B] <= L[k][C]  BY <2>3, <3>1, <3>2, <3>3
    <3> QED  BY <1>2, <3>4
  <2>5. CASE Cardinality(B) + 1 = c
    <3>1. CASE L[k][C] = 1 + L[k + 1][B2]
      <4>1. L[k][C] = L[k][B]  BY <2>3, <3>1
      <4> QED  BY <1>2, <1>3, <4>1
    <3>2. ASSUME NEW q \in B, L[k][C] = 1 + L[k + 1][Swap(B, q, p) \cup {y}]
          PROVE  L[k][B] <= L[k][C]
      <4>1. PICK D : D = Swap(B, q, p)  OBVIOUS
      <4>2. Room(D, y, r, c) /\ Room(D, q, r, c) /\ D \cup {q} = B2
        BY <1>1, <2>1, <2>2, <2>5, <4>1 DEF BothMiss
      <4>3. L[k + 1][B2] <= L[k + 1][D] /\ L[k + 1][D] <= L[k + 1][D \cup {y}]
        BY <1>4, <4>2 DEF Mono, Dead
      <4>4. L[k + 1][D \cup {q}] \in Nat /\ L[k + 1][D] \in Nat  BY <4>2, RoomSteps
      <4>5. L[k + 1][D \cup {y}] \in Nat  BY <4>2, RoomSteps
      <4>6. L[k + 1][B2] \in Nat  BY <4>2, <4>4
      <4>7. L[k][C] = 1 + L[k + 1][D \cup {y}]  BY <3>2, <4>1
      <4>8. L[k + 1][B2] <= L[k + 1][D \cup {y}]  BY <4>3, <4>4, <4>5, <4>6
      <4> QED  BY <2>3, <4>5, <4>6, <4>7, <4>8
    <3>3. \/ L[k][C] = 1 + L[k + 1][B2]
          \/ \E q \in B : L[k][C] = 1 + L[k + 1][Swap(B, q, p) \cup {y}]
      BY <1>1, <1>2, <2>1, <2>2, <2>5 DEF BothMiss
    <3> QED  BY <1>2, <3>1, <3>2, <3>3
  <2> QED  BY <1>3, <2>4, <2>5
<1> QED  BY <1>5, <1>6

LEMMA ExchangeStep ==
  ASSUME NEW L, NEW r, NEW c, Context(L, r, c), NEW k \in 1 .. Len(r),
         Mono(L, k + 1, r, c), Exchange(L, k + 1, r, c)
  PROVE  Exchange(L, k, r, c)
<1> SUFFICES ASSUME NEW A, NEW a, NEW b, Room(A, a, r, c), Room(A, b, r, c), a # b,
                    Sooner(k, a, b, r)
             PROVE  L[k][A \cup {a}] <= L[k][A \cup {b}]
  BY DEF Exchange
<1>1. PICK p : p = r[k]  OBVIOUS
<1>2. /\ Cardinality(A) \in Nat /\ c \in Nat /\ (Cardinality(A) + 1 < c \/ Cardinality(A) + 1 = c)
      /\ k + 1 \in 1 .. Len(r) + 1 /\ Len(r) \in Nat /\ a \notin A /\ b \notin A
      /\ L[k][A \cup {a}] \in Nat
  <2>1. /\ Cardinality(A) \in Nat /\ c \in Nat
        /\ (Cardinality(A) + 1 < c \/ Cardinality(A) + 1 = c)
        /\ a \notin A /\ k + 1 \in 1 .. Len(r) + 1 /\ Len(r) \in Nat /\ L[k][A \cup {a}] \in Nat
    BY RoomSteps, ZenonT(30)
  <2>2. b \notin A  BY DEF Room
  <2> QED  BY <2>1, <2>2
<1>3. L[k][A \cup {b}] \in Nat /\ L[k + 1][A \cup {b}] \in Nat  BY RoomSteps
<1>4. Steps(L, k, A \cup {b}, r, c)  BY RoomSteps
<1>5. Steps(L, k, A \cup {a}, r, c)  BY RoomSteps
<1>6. p # b
  <2>1. ASSUME p = b PROVE FALSE
    <3>1. k \in k .. Len(r) /\ r[k] = b  BY <1>1, <1>2, <2>1
    <3>2. PICK i \in k .. k : r[i] = a  BY <3>1 DEF Sooner
    <3>3. i = k  BY <1>2
    <3> QED  BY <1>1, <2>1, <3>2, <3>3
  <2> QED  BY <2>1
<1>7. ASSUME p # a PROVE Sooner(k + 1, a, b, r)
  <2> SUFFICES ASSUME NEW m \in k + 1 .. Len(r), r[m] = b PROVE \E i \in k + 1 .. m : r[i] = a
    BY DEF Sooner
  <2>1. m \in k .. Len(r)  BY <1>2
  <2>2. PICK i \in k .. m : r[i] = a  BY <2>1 DEF Sooner
  <2>3. i # k  BY <1>1, <1>7, <2>2
  <2>4. i \in k + 1 .. m  BY <1>2, <2>1, <2>2, <2>3
  <2> QED  BY <2>2, <2>4
<1>8. CASE p \in A
  <2>1. L[k][A \cup {a}] = L[k + 1][A \cup {a}]  BY <1>1, <1>5, <1>8 DEF Steps
  <2>2. L[k][A \cup {b}] = L[k + 1][A \cup {b}]  BY <1>1, <1>4, <1>8 DEF Steps
  <2>3. p # a  BY <1>2, <1>8
  <2>4. L[k + 1][A \cup {a}] <= L[k + 1][A \cup {b}]  BY <1>7, <2>3 DEF Exchange
  <2> QED  BY <2>1, <2>2, <2>4
<1>9. CASE p \notin A
  <2>1. BothMiss(L, k, A, b, r, c)  BY <1>1, <1>6, <1>9, BothMisses
  <2>2. PICK A2 : A2 = A \cup {p}  OBVIOUS
  <2>3. CASE p = a
    <3>1. L[k][A \cup {a}] = L[k + 1][A2]  BY <1>1, <1>5, <2>2, <2>3 DEF Steps
    <3>2. CASE Cardinality(A) + 1 < c
      <4>1. Room(A2, b, r, c) /\ L[k][A \cup {b}] = 1 + L[k + 1][A2 \cup {b}]
        BY <1>1, <2>1, <2>2, <3>2 DEF BothMiss
      <4>2. L[k + 1][A2] <= 1 + L[k + 1][A2 \cup {b}]  BY <4>1 DEF Mono
      <4> QED  BY <3>1, <4>1, <4>2
    <3>3. CASE Cardinality(A) + 1 = c
      <4>1. CASE L[k][A \cup {b}] = 1 + L[k + 1][A2]  BY <1>2, <1>3, <3>1, <4>1
      <4>2. ASSUME NEW q \in A, L[k][A \cup {b}] = 1 + L[k + 1][Swap(A, q, p) \cup {b}]
            PROVE  L[k][A \cup {a}] <= L[k][A \cup {b}]
        <5>1. PICK D : D = Swap(A, q, p)  OBVIOUS
        <5>2. Room(D, b, r, c) /\ Room(D, q, r, c) /\ D \cup {q} = A2
          BY <1>1, <2>1, <2>2, <3>3, <5>1 DEF BothMiss
        <5>3. L[k + 1][A2] <= L[k + 1][D] /\ L[k + 1][D] <= 1 + L[k + 1][D \cup {b}]
          BY <5>2 DEF Mono
        <5>4. L[k + 1][D \cup {q}] \in Nat /\ L[k + 1][D] \in Nat  BY <5>2, RoomSteps
        <5>5. L[k + 1][D \cup {b}] \in Nat  BY <5>2, RoomSteps
        <5>6. L[k + 1][A2] \in Nat  BY <5>2, <5>4
        <5>7. L[k][A \cup {b}] = 1 + L[k + 1][D \cup {b}]  BY <4>2, <5>1
        <5>8. L[k + 1][A2] <= L[k][A \cup {b}]  BY <5>3, <5>4, <5>5, <5>6, <5>7
        <5> QED  BY <3>1, <5>8
      <4>3. \/ L[k][A \cup {b}] = 1 + L[k + 1][A2]
            \/ \E q \in A : L[k][A \cup {b}] = 1 + L[k + 1][Swap(A, q, p) \cup {b}]
        BY <1>1, <2>1, <2>2, <3>3 DEF BothMiss
      <4> QED  BY <4>1, <4>2, <4>3
    <3> QED  BY <1>2, <3>2, <3>3
  <2>4. CASE p # a
    <3>1. BothMiss(L, k, A, a, r, c)  BY <1>1, <1>9, <2>4, BothMisses
    <3>2. Sooner(k + 1, a, b, r)  BY <1>7, <2>4
    <3>3. CASE Cardinality(A) + 1 < c
      <4>1. Room(A2, b, r, c) /\ L[k][A \cup {b}] = 1 + L[k + 1][A2 \cup {b}]
        BY <1>1, <2>1, <2>2, <3>3 DEF BothMiss
      <4>2. Room(A2, a, r, c) /\ L[k][A \cup {a}] = 1 + L[k + 1][A2 \cup {a}]
        BY <1>1, <2>2, <3>1, <3>3 DEF BothMiss
      <4>3. L[k + 1][A2 \cup {a}] <= L[k + 1][A2 \cup {b}]  BY <3>2, <4>1, <4>2 DEF Exchange
      <4>4. L[k + 1][A2 \cup {b}] \in Nat  BY <4>1, RoomSteps
      <4>5. L[k + 1][A2 \cup {a}] \in Nat  BY <4>2, RoomSteps
      <4> QED  BY <4>1, <4>2, <4>3, <4>4, <4>5
    <3>4. CASE Cardinality(A) + 1 = c
      <4>1. CASE L[k][A \cup {b}] = 1 + L[k + 1][A2]
        <5>1. L[k][A \cup {a}] <= 1 + L[k + 1][A2]  BY <1>1, <2>2, <3>1, <3>4 DEF BothMiss
        <5> QED  BY <4>1, <5>1
      <4>2. ASSUME NEW q \in A, L[k][A \cup {b}] = 1 + L[k + 1][Swap(A, q, p) \cup {b}]
            PROVE  L[k][A \cup {a}] <= L[k][A \cup {b}]
        <5>1. PICK D : D = Swap(A, q, p)  OBVIOUS
        <5>2. Room(D, b, r, c)  BY <1>1, <2>1, <3>4, <5>1 DEF BothMiss
        <5>3. Room(D, a, r, c) /\ L[k][A \cup {a}] <= 1 + L[k + 1][D \cup {a}]
          BY <1>1, <3>1, <3>4, <5>1 DEF BothMiss
        <5>4. L[k + 1][D \cup {a}] <= L[k + 1][D \cup {b}]  BY <3>2, <5>2, <5>3 DEF Exchange
        <5>5. L[k + 1][D \cup {b}] \in Nat  BY <5>2, RoomSteps
        <5>6. L[k + 1][D \cup {a}] \in Nat  BY <5>3, RoomSteps
        <5>7. L[k][A \cup {b}] = 1 + L[k + 1][D \cup {b}]  BY <4>2, <5>1
        <5> QED  BY <1>2, <5>3, <5>4, <5>5, <5>6, <5>7, SMTT(30)
      <4>3. \/ L[k][A \cup {b}] = 1 + L[k + 1][A2]
            \/ \E q \in A : L[k][A \cup {b}] = 1 + L[k + 1][Swap(A, q, p) \cup {b}]
        BY <1>1, <2>1, <2>2, <3>4 DEF BothMiss
      <4> QED  BY <4>1, <4>2, <4>3
    <3> QED  BY <1>2, <3>3, <3>4
  <2> QED  BY <2>3, <2>4
<1> QED  BY <1>8, <1>9

(* So from every reference on.                                             *)
LEMMA AllAlong ==
  ASSUME NEW L, NEW r, NEW c, Context(L, r, c), NEW k \in 1 .. Len(r) + 1
  PROVE  Mono(L, k, r, c) /\ Dead(L, k, r, c) /\ Exchange(L, k, r, c)
<1> DEFINE G == {i \in 1 .. Len(r) + 1 : Mono(L, i, r, c) /\ Dead(L, i, r, c) /\ Exchange(L, i, r, c)}
<1>1. r \in Seq(Nat) /\ c \in Nat /\ (c = 0 => Len(r) = 0) /\ L = LeastOf(r, c) /\ Len(r) \in Nat
  BY Members DEF Context
<1>2. Len(r) + 1 \in G
  <2>1. \A S \in Sets(r, c) : L[Len(r) + 1][S] = 0  BY <1>1, LeastSteps
  <2>2. ASSUME NEW B, NEW y, Room(B, y, r, c)
        PROVE  L[Len(r) + 1][B] = 0 /\ L[Len(r) + 1][B \cup {y}] = 0
    <3>1. B \in Sets(r, c) /\ B \cup {y} \in Sets(r, c)  BY <2>2 DEF Room
    <3>2. PICK C : C = B \cup {y}  OBVIOUS
    <3>3. L[Len(r) + 1][C] = 0  BY <2>1, <3>1, <3>2
    <3> QED  BY <2>1, <3>1, <3>2, <3>3
  <2>3. Mono(L, Len(r) + 1, r, c)
    <3>1. ASSUME NEW B, NEW y, Room(B, y, r, c)
          PROVE  /\ L[Len(r) + 1][B \cup {y}] <= L[Len(r) + 1][B]
                 /\ L[Len(r) + 1][B] <= 1 + L[Len(r) + 1][B \cup {y}]
      <4>1. L[Len(r) + 1][B] = 0 /\ L[Len(r) + 1][B \cup {y}] = 0  BY <2>2, <3>1
      <4> QED  BY <4>1
    <3> QED  BY <3>1 DEF Mono
  <2>4. Dead(L, Len(r) + 1, r, c)
    <3>1. ASSUME NEW B, NEW y, Room(B, y, r, c)
          PROVE  L[Len(r) + 1][B] <= L[Len(r) + 1][B \cup {y}]
      <4>1. L[Len(r) + 1][B] = 0 /\ L[Len(r) + 1][B \cup {y}] = 0  BY <2>2, <3>1
      <4> QED  BY <4>1
    <3> QED  BY <3>1 DEF Dead
  <2>5. Exchange(L, Len(r) + 1, r, c)
    <3>1. ASSUME NEW A, NEW a, NEW b, Room(A, a, r, c), Room(A, b, r, c)
          PROVE  L[Len(r) + 1][A \cup {a}] <= L[Len(r) + 1][A \cup {b}]
      <4>1. L[Len(r) + 1][A \cup {a}] = 0  BY <2>2, <3>1
      <4>2. L[Len(r) + 1][A \cup {b}] = 0  BY <2>2, <3>1
      <4> QED  BY <4>1, <4>2
    <3> QED  BY <3>1 DEF Exchange
  <2> QED  BY <1>1, <2>3, <2>4, <2>5
<1>3. \A i \in 1 .. Len(r) : i + 1 \in G => i \in G
  <2> SUFFICES ASSUME NEW i \in 1 .. Len(r), i + 1 \in G PROVE i \in G  OBVIOUS
  <2>1. Mono(L, i + 1, r, c) /\ Dead(L, i + 1, r, c) /\ Exchange(L, i + 1, r, c)  OBVIOUS
  <2>2. Mono(L, i, r, c)  BY <2>1, MonoStep
  <2>3. Dead(L, i, r, c)  BY <2>1, DeadStep
  <2>4. Exchange(L, i, r, c)  BY <2>1, ExchangeStep
  <2> QED  BY <1>1, <2>2, <2>3, <2>4
<1>4. k \in G
  <2> HIDE DEF G
  <2> QED  BY <1>1, <1>2, <1>3, Backward
<1> QED  BY <1>4

(* Whatever is replaced, a fault and what it leaves is no less than what   *)
(* was left before ...                                                     *)
LEMMA AnyReplacement ==
  ASSUME NEW L, NEW r, NEW c, Context(L, r, c), NEW k \in 1 .. Len(r), NEW S \in Sets(r, c),
         NEW p, p = r[k], p \notin S
  PROVE  /\ Cardinality(S) < c => /\ S \cup {p} \in Sets(r, c)
                                  /\ L[k][S] = 1 + L[k + 1][S \cup {p}]
         /\ \A q \in S : /\ Swap(S, q, p) \in Sets(r, c)
                         /\ L[k][S] <= 1 + L[k + 1][Swap(S, q, p)]
<1>1. r \in Seq(Nat) /\ c \in Nat  BY DEF Context
<1>2. Steps(L, k, S, r, c) /\ p \in ToSet(r) /\ k + 1 \in 1 .. Len(r) + 1  BY StepOf
<1>3. Cardinality(S) \in Nat /\ Cardinality(S) <= c  BY <1>1, SetsFacts
<1>4. ASSUME Cardinality(S) < c
      PROVE  S \cup {p} \in Sets(r, c) /\ L[k][S] = 1 + L[k + 1][S \cup {p}]
  <2>1. S \cup {p} \in Sets(r, c)  BY <1>1, <1>2, <1>4, SetsFacts
  <2>2. L[k][S] = 1 + L[k + 1][S \cup {p}]  BY <1>2, <1>4 DEF Steps
  <2> QED  BY <2>1, <2>2
<1>5. ASSUME NEW q \in S
      PROVE  Swap(S, q, p) \in Sets(r, c) /\ L[k][S] <= 1 + L[k + 1][Swap(S, q, p)]
  <2>1. PICK D : D = Swap(S, q, p)  OBVIOUS
  <2>2. D \in Sets(r, c)  BY <1>1, <1>2, <2>1, SetsFacts
  <2>3. CASE Cardinality(S) < c
    <3>1. D \cup {q} = S \cup {p} /\ q \notin D  BY <2>1 DEF Swap
    <3>2. Room(D, q, r, c)  BY <1>4, <2>2, <2>3, <3>1 DEF Room
    <3>3. Mono(L, k + 1, r, c)  BY <1>2, AllAlong
    <3>4. L[k + 1][D \cup {q}] <= L[k + 1][D]  BY <3>2, <3>3 DEF Mono
    <3>5. L[k + 1][D \cup {q}] \in Nat /\ L[k + 1][D] \in Nat  BY <3>2, RoomSteps
    <3>6. L[k][S] = 1 + L[k + 1][D \cup {q}]  BY <1>4, <2>3, <3>1
    <3>7. L[k][S] <= 1 + L[k + 1][D]  BY <3>4, <3>5, <3>6
    <3> QED  BY <2>1, <2>2, <3>7
  <2>4. CASE Cardinality(S) = c
    <3>1. L[k][S] <= 1 + L[k + 1][Swap(S, q, p)]  BY <1>2, <2>4 DEF Steps
    <3> QED  BY <2>1, <2>2, <3>1
  <2> QED  BY <1>1, <1>3, <2>3, <2>4
<1> QED  BY <1>4, <1>5

(* ... and it is the same when the page that is used last, or one that is  *)
(* not used any more, is.                                                  *)
LEMMA BestReplacement ==
  ASSUME NEW L, NEW r, NEW c, Context(L, r, c), NEW k \in 1 .. Len(r), NEW S \in Sets(r, c),
         NEW p, p = r[k], p \notin S, NEW v \in S,
         \/ Cardinality(S) = c /\ \A q \in S : q # v => Sooner(k + 1, q, v, r)
         \/ Cardinality(S) < c /\ Unused(k + 1, v, r)
  PROVE  L[k][S] = 1 + L[k + 1][Swap(S, v, p)]
<1>1. r \in Seq(Nat) /\ c \in Nat  BY DEF Context
<1>2. Steps(L, k, S, r, c) /\ p \in ToSet(r) /\ k + 1 \in 1 .. Len(r) + 1  BY StepOf
<1>3. PICK D : D = Swap(S, v, p)  OBVIOUS
<1>4. D \in Sets(r, c) /\ L[k][S] <= 1 + L[k + 1][D]  BY <1>3, AnyReplacement
<1>5. Mono(L, k + 1, r, c) /\ Dead(L, k + 1, r, c) /\ Exchange(L, k + 1, r, c)  BY <1>2, AllAlong
<1>6. L[k][S] \in Nat  BY <1>2 DEF Steps
<1>7. CASE Cardinality(S) = c /\ \A q \in S : q # v => Sooner(k + 1, q, v, r)
  <2>1. PICK q \in S : L[k][S] = 1 + L[k + 1][Swap(S, q, p)]  BY <1>2, <1>7 DEF Steps
  <2>2. CASE q = v  BY <2>1, <2>2
  <2>3. CASE q # v
    <3>1. PICK A : A = D \ {q}  OBVIOUS
    <3>2. A \cup {q} = D /\ A \cup {v} = Swap(S, q, p) /\ q \notin A /\ v \notin A
      BY <1>3, <2>3, <3>1 DEF Swap
    <3>3. A \in Sets(r, c)  BY <1>1, <1>4, <3>1, SetsFacts
    <3>4. Swap(S, q, p) \in Sets(r, c)  BY AnyReplacement
    <3>5. Room(A, q, r, c)  BY <1>4, <3>2, <3>3 DEF Room
    <3>6. Room(A, v, r, c)  BY <3>2, <3>3, <3>4 DEF Room
    <3>7. L[k + 1][A \cup {q}] <= L[k + 1][A \cup {v}]  BY <1>5, <1>7, <2>3, <3>5, <3>6 DEF Exchange
    <3>8. L[k + 1][A \cup {q}] \in Nat  BY <3>5, RoomSteps
    <3>9. L[k + 1][A \cup {v}] \in Nat  BY <3>6, RoomSteps
    <3>10. PICK x \in Nat : x = L[k + 1][A \cup {q}]  BY <3>8
    <3>11. PICK z \in Nat : z = L[k + 1][A \cup {v}]  BY <3>9
    <3>12. L[k][S] = 1 + z /\ L[k][S] <= 1 + x /\ x <= z  BY <1>4, <2>1, <3>2, <3>7, <3>10, <3>11
    <3>13. L[k][S] = 1 + x  BY <1>6, <3>12
    <3> QED  BY <1>3, <3>2, <3>10, <3>13
  <2> QED  BY <2>2, <2>3
<1>8. CASE Cardinality(S) < c /\ Unused(k + 1, v, r)
  <2>1. L[k][S] = 1 + L[k + 1][S \cup {p}] /\ S \cup {p} \in Sets(r, c)  BY <1>8, AnyReplacement
  <2>2. D \cup {v} = S \cup {p} /\ v \notin D  BY <1>3 DEF Swap
  <2>3. Room(D, v, r, c)  BY <1>4, <2>1, <2>2 DEF Room
  <2>4. L[k + 1][D \cup {v}] <= L[k + 1][D]  BY <1>5, <2>3 DEF Mono
  <2>5. L[k + 1][D] <= L[k + 1][D \cup {v}]  BY <1>5, <1>8, <2>3 DEF Dead
  <2>6. L[k + 1][D \cup {v}] \in Nat /\ L[k + 1][D] \in Nat  BY <2>3, RoomSteps
  <2>7. L[k + 1][D \cup {v}] = L[k + 1][D]  BY <2>4, <2>5, <2>6
  <2> QED  BY <1>3, <2>1, <2>2, <2>7
<1> QED  BY <1>7, <1>8

---------------------------------------------------------------------------
(* The faults of the policies that have run, of the one that runs, and of  *)
(* those that are still to run.                                            *)
RunBefore(a) ==
  IF a = "optimal" THEN {} ELSE IF a = "fifo" THEN {"optimal"}
  ELSE IF a = "lru" THEN {"optimal", "fifo"} ELSE IF a = "clock" THEN {"optimal", "fifo", "lru"}
  ELSE ToSet(Policies)
Fewest(r, c) == LeastOf(r, c)[1][{}]
AtLeast(x, k, S, r, c) == x + LeastOf(r, c)[k][S] >= Fewest(r, c)
Exactly(x, k, S, r, c) == x + LeastOf(r, c)[k][S] = Fewest(r, c)

FaultInv ==
  /\ fault \in [ToSet(Policies) -> Nat]
  /\ at = "read" => \A p \in ToSet(Policies) : fault[p] = 0
  /\ Running \/ at = "done" =>
       \A p \in RunBefore(at) : /\ fault[p] >= Fewest(rf_string, count)
                                /\ p = "optimal" => fault[p] = Fewest(rf_string, count)
  /\ Running =>
       /\ rf_count <= MAX /\ PagesOf(page_frame_arr) \subseteq ToSet(rf_string)
       /\ \A p \in ToSet(Policies) \ RunBefore(at) : p # at => fault[p] = 0
       /\ AtLeast(fault[at], j + 1, PagesOf(page_frame_arr), rf_string, count)
       /\ at = "optimal" => Exactly(fault[at], j + 1, PagesOf(page_frame_arr), rf_string, count)

(* A policy that starts has no faults, and one that ends has them all.     *)
LEMMA StartsLeast ==
  ASSUME NEW r \in Seq(Nat), NEW c \in Nat, c = 0 => Len(r) = 0
  PROVE  Fewest(r, c) \in Nat /\ AtLeast(0, 1, {}, r, c) /\ Exactly(0, 1, {}, r, c)
<1>1. {} \in Sets(r, c)  BY FS_EmptySet DEF Sets
<1>2. 1 \in 1 .. Len(r) + 1  BY Members
<1>3. LeastOf(r, c)[1][{}] \in Nat  BY <1>1, <1>2, LeastSteps
<1> QED  BY <1>3 DEF Fewest, AtLeast, Exactly

LEMMA EndsLeast ==
  ASSUME NEW r \in Seq(Nat), NEW c \in Nat, c = 0 => Len(r) = 0, NEW S \in Sets(r, c), NEW x \in Nat,
         NEW k, k = Len(r) + 1
  PROVE  /\ AtLeast(x, k, S, r, c) => x >= Fewest(r, c)
         /\ Exactly(x, k, S, r, c) => x = Fewest(r, c)
<1>1. LeastOf(r, c)[k][S] = 0  BY LeastSteps
<1> QED  BY <1>1, StartsLeast DEF AtLeast, Exactly

LEMMA InContext ==
  ASSUME TypeInv, FrameInv, Running, PagesOf(page_frame_arr) \subseteq ToSet(rf_string)
  PROVE  /\ Context(LeastOf(rf_string, count), rf_string, count)
         /\ rf_string \in Seq(Nat) /\ count \in Nat /\ (count = 0 => Len(rf_string) = 0)
         /\ PagesOf(page_frame_arr) \in Sets(rf_string, count)
<1>1. rf_string \in Seq(Nat) /\ count \in Nat  BY Basics
<1>2. count = 0 => Len(rf_string) = 0  BY DEF TypeInv, rf_count
<1>3. Cardinality(PagesOf(page_frame_arr)) <= count  BY FrameCount
<1> QED  BY <1>1, <1>2, <1>3 DEF Context, Sets

(* The frame the optimal policy chooses is empty, or its page is used      *)
(* after those of all others, or not at all.                               *)
LEMMA OptimalPage ==
  ASSUME TypeInv, FrameInv, Running, rf_count <= MAX, j < rf_count, ~IsHit,
         NEW v, v = FirstMax(NextUse), page_frame_arr[v] # EMPTY
  PROVE  LET f == page_frame_arr
         IN  \/ /\ ~HasEmpty(f)
                /\ \A q \in PagesOf(f) : q # f[v] => Sooner(j + 2, q, f[v], rf_string)
             \/ HasEmpty(f) /\ Unused(j + 2, f[v], rf_string)
<1> DEFINE f == page_frame_arr
<1>1. /\ rf_count \in Nat /\ j \in 0 .. rf_count /\ DOMAIN f = Frames
      /\ \A k \in 1 .. rf_count : rf_string[k] \in Nat
  BY Basics
<1>2. MAX \in Nat /\ rf_count = Len(rf_string)  BY PageReplacementAssumption DEF rf_count
<1>3. Page \notin PagesOf(f) /\ Page = rf_string[j + 1]  BY PageIs DEF Page
<1>4. /\ v \in Frames
      /\ \A i \in Frames : NextUse[i] <= NextUse[v]
      /\ \A i \in Frames : Again(i) = {} => NextUse[i] = MAX + 1
  BY OptimalChoice
<1>5. \A i \in Frames : Again(i) # {} => /\ NextUse[i] \in Again(i)
                                         /\ \A k \in Again(i) : NextUse[i] <= k
  BY OptimalChoice
<1>6. CASE ~HasEmpty(f)
  <2> SUFFICES ASSUME NEW q \in PagesOf(f), q # f[v],
                      NEW m \in j + 2 .. rf_count, rf_string[m] = f[v]
               PROVE  \E n \in j + 2 .. m : rf_string[n] = q
    BY <1>2, <1>6 DEF Sooner
  <2>1. PICK i \in Frames : q = f[i]  BY <1>1 DEF PagesOf
  <2>2. m \in Again(v)  BY <1>1 DEF Again
  <2>3. NextUse[v] \in Again(v) /\ NextUse[v] <= m  BY <1>4, <1>5, <2>2
  <2>4. NextUse[i] <= NextUse[v]  BY <1>4, <2>1
  <2>5. PICK n : n = NextUse[i]  OBVIOUS
  <2>6. PICK w \in j + 1 .. rf_count : w = NextUse[v]  BY <2>3 DEF Again
  <2>7. n <= w /\ w <= m  BY <2>3, <2>4, <2>5, <2>6
  <2>8. Again(i) # {}
    <3>1. ASSUME Again(i) = {} PROVE FALSE
      <4>1. n = MAX + 1  BY <1>4, <2>1, <2>5, <3>1
      <4> QED  BY <1>1, <1>2, <2>7, <4>1
    <3> QED  BY <3>1
  <2>9. n \in j + 1 .. rf_count /\ rf_string[n] = q  BY <1>5, <2>1, <2>5, <2>8 DEF Again
  <2>10. n # j + 1  BY <1>3, <2>9
  <2>11. n \in j + 2 .. m  BY <1>1, <2>7, <2>9, <2>10
  <2> QED  BY <2>9, <2>11
<1>7. CASE HasEmpty(f)
  <2>1. PICK i \in Frames : f[i] = EMPTY  BY <1>1, <1>7 DEF HasEmpty
  <2>2. Again(i) = {}
    <3>1. \A k \in j + 1 .. rf_count : rf_string[k] # EMPTY  BY <1>1 DEF EMPTY
    <3> QED  BY <2>1, <3>1 DEF Again
  <2>3. MAX + 1 <= NextUse[v]  BY <1>4, <2>1, <2>2
  <2>4. Again(v) = {}
    <3>1. ASSUME Again(v) # {} PROVE FALSE
      <4>1. NextUse[v] \in j + 1 .. rf_count  BY <1>4, <1>5, <3>1 DEF Again
      <4> QED  BY <1>1, <1>2, <2>3, <4>1
    <3> QED  BY <3>1
  <2>5. ASSUME NEW m \in j + 2 .. rf_count PROVE rf_string[m] # f[v]
    <3>1. m \in j + 1 .. rf_count  BY <1>1
    <3> QED  BY <2>4, <3>1 DEF Again
  <2> QED  BY <1>2, <1>7, <2>5 DEF Unused
<1> QED  BY <1>6, <1>7

LEMMA FaultCounts ==
  ASSUME TypeInv, FrameInv, FaultInv, Running, j < rf_count, ~IsHit, NEW i \in Frames,
         NEW x \in Nat, x = fault[at], NEW T, T = PagesOf(Put(page_frame_arr, i, Page))
  PROVE  /\ T \subseteq ToSet(rf_string)
         /\ AtLeast(x + 1, j + 2, T, rf_string, count)
         /\ at = "optimal" /\ i = FirstMax(NextUse) => Exactly(x + 1, j + 2, T, rf_string, count)
<1> DEFINE f == page_frame_arr
<1>1. PICK r : r = rf_string  OBVIOUS
<1>2. PICK c : c = count  OBVIOUS
<1>3. PICK L : L = LeastOf(r, c)  OBVIOUS
<1>4. PICK S : S = PagesOf(f)  OBVIOUS
<1>5. PICK k : k = j + 1  OBVIOUS
<1>6. PICK p : p = Page  OBVIOUS
<1>7. S \subseteq ToSet(r) /\ rf_count <= MAX  BY <1>1, <1>4 DEF FaultInv
<1>8. Context(L, r, c) /\ S \in Sets(r, c) /\ r \in Seq(Nat) /\ c \in Nat
      /\ (c = 0 => Len(r) = 0)
  BY <1>1, <1>2, <1>3, <1>4, <1>7, InContext
<1>9. p = r[k] /\ p \notin S /\ p \in Nat /\ k \in 1 .. Len(r)
  BY <1>1, <1>4, <1>5, <1>6, PageIs DEF Page, rf_count
<1>10. j + 2 = k + 1 /\ k \in Nat  BY <1>5, Basics
<1>11. /\ IsFiniteSet(S) /\ Cardinality(S) \in Nat /\ Cardinality(S) <= c
       /\ HasEmpty(f) <=> Cardinality(S) < c
  BY <1>2, <1>4, FrameCount
<1>12. T = (S \ {f[i]}) \cup {p}
  <2>1. f \in [Frames -> Nat \cup {EMPTY}] /\ Distinct(f)  BY DEF TypeInv, FrameInv
  <2>2. PICK g : g = Put(f, i, p)  OBVIOUS
  <2>3. PagesOf(g) = (PagesOf(f) \ {f[i]}) \cup {p}
    <3> HIDE DEF f
    <3> QED  BY <1>4, <1>9, <2>1, <2>2, Replaced
  <2> QED  BY <1>4, <1>6, <2>2, <2>3
<1>13. DOMAIN f = Frames  BY Basics
<1>14. AtLeast(x, k, S, r, c)
  BY <1>1, <1>2, <1>4, <1>5 DEF FaultInv
<1>15. at = "optimal" => Exactly(x, k, S, r, c)
  BY <1>1, <1>2, <1>4, <1>5 DEF FaultInv
<1>16. Fewest(r, c) \in Nat  BY <1>8, StartsLeast
<1>17. Steps(L, k, S, r, c) /\ k + 1 \in 1 .. Len(r) + 1  BY <1>8, <1>9, StepOf
<1>18. L[k][S] \in Nat  BY <1>17 DEF Steps
<1>19. \A W \in Sets(r, c) : L[k + 1][W] \in Nat  BY <1>3, <1>8, <1>17, LeastSteps
<1>20. CASE f[i] = EMPTY
  <2>1. f[i] \notin S /\ HasEmpty(f)  BY <1>4, <1>13, <1>20 DEF PagesOf, HasEmpty
  <2>2. T = S \cup {p} /\ Cardinality(S) < c  BY <1>11, <1>12, <2>1
  <2>3. T \in Sets(r, c) /\ L[k][S] = 1 + L[k + 1][T]
    <3>1. Context(L, r, c) /\ S \in Sets(r, c) /\ k \in 1 .. Len(r)  BY <1>8, <1>9
    <3>2. p = r[k] /\ p \notin S  BY <1>9
    <3>3. S \cup {p} \in Sets(r, c) /\ L[k][S] = 1 + L[k + 1][S \cup {p}]
      BY <2>2, <3>1, <3>2, AnyReplacement
    <3> QED  BY <2>2, <3>3
  <2>4. T \subseteq ToSet(r)  BY <2>3 DEF Sets
  <2>5. L[k + 1][T] \in Nat  BY <1>19, <2>3
  <2>6. AtLeast(x + 1, k + 1, T, r, c)  BY <1>3, <1>14, <1>16, <2>3, <2>5 DEF AtLeast
  <2>7. at = "optimal" => Exactly(x + 1, k + 1, T, r, c)
    BY <1>3, <1>15, <1>16, <2>3, <2>5 DEF Exactly
  <2> QED  BY <1>1, <1>2, <1>10, <2>4, <2>6, <2>7
<1>21. CASE f[i] # EMPTY
  <2>1. PICK v : v = f[i]  OBVIOUS
  <2>2. v \in S  BY <1>4, <1>13, <1>21, <2>1 DEF PagesOf
  <2>3. T = Swap(S, v, p)  BY <1>12, <2>1 DEF Swap
  <2>4. T \in Sets(r, c) /\ L[k][S] <= 1 + L[k + 1][T]
    <3>1. Context(L, r, c) /\ S \in Sets(r, c) /\ k \in 1 .. Len(r)  BY <1>8, <1>9
    <3>2. p = r[k] /\ p \notin S  BY <1>9
    <3>3. Swap(S, v, p) \in Sets(r, c) /\ L[k][S] <= 1 + L[k + 1][Swap(S, v, p)]
      BY <2>2, <3>1, <3>2, AnyReplacement
    <3> QED  BY <2>3, <3>3
  <2>5. T \subseteq ToSet(r)  BY <2>4 DEF Sets
  <2>6. L[k + 1][T] \in Nat  BY <1>19, <2>4
  <2>7. AtLeast(x + 1, k + 1, T, r, c)  BY <1>3, <1>14, <1>16, <1>18, <2>4, <2>6 DEF AtLeast
  <2>8. ASSUME at = "optimal", i = FirstMax(NextUse) PROVE Exactly(x + 1, k + 1, T, r, c)
    <3>1. \/ ~HasEmpty(f) /\ \A q \in S : q # v => Sooner(k + 1, q, v, r)
          \/ HasEmpty(f) /\ Unused(k + 1, v, r)
      BY <1>1, <1>4, <1>7, <1>10, <1>21, <2>1, <2>8, OptimalPage
    <3>2. \/ Cardinality(S) = c /\ \A q \in S : q # v => Sooner(k + 1, q, v, r)
          \/ Cardinality(S) < c /\ Unused(k + 1, v, r)
      BY <1>8, <1>11, <3>1
    <3>3. L[k][S] = 1 + L[k + 1][T]  BY <1>8, <1>9, <2>2, <2>3, <3>2, BestReplacement, SMTT(30)
    <3> QED  BY <1>3, <1>15, <1>16, <2>6, <2>8, <3>3 DEF Exactly
  <2> QED  BY <1>1, <1>2, <1>10, <2>5, <2>7, <2>8
<1> QED  BY <1>20, <1>21

LEMMA FaultKeepsLeast ==
  ASSUME Inv, FaultInv, Running, NEW i \in Frames, Fault(i), at = "optimal" => i = FirstMax(NextUse)
  PROVE  FaultInv'
<1>1. TypeInv /\ FrameInv /\ j < rf_count /\ ~IsHit  BY DEF Inv, Fault
<1>2. /\ at' = at /\ file' = file /\ j' = j + 1 /\ page_frame_arr' = Put(page_frame_arr, i, Page)
      /\ fault' = [fault EXCEPT ![at] = fault[at] + 1]
  BY DEF Fault, Put
<1>3. at \in ToSet(Policies) /\ fault[at] \in Nat  BY PolicyNames DEF Running, FaultInv
<1>4. rf_string' = rf_string /\ count' = count /\ rf_count' = rf_count
  BY <1>2 DEF rf_string, count, rf_count
<1>5. PICK x \in Nat : x = fault[at]  BY <1>3
<1>6. PICK T : T = PagesOf(Put(page_frame_arr, i, Page))  OBVIOUS
<1>7. /\ T \subseteq ToSet(rf_string)
      /\ AtLeast(x + 1, j + 2, T, rf_string, count)
      /\ at = "optimal" => Exactly(x + 1, j + 2, T, rf_string, count)
  BY <1>1, <1>5, <1>6, FaultCounts
<1>8. /\ fault' \in [ToSet(Policies) -> Nat] /\ fault'[at'] = x + 1
      /\ \A p \in ToSet(Policies) : p # at => fault'[p] = fault[p]
  BY <1>2, <1>3, <1>5 DEF FaultInv
<1>9. PagesOf(page_frame_arr') = T /\ j' + 1 = j + 2  BY <1>1, <1>2, <1>6, Basics
<1>10. Running' /\ at' # "read"  BY <1>2 DEF Running
<1>11. at \notin RunBefore(at) /\ RunBefore(at) \subseteq ToSet(Policies) /\ RunBefore(at') = RunBefore(at)
  BY <1>2, PolicyNames DEF RunBefore, Running
<1>12. \A p \in RunBefore(at) : /\ fault'[p] >= Fewest(rf_string, count)
                                /\ p = "optimal" => fault'[p] = Fewest(rf_string, count)
  BY <1>8, <1>11 DEF FaultInv
<1>13. \A p \in ToSet(Policies) \ RunBefore(at) : p # at => fault'[p] = 0  BY <1>8 DEF FaultInv
<1>14. rf_count <= MAX  BY DEF FaultInv
<1>15. /\ AtLeast(fault'[at'], j' + 1, PagesOf(page_frame_arr'), rf_string', count')
       /\ at' = "optimal" => Exactly(fault'[at'], j' + 1, PagesOf(page_frame_arr'), rf_string', count')
  BY <1>2, <1>4, <1>7, <1>8, <1>9
<1> QED  BY <1>2, <1>4, <1>7, <1>8, <1>9, <1>10, <1>11, <1>12, <1>13, <1>14, <1>15 DEF FaultInv

LEMMA HitKeepsLeast ==
  ASSUME Inv, FaultInv, Running, Hit
  PROVE  FaultInv'
<1>1. TypeInv /\ FrameInv /\ j < rf_count /\ IsHit  BY DEF Inv, Hit
<1>2. at' = at /\ file' = file /\ j' = j + 1 /\ page_frame_arr' = page_frame_arr /\ fault' = fault
  BY DEF Hit
<1>3. rf_string' = rf_string /\ count' = count /\ rf_count' = rf_count
  BY <1>2 DEF rf_string, count, rf_count
<1>4. PICK r : r = rf_string  OBVIOUS
<1>5. PICK c : c = count  OBVIOUS
<1>6. PICK S : S = PagesOf(page_frame_arr)  OBVIOUS
<1>7. PICK k : k = j + 1  OBVIOUS
<1>8. PICK L : L = LeastOf(r, c)  OBVIOUS
<1>9. Context(L, r, c) /\ S \in Sets(r, c)
  BY <1>1, <1>4, <1>5, <1>6, <1>8, InContext DEF FaultInv
<1>10. k \in 1 .. Len(r) /\ r[k] \in S  BY <1>1, <1>4, <1>6, <1>7, PageIs DEF Page, rf_count
<1>11. L[k][S] = L[k + 1][S]
  <2>1. Steps(L, k, S, r, c)  BY <1>9, <1>10, StepOf
  <2> QED  BY <1>10, <2>1 DEF Steps
<1>12. j' + 1 = k + 1  BY <1>2, <1>7
<1>13. AtLeast(fault[at], k, S, r, c) /\ (at = "optimal" => Exactly(fault[at], k, S, r, c))
  BY <1>4, <1>5, <1>6, <1>7 DEF FaultInv
<1>14. AtLeast(fault[at], k + 1, S, r, c) /\ (at = "optimal" => Exactly(fault[at], k + 1, S, r, c))
  BY <1>8, <1>11, <1>13 DEF AtLeast, Exactly
<1>15. /\ AtLeast(fault'[at'], j' + 1, PagesOf(page_frame_arr'), rf_string', count')
       /\ at' = "optimal" => Exactly(fault'[at'], j' + 1, PagesOf(page_frame_arr'), rf_string', count')
  BY <1>2, <1>3, <1>4, <1>5, <1>6, <1>12, <1>14
<1>16. Running' /\ at' # "read" /\ RunBefore(at') = RunBefore(at)  BY <1>2 DEF Running
<1> QED  BY <1>2, <1>3, <1>15, <1>16 DEF FaultInv

LEMMA StartKeepsLeast ==
  ASSUME file \in Files, count = 0 => rf_count = 0, rf_count <= MAX, NEW p \in ToSet(Policies),
         Start(p), UNCHANGED <<file, fault>>, fault \in [ToSet(Policies) -> Nat],
         \A q \in ToSet(Policies) \ RunBefore(p) : fault[q] = 0,
         \A q \in RunBefore(p) : /\ fault[q] >= Fewest(rf_string, count)
                                 /\ q = "optimal" => fault[q] = Fewest(rf_string, count)
  PROVE  FaultInv'
<1>1. /\ at' = p /\ j' = 0 /\ page_frame_arr' = [i \in Frames |-> EMPTY] /\ fault' = fault
      /\ file' = file
  BY DEF Start
<1>2. rf_string' = rf_string /\ count' = count /\ rf_count' = rf_count
  BY <1>1 DEF rf_string, count, rf_count
<1>3. rf_string \in Seq(Nat) /\ count \in Nat /\ (count = 0 => Len(rf_string) = 0)
  BY PageReplacementAssumption DEF rf_string, count, rf_count
<1>4. PagesOf(page_frame_arr') = {}  BY <1>1 DEF PagesOf
<1>5. p \notin RunBefore(p) /\ p # "read" /\ p # "done"  BY PolicyNames DEF RunBefore
<1>6. fault[p] = 0  BY <1>5
<1>7. AtLeast(0, 1, {}, rf_string, count) /\ Exactly(0, 1, {}, rf_string, count)
  BY <1>3, StartsLeast
<1>8. j' + 1 = 1  BY <1>1
<1>9. /\ AtLeast(fault'[at'], j' + 1, PagesOf(page_frame_arr'), rf_string', count')
      /\ Exactly(fault'[at'], j' + 1, PagesOf(page_frame_arr'), rf_string', count')
  BY <1>1, <1>2, <1>4, <1>6, <1>7, <1>8
<1> QED  BY <1>1, <1>2, <1>4, <1>5, <1>9 DEF FaultInv

LEMMA ReadFileKeepsLeast ==
  ASSUME Inv, FaultInv, ReadFile
  PROVE  FaultInv'
<1>1. at = "read" /\ file \in Files /\ UNCHANGED <<file, fault>>  BY DEF ReadFile, Inv, TypeInv
<1>2. fault \in [ToSet(Policies) -> Nat] /\ \A p \in ToSet(Policies) : fault[p] = 0
  BY <1>1 DEF FaultInv
<1>3. CASE Outside
  <2>1. at' = "undefined"  BY <1>1, <1>3 DEF ReadFile
  <2> QED  BY <1>1, <1>2, <2>1 DEF FaultInv, Running
<1>4. CASE ~Outside
  <2>1. rf_count \in Nat /\ count \in Nat /\ MAX \in Nat
    BY <1>1, PageReplacementAssumption, LenProperties DEF rf_count, rf_string, count
  <2>2. (count = 0 => rf_count = 0) /\ rf_count <= MAX  BY <1>4, <2>1 DEF Outside
  <2>3. Start("optimal")  BY <1>1, <1>4, PolicyNames DEF ReadFile
  <2>4. "optimal" \in ToSet(Policies) /\ RunBefore("optimal") = {}  BY PolicyNames DEF RunBefore
  <2> QED  BY <1>1, <1>2, <2>2, <2>3, <2>4, StartKeepsLeast
<1> QED  BY <1>3, <1>4

LEMMA NextPolicyKeepsLeast ==
  ASSUME Inv, FaultInv, NextPolicy
  PROVE  FaultInv'
<1>1. Running /\ at \in ToSet(Policies) /\ j = rf_count /\ UNCHANGED <<file, fault>>
  BY PolicyNames DEF NextPolicy, Running
<1>2. TypeInv /\ FrameInv /\ file \in Files  BY DEF Inv, TypeInv
<1>3. /\ rf_string \in Seq(Nat) /\ count \in Nat /\ (count = 0 => Len(rf_string) = 0)
      /\ PagesOf(page_frame_arr) \in Sets(rf_string, count)
  BY <1>1, <1>2, InContext DEF FaultInv
<1>4. fault \in [ToSet(Policies) -> Nat] /\ fault[at] \in Nat  BY <1>1 DEF FaultInv
<1>5. j + 1 = Len(rf_string) + 1  BY <1>1 DEF rf_count
<1>6. /\ fault[at] >= Fewest(rf_string, count)
      /\ at = "optimal" => fault[at] = Fewest(rf_string, count)
  <2>1. /\ AtLeast(fault[at], j + 1, PagesOf(page_frame_arr), rf_string, count)
        /\ at = "optimal" => Exactly(fault[at], j + 1, PagesOf(page_frame_arr), rf_string, count)
    BY <1>1 DEF FaultInv
  <2> QED  BY <1>3, <1>4, <1>5, <2>1, EndsLeast
<1>7. \A p \in RunBefore(at) \cup {at} :
        /\ fault[p] >= Fewest(rf_string, count)
        /\ p = "optimal" => fault[p] = Fewest(rf_string, count)
  BY <1>1, <1>6 DEF FaultInv
<1>8. \A p \in ToSet(Policies) \ (RunBefore(at) \cup {at}) : fault[p] = 0
  BY <1>1 DEF FaultInv
<1>9. (count = 0 => rf_count = 0) /\ rf_count <= MAX  BY <1>1, <1>2 DEF TypeInv, FaultInv
<1>10. CASE at = "clock"
  <2>1. at' = "done"  BY <1>10, PolicyNames DEF NextPolicy
  <2>2. RunBefore(at') = RunBefore(at) \cup {at} /\ ~Running' /\ at' # "read"
    BY <1>10, <2>1, PolicyNames DEF RunBefore, Running
  <2>3. rf_string' = rf_string /\ count' = count /\ fault' = fault  BY <1>1 DEF rf_string, count
  <2> QED  BY <1>4, <1>7, <2>2, <2>3 DEF FaultInv
<1>11. CASE at # "clock"
  <2>1. PICK b : b = IF at = "optimal" THEN "fifo" ELSE IF at = "fifo" THEN "lru" ELSE "clock"
    OBVIOUS
  <2>2. Start(b)
    <3>1. at # Last(Policies)  BY <1>11, PolicyNames
    <3>2. Start(Policies[1 + CHOOSE k \in DOMAIN Policies : Policies[k] = at])
      BY <3>1 DEF NextPolicy
    <3>3. Policies[1 + CHOOSE k \in DOMAIN Policies : Policies[k] = at] = b
      BY <1>1, <1>11, <2>1, PolicyNames
    <3> QED  BY <3>2, <3>3
  <2>3. b \in ToSet(Policies) /\ RunBefore(b) = RunBefore(at) \cup {at}
    BY <1>1, <1>11, <2>1, PolicyNames DEF RunBefore, Running
  <2> QED  BY <1>1, <1>2, <1>4, <1>7, <1>8, <1>9, <2>2, <2>3, StartKeepsLeast
<1> QED  BY <1>10, <1>11

LEMMA StepKeepsLeast == Inv /\ FaultInv /\ [PagingNext]_pagingVars => FaultInv'
<1> SUFFICES ASSUME Inv, FaultInv, [PagingNext]_pagingVars PROVE FaultInv'  OBVIOUS
<1>1. CASE ReadFile  BY <1>1, ReadFileKeepsLeast
<1>2. CASE PlainHit
  <2>1. Running /\ Hit  BY <1>2, PolicyNames DEF PlainHit, Running
  <2> QED  BY <2>1, HitKeepsLeast
<1>3. CASE ClockHit
  <2>1. Running /\ Hit  BY <1>3 DEF ClockHit, Running
  <2> QED  BY <2>1, HitKeepsLeast
<1>4. CASE Optimal
  <2>1. PICK v : v = FirstMax(NextUse)  OBVIOUS
  <2>2. Running /\ Fault(v)  BY <1>4, <2>1 DEF Optimal, Running
  <2>3. v \in Frames  BY <2>1, <2>2, OptimalChoice DEF Inv, Fault
  <2> QED  BY <2>1, <2>2, <2>3, FaultKeepsLeast
<1>5. CASE Lru
  <2>1. PICK v : v = FirstMin(PrevUse)  OBVIOUS
  <2>2. at = "lru" /\ Running /\ Fault(v)  BY <1>5, <2>1 DEF Lru, Running
  <2>3. v \in Frames  BY <2>1, <2>2, LruChoice DEF Inv, Fault
  <2> QED  BY <2>2, <2>3, FaultKeepsLeast
<1>6. CASE Fifo
  <2>1. at = "fifo" /\ Running /\ Fault(oldest)  BY <1>6 DEF Fifo, Running
  <2>2. oldest \in Frames
    <3>1. j < rf_count  BY <2>1 DEF Fault
    <3> QED  BY <2>1, <3>1, PageIs DEF Inv, TypeInv
  <2> QED  BY <2>1, <2>2, FaultKeepsLeast
<1>7. CASE Clock
  <2>1. PICK v : v = Chosen  OBVIOUS
  <2>2. at = "clock" /\ Running /\ Fault(v)  BY <1>7, <2>1 DEF Clock, Running
  <2>3. v \in Frames
    <3>1. j < rf_count  BY <2>2 DEF Fault
    <3> QED  BY <2>1, <2>2, <3>1, PageIs, ClockChoice DEF Inv
  <2> QED  BY <2>2, <2>3, FaultKeepsLeast
<1>8. CASE NextPolicy  BY <1>8, NextPolicyKeepsLeast
<1>9. CASE UNCHANGED pagingVars
  <2>1. UNCHANGED <<file, at, j, page_frame_arr, fault>>  BY <1>9 DEF pagingVars, policy
  <2> QED  BY <2>1 DEF FaultInv, Running, rf_count, rf_string, count
<1> QED  BY <1>1, <1>2, <1>3, <1>4, <1>5, <1>6, <1>7, <1>8, <1>9 DEF PagingNext

(* The policy called optimal has the fewest faults that any choice of      *)
(* replacements can have, and none of the other policies has fewer, for    *)
(* every number of frames and every string of references.                  *)
THEOREM OptimalBest == PagingSpec => []OptimalIsLeast
<1>1. PagingInit => Inv /\ FaultInv
  <2> SUFFICES ASSUME PagingInit PROVE Inv /\ FaultInv  OBVIOUS
  <2>1. Inv  BY InitHolds
  <2>2. at = "read" /\ fault = [p \in ToSet(Policies) |-> 0]  BY DEF PagingInit
  <2> QED  BY <2>1, <2>2 DEF FaultInv, Running
<1>2. Inv /\ FaultInv /\ [PagingNext]_pagingVars => (Inv /\ FaultInv)'
  <2>1. Inv /\ [PagingNext]_pagingVars => Inv'  BY StepKeeps
  <2> QED  BY <2>1, StepKeepsLeast
<1>3. FaultInv => OptimalIsLeast
  <2> SUFFICES ASSUME FaultInv, at = "done"
               PROVE  /\ fault["optimal"] = LeastFaults
                      /\ \A p \in ToSet(Policies) : fault[p] >= LeastFaults
    BY DEF OptimalIsLeast
  <2>1. LeastFaults = Fewest(rf_string, count)  BY LeastFaultsIs DEF Fewest
  <2>2. RunBefore(at) = ToSet(Policies) /\ "optimal" \in ToSet(Policies)
    BY PolicyNames DEF RunBefore
  <2> QED  BY <2>1, <2>2 DEF FaultInv
<1> QED  BY <1>1, <1>2, <1>3, PTL DEF PagingSpec

=============================================================================
