--------------------------- MODULE StrStoreProofs ---------------------------
(***************************************************************************)
(* Proofs about StrStore, for every choice of its constants: types, the    *)
(* slots of the discard file, and the order of the log.                    *)
(***************************************************************************)
EXTENDS StrStoreInv, NatOrder, DiscardProofs, SequenceTheorems, TLAPS

-----------------------------------------------------------------------------
(* Types.                                                                  *)

(* The place of the next entry is in a file of the model.                  *)
LEMMA WritePosType ==
  ASSUME TypeOK, NEW v \in Entry, WritePos(v).fid <= MaxFid
  PROVE  /\ WritePos(v).fid \in Fid /\ WritePos(v).off \in Nat
         /\ WritePos(v) = [fid |-> WritePos(v).fid, off |-> WritePos(v).off]
  BY FidAssumption, SizeAssumption DEF TypeOK, WritePos, Fid

(* An index entry for a place is well typed.                               *)
LEMMA NodeForType ==
  ASSUME NEW p, p.fid \in Fid, p.off \in Nat, NEW v \in Entry, NEW e \in Nat
  PROVE  NodeFor(p, v, e) \in Node
  BY FidAssumption, SizeAssumption DEF NodeFor, Node, Fid

(* writeLogEntry keeps the types of all it touches.                        *)
LEMMA WriteLogEntryType ==
  ASSUME TypeOK, NEW k \in Keys, NEW v \in Entry, NEW e \in Nat,
         WriteLogEntry(k, v, e)
  PROVE  /\ files' \subseteq Fid /\ log' \subseteq LogRecord
         /\ active' \in 0 .. MaxFid /\ archived' \subseteq Fid
         /\ offset' \in Nat /\ disc' \in DiscardState
<1> DEFINE p == WritePos(v)
<1>1. p.fid \in Fid /\ p.off \in Nat
  BY WritePosType DEF WriteLogEntry
<1>2. files' \subseteq Fid /\ active' \in 0 .. MaxFid
  <2>1. p.fid \in 0 .. MaxFid
    BY <1>1, FidAssumption DEF Fid
  <2> QED BY <1>1, <2>1 DEF WriteLogEntry, TypeOK
<1>3. archived' \subseteq Fid
  <2>1. active # 0 => active \in Fid
    BY FidAssumption DEF TypeOK, Fid
  <2> QED BY <2>1 DEF WriteLogEntry, TypeOK
<1>4. offset' \in Nat
  BY <1>1, SizeAssumption DEF WriteLogEntry
<1>5. log' \subseteq LogRecord
  <2>1. [fid |-> p.fid, off |-> p.off, key |-> k, val |-> v, exp |-> e] \in LogRecord
    BY <1>1 DEF LogRecord
  <2> QED BY <2>1 DEF WriteLogEntry, TypeOK
<1>6. disc' \in DiscardState
  BY <1>1, SetTotalType DEF WriteLogEntry, TypeOK
<1> QED BY <1>2, <1>3, <1>4, <1>5, <1>6

(* What is sent to the discard listener names a log file.                  *)
LEMMA DiscardOfType ==
  ASSUME NEW n \in Node
  PROVE  DiscardOf(n) \in Seq([fid : Fid, size : Nat])
<1>1. CASE n.fid = 0
  BY <1>1 DEF DiscardOf
<1>2. CASE n.fid # 0
  <2>1. [fid |-> n.fid, size |-> n.size] \in [fid : Fid, size : Nat]
    BY <1>2, FidAssumption DEF Node, Fid
  <2> QED BY <1>2, <2>1 DEF DiscardOf
<1> QED BY <1>1, <1>2

(* Sending discards keeps the type of the channel.                         *)
LEMMA SendDiscardsType ==
  ASSUME TypeOK, NEW q \in Seq([fid : Fid, size : Nat]), SendDiscards(q)
  PROVE  up' \in BOOLEAN /\ valChan' \in Seq([fid : Fid, size : Nat])
<1>1. up' \in BOOLEAN
  BY Zenon DEF TypeOK, SendDiscards
<1>2. valChan \o q \in Seq([fid : Fid, size : Nat])
  BY ConcatProperties DEF TypeOK
<1>3. valChan' \in {valChan, valChan \o q}
  BY Zenon DEF SendDiscards
<1> QED BY <1>1, <1>2, <1>3, Zenon DEF TypeOK

(* A put keeps the types.                                                  *)
LEMMA PutType ==
  ASSUME TypeOK, NEW k \in Keys, NEW v \in Values, NEW e \in Nat, Put(k, v, e)
  PROVE  TypeOK'
<1>1. v \in Entry
  BY DEF Entry
<1>2. index' \in [Keys -> Node]
  BY <1>1, WritePosType, NodeForType DEF Put, WriteLogEntry, TypeOK
<1>3. up' \in BOOLEAN /\ valChan' \in Seq([fid : Fid, size : Nat])
  BY DiscardOfType, SendDiscardsType, Zenon DEF Put, TypeOK
<1> QED BY <1>1, <1>2, <1>3, WriteLogEntryType DEF Put, TypeOK

(* A delete keeps the types.                                               *)
LEMMA DeleteType ==
  ASSUME TypeOK, NEW k \in Keys, Delete(k)
  PROVE  TypeOK'
<1>1. NoValue \in Entry
  BY DEF Entry
<1>2. NoNode \in Node
  BY FidAssumption DEF NoNode, Node
<1>3. NodeFor(WritePos(NoValue), NoValue, 0) \in Node
  BY <1>1, WritePosType, NodeForType DEF Delete, WriteLogEntry
<1>4. DeleteDiscards(k) \in Seq([fid : Fid, size : Nat])
  BY <1>3, DiscardOfType, ConcatProperties, Zenon DEF DeleteDiscards, TypeOK
<1>5. up' \in BOOLEAN /\ valChan' \in Seq([fid : Fid, size : Nat])
  BY <1>4, SendDiscardsType, Zenon DEF Delete
<1>6. index' \in [Keys -> Node]
  BY <1>2 DEF Delete, TypeOK
<1> QED BY <1>1, <1>5, <1>6, WriteLogEntryType DEF Delete, TypeOK

(* Every command comes down to a put, a delete, or the end of the process. *)
LEMMA UserStepCases ==
  ASSUME TypeOK, UserStep
  PROVE  \/ \E k \in Keys, v \in Values, e \in Nat :
              Put(k, v, e) /\ (Durations = {} => e = 0)
         \/ \E k \in Keys : Delete(k)
         \/ \E v \in Entry : NewFileWithoutSlot(v)
<1> DEFINE Goal == \E k \in Keys, v \in Values, e \in Nat :
                     Put(k, v, e) /\ (Durations = {} => e = 0)
<1>1. ASSUME NEW k \in Keys, NEW v \in Values,
             Set(k, v) \/ SetNX(k, v) \/ ReadModifyWrite(k, v)
      PROVE  Goal
  BY <1>1 DEF Set, SetNX, ReadModifyWrite
<1>2. ASSUME NEW k \in Keys, NEW v \in Values, SetEX(k, v)
      PROVE  Goal
  <2>1. PICK d \in Durations : Put(k, v, now + d)
    BY <1>2 DEF SetEX
  <2>2. now + d \in Nat
    BY ConfigAssumption DEF TypeOK
  <2> QED BY <2>1, <2>2
<1> QED BY <1>1, <1>2 DEF UserStep, GetDel

(* The commands keep the types.                                            *)
LEMMA UserStepType ==
  ASSUME TypeOK, UserStep
  PROVE  TypeOK'
<1>1. ASSUME NEW v \in Entry, NewFileWithoutSlot(v) PROVE TypeOK'
  BY <1>1, WritePosType, Zenon DEF NewFileWithoutSlot, TypeOK
<1> QED BY <1>1, UserStepCases, PutType, DeleteType

(* A Merge under way has a log file.                                       *)
LEMMA MergingType ==
  ASSUME TypeOK, merge.pc # "idle"
  PROVE  merge \in Merging
  BY DEF TypeOK, Idle

(* A step of Merge keeps the types.                                        *)
LEMMA MergeStepType ==
  ASSUME TypeOK, MergeStep
  PROVE  TypeOK'
<1>1. ASSUME NEW r \in log
      PROVE  /\ r.key \in Keys /\ r.val \in Entry /\ r.exp \in Nat
             /\ merge.pc = "scan" => MergedUpTo(r) \in Merging
  <2>1. r \in LogRecord
    BY DEF TypeOK
  <2>2. r.off + EntrySize[r.val] \in Nat
    BY <2>1, SizeAssumption DEF LogRecord
  <2> QED BY <2>1, <2>2, MergingType DEF LogRecord, Merging, MergedUpTo
<1>2. CASE MergeSkip
  BY <1>1, <1>2 DEF MergeSkip, TypeOK
<1>3. CASE MergeRewrite
  <2>1. PICK r \in log : /\ WriteLogEntry(r.key, r.val, r.exp)
                         /\ index' = Relocated(r)
                         /\ merge' = MergedUpTo(r)
    BY <1>3 DEF MergeRewrite
  <2>2. index' \in [Keys -> Node]
    BY <1>1, <2>1, WritePosType, NodeForType DEF WriteLogEntry, Relocated, TypeOK
  <2>3. merge' \in Merging
    BY <1>1, <1>3, <2>1 DEF MergeRewrite
  <2> QED BY <1>1, <1>3, <2>1, <2>2, <2>3, WriteLogEntryType DEF MergeRewrite, TypeOK
<1>4. CASE MergeWithoutSlot
  BY <1>1, <1>4, WritePosType, Zenon DEF MergeWithoutSlot, NewFileWithoutSlot, TypeOK
<1>5. CASE MergeDelete
  <2>1. merge' \in Merging
    BY <1>5, MergingType DEF MergeDelete, Merging
  <2> QED BY <1>5, <2>1 DEF MergeDelete, TypeOK
<1>6. CASE MergeClear
  <2>1. merge.fid \in Fid
    BY <1>6, MergingType DEF MergeClear, Merging
  <2>2. up' \in BOOLEAN
    BY <1>6, Zenon DEF MergeClear, TypeOK
  <2>3. disc' \in DiscardState
    BY <1>6, <2>1, ClearType, Zenon DEF MergeClear, TypeOK
  <2> QED BY <1>6, <2>2, <2>3 DEF MergeClear, TypeOK
<1> QED BY <1>2, <1>3, <1>4, <1>5, <1>6 DEF MergeStep

(* A new entry lies inside a log file that exists.                         *)
LEMMA WriteInside ==
  ASSUME TypeOK, InsideInv, NEW k \in Keys, NEW v \in Entry, NEW e \in Nat,
         WriteLogEntry(k, v, e)
  PROVE  InsideInv'
<1> DEFINE p == WritePos(v)
           new == [fid |-> p.fid, off |-> p.off, key |-> k, val |-> v, exp |-> e]
<1>1. p.off + EntrySize[v] <= MaxLogFileSize
  BY SizeAssumption DEF WritePos, TypeOK
<1>2. files' = files \cup {p.fid}
  BY DEF WriteLogEntry
<1>3. ASSUME NEW r \in log' PROVE r \in log \/ r = new
  BY DEF WriteLogEntry
<1> QED BY <1>1, <1>2, <1>3 DEF InsideInv, Ends

(* The newest log file is one of them.                                     *)
LEMMA NewestType ==
  ASSUME TypeOK
  PROVE  /\ Newest \in 0 .. MaxFid
         /\ files = {} => Newest = 0
         /\ files # {} => Newest \in files /\ \A g \in files : g <= Newest
<1>1. CASE files = {}
  BY <1>1, FidAssumption DEF Newest
<1>2. CASE files # {}
  <2>1. files \subseteq 0 .. MaxFid
    BY FidAssumption DEF TypeOK, Fid
  <2>2. \E f \in files : \A g \in files : g <= f
    BY <1>2, <2>1, FidAssumption, GreatestExists, Zenon
  <2>3. Newest \in files /\ \A g \in files : g <= Newest
    BY <1>2, <2>2 DEF Newest
  <2> QED BY <1>2, <2>1, <2>3
<1> QED BY <1>1, <1>2

(* The write offset Open restores lies behind all it has read.             *)
LEMMA EndOfScanType ==
  ASSUME TypeOK, InsideInv, NEW f
  PROVE  /\ EndOfScan(f) \in Nat
         /\ \A r \in log : r.fid = f /\ Readable(r) => Ends(r) <= EndOfScan(f)
<1> DEFINE ends == {r.off + EntrySize[r.val] : r \in {q \in Scanned : q.fid = f}}
<1>1. ASSUME NEW r \in log PROVE Ends(r) \in 0 .. MaxLogFileSize
  BY SizeAssumption DEF TypeOK, InsideInv, Ends, LogRecord
<1>2. ends \subseteq 0 .. MaxLogFileSize
  BY <1>1 DEF Scanned, Ends
<1>3. \A r \in log : r.fid = f /\ Readable(r) => Ends(r) \in ends
  BY DEF Scanned, Ends
<1>4. EndOfScan(f) = IF ends = {} THEN 0 ELSE CHOOSE n \in ends : \A m \in ends : m <= n
  BY DEF EndOfScan
<1> HIDE DEF ends
<1>5. CASE ends = {}
  BY <1>3, <1>4, <1>5
<1>6. CASE ends # {}
  <2>1. \E n \in ends : \A m \in ends : m <= n
    BY <1>2, <1>6, SizeAssumption, GreatestExists, Zenon
  <2>2. EndOfScan(f) \in ends /\ \A m \in ends : m <= EndOfScan(f)
    BY <1>4, <1>6, <2>1
  <2>3. EndOfScan(f) \in Nat
    <3>1. EndOfScan(f) \in 0 .. MaxLogFileSize
      BY <1>2, <2>2, Zenon
    <3> QED BY <3>1
  <2> QED BY <1>3, <2>2, <2>3
<1> QED BY <1>5, <1>6

(* The index Open rebuilds is well typed.                                  *)
LEMMA ReplayIndexType ==
  ASSUME TypeOK
  PROVE  ReplayIndex \in [Keys -> Node]
<1>1. NoNode \in Node
  BY FidAssumption DEF NoNode, Node
<1>2. ASSUME NEW r \in log PROVE NodeFor(r, r.val, 0) \in Node
  BY NodeForType DEF TypeOK, LogRecord
<1>3. ASSUME NEW k \in Keys, \E r \in LastOf(Scanned, k) : r.val # NoValue
      PROVE  (CHOOSE r \in LastOf(Scanned, k) : TRUE) \in log
  BY <1>3 DEF LastOf, Scanned
<1> QED BY <1>1, <1>2, <1>3 DEF ReplayIndex

(* Type correctness, with the bound on offsets it needs on reopening.      *)
TypeInv == TypeOK /\ InsideInv

(* Every step keeps the types and the bound on offsets.                    *)
LEMMA TypeStep ==
  ASSUME TypeInv, [Next]_vars
  PROVE  TypeInv'
<1> USE DEF TypeInv
<1>1. CASE UserStep
  <2>1. TypeOK'
    BY <1>1, UserStepType
  <2>2. ASSUME NEW k \in Keys, NEW v \in Values, NEW e \in Nat, Put(k, v, e)
        PROVE  InsideInv'
    BY <2>2, WriteInside DEF Put, Entry
  <2>3. ASSUME NEW k \in Keys, Delete(k) PROVE InsideInv'
    BY <2>3, WriteInside DEF Delete, Entry
  <2>4. ASSUME NEW k \in Keys, NEW v \in Values, SetEX(k, v) PROVE InsideInv'
    <3>1. PICK d \in Durations : Put(k, v, now + d)
      BY <2>4 DEF SetEX
    <3>2. now + d \in Nat
      BY ConfigAssumption DEF TypeOK
    <3> QED BY <2>2, <3>1, <3>2
  <2>5. ASSUME NEW v \in Entry, NewFileWithoutSlot(v) PROVE InsideInv'
    BY <2>5 DEF NewFileWithoutSlot, InsideInv, Ends
  <2> QED BY <1>1, <2>1, <2>2, <2>3, <2>4, <2>5
          DEF UserStep, Set, SetNX, ReadModifyWrite, GetDel
<1>2. CASE MergeEmpty
  <2>1. 1 \in Fid /\ 1 \in 0 .. MaxFid
    BY FidAssumption DEF Fid
  <2> QED BY <1>2, <2>1, SetTotalType DEF MergeEmpty, TypeOK, InsideInv, Ends
<1>3. ASSUME NEW f \in Fid, MergeStart(f) PROVE TypeInv'
  <2>1. merge' \in Merging
    BY <1>3 DEF MergeStart, Merging
  <2> QED BY <1>3, <2>1 DEF MergeStart, TypeOK, InsideInv, Ends
<1>4. CASE MergeStep
  <2>1. TypeOK'
    BY <1>4, MergeStepType
  <2>2. CASE MergeRewrite
    <3>1. PICK r \in log : WriteLogEntry(r.key, r.val, r.exp)
      BY <2>2 DEF MergeRewrite
    <3>2. r.key \in Keys /\ r.val \in Entry /\ r.exp \in Nat
      BY DEF TypeOK, LogRecord
    <3> QED BY <2>1, <3>1, <3>2, WriteInside
  <2>3. CASE MergeSkip \/ MergeWithoutSlot \/ MergeDelete \/ MergeClear
    BY <2>1, <2>3
       DEF MergeSkip, MergeWithoutSlot, NewFileWithoutSlot, MergeDelete, MergeClear,
           InsideInv, Ends
  <2> QED BY <1>4, <2>2, <2>3 DEF MergeStep
<1>5. CASE ListenUpdate
  <2> DEFINE h == Head(valChan)
  <2>1. h \in [fid : Fid, size : Nat] /\ valChan' \in Seq([fid : Fid, size : Nat])
    BY <1>5, HeadTailProperties, Zenon DEF ListenUpdate, TypeOK
  <2>2. up' \in BOOLEAN
    BY <1>5, Zenon DEF ListenUpdate, TypeOK
  <2>3. disc' \in DiscardState
    BY <1>5, <2>1, IncrDiscardType, Zenon DEF ListenUpdate, TypeOK
  <2> QED BY <1>5, <2>1, <2>2, <2>3 DEF ListenUpdate, TypeOK, InsideInv, Ends
<1>6. CASE Stop
  BY <1>6, Zenon DEF Stop, TypeOK, InsideInv, Ends
<1>7. CASE Open
  <2>1. disc' \in DiscardState
    BY <1>7, NewDiscardType, Zenon DEF Open, TypeOK, DiscardState
  <2>2. archived' \subseteq Fid /\ valChan' \in Seq([fid : Fid, size : Nat])
    BY <1>7 DEF Open, TypeOK
  <2> QED BY <1>7, <2>1, <2>2, NewestType, EndOfScanType, ReplayIndexType
          DEF Open, TypeOK, InsideInv, Ends
<1>8. CASE Tick
  BY <1>8, ConfigAssumption DEF Tick, TypeOK, InsideInv, Ends
<1>9. CASE UNCHANGED vars
  BY <1>9 DEF vars, TypeOK, InsideInv, Ends
<1> QED BY <1>1, <1>2, <1>3, <1>4, <1>5, <1>6, <1>7, <1>8, <1>9 DEF Next

(* The empty store is well typed.                                          *)
LEMMA TypeInit ==
  ASSUME Init
  PROVE  TypeInv
<1>1. disc \in DiscardState
  BY NewDiscardType, FidAssumption DEF Init, EmptyDiscard
<1>2. NoNode \in Node
  BY FidAssumption DEF NoNode, Node
<1> QED BY <1>1, <1>2, FidAssumption DEF Init, TypeInv, TypeOK, InsideInv

(* Every reachable state of the string store is well formed: log file      *)
(* numbers, offsets, index entries and discard records stay in range       *)
(* through every command, merge step, crash and reopening.                 *)
THEOREM TypeCorrect == Spec => []TypeOK
<1>1. Init => TypeInv
  BY TypeInit
<1>2. TypeInv /\ [Next]_vars => TypeInv'
  BY TypeStep
<1> QED BY <1>1, <1>2, PTL DEF Spec, TypeInv

-----------------------------------------------------------------------------
(* The slots of the discard file.                                          *)

(* Every step keeps the discard file in order.                             *)
LEMMA DiscardStep ==
  ASSUME TypeOK, DiscardInv, [Next]_vars
  PROVE  DiscardInv'
<1>1. disc \in DiscardState /\ DiscardOK(disc)
  BY DEF TypeOK, DiscardInv
<1> SUFFICES DiscardOK(disc')
  BY DEF DiscardInv
<1>2. ASSUME NEW k, NEW v \in Entry, NEW e, WriteLogEntry(k, v, e)
      PROVE  DiscardOK(disc')
  <2>1. WritePos(v).fid \in Fid
    BY <1>2, WritePosType DEF WriteLogEntry
  <2> QED BY <1>1, <1>2, <2>1, SetTotalOK DEF WriteLogEntry
<1>3. CASE UserStep
  <2>1. (\E k \in Keys, v \in Entry, e \in Nat : WriteLogEntry(k, v, e)) \/ disc' = disc
    BY <1>3, UserStepCases, Zenon DEF Put, Delete, NewFileWithoutSlot, Entry
  <2> QED BY <1>1, <1>2, <2>1
<1>4. CASE MergeRewrite
  BY <1>2, <1>4 DEF MergeRewrite, TypeOK, LogRecord
<1>5. CASE MergeEmpty
  BY <1>1, <1>5, SetTotalOK, FidAssumption DEF MergeEmpty, Fid
<1>6. CASE MergeClear
  <2>1. merge.fid \in Fid
    BY <1>6, MergingType DEF MergeClear, Merging
  <2> QED BY <1>1, <1>6, <2>1, ClearOK, Zenon DEF MergeClear
<1>7. CASE ListenUpdate
  <2>1. Head(valChan) \in [fid : Fid, size : Nat]
    BY <1>7, HeadTailProperties, Zenon DEF ListenUpdate, TypeOK
  <2> QED BY <1>1, <1>7, <2>1, IncrDiscardOK, Zenon DEF ListenUpdate
<1>8. CASE Open
  BY <1>1, <1>8, NewDiscardOK DEF Open
<1>9. CASE MergeSkip \/ MergeWithoutSlot \/ MergeDelete \/ Stop \/ Tick \/ UNCHANGED vars
  BY <1>1, <1>9 DEF MergeSkip, MergeWithoutSlot, NewFileWithoutSlot, MergeDelete,
                    Stop, Tick, vars
<1>10. CASE \E f \in Fid : MergeStart(f)
  BY <1>1, <1>10 DEF MergeStart
<1> QED BY <1>3, <1>4, <1>5, <1>6, <1>7, <1>8, <1>9, <1>10 DEF Next, MergeStep

(* No slot of the discard file is handed out twice or lost while the store *)
(* is open, and the tables rebuilt when it is opened again are right: the  *)
(* records on disk never name the same log file twice.                     *)
THEOREM SlotsCorrect == Spec => []SlotsOK
<1>1. Init => TypeInv /\ DiscardInv
  <2>1. ASSUME Init PROVE DiscardInv
    <3>1. disc = NewDiscard([s \in Slots |-> 0], [s \in Slots |-> 0])
      BY <2>1 DEF Init, EmptyDiscard
    <3>2. disc = [owner |-> [s \in Slots |-> 0], count |-> [s \in Slots |-> 0],
                  location |-> [f \in Fid |-> NoSlot], free |-> Slots]
      <4>1. \A f \in Fid : ~\E s \in Slots : [t \in Slots |-> 0][s] = f
        BY DEF Fid
      <4>2. \A s \in Slots : [t \in Slots |-> 0][s] = 0
        OBVIOUS
      <4> QED BY <3>1, <4>1, <4>2 DEF NewDiscard
    <3> QED BY <3>2, SlotAssumption DEF DiscardInv, DiscardOK, SlotsPartitioned
  <2> QED BY <2>1, TypeInit
<1>2. TypeInv /\ DiscardInv /\ [Next]_vars => TypeInv' /\ DiscardInv'
  BY TypeStep, DiscardStep DEF TypeInv
<1>3. DiscardInv => SlotsOK
  BY DEF DiscardInv, DiscardOK, SlotsOK
<1> QED BY <1>1, <1>2, <1>3, PTL DEF Spec

-----------------------------------------------------------------------------
(* The order of the log.                                                   *)

(* If no entry is shorter than the header read, Open reads them all.       *)
LEMMA AllReadable ==
  ASSUME EntriesFillHeader, TypeOK, InsideInv
  PROVE  /\ \A r \in log : Readable(r)
         /\ Scanned = log
<1>1. ASSUME NEW r \in log PROVE Readable(r)
  <2>1. r \in LogRecord /\ Ends(r) <= MaxLogFileSize
    BY DEF TypeOK, InsideInv
  <2>2. EntrySize[r.val] >= MaxHeaderSize
    BY <2>1 DEF EntriesFillHeader, LogRecord
  <2> QED BY <2>1, <2>2, SizeAssumption DEF Readable, Ends, LogRecord
<1> QED BY <1>1 DEF Scanned

(* A write goes behind everything in the log and disturbs nothing in it.   *)
LEMMA WriteOrder ==
  ASSUME TypeOK, InsideInv, PlacesInv, FilesCore,
         NEW k \in Keys, NEW v \in Entry, NEW e \in Nat, WriteLogEntry(k, v, e),
         NEW new, new = [fid |-> WritePos(v).fid, off |-> WritePos(v).off,
                         key |-> k, val |-> v, exp |-> e]
  PROVE  /\ log' = log \cup {new}
         /\ \A r \in log : After(new, r)
         /\ PlacesInv' /\ FilesCore'
         /\ new.fid >= active /\ archived \subseteq archived'
         /\ new.fid \in Fid /\ new.off \in Nat
<1> DEFINE p == WritePos(v)
<1>1. p.fid \in Fid /\ p.off \in Nat
  BY WritePosType DEF WriteLogEntry
<1>2. \/ active = 0 /\ p.fid = 1 /\ p.off = 0
      \/ active # 0 /\ p.fid = active + 1 /\ p.off = 0
      \/ active # 0 /\ p.fid = active /\ p.off = offset
  BY DEF WritePos
<1>3. ASSUME NEW r \in log PROVE r.fid # p.fid \/ Ends(r) <= p.off
  BY <1>1, <1>2 DEF InsideInv, FilesCore, TypeOK, Fid
<1>4. ASSUME NEW r \in log
      PROVE  /\ r.fid \in Nat /\ r.off \in Nat /\ Ends(r) \in Nat /\ r.off < Ends(r)
             /\ r.fid <= active /\ r.fid \in files
  BY SizeAssumption, FidAssumption DEF TypeOK, LogRecord, Fid, Ends, InsideInv, FilesCore
<1>5. ASSUME NEW r \in log PROVE After(new, r) /\ (r.fid # p.fid \/ r.off < p.off)
  <2>1. r.fid <= p.fid
    BY <1>1, <1>2, <1>4, FidAssumption DEF TypeOK, Fid
  <2> QED BY <1>1, <1>3, <1>4, <2>1 DEF After, Fid
<1>6. log' = log \cup {new}
  BY <1>5 DEF WriteLogEntry
<1>7. Ends(new) = p.off + EntrySize[v] /\ new.fid = p.fid /\ new.off = p.off
  BY DEF Ends
<1>8. PlacesInv'
  <2>1. ASSUME NEW q \in log', NEW r \in log',
               q.fid = r.fid, q.off < r.off
        PROVE  Ends(q) <= r.off
    <3>1. CASE q \in log /\ r \in log
      BY <2>1, <3>1 DEF PlacesInv
    <3>2. CASE q \in log /\ r = new
      BY <1>3, <1>7, <2>1, <3>2
    <3>3. CASE q = new
      BY <1>1, <1>4, <1>5, <1>6, <1>7, <2>1, <3>3 DEF Fid
    <3> QED BY <1>6, <3>1, <3>2, <3>3
  <2>2. ASSUME NEW q \in log', NEW r \in log', q.fid = r.fid, q.off = r.off
        PROVE  q = r
    BY <1>1, <1>4, <1>5, <1>6, <1>7, <2>2 DEF PlacesInv
  <2> QED BY <2>1, <2>2 DEF PlacesInv, Ends
<1>9. FilesCore'
  <2>1. active' = p.fid /\ offset' = p.off + EntrySize[v] /\ files' = files \cup {p.fid}
        /\ archived' = IF p.fid # active /\ active # 0 THEN archived \cup {active} ELSE archived
    BY DEF WriteLogEntry
  <2>2. /\ active' # 0 /\ files' = archived' \cup {active'}
        /\ \A f \in archived' : f < active'
    <3>1. CASE active = 0
      BY <1>2, <2>1, <3>1 DEF FilesCore
    <3>2. CASE active # 0 /\ p.fid = active
      BY <2>1, <3>2 DEF FilesCore
    <3>3. CASE active # 0 /\ p.fid = active + 1
      <4>1. active \in Nat /\ active + 1 # active /\ archived' = archived \cup {active}
        BY <2>1, <3>3, FidAssumption DEF TypeOK
      <4>2. ASSUME NEW f \in archived' PROVE f < active + 1
        BY <4>1, <4>2 DEF FilesCore, TypeOK, Fid
      <4> QED BY <2>1, <3>3, <4>1, <4>2 DEF FilesCore
    <3> QED BY <1>2, <3>1, <3>2, <3>3
  <2>3. ASSUME NEW r \in log', r.fid = active' PROVE Ends(r) <= offset'
    BY <1>1, <1>3, <1>4, <1>6, <1>7, <2>1, <2>3, SizeAssumption
  <2> QED BY <2>2, <2>3 DEF FilesCore, Ends
<1>10. p.fid >= active /\ archived \subseteq archived'
  BY <1>1, <1>2, FidAssumption DEF WriteLogEntry, TypeOK, Fid
<1> QED BY <1>1, <1>5, <1>6, <1>7, <1>8, <1>9, <1>10

(* A write that points the index at the new entry, or at nothing, leaves   *)
(* the index pointing at last entries only.                                *)
LEMMA WriteLatest ==
  ASSUME OrderInv, up,
         NEW k \in Keys, NEW v \in Entry, NEW e \in Nat, WriteLogEntry(k, v, e),
         NEW n, index' = [index EXCEPT ![k] = n],
         n.fid = 0 \/ (n.fid = WritePos(v).fid /\ n.off = WritePos(v).off)
  PROVE  PlacesInv' /\ FilesCore' /\ LatestCore'
<1> DEFINE new == [fid |-> WritePos(v).fid, off |-> WritePos(v).off,
                   key |-> k, val |-> v, exp |-> e]
<1>1. /\ log' = log \cup {new}
      /\ \A r \in log : After(new, r)
      /\ PlacesInv' /\ FilesCore'
      /\ new.fid \in Fid /\ new.off \in Nat
  BY WriteOrder DEF OrderInv
<1>2. ASSUME NEW j \in Keys, index'[j].fid # 0, NEW r \in log', r.key = j
      PROVE  ~After(r, index'[j])
  <2>1. CASE j = k
    <3>1. index'[j] = n /\ n.fid = new.fid /\ n.off = new.off
      BY <1>2, <2>1, Zenon DEF OrderInv, TypeOK
    <3>2. CASE r = new
      BY <1>1, <3>1, <3>2 DEF After, Fid
    <3>3. CASE r \in log
      BY <1>1, <3>1, <3>3 DEF After, Fid, OrderInv, TypeOK, LogRecord
    <3> QED BY <1>1, <3>2, <3>3
  <2>2. CASE j # k
    <3>1. index'[j] = index[j] /\ r \in log
      BY <1>1, <1>2, <2>2 DEF OrderInv, TypeOK
    <3> QED BY <1>2, <3>1 DEF OrderInv, LatestCore
  <2> QED BY <2>1, <2>2
<1> QED BY <1>1, <1>2 DEF LatestCore, After

(* What Open finds is in order again, whatever state the store went down   *)
(* in.                                                                     *)
LEMMA OpenOrder ==
  ASSUME EntriesFillHeader, OrderInv, Open
  PROVE  PlacesInv' /\ FilesCore' /\ LatestCore'
<1>1. TypeOK /\ InsideInv /\ PlacesInv
  BY DEF OrderInv
<1>2. log' = log /\ files' = files
  BY DEF Open
<1>3. Scanned = log
  BY <1>1, AllReadable
<1>4. PlacesInv'
  BY <1>1, <1>2 DEF PlacesInv, Ends
<1>5. FilesCore'
  <2>1. /\ active' = Newest /\ archived' = files \ {Newest}
        /\ offset' = EndOfScan(Newest)
    BY DEF Open
  <2>2. \A r \in log : r.fid = Newest => Ends(r) <= EndOfScan(Newest)
    BY <1>1, EndOfScanType, AllReadable
  <2>3. active' = 0 => files' = {} /\ archived' = {}
    BY <1>1, <1>2, <2>1, NewestType DEF TypeOK, Fid
  <2>4. active' # 0 => files' = archived' \cup {active'}
    BY <1>1, <1>2, <2>1, NewestType
  <2>5. \A f \in archived' : f < active'
    BY <1>1, <1>2, <2>1, NewestType, FidAssumption DEF TypeOK, Fid
  <2> QED BY <1>2, <2>1, <2>2, <2>3, <2>4, <2>5 DEF FilesCore, Ends
<1>6. LatestCore'
  <2>1. ASSUME NEW k \in Keys, index'[k].fid # 0, NEW r \in log, r.key = k
        PROVE  ~After(r, index'[k])
    <3>1. index'[k] = ReplayIndex[k]
      BY DEF Open
    <3>2. \E q \in LastOf(Scanned, k) : q.val # NoValue
      BY <2>1, <3>1 DEF ReplayIndex, NoNode
    <3>3. PICK q \in LastOf(Scanned, k) : index'[k] = NodeFor(q, q.val, 0)
      BY <3>1, <3>2, Zenon DEF ReplayIndex
    <3>4. ~After(r, q)
      BY <1>3, <2>1, <3>3 DEF LastOf
    <3> QED BY <3>3, <3>4 DEF After, NodeFor
  <2> QED BY <1>2, <2>1 DEF LatestCore, After
<1> QED BY <1>4, <1>5, <1>6

(* Every step keeps the log and the index in order.                        *)
LEMMA OrderStep ==
  ASSUME EntriesFillHeader, OrderInv, [Next]_vars
  PROVE  OrderInv'
<1>1. TypeOK' /\ InsideInv'
  BY TypeStep DEF TypeInv, OrderInv
<1>a. ASSUME up' PROVE MergeFile'
  <2>1. ASSUME NEW k \in Keys, NEW v \in Entry, NEW e \in Nat, up,
               WriteLogEntry(k, v, e), merge'.pc = merge.pc, merge'.fid = merge.fid
        PROVE  MergeFile'
    BY <2>1 DEF WriteLogEntry, MergeFile, OrderInv
  <2>2. CASE UserStep
    <3>1. PICK k \in Keys, v \in Entry, e \in Nat :
            up /\ WriteLogEntry(k, v, e) /\ merge' = merge
      BY <1>a, <2>2, UserStepCases
         DEF Put, Delete, NewFileWithoutSlot, Entry, OrderInv
    <3> QED BY <2>1, <3>1
  <2>3. CASE MergeRewrite
    <3>1. PICK r \in log : WriteLogEntry(r.key, r.val, r.exp) /\ merge' = MergedUpTo(r)
      BY <2>3 DEF MergeRewrite
    <3>2. merge'.pc = merge.pc /\ merge'.fid = merge.fid
      BY <2>3, <3>1 DEF MergedUpTo, OrderInv, TypeOK, Merging, MergeRewrite, Idle
    <3> QED BY <2>1, <2>3, <3>1, <3>2 DEF MergeRewrite, OrderInv, TypeOK, LogRecord
  <2>4. CASE MergeSkip
    <3>1. merge'.pc = merge.pc /\ merge'.fid = merge.fid
      BY <2>4 DEF MergedUpTo, OrderInv, TypeOK, Merging, MergeSkip, Idle
    <3> QED BY <2>4, <3>1 DEF MergeSkip, MergeFile, OrderInv
  <2>5. CASE MergeDelete
    BY <2>5 DEF MergeDelete, MergeFile, OrderInv, TypeOK, Idle, Merging
  <2>6. CASE MergeEmpty \/ MergeClear \/ Open
    BY <2>6 DEF MergeEmpty, MergeClear, Open, Idle, MergeFile
  <2>7. CASE \E f \in Fid : MergeStart(f)
    BY <2>7 DEF MergeStart, MergeFile
  <2>8. CASE MergeWithoutSlot
    BY <1>a, <2>8 DEF MergeWithoutSlot, NewFileWithoutSlot
  <2>9. CASE ListenUpdate \/ Stop \/ Tick \/ UNCHANGED vars
    <3>1. up /\ merge' = merge /\ archived' = archived
      BY <1>a, <2>9, Zenon DEF ListenUpdate, Stop, Tick, vars
    <3> QED BY <3>1 DEF MergeFile, OrderInv
  <2> QED BY <2>2, <2>3, <2>4, <2>5, <2>6, <2>7, <2>8, <2>9 DEF Next, MergeStep
<1> SUFFICES PlacesInv' /\ (up' => FilesCore' /\ LatestCore')
  BY <1>1, <1>a DEF OrderInv
<1>2. ASSUME NEW k \in Keys, NEW v \in Values, NEW e \in Nat, Put(k, v, e)
      PROVE  PlacesInv' /\ FilesCore' /\ LatestCore'
  <2>1. v \in Entry
    BY DEF Entry
  <2> QED BY <1>2, <2>1, WriteLatest, Zenon DEF Put, NodeFor
<1>3. ASSUME NEW k \in Keys, Delete(k)
      PROVE  PlacesInv' /\ FilesCore' /\ LatestCore'
  <2>1. NoValue \in Entry
    BY DEF Entry
  <2> QED BY <1>3, <2>1, WriteLatest, Zenon DEF Delete, NoNode
<1>4. CASE UserStep
  <2>1. ASSUME NEW v \in Entry, NewFileWithoutSlot(v)
        PROVE  PlacesInv' /\ ~up'
    BY <2>1 DEF NewFileWithoutSlot, OrderInv, PlacesInv, Ends
  <2> QED BY <1>2, <1>3, <1>4, <2>1, UserStepCases DEF OrderInv
<1>5. CASE MergeEmpty
  <2>1. log = {}
    BY <1>5 DEF MergeEmpty, OrderInv, FilesCore, InsideInv
  <2>2. FilesCore'
    BY <1>5, <2>1 DEF MergeEmpty, OrderInv, FilesCore
  <2> QED BY <1>5, <2>1, <2>2 DEF MergeEmpty, PlacesInv, LatestCore
<1>6. ASSUME NEW f \in Fid, MergeStart(f)
      PROVE  PlacesInv' /\ (up' => FilesCore' /\ LatestCore')
  BY <1>6 DEF MergeStart, OrderInv, PlacesInv, FilesCore, LatestCore, After, Ends
<1>7. CASE MergeRewrite
  <2>1. PICK r \in log : WriteLogEntry(r.key, r.val, r.exp) /\ index' = Relocated(r)
    BY <1>7 DEF MergeRewrite
  <2>2. r.key \in Keys /\ r.val \in Entry /\ r.exp \in Nat
    BY DEF OrderInv, TypeOK, LogRecord
  <2> QED BY <1>7, <2>1, <2>2, WriteLatest, Zenon DEF MergeRewrite, Relocated, NodeFor
<1>8. CASE MergeDelete
  <2>1. log' \subseteq log /\ index' = index
    BY <1>8 DEF MergeDelete
  <2>2. PlacesInv'
    BY <2>1 DEF OrderInv, PlacesInv, Ends
  <2>3. LatestCore'
    BY <1>8, <2>1 DEF MergeDelete, OrderInv, LatestCore, After
  <2>4. FilesCore'
    BY <1>8, <2>1, FidAssumption
       DEF MergeDelete, OrderInv, FilesCore, MergeFile, TypeOK, Fid, Ends
  <2> QED BY <2>2, <2>3, <2>4
<1>9. CASE MergeSkip \/ MergeClear \/ MergeWithoutSlot
  BY <1>9, Zenon DEF MergeSkip, MergeClear, MergeWithoutSlot, NewFileWithoutSlot,
              OrderInv, PlacesInv, FilesCore, LatestCore, After, Ends
<1>10. CASE ListenUpdate \/ Stop \/ Tick \/ UNCHANGED vars
  <2>1. /\ log' = log /\ files' = files /\ active' = active /\ archived' = archived
        /\ offset' = offset /\ index' = index
    BY <1>10, Zenon DEF ListenUpdate, Stop, Tick, vars
  <2>2. up' => up
    BY <1>10, Zenon DEF ListenUpdate, Stop, Tick, vars
  <2>3. PlacesInv'
    BY <2>1 DEF OrderInv, PlacesInv, Ends
  <2>4. up => FilesCore' /\ LatestCore'
    BY <2>1 DEF OrderInv, FilesCore, LatestCore, After, Ends
  <2> QED BY <2>2, <2>3, <2>4
<1>11. CASE Open
  BY <1>11, OpenOrder
<1> QED BY <1>4, <1>5, <1>6, <1>7, <1>8, <1>9, <1>10, <1>11 DEF Next, MergeStep

(* In the initial state there is nothing to be out of order.               *)
LEMMA OrderInit ==
  ASSUME Init
  PROVE  OrderInv
<1>1. TypeOK /\ InsideInv
  BY TypeInit DEF TypeInv
<1> QED BY <1>1 DEF Init, OrderInv, PlacesInv, FilesCore, LatestCore, MergeFile, Idle

(* The index never points at an entry that the log has superseded: the     *)
(* commands, the rewrites of Merge and the replay of Open agree on which   *)
(* entry of a key is the last.  Provided no entry is shorter than the      *)
(* header read; if some are, Open overlooks entries at the end of a file.  *)
THEOREM LatestCorrect ==
  ASSUME EntriesFillHeader
  PROVE  Spec => []IndexIsLatest
<1>1. Init => OrderInv
  BY OrderInit
<1>2. OrderInv /\ [Next]_vars => OrderInv'
  BY OrderStep
<1>3. OrderInv => IndexIsLatest
  BY DEF OrderInv, LatestCore, IndexIsLatest
<1> QED BY <1>1, <1>2, <1>3, PTL DEF Spec
=============================================================================
