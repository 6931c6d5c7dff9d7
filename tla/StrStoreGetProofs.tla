------------------------- MODULE StrStoreGetProofs --------------------------
(***************************************************************************)
(* Looking up a key never fails, for every choice of the constants.        *)
(***************************************************************************)
EXTENDS StrStoreProofs

(* Once Merge has passed entry r, what the index needs of the file lies    *)
(* behind r, unless the index needs r itself.                              *)
LEMMA PastEntry ==
  ASSUME EntriesFillHeader, StoreInv, up, merge.pc = "scan",
         NEW r \in log, IsNext(r),
         NEW j \in Keys, index[j].fid = merge.fid,
         ~(r.key = j /\ r.val # NoValue /\ StillCurrent(r))
  PROVE  index[j].off >= Ends(r)
<1>1. /\ TypeOK /\ InsideInv /\ PlacesInv
      /\ ResolvesCore /\ MergeCore
  BY DEF StoreInv, OrderInv
<1>2. merge \in Merging
  BY <1>1, MergingType
<1>3. PICK q \in log : PointsAt(j, q)
  BY <1>1, <1>2 DEF ResolvesCore, Merging, Fid
<1>4. q.fid = merge.fid /\ q.off = index[j].off /\ q.key = j /\ q.val # NoValue
  BY <1>3 DEF PointsAt
<1>5. Readable(q)
  BY <1>1, AllReadable
<1>6. q.off >= merge.off
  BY <1>1, <1>4 DEF MergeCore
<1>7. r.off <= q.off /\ r.fid = merge.fid
  BY <1>4, <1>5, <1>6 DEF IsNext, Unread
<1>8. q # r
  BY <1>4, <1>7 DEF StillCurrent
<1>9. r.off \in Nat /\ q.off \in Nat
  BY <1>1 DEF TypeOK, LogRecord
<1>10. r.off < q.off
  BY <1>1, <1>4, <1>7, <1>8, <1>9 DEF PlacesInv
<1> QED BY <1>1, <1>4, <1>7, <1>9, <1>10 DEF PlacesInv

(* A write that points the index at the new put, or at nothing.            *)
LEMMA WriteResolves ==
  ASSUME StoreInv, up,
         NEW k \in Keys, NEW v \in Entry, NEW e \in Nat, WriteLogEntry(k, v, e),
         NEW n, index' = [index EXCEPT ![k] = n],
         n.fid = 0 \/ (/\ n.fid = WritePos(v).fid /\ n.off = WritePos(v).off
                       /\ v # NoValue)
  PROVE  /\ ResolvesCore'
         /\ merge.pc = "scan" => index'[k].fid # merge.fid
<1>0. PICK new : new = [fid |-> WritePos(v).fid, off |-> WritePos(v).off,
                        key |-> k, val |-> v, exp |-> e]
  BY Zenon
<1>1. /\ log' = log \cup {new}
      /\ new.fid \in Fid /\ new.fid >= active
  BY <1>0, WriteOrder DEF StoreInv, OrderInv
<1>2. index'[k] = n /\ \A j \in Keys : j # k => index'[j] = index[j]
  BY DEF StoreInv, OrderInv, TypeOK
<1>3. ASSUME NEW j \in Keys, index'[j].fid # 0
      PROVE  \E r \in log' : PointsAt(j, r)'
  <2>1. CASE j = k
    <3>1. PointsAt(j, new)'
      BY <1>0, <1>2, <1>3, <2>1, Zenon DEF PointsAt
    <3> QED BY <1>1, <3>1
  <2>2. CASE j # k
    <3>1. PICK r \in log : PointsAt(j, r)
      BY <1>2, <1>3, <2>2 DEF StoreInv, ResolvesCore
    <3>2. PointsAt(j, r)'
      BY <1>2, <2>2, <3>1 DEF PointsAt
    <3> QED BY <1>1, <3>1, <3>2
  <2> QED BY <2>1, <2>2
<1>4. ASSUME merge.pc = "scan" PROVE n.fid # merge.fid
  <2>1. merge.fid \in Fid /\ merge.fid < active
    BY <1>4 DEF StoreInv, OrderInv, MergeFile, FilesCore, TypeOK
  <2>2. active \in Nat
    BY FidAssumption DEF StoreInv, OrderInv, TypeOK
  <2> QED BY <1>0, <1>1, <2>1, <2>2, FidAssumption DEF Fid
<1> QED BY <1>2, <1>3, <1>4 DEF ResolvesCore

(* If no command gives a duration, nothing ever expires.                   *)
LEMMA NoExpiryStep ==
  ASSUME StoreInv, Durations = {}, [Next]_vars
  PROVE  NoExpiry'
<1> USE DEF StoreInv, OrderInv
<1>1. ASSUME NEW k \in Keys, NEW v, WriteLogEntry(k, v, 0),
             NEW n, n.exp = 0, index' = [index EXCEPT ![k] = n]
      PROVE  NoExpiry'
  BY <1>1 DEF NoExpiry, WriteLogEntry, TypeOK
<1>2. CASE UserStep
  <2>1. ASSUME NEW v, NewFileWithoutSlot(v) PROVE NoExpiry'
    BY <2>1 DEF NewFileWithoutSlot, NoExpiry
  <2>2. ASSUME NEW k \in Keys, NEW v, Put(k, v, 0) PROVE NoExpiry'
    BY <1>1, <2>2, Zenon DEF Put, NodeFor
  <2>3. ASSUME NEW k \in Keys, Delete(k) PROVE NoExpiry'
    BY <1>1, <2>3, Zenon DEF Delete, NoNode
  <2> QED BY <1>2, <2>1, <2>2, <2>3, UserStepCases
<1>3. CASE MergeRewrite
  <2>1. PICK r \in log : WriteLogEntry(r.key, r.val, r.exp) /\ index' = Relocated(r)
    BY <1>3 DEF MergeRewrite
  <2>2. r.exp = 0 /\ r.key \in Keys
    BY DEF NoExpiry, TypeOK, LogRecord
  <2>3. PICK n : n = NodeFor(WritePos(r.val), r.val, r.exp)
    BY Zenon
  <2>4. index' = [index EXCEPT ![r.key] = n] /\ n.exp = 0
    BY <2>1, <2>2, <2>3 DEF Relocated, NodeFor
  <2>5. WriteLogEntry(r.key, r.val, 0)
    BY <2>1, <2>2, Zenon
  <2> QED BY <1>1, <2>2, <2>4, <2>5, Zenon
<1>4. CASE MergeDelete
  BY <1>4 DEF MergeDelete, NoExpiry
<1>5. CASE Open
  BY <1>5 DEF Open, ReplayIndex, NodeFor, NoNode, NoExpiry
<1>6. CASE MergeEmpty \/ MergeSkip \/ MergeWithoutSlot \/ MergeClear
  BY <1>6, Zenon DEF MergeEmpty, MergeSkip, MergeWithoutSlot, NewFileWithoutSlot,
              MergeClear, NoExpiry
<1>7. CASE \E f \in Fid : MergeStart(f)
  BY <1>7, Zenon DEF MergeStart, NoExpiry
<1>8. CASE ListenUpdate \/ Stop \/ Tick \/ UNCHANGED vars
  BY <1>8 DEF ListenUpdate, Stop, Tick, vars, NoExpiry
<1> QED BY <1>2, <1>3, <1>4, <1>5, <1>6, <1>7, <1>8 DEF Next, MergeStep

(* The index Open rebuilds leads to puts only.                             *)
LEMMA OpenResolves ==
  ASSUME EntriesFillHeader, OrderInv, Open
  PROVE  ResolvesCore'
<1>1. Scanned = log /\ log' = log
  BY AllReadable DEF OrderInv, Open
<1>2. ASSUME NEW k \in Keys, index'[k].fid # 0
      PROVE  \E r \in log' : PointsAt(k, r)'
  <2>1. index'[k] = ReplayIndex[k]
    BY DEF Open
  <2>2. PICK q \in LastOf(log, k) : q.val # NoValue
    <3>1. ReplayIndex[k] # NoNode
      BY <1>2, <2>1 DEF NoNode
    <3>2. ~(\E q \in LastOf(log, k) : q.val # NoValue) => ReplayIndex[k] = NoNode
      BY <1>1, Zenon DEF ReplayIndex
    <3> QED BY <3>1, <3>2, Zenon
  <2>3. PICK r \in LastOf(log, k) : index'[k] = NodeFor(r, r.val, 0)
    BY <1>1, <2>1, <2>2, Zenon DEF ReplayIndex
  <2>4. q = r
    <3>1. /\ q \in log /\ r \in log /\ q.key = k /\ r.key = k
          /\ ~After(q, r) /\ ~After(r, q)
      BY <2>2, <2>3 DEF LastOf
    <3>2. /\ q.fid \in Nat /\ r.fid \in Nat /\ q.off \in Nat /\ r.off \in Nat
      BY <3>1, FidAssumption DEF OrderInv, TypeOK, LogRecord, Fid
    <3>3. q.fid = r.fid /\ q.off = r.off
      BY <3>1, <3>2 DEF After
    <3> QED BY <3>1, <3>3 DEF OrderInv, PlacesInv
  <2>5. PointsAt(k, r)'
    <3>1. r.key = k /\ r.val # NoValue
      BY <2>2, <2>4 DEF LastOf
    <3>2. index'[k].fid = r.fid /\ index'[k].off = r.off
      BY <2>3 DEF NodeFor
    <3> QED BY <3>1, <3>2 DEF PointsAt
  <2> QED BY <1>1, <2>3, <2>5 DEF LastOf
<1> QED BY <1>2 DEF ResolvesCore

(* Every step keeps the index leading to values.                           *)
LEMMA StoreStep ==
  ASSUME EntriesFillHeader, Durations = {}, StoreInv, [Next]_vars
  PROVE  StoreInv'
<1>1. OrderInv' /\ NoExpiry'
  BY OrderStep, NoExpiryStep DEF StoreInv
<1> SUFFICES ASSUME up'
             PROVE  ResolvesCore' /\ MergeCore'
  BY <1>1 DEF StoreInv
<1>2. TypeOK
  BY DEF StoreInv, OrderInv
<1>3. ASSUME NEW k \in Keys, NEW v \in Entry, NEW e \in Nat, up,
             WriteLogEntry(k, v, e), merge' = merge,
             NEW n, index' = [index EXCEPT ![k] = n],
             n.fid = 0 \/ (/\ n.fid = WritePos(v).fid /\ n.off = WritePos(v).off
                           /\ v # NoValue)
      PROVE  ResolvesCore' /\ MergeCore'
  <2>1. ResolvesCore' /\ (merge.pc = "scan" => index'[k].fid # merge.fid)
    BY <1>3, WriteResolves, Zenon
  <2>2. \A j \in Keys : j # k => index'[j] = index[j]
    BY <1>2, <1>3 DEF TypeOK
  <2> QED BY <1>3, <2>1, <2>2 DEF MergeCore, StoreInv
<1>4. CASE UserStep
  <2>1. ASSUME NEW k \in Keys, NEW v \in Values, NEW e \in Nat, Put(k, v, e)
        PROVE  ResolvesCore' /\ MergeCore'
    <3>1. v \in Entry /\ v # NoValue
      BY ValueAssumption DEF Entry
    <3> QED BY <1>3, <2>1, <3>1, Zenon DEF Put, NodeFor
  <2>2. ASSUME NEW k \in Keys, Delete(k)
        PROVE  ResolvesCore' /\ MergeCore'
    <3>1. NoValue \in Entry
      BY DEF Entry
    <3> QED BY <1>3, <2>2, <3>1, Zenon DEF Delete, NoNode
  <2>3. ASSUME NEW v \in Entry PROVE ~NewFileWithoutSlot(v)
    BY DEF NewFileWithoutSlot
  <2> QED BY <1>2, <1>4, <2>1, <2>2, <2>3, UserStepCases
<1>5. CASE MergeSkip
  <2>1. PICK r \in log : IsNext(r) /\ Droppable(r) /\ merge' = MergedUpTo(r)
    BY <1>5 DEF MergeSkip
  <2>2. merge'.fid = merge.fid /\ merge'.off = Ends(r)
    BY <1>2, <1>5, <2>1, MergingType DEF MergeSkip, MergedUpTo, Merging, Ends
  <2>3. ~(r.val # NoValue /\ StillCurrent(r))
    BY <2>1, Zenon DEF Droppable, StoreInv, NoExpiry
  <2>4. \A j \in Keys : index[j].fid = merge.fid => index[j].off >= Ends(r)
    BY <1>5, <2>1, <2>3, PastEntry DEF MergeSkip
  <2>5. ResolvesCore'
    BY <1>5, Zenon DEF MergeSkip, StoreInv, ResolvesCore, PointsAt
  <2> QED BY <1>5, <2>2, <2>4, <2>5, Zenon DEF MergeSkip, MergeCore
<1>6. CASE MergeRewrite
  <2>1. PICK r \in log :
          /\ IsNext(r) /\ ~Droppable(r) /\ WriteLogEntry(r.key, r.val, r.exp)
          /\ index' = Relocated(r) /\ merge' = MergedUpTo(r)
    BY <1>6 DEF MergeRewrite
  <2>2. merge'.fid = merge.fid /\ merge'.off = Ends(r)
    BY <1>2, <1>6, <2>1, MergingType DEF MergeRewrite, MergedUpTo, Merging, Ends
  <2>3. r.key \in Keys /\ r.val \in Entry /\ r.exp \in Nat /\ r.val # NoValue
    BY <1>2, <2>1 DEF TypeOK, LogRecord, Droppable
  <2>4. ResolvesCore' /\ index'[r.key].fid # merge.fid
    BY <1>6, <2>1, <2>3, WriteResolves, Zenon DEF MergeRewrite, Relocated, NodeFor
  <2>5. ASSUME NEW j \in Keys, index'[j].fid = merge.fid
        PROVE  index'[j].off >= Ends(r)
    <3>1. j # r.key /\ index'[j] = index[j]
      BY <1>2, <2>1, <2>3, <2>4, <2>5, Zenon DEF Relocated, TypeOK
    <3> QED BY <1>6, <2>1, <2>5, <3>1, PastEntry, Zenon DEF MergeRewrite
  <2> QED BY <2>2, <2>4, <2>5 DEF MergeCore
<1>7. CASE MergeDelete
  <2>1. merge'.pc # "scan"
    BY <1>2, <1>7, MergingType DEF MergeDelete, Merging
  <2>2. ASSUME NEW k \in Keys, index'[k].fid # 0
        PROVE  \E r \in log' : PointsAt(k, r)'
    <3>1. PICK r \in log : PointsAt(k, r)
      BY <1>7, <2>2 DEF MergeDelete, StoreInv, ResolvesCore
    <3>2. Readable(r)
      BY AllReadable DEF StoreInv, OrderInv
    <3>3. r.fid # merge.fid
      BY <1>7, <3>1, <3>2 DEF MergeDelete, Unread, StoreInv, MergeCore, PointsAt
    <3> QED BY <1>7, <3>1, <3>3 DEF MergeDelete, PointsAt
  <2> QED BY <2>1, <2>2 DEF ResolvesCore, MergeCore
<1>8. CASE \E f \in Fid : MergeStart(f)
  BY <1>2, <1>8 DEF MergeStart, StoreInv, ResolvesCore, PointsAt, MergeCore,
                    TypeOK, Node
<1>9. CASE MergeEmpty \/ MergeClear
  <2>1. up /\ index' = index /\ log' = log /\ merge' = Idle
    BY <1>9, Zenon DEF MergeEmpty, MergeClear
  <2>2. merge'.pc # "scan"
    BY <2>1 DEF Idle
  <2> QED BY <2>1, <2>2 DEF StoreInv, ResolvesCore, PointsAt, MergeCore
<1>10. CASE MergeWithoutSlot
  BY <1>10 DEF MergeWithoutSlot, NewFileWithoutSlot
<1>11. CASE ListenUpdate \/ Stop \/ Tick \/ UNCHANGED vars
  <2>1. up /\ merge' = merge /\ index' = index /\ log' = log
    BY <1>11, Zenon DEF ListenUpdate, Stop, Tick, vars
  <2> QED BY <2>1 DEF StoreInv, ResolvesCore, PointsAt, MergeCore
<1>12. CASE Open
  BY <1>12, OpenResolves DEF StoreInv, Open, MergeCore, Idle
<1> QED BY <1>4, <1>5, <1>6, <1>7, <1>8, <1>9, <1>10, <1>11, <1>12
        DEF Next, MergeStep

(* The empty store has nothing to lead to.                                 *)
LEMMA StoreInit ==
  ASSUME Init
  PROVE  StoreInv
<1>1. OrderInv
  BY OrderInit
<1> QED BY <1>1 DEF Init, StoreInv, NoExpiry, ResolvesCore, MergeCore, NoNode, Idle

(* Looking up a key never fails: the index points only at entries that are *)
(* there, in a file that is open, and can be read, whatever Merge is doing *)
(* and however often the store went down.  Provided nothing expires and no *)
(* entry is shorter than the header read: without either the run that      *)
(* drops it has a counterexample.                                          *)
THEOREM GetCorrect ==
  ASSUME EntriesFillHeader, Durations = {}
  PROVE  Spec => []GetNeverFails
<1>1. Init => StoreInv
  BY StoreInit
<1>2. StoreInv /\ [Next]_vars => StoreInv'
  BY StoreStep
<1>3. StoreInv => GetNeverFails
  <2> SUFFICES ASSUME StoreInv, up, NEW k \in Keys, index[k].fid # 0
               PROVE  GetValue(k) \in {"ok", "ErrKeyNotFound"}
    BY DEF GetNeverFails, GetValue
  <2>1. PICK r \in log : PointsAt(k, r)
    BY DEF StoreInv, ResolvesCore
  <2>2. Readable(r)
    BY AllReadable DEF StoreInv, OrderInv
  <2>3. Readable(index[k])
    BY <2>1, <2>2 DEF Readable, PointsAt
  <2>4. index[k].fid \in archived \cup {active}
    BY <2>1 DEF PointsAt, StoreInv, OrderInv, InsideInv, FilesCore
  <2> QED BY <2>3, <2>4 DEF GetValue
<1> QED BY <1>1, <1>2, <1>3, PTL DEF Spec
=============================================================================
