--------------------------- MODULE DiscardProofs ----------------------------
(***************************************************************************)
(* What the operators on a discard file keep: its type, and that each slot *)
(* belongs to at most one log file, on disk as in memory.                  *)
(***************************************************************************)
EXTENDS Discard, TLAPS

(* alloc gives the fid a slot of the file.                                 *)
LEMMA AllocType ==
  ASSUME NEW d \in DiscardState, NEW f \in Fid, NEW a \in Alloc(d, f)
  PROVE  a \in DiscardState /\ a.location[f] \in Slots
  BY SlotAssumption DEF Alloc, DiscardState

(* setTotal keeps the type of the discard file.                            *)
LEMMA SetTotalType ==
  ASSUME NEW d \in DiscardState, NEW f \in Fid
  PROVE  SetTotal(d, f) \subseteq DiscardState
<1>1. f \in 0 .. MaxFid
  BY FidAssumption DEF Fid
<1> QED BY <1>1, AllocType DEF SetTotal, DiscardState

(* incrDiscard keeps the type of the discard file.                         *)
LEMMA IncrDiscardType ==
  ASSUME NEW d \in DiscardState, NEW f \in Fid, NEW n \in Nat
  PROVE  IncrDiscard(d, f, n) \subseteq DiscardState
  BY AllocType DEF IncrDiscard, DiscardState

(* clear keeps the type of the discard file.                               *)
LEMMA ClearType ==
  ASSUME NEW d \in DiscardState, NEW f \in Fid
  PROVE  Clear(d, f) \subseteq DiscardState
  BY AllocType, FidAssumption DEF Clear, DiscardState

(* newDiscard rebuilds well-typed tables from any records.                 *)
LEMMA NewDiscardType ==
  ASSUME NEW o \in [Slots -> 0 .. MaxFid], NEW c \in [Slots -> Nat]
  PROVE  NewDiscard(o, c) \in DiscardState
  BY DEF NewDiscard, DiscardState

-----------------------------------------------------------------------------
(* The slots.                                                              *)

(* alloc hands out a slot that nobody else has.                            *)
LEMMA AllocOK ==
  ASSUME NEW d \in DiscardState, DiscardOK(d), NEW f \in Fid, NEW a \in Alloc(d, f)
  PROVE  DiscardOK(a)
<1>1. CASE d.location[f] # NoSlot
  BY <1>1 DEF Alloc
<1>2. CASE d.location[f] = NoSlot
  <2>1. PICK s \in d.free :
          a = [owner |-> d.owner, count |-> d.count,
               location |-> [d.location EXCEPT ![f] = s], free |-> d.free \ {s}]
    BY <1>2 DEF Alloc
  <2>2. /\ a.owner = d.owner /\ a.location[f] = s /\ a.free = d.free \ {s}
        /\ \A g \in Fid : g # f => a.location[g] = d.location[g]
        /\ s \in Slots /\ s # NoSlot
    BY <2>1, SlotAssumption DEF DiscardState
  <2>3. SlotsPartitioned(a)
    <3>1. \A g \in Fid : a.location[g] \notin a.free
      BY <2>2 DEF SlotsPartitioned, DiscardOK
    <3>2. \A g, h \in Fid : a.location[g] = a.location[h] /\ g # h
                              => a.location[g] = NoSlot
      BY <2>2 DEF SlotsPartitioned, DiscardOK
    <3>3. \A t \in Slots \ a.free : \E g \in Fid : a.location[g] = t
      <4> TAKE t \in Slots \ a.free
      <4>1. CASE t = s
        BY <2>2, <4>1
      <4>2. CASE t # s
        <5>1. PICK g \in Fid : d.location[g] = t
          BY <2>2, <4>2 DEF SlotsPartitioned, DiscardOK
        <5>2. g # f
          BY <1>2, <5>1, SlotAssumption
        <5> QED BY <2>2, <5>1, <5>2
      <4> QED BY <4>1, <4>2
    <3> QED BY <3>1, <3>2, <3>3 DEF SlotsPartitioned
  <2>4. ASSUME NEW t \in Slots, a.owner[t] # 0
        PROVE  a.location[a.owner[t]] = t
    <3>1. d.owner[t] \in Fid
      BY <2>2, <2>4, FidAssumption DEF DiscardState, Fid
    <3>2. d.location[d.owner[t]] = t /\ t # NoSlot
      BY <2>2, <2>4, SlotAssumption DEF DiscardOK
    <3> QED BY <1>2, <2>2, <3>1, <3>2
  <2> QED BY <2>3, <2>4 DEF DiscardOK
<1> QED BY <1>1, <1>2

(* setTotal names a fid in the slot that is located for it.                *)
LEMMA SetTotalOK ==
  ASSUME NEW d \in DiscardState, DiscardOK(d), NEW f \in Fid, NEW b \in SetTotal(d, f)
  PROVE  DiscardOK(b)
<1>1. CASE d.location[f] # NoSlot
  BY <1>1 DEF SetTotal
<1>2. CASE d.location[f] = NoSlot
  <2>1. PICK a \in Alloc(d, f) :
          b = [owner |-> [a.owner EXCEPT ![a.location[f]] = f],
               count |-> a.count, location |-> a.location, free |-> a.free]
    BY <1>2 DEF SetTotal
  <2>2. DiscardOK(a) /\ a \in DiscardState
    BY AllocOK, AllocType
  <2> QED BY <2>1, <2>2 DEF DiscardOK, SlotsPartitioned, DiscardState
<1> QED BY <1>1, <1>2

(* incrDiscard touches only a count.                                       *)
LEMMA IncrDiscardOK ==
  ASSUME NEW d \in DiscardState, DiscardOK(d), NEW f \in Fid, NEW n,
         NEW b \in IncrDiscard(d, f, n)
  PROVE  DiscardOK(b)
<1>1. PICK a \in Alloc(d, f) :
        b.owner = a.owner /\ b.location = a.location /\ b.free = a.free
  <2>1. PICK a \in Alloc(d, f) :
          b = [owner |-> a.owner,
               count |-> [a.count EXCEPT ![a.location[f]] = @ + n],
               location |-> a.location,
               free |-> a.free]
    BY Zenon DEF IncrDiscard
  <2> QED BY <2>1
<1>2. DiscardOK(a)
  BY AllocOK
<1>3. SlotsPartitioned(b)
  <2>1. SlotsPartitioned(a)
    BY <1>2 DEF DiscardOK
  <2> QED BY <1>1, <2>1 DEF SlotsPartitioned
<1>4. \A s \in Slots : b.owner[s] # 0 => b.location[b.owner[s]] = s
  BY <1>1, <1>2, Zenon DEF DiscardOK
<1> QED BY <1>3, <1>4 DEF DiscardOK

(* clear frees a slot on disk, in the locations and in the free list.      *)
LEMMA ClearOK ==
  ASSUME NEW d \in DiscardState, DiscardOK(d), NEW f \in Fid, NEW b \in Clear(d, f)
  PROVE  DiscardOK(b)
<1>1. PICK a \in Alloc(d, f) :
        b = [owner |-> [a.owner EXCEPT ![a.location[f]] = 0],
             count |-> [a.count EXCEPT ![a.location[f]] = 0],
             location |-> [a.location EXCEPT ![f] = NoSlot],
             free |-> a.free \cup {a.location[f]}]
  BY DEF Clear
<1>2. DiscardOK(a) /\ a \in DiscardState /\ a.location[f] \in Slots
  BY AllocOK, AllocType
<1>3. PICK s \in Slots : s = a.location[f] /\ s # NoSlot
  BY <1>2, SlotAssumption
<1>4. /\ b.location[f] = NoSlot /\ b.free = a.free \cup {s}
      /\ \A g \in Fid : g # f => b.location[g] = a.location[g]
      /\ b.owner[s] = 0 /\ \A t \in Slots : t # s => b.owner[t] = a.owner[t]
  BY <1>1, <1>2, <1>3 DEF DiscardState
<1>5. SlotsPartitioned(b)
  <2>1. \A g \in Fid : b.location[g] \notin b.free
    BY <1>2, <1>3, <1>4, SlotAssumption DEF DiscardOK, SlotsPartitioned, DiscardState
  <2>2. \A g, h \in Fid : b.location[g] = b.location[h] /\ g # h
                            => b.location[g] = NoSlot
    BY <1>2, <1>4 DEF DiscardOK, SlotsPartitioned
  <2>3. \A t \in Slots \ b.free : \E g \in Fid : b.location[g] = t
    <3> TAKE t \in Slots \ b.free
    <3>1. t \notin a.free /\ t # s
      BY <1>4
    <3>2. PICK g \in Fid : a.location[g] = t
      BY <1>2, <3>1 DEF DiscardOK, SlotsPartitioned
    <3>3. g # f
      BY <1>3, <3>1, <3>2
    <3> QED BY <1>4, <3>2, <3>3, Zenon
  <2> QED BY <2>1, <2>2, <2>3 DEF SlotsPartitioned
<1>6. ASSUME NEW t \in Slots, b.owner[t] # 0
      PROVE  b.location[b.owner[t]] = t
  <2>1. t # s /\ b.owner[t] = a.owner[t] /\ a.location[a.owner[t]] = t
    BY <1>2, <1>4, <1>6 DEF DiscardOK
  <2>2. a.owner[t] \in Fid
    BY <1>2, <1>6, <2>1, FidAssumption DEF DiscardState, Fid
  <2> QED BY <1>3, <1>4, <2>1, <2>2
<1> QED BY <1>5, <1>6 DEF DiscardOK

(* The tables newDiscard reads back agree with the records.                *)
LEMMA NewDiscardOK ==
  ASSUME NEW d \in DiscardState, DiscardOK(d)
  PROVE  DiscardOK(NewDiscard(d.owner, d.count))
<1> DEFINE b == NewDiscard(d.owner, d.count)
<1>1. \A s \in Slots : d.owner[s] # 0 => d.owner[s] \in Fid
  BY FidAssumption DEF DiscardState, Fid
<1>2. \A s, t \in Slots : d.owner[s] = d.owner[t] /\ d.owner[s] # 0 => s = t
  BY DEF DiscardOK
<1>3. b.owner = d.owner /\ b.free = {s \in Slots : d.owner[s] = 0}
  BY DEF NewDiscard
<1>4. ASSUME NEW f \in Fid
      PROVE  IF \E s \in Slots : d.owner[s] = f
             THEN b.location[f] \in Slots /\ d.owner[b.location[f]] = f
             ELSE b.location[f] = NoSlot
  BY DEF NewDiscard
<1>5. \A f \in Fid : f # 0
  BY DEF Fid
<1>6. ASSUME NEW s \in Slots, d.owner[s] # 0
      PROVE  b.location[d.owner[s]] = s
  BY <1>1, <1>2, <1>4, <1>6
<1>7. \A f \in Fid : b.location[f] \notin b.free
  BY <1>3, <1>4, <1>5, SlotAssumption
<1>8. ASSUME NEW f \in Fid, NEW g \in Fid, b.location[f] = b.location[g], f # g
      PROVE  b.location[f] = NoSlot
  BY <1>4, <1>8, SlotAssumption
<1>9. \A s \in Slots \ b.free : \E f \in Fid : b.location[f] = s
  BY <1>1, <1>3, <1>6
<1> SUFFICES DiscardOK(b)
  OBVIOUS
<1> HIDE DEF b
<1> QED BY <1>3, <1>6, <1>7, <1>8, <1>9 DEF DiscardOK, SlotsPartitioned
=============================================================================
