------------------------------- MODULE Discard -------------------------------
(***************************************************************************)
(* The discard file (discard.go): a fixed number of records, one per log   *)
(* file, each counting the bytes of that log file no index entry refers to *)
(* any more.  Merge picks its candidates from these counts.                *)
(*                                                                         *)
(* The state of one discard file is a record                               *)
(*   owner, count   what is on disk: for each slot the fid written by      *)
(*                  setTotal (0: none) and the discarded bytes counted;    *)
(*   location       the in-memory map from a fid to its slot (NoSlot: none *)
(*                  yet);                                                  *)
(*   free           the in-memory free list.                               *)
(* The operators below map such a record to the set of records the method  *)
(* of the same name may leave behind; the set is empty exactly when the    *)
(* method runs out of slots and ends the process with log.Fatalf.          *)
(*                                                                         *)
(* Which free slot alloc hands out makes no difference to any caller, so   *)
(* the free list (a stack in the code) is a set here.                      *)
(***************************************************************************)
EXTENDS Naturals

CONSTANTS MaxFid,    \* bound: the largest log file number of the model
          Slots,     \* the record slots of the file (682 in the code)
          NoSlot     \* "this fid has no slot"

ASSUME FidAssumption == MaxFid \in Nat \ {0}
ASSUME SlotAssumption == NoSlot \notin Slots

Fid == 1 .. MaxFid

DiscardState ==
  [owner : [Slots -> 0 .. MaxFid],
   count : [Slots -> Nat],
   location : [Fid -> Slots \cup {NoSlot}],
   free : SUBSET Slots]

(* newDiscard on an existing file: a record whose fid and total are both   *)
(* zero is free, whatever its count says; the others are located.          *)
NewDiscard(owner, count) ==
  [owner |-> owner,
   count |-> count,
   location |-> [f \in Fid |-> IF \E s \in Slots : owner[s] = f
                               THEN CHOOSE s \in Slots : owner[s] = f
                               ELSE NoSlot],
   free |-> {s \in Slots : owner[s] = 0}]

EmptyDiscard == NewDiscard([s \in Slots |-> 0], [s \in Slots |-> 0])

(* A fid that has a slot keeps it; any other takes a free one.             *)
Alloc(d, f) ==
  IF d.location[f] # NoSlot
  THEN {d}
  ELSE {[owner |-> d.owner,
         count |-> d.count,
         location |-> [d.location EXCEPT ![f] = s],
         free |-> d.free \ {s}] : s \in d.free}

(* A new log file: remember its fid (and its total, MaxLogFileSize, the    *)
(* same for all).  Only the first eight bytes of the record are written,   *)
(* so the count in the slot stays what it was.                             *)
SetTotal(d, f) ==
  IF d.location[f] # NoSlot
  THEN {d}
  ELSE {[owner |-> [a.owner EXCEPT ![a.location[f]] = f],
         count |-> a.count,
         location |-> a.location,
         free |-> a.free] : a \in Alloc(d, f)}

(* Count n more discarded bytes of log file f; n is the size of an entry,  *)
(* never zero, so the early return of the code is not taken.               *)
IncrDiscard(d, f, n) ==
  {[owner |-> a.owner,
    count |-> [a.count EXCEPT ![a.location[f]] = @ + n],
    location |-> a.location,
    free |-> a.free] : a \in Alloc(d, f)}

(* A mutant: the slot is freed but the fid keeps pointing at it.           *)
ClearKeepsLocation(d, f) ==
  {[owner |-> [a.owner EXCEPT ![a.location[f]] = 0],
    count |-> [a.count EXCEPT ![a.location[f]] = 0],
    location |-> a.location,
    free |-> a.free \cup {a.location[f]}] : a \in Alloc(d, f)}

(* Log file f is gone: zero its record and give the slot back.             *)
Clear(d, f) ==
  {[owner |-> [a.owner EXCEPT ![a.location[f]] = 0],
    count |-> [a.count EXCEPT ![a.location[f]] = 0],
    location |-> [a.location EXCEPT ![f] = NoSlot],
    free |-> a.free \cup {a.location[f]}] : a \in Alloc(d, f)}

(* getCCL: the files other than the active one whose discarded share is    *)
(* over the ratio, given here as a number of bytes.                        *)
CompactionCandidates(d, activeFid, threshold) ==
  {f \in Fid \ {activeFid} :
     \E s \in Slots : d.owner[s] = f /\ d.count[s] > threshold}

(* Every slot is on the free list or belongs to exactly one fid, never     *)
(* both: no slot is handed out twice and none is lost while the store is   *)
(* open.                                                                   *)
SlotsPartitioned(d) ==
  /\ \A f \in Fid : d.location[f] \notin d.free
  /\ \A f, g \in Fid : d.location[f] = d.location[g] /\ f # g
                         => d.location[f] = NoSlot
  /\ \A s \in Slots \ d.free : \E f \in Fid : d.location[f] = s

(* The inductive form: each slot belongs to at most one fid, on disk as in *)
(* memory.                                                                 *)
DiscardOK(d) ==
  /\ SlotsPartitioned(d)
  /\ \A s \in Slots : d.owner[s] # 0 => d.location[d.owner[s]] = s
=============================================================================
