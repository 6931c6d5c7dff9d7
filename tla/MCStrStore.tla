----------------------------- MODULE MCStrStore -----------------------------
(***************************************************************************)
(* StrStore on small instances: two units per entry, two entries per log   *)
(* file unless a configuration says otherwise.                             *)
(***************************************************************************)
EXTENDS StrStoreInv, FiniteSetsExt, TLC

EvenSizes == [v \in Entry |-> 2]

Symmetry == Permutations(Keys) \cup Permutations(Values) \cup Permutations(Slots)

(* Bound, where nothing expires: with a second log file the clock stops.   *)
ClockOfOneFile == now > 1 => Cardinality(files) <= 1

-----------------------------------------------------------------------------
(* Discard accounting.                                                     *)

Counted(f) == IF disc.location[f] = NoSlot THEN 0 ELSE disc.count[disc.location[f]]
InFlight(f) ==
  MapThenSumSet(LAMBDA i : IF valChan[i].fid = f THEN valChan[i].size ELSE 0,
                DOMAIN valChan)
DeadBytes(f) ==
  MapThenSumSet(LAMBDA r : EntrySize[r.val],
                {r \in log : r.fid = f /\ ~StillCurrent(r)})

(* The count never exceeds what is really dead, whatever stops and         *)
(* restarts there were.                                                    *)
DiscardNeverOvercounts ==
  up => \A f \in files : Counted(f) <= DeadBytes(f)
=============================================================================
