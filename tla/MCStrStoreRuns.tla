--------------------------- MODULE MCStrStoreRuns ---------------------------
(***************************************************************************)
(* The string store with the memory of whether it was ever reopened: what  *)
(* holds only until then is stated here.                                   *)
(***************************************************************************)
EXTENDS MCStrStore

VARIABLE firstRun   \* history: the process has not been started again

RunsInit == Init /\ firstRun = TRUE

RunsNext == Next /\ firstRun' = (firstRun /\ (up \/ ~up'))

RunsSpec == RunsInit /\ [][RunsNext]_<<vars, firstRun>>

(* Within one run of the process the discard count of a log file, with the *)
(* discards still in the channel, is exactly the number of its bytes that  *)
(* no index entry refers to: overwriting, deleting and rewriting by Merge  *)
(* are each accounted once.  (The file a running Merge empties is counted  *)
(* no more.)                                                               *)
DiscardIsExact ==
  firstRun /\ up =>
    \A f \in files \ {merge.fid} : Counted(f) + InFlight(f) = DeadBytes(f)

(* In a store that has not been reopened, the only moment a read can fail  *)
(* is the very second the key expires, when Merge already drops the entry  *)
(* (<= in Merge) and the index does not yet say so (< in getValue).        *)
GetFailsOnlyAtExpiry ==
  firstRun /\ up =>
    \A k \in Keys : \/ GetValue(k) \in {"ok", "ErrKeyNotFound"}
                    \/ index[k].exp = now
=============================================================================
