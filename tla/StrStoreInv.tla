----------------------------- MODULE StrStoreInv -----------------------------
(***************************************************************************)
(* The inductive invariants behind the theorems about StrStore, kept apart *)
(* so that TLC can check them first.                                       *)
(***************************************************************************)
EXTENDS StrStore

Ends(r) == r.off + EntrySize[r.val]

(* Entries lie inside log files that exist.                                *)
InsideInv == \A r \in log : r.fid \in files /\ Ends(r) <= MaxLogFileSize

(* No two entries overlap.                                                 *)
PlacesInv ==
  /\ \A q, r \in log : q.fid = r.fid /\ q.off = r.off => q = r
  /\ \A q, r \in log : q.fid = r.fid /\ q.off < r.off => Ends(q) <= r.off

(* The open log files are those on disk; the active one is the newest and  *)
(* the next write goes behind everything in it.                            *)
FilesCore ==
  /\ active = 0 => files = {} /\ archived = {}
  /\ active # 0 => files = archived \cup {active}
  /\ \A f \in archived : f < active
  /\ \A r \in log : r.fid = active => Ends(r) <= offset

(* No entry of a key lies behind the one the index points at.              *)
LatestCore ==
  \A k \in Keys : index[k].fid # 0 => \A r \in log : r.key = k => ~After(r, index[k])

(* Merge reads an archived file.                                           *)
MergeFile == merge.pc = "scan" => merge.fid \in archived

(* A replay and the commands agree on which entry of a key counts.         *)
OrderInv ==
  /\ TypeOK /\ InsideInv /\ PlacesInv
  /\ up => FilesCore /\ LatestCore /\ MergeFile

(* Every index entry leads to a put of its key.                            *)
PointsAt(k, r) ==
  /\ r.fid = index[k].fid /\ r.off = index[k].off
  /\ r.key = k /\ r.val # NoValue
ResolvesCore ==
  \A k \in Keys : index[k].fid # 0 => \E r \in log : PointsAt(k, r)

(* A running Merge has moved what the index needs from the part of the     *)
(* file it has read.                                                       *)
MergeCore ==
  merge.pc = "scan" =>
    \A k \in Keys : index[k].fid = merge.fid => index[k].off >= merge.off

(* Nothing expires.                                                        *)
NoExpiry ==
  /\ \A r \in log : r.exp = 0
  /\ \A k \in Keys : index[k].exp = 0

(* Without expiry, on entries no shorter than the header read, the index,  *)
(* the log files and a running Merge fit together: what the index needs is *)
(* never in the part of a file that Merge is done with.                    *)
StoreInv ==
  /\ OrderInv /\ NoExpiry
  /\ up => ResolvesCore /\ MergeCore

(* The discard file is in order.                                           *)
DiscardInv == DiscardOK(disc)
=============================================================================
