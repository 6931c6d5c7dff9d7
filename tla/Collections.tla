----------------------------- MODULE Collections -----------------------------
(***************************************************************************)
(* A hash, a set or a sorted set of LazyDB (hash.go, set.go, zset.go) in   *)
(* its log files.  Each of the three data types has log files, a discard   *)
(* file and a Merge of its own, built like those of the strings; what      *)
(* StrStore says of them is used here, with the fields or members of one   *)
(* collection for Keys.  The types differ in what their commands write and *)
(* discard, in how Merge finds the tree of a collection, and in what Open  *)
(* makes of their logs.                                                    *)
(*                                                                         *)
(* A command on several fields is modelled as one step for each: the lock  *)
(* it holds would keep Merge out in between, the listener and a crash can  *)
(* come there.  The order within a sorted set is ZSetStore's.              *)
(***************************************************************************)
EXTENDS StrStore

VARIABLES
  typ,        \* the data type
  alias,      \* a set whose key decodes to the key of another set
  tree,       \* the collection has an index tree (or a ZSetIndex)
  reopened,   \* history: this is not the first run of the process
  fault       \* history: the process panicked, in Merge or in Open

collection == <<typ, alias, tree, reopened, fault>>
cvars == <<vars, collection>>

CollectionInit ==
  /\ Init
  /\ typ \in {"hash", "set", "zset"}
  /\ alias \in {FALSE, typ = "set"}
  /\ tree = FALSE /\ reopened = FALSE /\ fault = "none"

(* As in StrStore, for every data type.                                    *)
CollectionTypeOK ==
  /\ TypeOK
  /\ typ \in {"hash", "set", "zset"}
  /\ alias \in BOOLEAN /\ tree \in BOOLEAN /\ reopened \in BOOLEAN
  /\ fault \in {"none", "merge", "open"}
  /\ up /\ ~tree => \A k \in Keys : index[k] = NoNode

-----------------------------------------------------------------------------
(* The index changes and ds is discarded, or a lookup on the way fails and *)
(* the command is given up with its entry in the log.                      *)
Indexed(k, n, ds) == index' = [index EXCEPT ![k] = n] /\ SendDiscards(ds)
GivenUp == UNCHANGED <<index, valChan, up>>

(* One field or member is written, ds discarded.                           *)
PutField(k, v, ds) ==
  /\ up /\ UserRoom(v)
  /\ WriteLogEntry(k, v, 0)
  /\ Indexed(k, NodeFor(WritePos(v), v, 0), ds)
  /\ tree' = TRUE
  /\ UNCHANGED <<merge, now, typ, alias, reopened, fault>>

(* Hashes and sets do not discard what they overwrite.                     *)
HSet(k, v) == typ = "hash" /\ PutField(k, v, <<>>)
SAdd(k, v) == typ = "set" /\ PutField(k, v, <<>>)

(* HSetNX makes the tree even when it then writes nothing.                 *)
HSetNX(k, v) ==
  /\ typ = "hash"
  /\ IF GetValue(k) = "ErrKeyNotFound" THEN PutField(k, v, <<>>)
     ELSE up /\ tree' = TRUE /\ UNCHANGED <<vars, typ, alias, reopened, fault>>

(* ZAdd writes its entry and then looks up the score the member has.       *)
ZPut(k, v, ds) ==
  /\ typ = "zset" /\ up /\ UserRoom(v)
  /\ WriteLogEntry(k, v, 0)
  /\ IF index[k] = NoNode \/ GetValue(k) = "ok"
     THEN Indexed(k, NodeFor(WritePos(v), v, 0), ds)
     ELSE GivenUp
  /\ tree' = TRUE
  /\ UNCHANGED <<merge, now, typ, alias, reopened, fault>>

(* A mutant: ZAdd discards the old entry, and updateIndexTree once more.   *)
ZAddDiscardsTwice(k, v) == ZPut(k, v, DiscardOf(index[k]) \o DiscardOf(index[k]))

ZAdd(k, v) == ZPut(k, v, DiscardOf(index[k]))

RemoveField(k, ds) ==
  /\ up /\ UserRoom(NoValue)
  /\ WriteLogEntry(k, NoValue, 0)
  /\ Indexed(k, NoNode, ds)
  /\ UNCHANGED <<merge, now, collection>>

(* HDel writes a tombstone for any field,                                  *)
HDel(k) == typ = "hash" /\ tree /\ RemoveField(k, DeleteDiscards(k))

(* SRem, and SPop for the members it picks, only for one that is there.    *)
SRem(k) == typ = "set" /\ index[k] # NoNode /\ RemoveField(k, DeleteDiscards(k))

(* ZRem writes one in any case, looks the member up, and stops there if it *)
(* is missing or cannot be read.                                           *)
ZRem(k) ==
  /\ typ = "zset" /\ tree /\ up /\ UserRoom(NoValue)
  /\ WriteLogEntry(k, NoValue, 0)
  /\ IF GetValue(k) = "ok" THEN Indexed(k, NoNode, DeleteDiscards(k)) ELSE GivenUp
  /\ UNCHANGED <<merge, now, collection>>

(* setTotal runs out of slots, in any of the commands or in Merge.         *)
FieldWithoutSlot ==
  /\ \E v \in Entry : UserRoom(v) /\ NewFileWithoutSlot(v)
  /\ UNCHANGED collection

-----------------------------------------------------------------------------
(* mergeHash, mergeSet and mergeZSet look for the tree under the key they  *)
(* decode from the entry's.  The keys of sets are not encoded, so decodeKey *)
(* panics, or finds a key by chance: one without a tree, as after a start  *)
(* a collection that was not used yet, and nil is dereferenced, or that of *)
(* another set.                                                            *)
FindsNoTree == IF typ = "set" THEN ~alias ELSE ~tree

MergePanics ==
  /\ up /\ merge.pc = "scan"
  /\ \E r \in log : IsNext(r) /\ r.val # NoValue
  /\ FindsNoTree
  /\ up' = FALSE /\ fault' = "merge"
  /\ UNCHANGED <<files, log, active, archived, offset, index, disc, valChan, merge,
                 now, typ, alias, tree, reopened>>

(* The tree of the other set has no such member: it is passed over.        *)
MergeMisled ==
  /\ up /\ merge.pc = "scan" /\ alias
  /\ \E r \in log : IsNext(r) /\ r.val # NoValue /\ merge' = MergedUpTo(r)
  /\ UNCHANGED <<files, log, up, active, archived, offset, index, disc, valChan, now>>

(* The other steps of Merge are those of the strings.                      *)
MergeField ==
  /\ \/ MergeStep /\ \A r \in log :
                       IsNext(r) /\ r.val # NoValue => ~FindsNoTree /\ ~alias
     \/ MergeMisled
     \/ MergeEmpty
     \/ \E f \in Fid : MergeStart(f)
  /\ UNCHANGED collection

(* buildHashIndex puts the first entry it reads into a tree that nobody    *)
(* has made: a hash with anything in its log cannot be opened again.       *)
OpenPanics == typ = "hash" /\ Scanned # {}

(* Open reads nothing back for sets and sorted sets.                       *)
OpenCollection ==
  /\ ~up
  /\ IF OpenPanics
     THEN fault' = "open" /\ UNCHANGED <<vars, typ, alias, tree, reopened>>
     ELSE /\ up' = TRUE
          /\ active' = Newest
          /\ archived' = files \ {Newest}
          /\ offset' = EndOfScan(Newest)
          /\ index' = [k \in Keys |-> NoNode]
          /\ disc' = NewDiscard(disc.owner, disc.count)
          /\ valChan' = <<>>
          /\ merge' = Idle
          /\ tree' = FALSE /\ reopened' = TRUE /\ fault' = "none"
          /\ UNCHANGED <<files, log, now, typ, alias>>

CollectionNext ==
  \/ \E k \in Keys, v \in Values :
       HSet(k, v) \/ HSetNX(k, v) \/ SAdd(k, v) \/ ZAdd(k, v)
  \/ \E k \in Keys : HDel(k) \/ SRem(k) \/ ZRem(k)
  \/ FieldWithoutSlot
  \/ MergePanics
  \/ MergeField
  \/ ListenUpdate /\ UNCHANGED collection
  \/ Stop /\ UNCHANGED collection
  \/ OpenCollection

CollectionSpec == CollectionInit /\ [][CollectionNext]_cvars

-----------------------------------------------------------------------------
(* What the collection holds is what its log says it holds, and can be     *)
(* read.                                                                   *)
HoldsWhatLogSays ==
  GetNeverFails /\ (up => \A k \in Keys : Visible(k) = Durable[k].val)

(* Re-running the log brings the collection back: Open succeeds, and what  *)
(* it makes of the log is what the log says (README: the log "can be       *)
(* recovered by re-executing the operations in the log").                  *)
OpenBringsBack == fault # "open" /\ HoldsWhatLogSays

(* Memory and log agree in the first run of the process, through every     *)
(* command and every Merge that takes the oldest file, unless Merge takes  *)
(* the set for another.                                                    *)
HoldsWhatLogSaysAtFirst == ~reopened /\ ~alias => HoldsWhatLogSays

(* In that run no step of Merge, nor the panic of mergeSet, loses anything *)
(* from the log: a later Open has what there was.  (After a restart        *)
(* mergeZSet finds none of the old members in the index and drops them.)   *)
MergeKeepsLogAtFirst ==
  [][~reopened /\ ~alias /\ (merge' # merge \/ fault' # fault) =>
       \A k \in Keys : Durable[k].val' = Durable[k].val]_cvars
=============================================================================
