------------------------------ MODULE StrStore ------------------------------
(***************************************************************************)
(* LazyDB's string store as one machine: the log files on disk, the        *)
(* in-memory index, the discard file with the channel that feeds it, the   *)
(* string commands, Merge (garbage collection of one log file, entry by    *)
(* entry), and going down and coming up again (Close, a crash, log.Fatalf; *)
(* Open).                                                                  *)
(*                                                                         *)
(* A string command holds strIndex.mu for its whole body and one entry of  *)
(* a merge holds it too, so each is one step; the commands interleave with *)
(* a running merge between its entries and with the discard listener.      *)
(* Expire and Persist, which drop the lock half way, and the locks         *)
(* themselves are StrThreads'; what the commands compute is StrValue's.    *)
(***************************************************************************)
EXTENDS Discard, Integers, Sequences

CONSTANTS
  Keys, Values, NoValue,
  Durations,          \* the durations given to SetEX, in seconds
  EntrySize,          \* encoded size of an entry, by its value
  MaxLogFileSize,     \* cfg.MaxLogFileSize
  MaxHeaderSize,      \* logfile.MaxHeaderSize
  GCThreshold,        \* gcRatio * MaxLogFileSize
  DiscardBufferSize,  \* cfg.DiscardBufferSize
  OldestFirst,        \* the caller of Merge always names the oldest file
  UserFid,            \* bound: users write only up to this log file
  MaxTime             \* bound: the clock stops here

Entry == Values \cup {NoValue}   \* NoValue stands for Stat = SDelete

ASSUME ValueAssumption == NoValue \notin Values
(* No entry is larger than a log file.  writeLogEntry does not check that: *)
(* it would give such an entry a new file, and the write then fails, or    *)
(* goes on beyond the size of the file, depending on the kind of access.   *)
ASSUME SizeAssumption ==
  /\ MaxLogFileSize \in Nat /\ MaxHeaderSize \in Nat
  /\ EntrySize \in [Entry -> Nat \ {0}]
  /\ \A v \in Entry : EntrySize[v] <= MaxLogFileSize
ASSUME ConfigAssumption ==
  /\ Durations \subseteq Nat
  /\ GCThreshold \in Nat /\ DiscardBufferSize \in Nat \ {0, 1}
  /\ UserFid \in Nat /\ MaxTime \in Nat
  /\ OldestFirst \in BOOLEAN

VARIABLES
  \* on disk
  files,     \* the log files that exist
  log,       \* the entries in them, each with its position
  \* in memory; stale while the store is down
  up,        \* the store is open
  active,    \* fid of the active log file, 0 before the first write
  archived,  \* fids in archivedLogFile
  offset,    \* write offset of the active file
  index,     \* strIndex.idxTree: where each key's entry is
  disc,      \* the discard file (also on disk) and its in-memory tables
  valChan,   \* discards sent and not yet counted
  merge,     \* the running Merge: its stage, its file, the next offset
  \* the world
  now        \* time.Now().Unix()

vars == <<files, log, up, active, archived, offset, index, disc, valChan,
          merge, now>>

LogRecord == [fid : Fid, off : Nat, key : Keys, val : Entry, exp : Nat]
Node == [fid : 0 .. MaxFid, off : Nat, size : Nat, exp : Nat]
NoNode == [fid |-> 0, off |-> 0, size |-> 0, exp |-> 0]   \* not in the tree
Idle == [pc |-> "idle", fid |-> 0, off |-> 0]
Merging == [pc : {"scan", "clear"}, fid : Fid, off : Nat]

TypeOK ==
  /\ files \subseteq Fid
  /\ log \subseteq LogRecord
  /\ up \in BOOLEAN
  /\ active \in 0 .. MaxFid
  /\ archived \subseteq Fid
  /\ offset \in Nat
  /\ index \in [Keys -> Node]
  /\ disc \in DiscardState
  /\ valChan \in Seq([fid : Fid, size : Nat])
  /\ merge \in {Idle} \cup Merging
  /\ now \in Nat

Init ==
  /\ files = {} /\ log = {}
  /\ up = TRUE /\ active = 0 /\ archived = {} /\ offset = 0
  /\ index = [k \in Keys |-> NoNode]
  /\ disc = EmptyDiscard
  /\ valChan = <<>>
  /\ merge = Idle
  /\ now = 1

-----------------------------------------------------------------------------
(* Log files.                                                              *)

(* q comes after r in the order the log is replayed.                       *)
After(q, r) == q.fid > r.fid \/ (q.fid = r.fid /\ q.off > r.off)

(* ReadLogEntry fetches MaxHeaderSize bytes first, and meets the end of    *)
(* the file (always MaxLogFileSize bytes, zero filled) when fewer are      *)
(* left, however short the entry is.                                       *)
Readable(r) == r.off + MaxHeaderSize <= MaxLogFileSize

(* No entry is shorter than the header read.  A short header is ten bytes, *)
(* so this means keys of at least fifteen bytes.                           *)
EntriesFillHeader == \A v \in Entry : EntrySize[v] >= MaxHeaderSize

(* Where writeLogEntry puts an entry with value v: in the active file, or  *)
(* at the start of a new one when the active file is missing or full.      *)
WritePos(v) ==
  IF active = 0
  THEN [fid |-> 1, off |-> 0]
  ELSE IF offset + EntrySize[v] > MaxLogFileSize
       THEN [fid |-> active + 1, off |-> 0]
       ELSE [fid |-> active, off |-> offset]

(* writeLogEntry (with getActiveLogFile): append the entry, after creating *)
(* and registering the file if it is new.  Bytes an earlier run left       *)
(* unread at this place are overwritten.                                   *)
WriteLogEntry(k, v, e) ==
  LET p == WritePos(v) IN
  /\ p.fid <= MaxFid
  /\ files' = files \cup {p.fid}
  /\ archived' = IF p.fid # active /\ active # 0
                 THEN archived \cup {active} ELSE archived
  /\ active' = p.fid
  /\ offset' = p.off + EntrySize[v]
  /\ log' = {r \in log : r.fid # p.fid \/ r.off < p.off}
              \cup {[fid |-> p.fid, off |-> p.off, key |-> k, val |-> v, exp |-> e]}
  /\ disc' \in IF p.fid # active THEN SetTotal(disc, p.fid) ELSE {disc}

NodeFor(p, v, e) ==
  [fid |-> p.fid, off |-> p.off, size |-> EntrySize[v], exp |-> e]

-----------------------------------------------------------------------------
(* Reads.                                                                  *)

EntryAt(n) == CHOOSE r \in log : r.fid = n.fid /\ r.off = n.off

Expired(e) == e # 0 /\ e < now

(* getValue: what looking a key up comes to.                               *)
GetValue(k) ==
  LET n == index[k] IN
  IF n.fid = 0 \/ Expired(n.exp) THEN "ErrKeyNotFound"
  ELSE IF n.fid # active /\ n.fid \notin archived THEN "ErrLogFileNotExist"
  ELSE IF ~Readable(n) THEN "EOF"
  ELSE IF EntryAt(n).val = NoValue \/ Expired(EntryAt(n).exp)
       THEN "ErrKeyNotFound" ELSE "ok"

-----------------------------------------------------------------------------
(* Discards.                                                               *)

(* A mutant: nothing checks that there was an old index entry.             *)
DiscardOfUnchecked(n) == <<[fid |-> n.fid, size |-> n.size]>>

DiscardOf(n) == IF n.fid = 0 THEN <<>> ELSE <<[fid |-> n.fid, size |-> n.size]>>

(* sendDiscard never waits: a full channel ends the process.  Delete sends *)
(* two in a row; had the listener taken one between them, it could as well *)
(* have taken it before, there being room for two.                         *)
SendDiscards(q) ==
  IF Len(valChan) + Len(q) <= DiscardBufferSize
  THEN valChan' = valChan \o q /\ UNCHANGED up
  ELSE up' = FALSE /\ UNCHANGED valChan

-----------------------------------------------------------------------------
(* String commands.                                                        *)

UserRoom(v) == WritePos(v).fid <= UserFid

(* The common tail of the writing commands: the entry goes to the log, the *)
(* index points at it, and what the index held before is discarded.        *)
Put(k, v, e) ==
  /\ up /\ UserRoom(v)
  /\ WriteLogEntry(k, v, e)
  /\ index' = [index EXCEPT ![k] = NodeFor(WritePos(v), v, e)]
  /\ SendDiscards(DiscardOf(index[k]))
  /\ UNCHANGED <<merge, now>>

(* Also each pair of MSet and MSetNX.                                      *)
Set(k, v) == Put(k, v, 0)

SetEX(k, v) == \E d \in Durations : Put(k, v, now + d)

(* Also each first write of MSetNX.                                        *)
SetNX(k, v) == GetValue(k) = "ErrKeyNotFound" /\ Put(k, v, 0)

(* Append, Incr, IncrBy, Decr, DecrBy: the new value depends on the old,   *)
(* which must be readable or missing.                                      *)
ReadModifyWrite(k, v) ==
  GetValue(k) \in {"ok", "ErrKeyNotFound"} /\ Put(k, v, 0)

(* A mutant: the tombstone itself is not counted.                          *)
DeleteDiscardsOldOnly(k) == DiscardOf(index[k])

(* What Delete discards: the old entry, and the tombstone it has just      *)
(* written.                                                                *)
DeleteDiscards(k) ==
  DiscardOf(index[k]) \o DiscardOf(NodeFor(WritePos(NoValue), NoValue, 0))

(* Delete writes a tombstone even for a key it does not hold.              *)
Delete(k) ==
  /\ up /\ UserRoom(NoValue)
  /\ WriteLogEntry(k, NoValue, 0)
  /\ index' = [index EXCEPT ![k] = NoNode]
  /\ SendDiscards(DeleteDiscards(k))
  /\ UNCHANGED <<merge, now>>

GetDel(k) == GetValue(k) = "ok" /\ Delete(k)

(* log.Fatalf in setTotal: the new log file for an entry with value v      *)
(* finds no slot in the discard file.  The log file exists by then, the    *)
(* entry is not written.                                                   *)
NewFileWithoutSlot(v) ==
  LET p == WritePos(v) IN
  /\ up /\ p.fid # active /\ p.fid <= MaxFid
  /\ SetTotal(disc, p.fid) = {}
  /\ files' = files \cup {p.fid}
  /\ up' = FALSE
  /\ UNCHANGED <<log, active, archived, offset, index, disc, valChan, merge, now>>

-----------------------------------------------------------------------------
(* The discard listener: counts one discard, or dies without a free slot.  *)

ListenUpdate ==
  /\ up /\ valChan # <<>>
  /\ LET h == Head(valChan)
         next == IncrDiscard(disc, h.fid, h.size)
     IN  IF next = {}
         THEN up' = FALSE /\ UNCHANGED disc
         ELSE disc' \in next /\ UNCHANGED up
  /\ valChan' = Tail(valChan)
  /\ UNCHANGED <<files, log, active, archived, offset, index, merge, now>>

-----------------------------------------------------------------------------
(* Merge.                                                                  *)

(* On a store that was never written to, Merge creates the first log file  *)
(* and finds nothing to do.                                                *)
MergeEmpty ==
  /\ up /\ merge = Idle /\ active = 0
  /\ files' = files \cup {1} /\ active' = 1 /\ offset' = 0
  /\ disc' \in SetTotal(disc, 1)
  /\ UNCHANGED <<log, up, archived, index, valChan, merge, now>>

(* Merge(String, f, ratio): goes ahead when f is a candidate and archived. *)
MergeStart(f) ==
  /\ up /\ merge = Idle /\ active # 0
  /\ f \in CompactionCandidates(disc, active, GCThreshold)
  /\ f \in archived
  /\ OldestFirst => \A g \in archived : f <= g
  /\ merge' = [pc |-> "scan", fid |-> f, off |-> 0]
  /\ UNCHANGED <<files, log, up, active, archived, offset, index, disc, valChan, now>>

(* A mutant: the entry at the offset reached is passed over.               *)
UnreadSkipsFirst ==
  {r \in log : r.fid = merge.fid /\ r.off > merge.off /\ Readable(r)}

(* The entries Merge has still to read.  Entries lie end to end, so the    *)
(* first of them is the one at the offset Merge has reached.               *)
Unread == {r \in log : r.fid = merge.fid /\ r.off >= merge.off /\ Readable(r)}
IsNext(r) == r \in Unread /\ \A q \in Unread : r.off <= q.off

(* mergeStr: the entry is the one the index points at.                     *)
StillCurrent(r) == index[r.key].fid = r.fid /\ index[r.key].off = r.off

(* A mutant: an entry is taken for expired a second early.                 *)
DroppableEarly(r) ==
  r.val = NoValue \/ (r.exp # 0 /\ r.exp <= now + 1) \/ ~StillCurrent(r)

(* Deletes, expired entries and entries written again since are dropped.   *)
Droppable(r) ==
  r.val = NoValue \/ (r.exp # 0 /\ r.exp <= now) \/ ~StillCurrent(r)

MergedUpTo(r) == [merge EXCEPT !.off = r.off + EntrySize[r.val]]

MergeSkip ==
  /\ up /\ merge.pc = "scan"
  /\ \E r \in log : IsNext(r) /\ Droppable(r) /\ merge' = MergedUpTo(r)
  /\ UNCHANGED <<files, log, up, active, archived, offset, index, disc, valChan, now>>

(* A mutant: the entry is rewritten but the index is not told.             *)
RelocatedNowhere(r) == index

(* The index entry after a rewrite; nothing is discarded for it.           *)
Relocated(r) == [index EXCEPT ![r.key] = NodeFor(WritePos(r.val), r.val, r.exp)]

MergeRewrite ==
  /\ up /\ merge.pc = "scan"
  /\ \E r \in log :
       /\ IsNext(r) /\ ~Droppable(r)
       /\ WriteLogEntry(r.key, r.val, r.exp)
       /\ index' = Relocated(r)
       /\ merge' = MergedUpTo(r)
  /\ UNCHANGED <<up, valChan, now>>

MergeWithoutSlot ==
  /\ merge.pc = "scan"
  /\ \E r \in log : IsNext(r) /\ ~Droppable(r) /\ NewFileWithoutSlot(r.val)

(* The file is read to its end: remove it from disk and from memory.       *)
MergeDelete ==
  /\ up /\ merge.pc = "scan" /\ Unread = {}
  /\ files' = files \ {merge.fid}
  /\ archived' = archived \ {merge.fid}
  /\ log' = {r \in log : r.fid # merge.fid}
  /\ merge' = [merge EXCEPT !.pc = "clear"]
  /\ UNCHANGED <<up, active, offset, index, disc, valChan, now>>

(* Then release its discard record; log.Fatalf if the fid has none and     *)
(* none is free.                                                           *)
MergeClear ==
  /\ up /\ merge.pc = "clear"
  /\ IF Clear(disc, merge.fid) = {}
     THEN up' = FALSE /\ UNCHANGED disc
     ELSE disc' \in Clear(disc, merge.fid) /\ UNCHANGED up
  /\ merge' = Idle
  /\ UNCHANGED <<files, log, active, archived, offset, index, valChan, now>>

-----------------------------------------------------------------------------
(* Going down and coming up.                                               *)

(* Close, or the end of the process: what was written to the files stays,  *)
(* discards still in the channel are lost.                                 *)
Stop ==
  /\ up /\ up' = FALSE
  /\ UNCHANGED <<files, log, active, archived, offset, index, disc, valChan, merge, now>>

(* buildIndexFromLogFiles and buildStrIndex: the last readable entry of    *)
(* each key decides; its expiry is not restored.                           *)
Scanned == {r \in log : Readable(r)}
LastOf(S, k) == {r \in S : r.key = k /\ \A q \in S : q.key = k => ~After(q, r)}

(* A mutant: tombstones are passed over by the replay.                     *)
ReplayIndexNoDeletes ==
  LET puts == {r \in Scanned : r.val # NoValue} IN
  [k \in Keys |->
     IF LastOf(puts, k) # {}
     THEN LET r == CHOOSE r \in LastOf(puts, k) : TRUE
          IN  NodeFor(r, r.val, 0)
     ELSE NoNode]

ReplayIndex ==
  [k \in Keys |->
     IF \E r \in LastOf(Scanned, k) : r.val # NoValue
     THEN LET r == CHOOSE r \in LastOf(Scanned, k) : TRUE
          IN  NodeFor(r, r.val, 0)
     ELSE NoNode]

(* The write offset after the scan: the end of the last readable entry.    *)
EndOfScan(f) ==
  LET ends == {r.off + EntrySize[r.val] : r \in {q \in Scanned : q.fid = f}}
  IN  IF ends = {} THEN 0 ELSE CHOOSE n \in ends : \A m \in ends : m <= n

(* buildLogFiles: the newest file is the active one.                       *)
Newest == IF files = {} THEN 0 ELSE CHOOSE f \in files : \A g \in files : g <= f

Open ==
  /\ ~up /\ up' = TRUE
  /\ active' = Newest
  /\ archived' = files \ {Newest}
  /\ offset' = EndOfScan(Newest)
  /\ index' = ReplayIndex
  /\ disc' = NewDiscard(disc.owner, disc.count)
  /\ valChan' = <<>>
  /\ merge' = Idle
  /\ UNCHANGED <<files, log, now>>

Tick ==
  /\ now < MaxTime /\ now' = now + 1
  /\ UNCHANGED <<files, log, up, active, archived, offset, index, disc, valChan, merge>>

-----------------------------------------------------------------------------
UserStep ==
  \/ \E k \in Keys, v \in Values :
       Set(k, v) \/ SetEX(k, v) \/ SetNX(k, v) \/ ReadModifyWrite(k, v)
  \/ \E k \in Keys : Delete(k) \/ GetDel(k)
  \/ \E v \in Entry : UserRoom(v) /\ NewFileWithoutSlot(v)

MergeStep ==
  MergeSkip \/ MergeRewrite \/ MergeWithoutSlot \/ MergeDelete \/ MergeClear

Next ==
  \/ UserStep
  \/ MergeEmpty \/ \E f \in Fid : MergeStart(f)
  \/ MergeStep
  \/ ListenUpdate
  \/ Stop
  \/ Tick
  \/ Open

Spec == Init /\ [][Next]_vars

-----------------------------------------------------------------------------
(* Properties.                                                             *)

(* Looking up a key finds its value or that there is none; it never fails  *)
(* because the index points into a log file that Merge has removed, or at  *)
(* bytes that cannot be read (Get's contract, str.go).                     *)
GetNeverFails ==
  up => \A k \in Keys : GetValue(k) \in {"ok", "ErrKeyNotFound"}

(* The index never points at an entry the log has superseded: no put or    *)
(* delete of the same key comes later in the log (the order commands, the  *)
(* rewrites of Merge and a replay must all agree on).                      *)
IndexIsLatest ==
  up => \A k \in Keys : index[k].fid # 0
          => \A r \in log : r.key = k => ~After(r, index[k])

Visible(k) == IF GetValue(k) = "ok" THEN EntryAt(index[k]).val ELSE NoValue

(* Garbage collection is invisible: whatever a step of Merge does, every   *)
(* key reads as before.                                                    *)
MergeIsInvisible ==
  [][up /\ up' /\ merge' # merge
       => \A k \in Keys : Visible(k)' = Visible(k)]_vars

(* What a key would read as if the store were reopened now.                *)
VisibleAfterReopen(k) ==
  LET n == ReplayIndex[k] IN
  IF n.fid = 0 \/ Expired(EntryAt(n).exp) THEN NoValue ELSE EntryAt(n).val

(* Stopping and reopening the store, at any moment, changes no value: the  *)
(* index in memory and the one a replay of the log would build agree.      *)
ReopenKeepsValues == up => \A k \in Keys : Visible(k) = VisibleAfterReopen(k)

(* No slot of the discard file is used twice or lost (alloc and clear).    *)
SlotsOK == up => SlotsPartitioned(disc)

(* What the log says each key holds.                                       *)
Durable ==
  [k \in Keys |->
     LET last == LastOf(log, k) IN
     IF last = {} THEN [val |-> NoValue, exp |-> 0]
     ELSE LET r == CHOOSE r \in last : TRUE IN [val |-> r.val, exp |-> r.exp]]

KV == INSTANCE KVStore WITH kv <- Durable, gc <- merge

(* The log is a key-value map: every command is one step of the map, and   *)
(* Merge, stopping and reopening change nothing in it, but that Merge may  *)
(* drop values whose time has come.                                        *)
ImplementsKVStore == KV!Spec
=============================================================================
