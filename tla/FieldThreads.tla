----------------------------- MODULE FieldThreads -----------------------------
(***************************************************************************)
(* Commands on strings, or on the fields of one hash, or on the members of *)
(* one sorted set, beside Merge and each other.  Each of the three types   *)
(* has log files, a lock and a Merge of its own, and reads and moves the   *)
(* entries of its log in the steps of StrThreads; Keys are the fields or   *)
(* the members, Values their values or scores.  HSet is Set and HDel is    *)
(* Delete.  What differs is here:                                          *)
(*   HGetAll reads one entry after the other under one read lock, which    *)
(*   keeps commands out, but not Merge (HGet is HGetAll of one field);     *)
(*   ZAdd and ZRem write their entry and then look up the old score;       *)
(*   ZIncrBy takes any failure of ZScore for a member that is not there.   *)
(* Commands run side by side from the first one on, or beside a Merge that *)
(* is called when others have written a log one after another.             *)
(***************************************************************************)
EXTENDS StrThreads

CONSTANT Raced   \* bound: the writes of commands that run side by side

VARIABLES
  typ,   \* the data type
  got    \* what the HGetAll of each thread has read so far

fvars == <<vars, typ, got>>

OpsOf ==
  [string |-> StrOps,
   hash |-> {"Set", "Delete", "HGetAll", "Merge"},
   zset |-> {"Set", "Delete", "ZIncrBy", "Merge"}]

(* Bound: three Merges may meet on strings, two on fields.                 *)
Budget == [string |-> MaxWrites, hash |-> MaxWrites - 1, zset |-> MaxWrites - 1]

ASSUME RacedAssumption == MaxWrites >= 1 /\ Raced \in 0 .. MaxWrites - 1

(* As in StrThreads; what has been read are entries.                       *)
FieldTypeOK ==
  /\ TypeOK
  /\ typ \in DOMAIN OpsOf
  /\ got \in [Threads -> SUBSET Entry]

FieldInit ==
  /\ NewStore
  /\ typ \in DOMAIN OpsOf
  /\ quota \in {Raced, Budget[typ]}
  /\ got = [t \in Threads |-> {}]

-----------------------------------------------------------------------------
(* HGetAll.  The tree keeps its fields while the lock is held.             *)
HKeys == {k \in Keys : index[k] # Nowhere}

Listing(t) == call[t].op = "HGetAll"

(* It returns what it has got, or fails.                                   *)
ListReturn(t) ==
  /\ Become(t, Idle)
  /\ mu' = RUnlock(mu, t)
  /\ got' = [got EXCEPT ![t] = {}]

(* The iterator's next field and its node,                                 *)
ListNode(t) ==
  /\ Listing(t) /\ In(t, "get")
  /\ LET rest == HKeys \ {e.key : e \in got[t]} IN
     \/ rest = {} /\ ListReturn(t)
     \/ \E k \in rest :
          /\ Become(t, [Goto(t, "file") EXCEPT !.key = k, !.pos = index[k]])
          /\ UNCHANGED <<mu, got>>
  /\ UNCHANGED <<index, files, quota, panicked, history>>

(* its file,                                                               *)
ListFile(t) ==
  /\ Listing(t) /\ GetFile(t)
  /\ got' = [got EXCEPT ![t] = IF call'[t] = Idle THEN {} ELSE @]

(* A mutant: the lock is let go of between two fields.                     *)
ToNextFieldUnlocked(t) ==
  /\ Become(t, [Goto(t, "get") EXCEPT !.key = Nobody, !.pos = Nowhere, !.h = 0])
  /\ mu' = RUnlock(mu, t)

ToNextField(t) ==
  /\ Become(t, [call[t] EXCEPT !.stage = "get", !.asked = TRUE,
                               !.key = Nobody, !.pos = Nowhere, !.h = 0])
  /\ UNCHANGED mu

(* and its entry; a delete there (NoValue) would be left out of the list.  *)
ListEntry(t) ==
  /\ Listing(t) /\ At(t, "read")
  /\ IF Readable(t)
     THEN got' = [got EXCEPT ![t] = @ \cup {EntryAt(call[t].pos)}] /\ ToNextField(t)
     ELSE ListReturn(t)
  /\ UNCHANGED <<index, files, quota, panicked, history>>

HGetAll(t) == ListNode(t) \/ ListFile(t) \/ ListEntry(t)

-----------------------------------------------------------------------------
(* ZIncrBy, until it calls ZAdd: score v was read, or NoValue, which is    *)
(* the score zero, when there is no node or the entry at p was not found.  *)
Incrementing(t) == call[t].op = "ZIncrBy" /\ call[t].new = Nowhere

Scored(t, k, v, p) ==
  /\ Become(t, [Goto(t, "set") EXCEPT
                 !.key = k, !.val = v, !.pos = p, !.h = 0, !.fresh = TRUE])
  /\ mu' = RUnlock(mu, t)

ZScoreNode(t) ==
  /\ Incrementing(t) /\ In(t, "get")
  /\ \E k \in Keys :
       IF index[k] = Nowhere THEN Scored(t, k, NoValue, Nowhere)
       ELSE /\ Become(t, [Goto(t, "file") EXCEPT !.key = k, !.pos = index[k]])
            /\ UNCHANGED mu
  /\ UNCHANGED <<index, files, quota, panicked, history>>

ZScoreFile(t) ==
  /\ Incrementing(t) /\ At(t, "file")
  /\ LET h == FileFor(call[t].pos.fid) IN
     IF h = 0 THEN Scored(t, call[t].key, NoValue, call[t].pos)
     ELSE Become(t, [Goto(t, "read") EXCEPT !.h = h]) /\ UNCHANGED mu
  /\ UNCHANGED <<index, files, quota, panicked, history>>

ZScoreEntry(t) ==
  /\ Incrementing(t) /\ At(t, "read")
  /\ IF Readable(t) THEN Scored(t, call[t].key, EntryAt(call[t].pos).val, Nowhere)
     ELSE Scored(t, call[t].key, NoValue, call[t].pos)
  /\ UNCHANGED <<index, files, quota, panicked, history>>

-----------------------------------------------------------------------------
(* ZAdd and ZRem, alone and from ZIncrBy, which may add any increment.     *)
ZEntries(t) ==
  IF call[t].op = "ZIncrBy" THEN [key : {call[t].key}, val : Values] ELSE Entries(t)

(* The entry is written through h; a member that has a node is looked up   *)
(* before the node is changed.                                             *)
ZWrite(t, h) ==
  \E e \in ZEntries(t) :
    /\ writeLogEntry(h, e, h)
    /\ IF index[e.key] = Nowhere THEN PutNode(t, e.key, e.val, WritePos(h))
       ELSE /\ Become(t, [Goto(t, "file") EXCEPT
                           !.key = e.key, !.val = e.val, !.fresh = FALSE,
                           !.pos = index[e.key], !.new = WritePos(h)])
            /\ UNCHANGED <<index, mu>>

ZAdd(t) ==
  /\ In(t, "set")
  /\ IF active # 0 THEN ZWrite(t, active)
     ELSE OpenFirst(t, "store") /\ UNCHANGED <<disk, active, archived, index, mu>>
  /\ UNCHANGED <<quota, panicked, history>>

StoreAndZAdd(t) ==
  /\ At(t, "store")
  /\ ZWrite(t, call[t].h)
  /\ history' = [history EXCEPT !.doubled = @ \/ active # 0]
  /\ UNCHANGED <<quota, panicked>>

(* t has written its entry and is looking up the old score.                *)
Wrote(t) == call[t].new # Nowhere /\ call[t].stage \in {"file", "read"}

(* The old score cannot be read: the entry stays in the log only.          *)
GiveUp(t) == Become(t, Idle) /\ mu' = Unlock(mu) /\ UNCHANGED index

OldFile(t) ==
  /\ Wrote(t) /\ At(t, "file")
  /\ LET h == FileFor(call[t].pos.fid) IN
     IF h = 0 THEN GiveUp(t)
     ELSE Become(t, [Goto(t, "read") EXCEPT !.h = h]) /\ UNCHANGED <<index, mu>>
  /\ UNCHANGED <<files, quota, panicked, history>>

OldEntry(t) ==
  /\ Wrote(t) /\ At(t, "read")
  /\ IF Readable(t) THEN PutNode(t, call[t].key, call[t].val, call[t].new)
     ELSE GiveUp(t)
  /\ UNCHANGED <<files, quota, panicked, history>>

ZCommand(t) ==
  \/ ZScoreNode(t) \/ ZScoreFile(t) \/ ZScoreEntry(t)
  \/ ZAdd(t) \/ StoreAndZAdd(t)
  \/ OldFile(t) \/ OldEntry(t)

-----------------------------------------------------------------------------
(* The commands that are not those of StrThreads under another name.       *)
OwnCommand(t) ==
  \/ Listing(t)
  \/ typ = "zset" /\ call[t].op \in {"Set", "Delete", "ZIncrBy"}

FieldAsk(t) == Ask(t) /\ ~panicked /\ UNCHANGED <<typ, got>>

FieldStep(t) ==
  \/ FieldAsk(t)
  \/ ~OwnCommand(t) /\ Step(t) /\ UNCHANGED <<typ, got>>
  \/ /\ OwnCommand(t) /\ ~panicked
     /\ \/ HGetAll(t)
        \/ ZCommand(t) /\ UNCHANGED got
     /\ UNCHANGED typ

FieldCall(t) ==
  /\ ~panicked
  /\ \E op \in OpsOf[typ] :
       /\ quota > Raced =>
            /\ op = IF quota = Raced + 1 THEN "Merge" ELSE "Set"
            /\ \A u \in Threads : At(u, "idle")
       /\ Begin(t, op)
  /\ UNCHANGED <<typ, got>>

FieldNext == \E t \in Threads : FieldCall(t) \/ FieldStep(t)

(* As in ZSetStore.                                                        *)
FieldFairness ==
  \A t \in Threads : WF_fvars(FieldStep(t)) /\ SF_fvars(FieldAsk(t))

FieldSpec == FieldInit /\ [][FieldNext]_fvars /\ FieldFairness

-----------------------------------------------------------------------------
(* What an HGetAll has read are the fields' values of this moment, though   *)
(* Merge may have moved each of them since it was read: a list that is     *)
(* returned whole is the hash as it was at one moment.                     *)
HGetAllIsSnapshot ==
  \A t \in Threads :
    ~Excused => \A e \in got[t] : e.val # NoValue /\ e.val = ValueOf(e.key)

(* A ZAdd or ZRem that has written its entry finds the old score, wherever *)
(* Merge is, so it does not leave the entry in the log with the index not  *)
(* knowing of it.                                                          *)
WrittenIsIndexed ==
  \A t \in Threads :
    Wrote(t) /\ ~Excused =>
      /\ At(t, "file") => FileFor(call[t].pos.fid) # 0
      /\ At(t, "read") => Readable(t)

(* A ZIncrBy that nobody overtakes adds to the member's score; or to zero, *)
(* forgetting the score, when Merge has moved the member's entry and       *)
(* removed its file between the index and the file.                        *)
IncrementsScoreOrMoved ==
  \A t \in Threads :
    LET c == call[t] IN
    c.op = "ZIncrBy" /\ At(t, "set") /\ c.fresh /\ ~Excused =>
      IF c.pos = Nowhere THEN c.val = ValueOf(c.key)
      ELSE index[c.key] # c.pos /\ ValueOf(c.key) # NoValue
=============================================================================
