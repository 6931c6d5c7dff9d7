------------------------------ MODULE StrThreads ------------------------------
(***************************************************************************)
(* String commands and Merge run by several threads.  StrStore takes a     *)
(* command for one step; here it is cut where another thread can come in   *)
(* between: at strIndex.mu, and where the code uses the log files and the  *)
(* map of active files without it.                                         *)
(*                                                                         *)
(* A log file is on disk, and open under one or more handles, each with an *)
(* offset of its own to write at.  Entries are all of one size.  Time,     *)
(* which files have enough discards to be merged and the crash of the      *)
(* process are StrStore's; here Merge may be given any file.               *)
(***************************************************************************)
EXTENDS Integers, Sequences, RWMutex

CONSTANTS
  Keys, Values, NoValue,
  PerFile,      \* entries that fit into a log file
  MaxWrites     \* bound: entries written to the log

VARIABLES
  index,      \* strIndex.idxTree
  mu,         \* strIndex.mu
  disk,       \* the entries in each log file
  handles,    \* logfile.LogFile objects, in the order they were opened
  active,     \* the handle behind activeLogFileMap; 0: none yet
  archived,   \* archivedLogFile; 0: none
  call,       \* what each thread is doing
  quota,      \* how much of MaxWrites is left
  panicked,   \* a goroutine panicked: the process has ended
  history     \* what has gone wrong between threads, see below

vars == <<index, mu, disk, handles, active, archived, call, quota, panicked, history>>
files == <<disk, handles, active, archived>>

ASSUME SizeAssumption == PerFile \in Nat \ {0} /\ MaxWrites \in Nat
ASSUME ValueAssumption == NoValue \notin Values

Fids == 1 .. MaxWrites + 2
Handles == 1 .. MaxWrites + 3
Entry == [key : Keys, val : Values \cup {NoValue}]   \* NoValue: a delete
Pos == [fid : 0 .. MaxWrites + 2, at : 0 .. PerFile]
Nowhere == [fid |-> 0, at |-> 0]

(* HGetAll and ZIncrBy are FieldThreads'.                                  *)
Reads == {"Get", "Expire", "HGetAll", "ZIncrBy"}
Writes == {"Set", "Delete", "Expire", "ZIncrBy"}
Ops == Reads \cup Writes \cup {"Merge"}
StrOps == {"Get", "Set", "Delete", "Expire", "Merge"}

(* The stages that ask for strIndex.mu.                                    *)
ReadStages == {"get", "move"}
WriteStages == {"set"}

(* pos: where the entry being read or moved is; new: where it was written; *)
(* h: the handle in use.  fresh, a history variable: nobody else has       *)
(* written the key since the command read it.                              *)
Calls ==
  [op : Ops \cup {"none"},
   stage : ReadStages \cup WriteStages
             \cup {"idle", "file", "read", "store", "merge", "open", "scan", "put", "drop"},
   asked : BOOLEAN, key : Keys \cup {Nobody}, val : Values \cup {NoValue},
   pos : Pos, new : Pos, h : Handles \cup {0}, fresh : BOOLEAN]

Idle ==
  [op |-> "none", stage |-> "idle", asked |-> FALSE, key |-> Nobody, val |-> NoValue,
   pos |-> Nowhere, new |-> Nowhere, h |-> 0, fresh |-> FALSE]

(* The history of what the properties excuse: two handles were made for    *)
(* the first file; two Merges were at work at a time; on the same file.    *)
Histories == [doubled : BOOLEAN, merges : BOOLEAN, clashed : BOOLEAN]

(* The shared state, every open file and every call are well formed, and   *)
(* no log file is written beyond its size.                                 *)
TypeOK ==
  /\ index \in [Keys -> Pos]
  /\ mu \in Mutex
  /\ DOMAIN disk = Fids
  /\ \A f \in Fids : disk[f] \in Seq(Entry) /\ Len(disk[f]) <= PerFile
  /\ handles \in Seq([fid : Fids, offset : 0 .. PerFile, open : BOOLEAN])
  /\ active \in 0 .. Len(handles)
  /\ archived \in [Fids -> 0 .. Len(handles)]
  /\ call \in [Threads -> Calls]
  /\ quota \in 0 .. MaxWrites
  /\ panicked \in BOOLEAN
  /\ history \in Histories

NewStore ==
  /\ index = [k \in Keys |-> Nowhere]
  /\ mu = Unlocked
  /\ disk = [f \in Fids |-> <<>>]
  /\ handles = <<>>
  /\ active = 0
  /\ archived = [f \in Fids |-> 0]
  /\ call = [t \in Threads |-> Idle]
  /\ panicked = FALSE
  /\ history = [doubled |-> FALSE, merges |-> FALSE, clashed |-> FALSE]

Init == NewStore /\ quota = MaxWrites

-----------------------------------------------------------------------------
Handle(fid, offset) == [fid |-> fid, offset |-> offset, open |-> TRUE]

EntryAt(p) == disk[p.fid][p.at + 1]
Holds(p) == p.fid # 0 /\ p.at < Len(disk[p.fid])

(* The value a key has: what its node in the index leads to.               *)
ValueOf(k) == IF Holds(index[k]) THEN EntryAt(index[k]).val ELSE NoValue

(* e at offset at of file fid, over whatever is there.                     *)
Written(fid, at, e) ==
  [disk EXCEPT ![fid] = [i \in 1 .. (IF at < Len(@) THEN Len(@) ELSE at + 1) |->
                           IF i = at + 1 THEN e ELSE disk[fid][i]]]

(* A mutant: the full file is not archived before the next is active.      *)
ArchiveNothing(fid, h) == archived

Archive(fid, h) == [archived EXCEPT ![fid] = h]

(* A mutant: one entry too many.                                           *)
FullLate(h) == handles[h].offset > PerFile

Full(h) == handles[h].offset = PerFile

(* Where the next entry written through handle h goes.                     *)
WritePos(h) ==
  IF Full(h) THEN [fid |-> handles[h].fid + 1, at |-> 0]
  ELSE [fid |-> handles[h].fid, at |-> handles[h].offset]

(* writeLogEntry through handle h; it leaves a active unless h is full.    *)
writeLogEntry(h, e, a) ==
  /\ disk' = Written(WritePos(h).fid, WritePos(h).at, e)
  /\ IF Full(h)
     THEN /\ handles' = Append(handles, Handle(WritePos(h).fid, 1))
          /\ archived' = Archive(handles[h].fid, h)
          /\ active' = Len(handles) + 1
     ELSE /\ handles' = [handles EXCEPT ![h].offset = @ + 1]
          /\ active' = a
          /\ UNCHANGED archived

(* The handle under which readLogEntry looks for file fid; 0: none.        *)
FileFor(fid) == IF handles[active].fid = fid THEN active ELSE archived[fid]

-----------------------------------------------------------------------------
(* Merge and the first write of all have opened the first log file twice,  *)
(* or two Merges were at work at a time: the one then drops a file with an *)
(* entry in it that the other has written but not yet put into the index.  *)
Excused == history.doubled \/ history.merges

Become(t, c) == call' = [call EXCEPT ![t] = c]
At(t, stage) == call[t].stage = stage
In(t, stage) == At(t, stage) /\ call[t].asked /\ ~Waits(mu, t)
Goto(t, stage) == [call[t] EXCEPT !.stage = stage, !.asked = FALSE]

Cost(op) == IF op = "Merge" THEN PerFile ELSE IF op \in Writes THEN 1 ELSE 0

(* Bound: none begins once the first log file is open twice.               *)
Begin(t, op) ==
  /\ At(t, "idle") /\ ~history.doubled
  /\ Cost(op) <= quota
  /\ quota' = quota - Cost(op)
  /\ Become(t, [Goto(t, IF op \in Reads THEN "get"
                        ELSE IF op \in Writes THEN "set" ELSE "merge")
                EXCEPT !.op = op])
  /\ UNCHANGED <<index, mu, files, panicked, history>>

Call(t) == \E op \in StrOps : Begin(t, op)

Ask(t) ==
  /\ ~call[t].asked
  /\ \/ call[t].stage \in WriteStages /\ Free(mu) /\ mu' = Lock(mu, t)
     \/ call[t].stage \in ReadStages /\ mu' = RLock(mu, t)
  /\ call' = [call EXCEPT ![t].asked = TRUE]
  /\ UNCHANGED <<index, files, quota, panicked, history>>

(* Get, and the first half of Expire and Persist: the node,                *)
GetNode(t) ==
  /\ In(t, "get")
  /\ \E k \in Keys :
       \/ /\ index[k] = Nowhere
          /\ Become(t, Idle)
          /\ mu' = RUnlock(mu, t)
       \/ /\ index[k] # Nowhere
          /\ Become(t, [Goto(t, "file") EXCEPT !.key = k, !.pos = index[k]])
          /\ UNCHANGED mu
  /\ UNCHANGED <<index, files, quota, panicked, history>>

(* its file, which may be gone,                                            *)
GetFile(t) ==
  /\ At(t, "file")
  /\ LET h == FileFor(call[t].pos.fid) IN
     \/ h = 0 /\ Become(t, Idle) /\ mu' = RUnlock(mu, t)
     \/ h # 0 /\ Become(t, [Goto(t, "read") EXCEPT !.h = h]) /\ UNCHANGED mu
  /\ UNCHANGED <<index, files, quota, panicked, history>>

Readable(t) == handles[call[t].h].open /\ Holds(call[t].pos)

(* and the entry; the file may have been closed.                           *)
GetEntry(t) ==
  /\ At(t, "read")
  /\ IF call[t].op = "Expire" /\ Readable(t)
     THEN Become(t, [Goto(t, "set") EXCEPT
                       !.val = EntryAt(call[t].pos).val, !.pos = Nowhere,
                       !.h = 0, !.fresh = TRUE])
     ELSE Become(t, Idle)
  /\ mu' = RUnlock(mu, t)
  /\ UNCHANGED <<index, files, quota, panicked, history>>

(* What t writes: its own value for Set, what it read for Expire.          *)
Entries(t) ==
  CASE call[t].op = "Set" -> [key : Keys, val : Values]
    [] call[t].op = "Delete" -> [key : Keys, val : {NoValue}]
    [] OTHER -> {[key |-> call[t].key, val |-> call[t].val]}

(* Key k comes to lead to the entry that t has written, with value v at p, *)
(* and t returns.                                                          *)
PutNode(t, k, v, p) ==
  /\ index' = [index EXCEPT ![k] = IF v = NoValue THEN Nowhere ELSE p]
  /\ call' = [u \in Threads |->
               IF u = t THEN Idle
               ELSE [call[u] EXCEPT !.fresh = @ /\ call[u].key # k]]
  /\ mu' = Unlock(mu)

(* t writes through h and returns.                                         *)
Write(t, h) ==
  \E e \in Entries(t) :
    writeLogEntry(h, e, h) /\ PutNode(t, e.key, e.val, WritePos(h))

(* t opens the first log file.                                             *)
OpenFirst(t, stage) ==
  /\ handles' = Append(handles, Handle(1, 0))
  /\ Become(t, [Goto(t, stage) EXCEPT !.h = Len(handles) + 1])

(* Set, SetEX and Delete.  The very first write finds no active file and   *)
(* opens one, which it stores in the map in a second step.                 *)
Set(t) ==
  /\ In(t, "set")
  /\ IF active # 0
     THEN Write(t, active)
     ELSE OpenFirst(t, "store") /\ UNCHANGED <<disk, active, archived, index, mu>>
  /\ UNCHANGED <<quota, panicked, history>>

StoreAndSet(t) ==
  /\ At(t, "store")
  /\ Write(t, call[t].h)
  /\ history' = [history EXCEPT !.doubled = @ \/ active # 0]
  /\ UNCHANGED <<quota, panicked>>

-----------------------------------------------------------------------------
(* Merge goes on with the file it was given, if that is not the active one *)
(* and there is such a file.                                               *)
MergeStages == {"scan", "move", "put", "drop"}

Target(t, activeFid) ==
  \E f \in Fids \ {activeFid} :
    IF archived[f] = 0
    THEN Become(t, Idle) /\ UNCHANGED history
    ELSE LET others == {u \in Threads \ {t} : call[u].stage \in MergeStages} IN
         /\ Become(t, [Goto(t, "scan") EXCEPT
                       !.h = archived[f], !.pos = [fid |-> f, at |-> 0]])
         /\ history' = [history EXCEPT
              !.merges = @ \/ others # {},
              !.clashed = @ \/ \E u \in others : call[u].pos.fid = f]

(* getActiveLogFile, without a lock.                                       *)
MergeStart(t) ==
  /\ At(t, "merge")
  /\ IF active # 0
     THEN Target(t, handles[active].fid) /\ UNCHANGED handles
     ELSE OpenFirst(t, "open") /\ UNCHANGED history
  /\ UNCHANGED <<index, mu, disk, active, archived, quota, panicked>>

MergeStore(t) ==
  /\ At(t, "open")
  /\ active' = call[t].h
  /\ Become(t, Idle)
  /\ history' = [history EXCEPT !.doubled = @ \/ active # 0]
  /\ UNCHANGED <<index, mu, disk, handles, archived, quota, panicked>>

(* A mutant: the scan stays where it is.                                   *)
AfterNothing(p) == p

After(p) == [p EXCEPT !.at = @ + 1]

(* The next entry: an error if the file was closed, the end of the file,   *)
(* a delete, or an entry to move if it is live.                            *)
MergeScan(t) ==
  /\ At(t, "scan")
  /\ LET p == call[t].pos IN
     Become(t, IF ~handles[call[t].h].open THEN Idle
               ELSE IF ~Holds(p) THEN Goto(t, "drop")
               ELSE IF EntryAt(p).val = NoValue THEN [call[t] EXCEPT !.pos = After(p)]
               ELSE [Goto(t, "move") EXCEPT !.key = EntryAt(p).key, !.val = EntryAt(p).val])
  /\ UNCHANGED <<index, mu, files, quota, panicked, history>>

NextEntry(t) ==
  [Goto(t, "scan") EXCEPT !.pos = After(@), !.key = Nobody, !.val = NoValue, !.new = Nowhere]

(* A mutant: the entry is moved whether the index points at it or not.     *)
LiveAlways(c) == TRUE

Live(c) == index[c.key] = c.pos

(* mergeStr: the entry is written again,                                   *)
MergeMove(t) ==
  /\ In(t, "move")
  /\ IF Live(call[t])
     THEN /\ writeLogEntry(active, [key |-> call[t].key, val |-> call[t].val], active)
          /\ Become(t, [Goto(t, "put") EXCEPT !.new = WritePos(active)])
          /\ UNCHANGED mu
     ELSE Become(t, NextEntry(t)) /\ mu' = RUnlock(mu, t) /\ UNCHANGED files
  /\ UNCHANGED <<index, quota, panicked, history>>

(* and the index follows, all under the lock for reading.                  *)
MergePut(t) ==
  /\ At(t, "put")
  /\ index' = [index EXCEPT ![call[t].key] = call[t].new]
  /\ Become(t, NextEntry(t))
  /\ mu' = RUnlock(mu, t)
  /\ UNCHANGED <<files, quota, panicked, history>>

(* The file is closed and removed; if it is gone from the map, Merge       *)
(* panics and never returns.                                               *)
MergeDrop(t) ==
  /\ At(t, "drop")
  /\ LET f == call[t].pos.fid IN
     IF archived[f] = 0
     THEN panicked' = TRUE /\ UNCHANGED <<disk, handles, archived, call>>
     ELSE /\ handles' = [handles EXCEPT ![archived[f]].open = FALSE]
          /\ disk' = [disk EXCEPT ![f] = <<>>]
          /\ archived' = [archived EXCEPT ![f] = 0]
          /\ Become(t, Idle)
          /\ UNCHANGED panicked
  /\ UNCHANGED <<index, mu, active, quota, history>>

Step(t) ==
  /\ ~panicked
  /\ \/ Ask(t)
     \/ GetNode(t) \/ GetFile(t) \/ GetEntry(t)
     \/ Set(t) \/ StoreAndSet(t)
     \/ MergeStart(t) \/ MergeStore(t)
     \/ MergeScan(t) \/ MergeMove(t) \/ MergePut(t) \/ MergeDrop(t)

Next == \E t \in Threads : (Call(t) /\ ~panicked) \/ Step(t)

(* As in ZSetStore.                                                        *)
Fairness == \A t \in Threads : WF_vars(Step(t)) /\ SF_vars(Ask(t) /\ ~panicked)

Spec == Init /\ [][Next]_vars /\ Fairness

-----------------------------------------------------------------------------
(* Every node of the index leads to a live entry of its key in a file that *)
(* is open, at every step of every command and of Merge.                   *)
IndexResolves ==
  \A k \in Keys :
    index[k] # Nowhere /\ ~Excused =>
      /\ Holds(index[k])
      /\ EntryAt(index[k]).key = k /\ EntryAt(index[k]).val # NoValue
      /\ FileFor(index[k].fid) # 0 /\ handles[FileFor(index[k].fid)].open

(* A lookup (Get, or one of an HGetAll's or ZIncrBy's) that finds its file *)
(* open reads the key's value of that moment, though Merge may have moved  *)
(* it; one that does not, and so fails, has a node that Merge has replaced *)
(* since.                                                                  *)
GetReadsValueOrMoved ==
  \A t \in Threads :
    LET c == call[t] IN
    ~Excused =>
      /\ At(t, "file") /\ FileFor(c.pos.fid) = 0 => index[c.key] # c.pos
      /\ At(t, "read") =>
           IF Readable(t)
           THEN EntryAt(c.pos).key = c.key /\ EntryAt(c.pos).val = ValueOf(c.key)
           ELSE index[c.key] # c.pos

(* A key's value changes only in the step in which a command that holds    *)
(* the lock for writing returns, never by Merge, and by Expire or Persist  *)
(* only when another command has written the key since they read it.       *)
OnlyWritesChangeValues ==
  [][\A k \in Keys :
       ValueOf(k)' # ValueOf(k) /\ ~Excused' =>
         \E t \in Threads :
           /\ mu.writer = t /\ call'[t] = Idle
           /\ call[t].op = "Expire" => ~call[t].fresh]_vars

(* Every command and every Merge returns and the process goes on, unless   *)
(* two Merges were given the same file: one then panics when it finds the  *)
(* file gone.                                                              *)
CallsReturn ==
  \A t \in Threads : ~At(t, "idle") ~> (At(t, "idle") \/ history.clashed)
=============================================================================
