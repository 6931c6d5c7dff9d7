------------------------------- MODULE RWMutex -------------------------------
(***************************************************************************)
(* The read-write locks of Go (sync.RWMutex), as the commands of LazyDB    *)
(* use them.  A lock is a record                                           *)
(*   writer    the thread that holds it for writing,                       *)
(*   pending   the writer that has announced itself and waits for the      *)
(*             readers there are to leave,                                 *)
(*   readers   how often each thread holds it for reading,                 *)
(*   queued    readers that came after that announcement.                  *)
(* Readers that come while a writer holds or awaits the lock let it go     *)
(* first, and are all let in when it is done; further writers wait for     *)
(* both.  The operators give the lock after a call.                        *)
(***************************************************************************)
EXTENDS Naturals

CONSTANTS Threads, Nobody

ASSUME NobodyAssumption == Nobody \notin Threads

Mutex ==
  [writer : Threads \cup {Nobody}, pending : Threads \cup {Nobody},
   readers : [Threads -> Nat], queued : SUBSET Threads]

Unlocked ==
  [writer |-> Nobody, pending |-> Nobody,
   readers |-> [t \in Threads |-> 0], queued |-> {}]

(* A writer may announce itself.                                           *)
Free(m) == m.writer = Nobody /\ m.pending = Nobody

(* t has called Lock or RLock, which has not returned.                     *)
Waits(m, t) == m.pending = t \/ t \in m.queued

NoReaders(r) == \A t \in Threads : r[t] = 0

(* Lock; called when the lock is Free.                                     *)
Lock(m, t) ==
  IF NoReaders(m.readers)
  THEN [writer |-> t, pending |-> Nobody, readers |-> m.readers, queued |-> m.queued]
  ELSE [writer |-> Nobody, pending |-> t, readers |-> m.readers, queued |-> m.queued]

(* Unlock lets in the readers that came meanwhile.                         *)
Unlock(m) ==
  [writer |-> Nobody, pending |-> Nobody,
   readers |-> [t \in Threads |-> IF t \in m.queued THEN m.readers[t] + 1
                                  ELSE m.readers[t]],
   queued |-> {}]

RLock(m, t) ==
  IF Free(m)
  THEN [writer |-> m.writer, pending |-> m.pending,
        readers |-> [m.readers EXCEPT ![t] = @ + 1], queued |-> m.queued]
  ELSE [writer |-> m.writer, pending |-> m.pending,
        readers |-> m.readers, queued |-> m.queued \cup {t}]

(* The last reader to leave hands the lock to the writer that waits.       *)
RUnlock(m, t) ==
  LET r == [m.readers EXCEPT ![t] = @ - 1] IN
  IF NoReaders(r)
  THEN [writer |-> m.pending, pending |-> Nobody, readers |-> r, queued |-> m.queued]
  ELSE [writer |-> m.writer, pending |-> m.pending, readers |-> r, queued |-> m.queued]
=============================================================================
