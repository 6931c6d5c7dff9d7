------------------------------- MODULE TxStore -------------------------------
(***************************************************************************)
(* LazyDB's transactions (tx.go, tx_str.go, tx_set.go), each in a thread   *)
(* of its own, beside a thread that sets strings without a transaction.    *)
(* A transaction holds db.mu, for reading or for writing, from Begin to    *)
(* its end; nothing but transactions takes that lock.  Set and SAdd only   *)
(* collect entries.  Commit writes them from five goroutines, of which the *)
(* ones for strings and for sets ever have something to do; it takes no    *)
(* lock of an index, so its steps mix with those of a plain Set.           *)
(*                                                                         *)
(* There is one log for strings and one for sets.  The process may crash,  *)
(* and the power may fail, which loses the end of a log that has not been  *)
(* synced.  A node of the string index is the position of its entry.       *)
(***************************************************************************)
EXTENDS Integers, Sequences, SequencesExt, RWMutex

CONSTANTS
  Keys, Values, Members,
  MaxPending,   \* bound: what all transactions collect between them
  MaxPlain      \* bound: entries of plain Sets in the log

VARIABLES
  up,        \* "open", "closed" or "down"
  mu,        \* db.mu
  tx,        \* the transactions; thread t runs tx[t]
  plain,     \* the plain Set that has written its entry, not yet the index
  strLog, strIdx,   \* the strings' log and strIndex.idxTree
  setLog, setIdx,   \* the log of sets and the tree of the one set
  synced,    \* how much of each log is on stable storage
  cut,       \* history: a power failure has cut a log
  raced      \* history: keys that two threads were writing at a time

vars == <<up, mu, tx, plain, strLog, strIdx, setLog, setIdx, synced, cut, raced>>
stored == <<strLog, strIdx, setLog, setIdx>>

Types == {"RTX", "RWTX"}
Item == [key : Keys, val : Values]

(* by, a history variable: whose entry it is.                              *)
StrEntry == [key : Keys, val : Values, by : Threads \cup {Nobody}]
SetEntry == [mem : Members, by : Threads \cup {Nobody}]

(* A goroutine of Commit has indexed done of its entries, and written one  *)
(* more if at is not 0: it is the entry's position.                        *)
Progress == [done : Nat, at : Nat]
NotBegun == [done |-> 0, at |-> 0]

Tx ==
  [type : Types,
   stage : {"none", "begin", "open", "commit", "committed", "rolledback", "lost"},
   str : Seq(Item), set : Seq(Members), strs : Progress, sets : Progress]

NewTx ==
  [type |-> "RTX", stage |-> "none", str |-> <<>>, set |-> <<>>,
   strs |-> NotBegun, sets |-> NotBegun]

NoPlain == [key |-> Nobody, at |-> 0]
NoTree == [exists |-> FALSE, members |-> {}]

(* The state is well formed; nodes lead into the log.                      *)
TypeOK ==
  /\ up \in {"open", "closed", "down"}
  /\ mu \in Mutex
  /\ tx \in [Threads -> Tx]
  /\ plain \in [key : Keys \cup {Nobody}, at : 0 .. Len(strLog)]
  /\ strLog \in Seq(StrEntry)
  /\ strIdx \in [Keys -> 0 .. Len(strLog)]
  /\ setLog \in Seq(SetEntry)
  /\ setIdx \in [exists : BOOLEAN, members : SUBSET Members]
  /\ synced \in [str : 0 .. Len(strLog), set : 0 .. Len(setLog)]
  /\ cut \in BOOLEAN
  /\ raced \subseteq Keys

Init ==
  /\ up = "open"
  /\ mu = Unlocked
  /\ tx = [t \in Threads |-> NewTx]
  /\ plain = NoPlain
  /\ strLog = <<>> /\ strIdx = [k \in Keys |-> 0]
  /\ setLog = <<>> /\ setIdx = NoTree
  /\ synced = [str |-> 0, set |-> 0]
  /\ cut = FALSE
  /\ raced = {}

-----------------------------------------------------------------------------
(* A mutant: a transaction that writes takes the lock for reading.         *)
lockShared(t, type) == mu' = RLock(mu, t)

lock(t, type) ==
  IF type = "RWTX" THEN Free(mu) /\ mu' = Lock(mu, t) ELSE mu' = RLock(mu, t)

(* A mutant: every transaction lets go as a reader.                        *)
unlockRead(t) == mu' = RUnlock(mu, t)

unlock(t) == mu' = IF tx[t].type = "RWTX" THEN Unlock(mu) ELSE RUnlock(mu, t)

Become(t, c) == tx' = [tx EXCEPT ![t] = c]

Call(t) ==
  /\ up = "open" /\ tx[t].stage = "none"
  /\ \E type \in Types : Become(t, [tx[t] EXCEPT !.type = type, !.stage = "begin"])
  /\ UNCHANGED <<up, mu, plain, stored, synced, cut, raced>>

(* A Begin that found the database open may get the lock after a Close.    *)
Begin(t) ==
  /\ up # "down" /\ tx[t].stage = "begin"
  /\ lock(t, tx[t].type)
  /\ Become(t, [tx[t] EXCEPT !.stage = "open"])
  /\ UNCHANGED <<up, plain, stored, synced, cut, raced>>

(* The process ends; memory, and the transactions with it, is gone.        *)
(* Bound: no transaction begins after that.                                *)
Gone ==
  /\ up' = "down"
  /\ plain' = NoPlain
  /\ tx' = [t \in Threads |->
             IF tx[t].stage \notin {"committed", "rolledback"}
             THEN [tx[t] EXCEPT !.stage = "lost"] ELSE tx[t]]
  /\ mu' = Unlocked
  /\ strIdx' = [k \in Keys |-> 0]
  /\ setIdx' = NoTree
  /\ raced' = {}

(* Begin on a closed database lets go of a lock it does not have: a fatal  *)
(* error, or it takes the lock from a transaction that was left open.      *)
BeginClosed(t) ==
  /\ up = "closed" /\ tx[t].stage = "none"
  /\ \/ \* RWTX, RTX
        /\ \/ mu.writer # Nobody /\ mu' = Unlock(mu)
           \/ \E u \in Threads : mu.readers[u] > 0 /\ mu' = RUnlock(mu, u)
        /\ Become(t, [tx[t] EXCEPT !.stage = "lost"])
        /\ UNCHANGED <<up, plain, strIdx, setIdx, raced>>
     \/ /\ mu.writer = Nobody \/ NoReaders(mu.readers)
        /\ Gone
  /\ UNCHANGED <<strLog, setLog, synced, cut>>

Running(t) == up = "open" /\ tx[t].stage = "open" /\ ~Waits(mu, t)

Room ==
  SumFunction([t \in Threads |-> Len(tx[t].str) + Len(tx[t].set)]) < MaxPending

TxSet(t) ==
  /\ Running(t) /\ Room
  /\ \E i \in Item : Become(t, [tx[t] EXCEPT !.str = Append(@, i)])
  /\ UNCHANGED <<up, mu, plain, stored, synced, cut, raced>>

(* The set's tree is made at once.                                         *)
TxSAdd(t) ==
  /\ Running(t) /\ Room
  /\ \E m \in Members : Become(t, [tx[t] EXCEPT !.set = Append(@, m)])
  /\ setIdx' = [setIdx EXCEPT !.exists = TRUE]
  /\ UNCHANGED <<up, mu, plain, strLog, strIdx, setLog, synced, cut, raced>>

Rollback(t) ==
  /\ Running(t)
  /\ unlock(t)
  /\ Become(t, [tx[t] EXCEPT !.stage = "rolledback"])
  /\ UNCHANGED <<up, plain, stored, synced, cut, raced>>

CommitStart(t) ==
  /\ Running(t)
  /\ Become(t, [tx[t] EXCEPT !.stage = "commit"])
  /\ UNCHANGED <<up, mu, plain, stored, synced, cut, raced>>

-----------------------------------------------------------------------------
(* What is left of t's entries in the log of strings, and of sets.         *)
StrOf(t) ==
  LET mine == SelectSeq(strLog, LAMBDA e : e.by = t) IN
  [i \in DOMAIN mine |-> [key |-> mine[i].key, val |-> mine[i].val]]

SetOf(t) ==
  LET mine == SelectSeq(setLog, LAMBDA e : e.by = t) IN
  [i \in DOMAIN mine |-> mine[i].mem]

(* The entry of the string that t is writing, and who is writing key k.    *)
Current(t) == tx[t].str[tx[t].strs.done + 1]
InCommit(t) == up = "open" /\ tx[t].stage = "commit"

InFlight(k) ==
  \/ plain.key = k
  \/ \E t \in Threads : /\ tx[t].stage = "commit" /\ tx[t].strs.at # 0
                        /\ Current(t).key = k

Races(k) == raced' = IF InFlight(k) THEN raced \cup {k} ELSE raced

(* The goroutine for strings: an entry into the log,                       *)
CommitStr(t) ==
  /\ InCommit(t) /\ tx[t].strs.at = 0 /\ tx[t].strs.done < Len(tx[t].str)
  /\ LET e == Current(t) IN
     /\ strLog' = Append(strLog, [key |-> e.key, val |-> e.val, by |-> t])
     /\ Races(e.key)
  /\ Become(t, [tx[t] EXCEPT !.strs.at = Len(strLog) + 1])
  /\ UNCHANGED <<up, mu, plain, strIdx, setLog, setIdx, synced, cut>>

(* then into the index, and on to the next.                                *)
CommitStrIndex(t) ==
  /\ InCommit(t) /\ tx[t].strs.at # 0
  /\ strIdx' = [strIdx EXCEPT ![Current(t).key] = tx[t].strs.at]
  /\ Become(t, [tx[t] EXCEPT !.strs = [done |-> @.done + 1, at |-> 0]])
  /\ UNCHANGED <<up, mu, plain, strLog, setLog, setIdx, synced, cut, raced>>

(* The goroutine for sets, likewise.                                       *)
CommitSet(t) ==
  /\ InCommit(t) /\ tx[t].sets.at = 0 /\ tx[t].sets.done < Len(tx[t].set)
  /\ setLog' = Append(setLog, [mem |-> tx[t].set[tx[t].sets.done + 1], by |-> t])
  /\ Become(t, [tx[t] EXCEPT !.sets.at = Len(setLog) + 1])
  /\ UNCHANGED <<up, mu, plain, strLog, strIdx, setIdx, synced, cut, raced>>

CommitSetIndex(t) ==
  /\ InCommit(t) /\ tx[t].sets.at # 0
  /\ setIdx' = [setIdx EXCEPT !.members = @ \cup {tx[t].set[tx[t].sets.done + 1]}]
  /\ Become(t, [tx[t] EXCEPT !.sets = [done |-> @.done + 1, at |-> 0]])
  /\ UNCHANGED <<up, mu, plain, strLog, strIdx, setLog, synced, cut, raced>>

(* A mutant: Commit does not wait for the goroutine that writes strings.   *)
AllDoneButStr(c) == c.sets.done = Len(c.set)

AllDone(c) == c.strs.done = Len(c.str) /\ c.sets.done = Len(c.set)

CommitEnd(t) ==
  /\ InCommit(t) /\ AllDone(tx[t])
  /\ unlock(t)
  /\ Become(t, [tx[t] EXCEPT !.stage = "committed"])
  /\ UNCHANGED <<up, plain, stored, synced, cut, raced>>

-----------------------------------------------------------------------------
(* Set outside transactions, under strIndex.mu, which Commit ignores.      *)
PlainSet ==
  /\ up = "open" /\ plain = NoPlain /\ Len(StrOf(Nobody)) < MaxPlain
  /\ \E i \in Item :
       /\ strLog' = Append(strLog, [key |-> i.key, val |-> i.val, by |-> Nobody])
       /\ plain' = [key |-> i.key, at |-> Len(strLog) + 1]
       /\ Races(i.key)
  /\ UNCHANGED <<up, mu, tx, strIdx, setLog, setIdx, synced, cut>>

PlainSetIndex ==
  /\ up = "open" /\ plain # NoPlain
  /\ strIdx' = [strIdx EXCEPT ![plain.key] = plain.at]
  /\ plain' = NoPlain
  /\ UNCHANGED <<up, mu, tx, strLog, setLog, setIdx, synced, cut, raced>>

(* One round of Sync's loop over the active log files.                     *)
Sync ==
  /\ up = "open"
  /\ \/ synced' = [synced EXCEPT !.str = Len(strLog)]
     \/ synced' = [synced EXCEPT !.set = Len(setLog)]
  /\ UNCHANGED <<up, mu, tx, plain, stored, cut, raced>>

(* Close, when no command is under way; transactions may be open.          *)
Close ==
  /\ up = "open" /\ plain = NoPlain
  /\ \A t \in Threads : tx[t].stage # "commit"
  /\ up' = "closed"
  /\ synced' = [str |-> Len(strLog), set |-> Len(setLog)]
  /\ UNCHANGED <<mu, tx, plain, stored, cut, raced>>

(* The process or the whole machine crashes; what is in the logs and not   *)
(* on stable storage may then be cut off.                                  *)
Crash ==
  /\ up # "down"
  /\ Gone
  /\ \E n \in synced.str .. Len(strLog), m \in synced.set .. Len(setLog) :
       /\ strLog' = SubSeq(strLog, 1, n)
       /\ setLog' = SubSeq(setLog, 1, m)
       /\ synced' = [str |-> n, set |-> m]
       /\ cut' = (cut \/ n < Len(strLog) \/ m < Len(setLog))

(* Where the last entry of key k in the log is; 0: nowhere.                *)
LastOf(log, k) == SelectLastInSeq(log, LAMBDA e : e.key = k)

(* A mutant: the index is built from the first entry of each key.          *)
FirstIndex(log) == [k \in Keys |-> SelectInSeq(log, LAMBDA e : e.key = k)]

BuiltIndex(log) == [k \in Keys |-> LastOf(log, k)]

(* Open reads the log of strings back, whatever an entry says about its    *)
(* transaction; sets are not read back.                                    *)
Open ==
  /\ up = "down"
  /\ up' = "open"
  /\ mu' = Unlocked
  /\ strIdx' = BuiltIndex(strLog)
  /\ UNCHANGED <<tx, plain, strLog, setLog, setIdx, synced, cut, raced>>

Next ==
  \/ \E t \in Threads :
       \/ Call(t) \/ Begin(t) \/ BeginClosed(t)
       \/ TxSet(t) \/ TxSAdd(t) \/ Rollback(t) \/ CommitStart(t)
       \/ CommitStr(t) \/ CommitStrIndex(t) \/ CommitSet(t) \/ CommitSetIndex(t)
       \/ CommitEnd(t)
  \/ PlainSet \/ PlainSetIndex
  \/ Sync \/ Close \/ Crash \/ Open

Spec == Init /\ [][Next]_vars

-----------------------------------------------------------------------------
(* The logs hold all a committed transaction wrote, unless a power failure *)
(* cut them, nothing of one that was rolled back or is open, and of one    *)
(* that a crash met in Commit the first so many strings and the first so   *)
(* many members: what Open then finds need not be all or nothing.          *)
LogHoldsPrefixes ==
  \A t \in Threads :
    LET c == tx[t] IN
    /\ IsPrefix(StrOf(t), c.str) /\ IsPrefix(SetOf(t), c.set)
    /\ c.stage = "committed" /\ ~cut => StrOf(t) = c.str /\ SetOf(t) = c.set
    /\ c.stage \in {"none", "begin", "open", "rolledback"} =>
         StrOf(t) = <<>> /\ SetOf(t) = <<>>

(* A key that nobody is writing has in the index the entry that Open would *)
(* find: memory and log agree on the order of the writes.  Not so for a    *)
(* key that two threads wrote at a time since the process started.         *)
IndexIsReplayUnlessRaced ==
  up = "open" =>
    \A k \in Keys : ~InFlight(k) /\ k \notin raced => strIdx[k] = LastOf(strLog, k)

(* While a transaction holds db.mu for reading, the strings and the set    *)
(* change only by a plain Set or by a transaction that was begun for       *)
(* reading and writes all the same, never by one begun for writing.        *)
ReadersSeeNoCommit ==
  [][/\ \E t \in Threads : Running(t) /\ tx[t].type = "RTX"
     /\ up' = "open"
     /\ strIdx' # strIdx \/ setIdx'.members # setIdx.members
     => \/ plain' # plain
        \/ \E u \in Threads : tx[u].type = "RTX" /\ tx'[u] # tx[u]]_vars
=============================================================================
