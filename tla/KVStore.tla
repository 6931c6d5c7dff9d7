------------------------------- MODULE KVStore -------------------------------
(***************************************************************************)
(* What LazyDB promises its string users: a map from keys to values, each  *)
(* with an optional expiry second.  Writing a key replaces its value and   *)
(* its expiry, deleting it removes both, and nothing else changes what a   *)
(* key holds: not closing, not a crash, not reopening, and not garbage     *)
(* collection, except that it may drop values whose expiry second has      *)
(* come.                                                                   *)
(***************************************************************************)
EXTENDS Naturals

CONSTANTS Keys,      \* the string keys
          Values,    \* the values a user may store
          NoValue,   \* "the key holds nothing"
          Durations  \* the times to live a user may ask for, in seconds

VARIABLES kv,        \* what each key holds: a value and its expiry second
          now,       \* the wall clock, in seconds (time.Now().Unix())
          up,        \* the store is open
          gc         \* how far garbage collection is

kvVars == <<kv, now, up, gc>>

Absent == [val |-> NoValue, exp |-> 0]

Init ==
  /\ kv = [k \in Keys |-> Absent]
  /\ now = 1

(* A command: the key comes to hold something else.  It may be the last    *)
(* thing the process does (log.Fatalf once the log is written).            *)
Command(k, new) ==
  /\ up /\ up' \in BOOLEAN
  /\ UNCHANGED <<now, gc>>
  /\ kv' = [kv EXCEPT ![k] = new]

(* Set, SetEX, SetNX, Append, Incr, ...: the key now holds v until e       *)
(* (0: for ever).                                                          *)
Put(k, v, e) == Command(k, [val |-> v, exp |-> e])

(* Delete and GetDel.                                                      *)
Remove(k) == Command(k, Absent)

Lapsed(k) == kv[k].exp # 0 /\ kv[k].exp <= now

(* A step of garbage collection: values whose time has come may be         *)
(* dropped, any number at once, and no other.                              *)
Collect(S) ==
  /\ up /\ up' \in BOOLEAN /\ gc' # gc
  /\ \A k \in S : Lapsed(k)
  /\ kv' = [k \in Keys |-> IF k \in S THEN Absent ELSE kv[k]]
  /\ UNCHANGED now

(* Close, or the end of the process.                                       *)
Stop ==
  /\ up /\ ~up'
  /\ UNCHANGED <<kv, now, gc>>

(* Reopening; what garbage collection was doing is forgotten.              *)
Open ==
  /\ ~up /\ up'
  /\ UNCHANGED <<kv, now>>

Tick ==
  /\ now' = now + 1
  /\ UNCHANGED <<kv, up, gc>>

Next ==
  \/ Stop \/ Open \/ Tick
  \/ \E S \in SUBSET Keys : Collect(S)
  \/ \E k \in Keys : Remove(k)
  \/ \E k \in Keys, v \in Values, e \in {0} \cup {now + d : d \in Durations} :
       Put(k, v, e)

Spec == Init /\ [][Next]_kvVars
=============================================================================
