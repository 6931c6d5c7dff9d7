# A verification development for LazyDB

LazyDB is an embedded key-value store in the style of Bitcask: every change is
appended to log files, an index in memory says where each key's entry is, and a
garbage collector (`Merge`) rewrites what is still needed of a log file and
removes it.  This directory holds TLA+ models of it, the TLC configurations
that check them, and proofs checked by TLAPS.

## The system

| Part | State | Operations | What makes it hard |
|---|---|---|---|
| Log files (`logfile/`, `db.go`) | files on disk, the active one, its write offset, the archived ones | `writeLogEntry`, `readLogEntry`, `buildLogFiles` | rolling over to a new file, end of file, crashes between steps |
| String store (`str.go`, `index.go`) | radix tree from keys to positions | `Set`, `SetEX`, `SetNX`, `Append`, `Incr`..., `Delete`, `GetDel`, `Get`, `Expire`, `Persist`, replay by `Open` | index and log must agree, before and after a restart; expiry |
| Discard file (`discard.go`) | per log file the bytes no longer needed; slots; a channel and its listener | `setTotal`, `incrDiscard`, `clear`, `getCCL` | asynchronous counting, slots running out, reuse of slots |
| Garbage collection (`db.go`) | the file being merged and how far it is read | `Merge`, `mergeStr` and its sisters | runs beside commands, moves entries, deletes files |
| Lists (`list.go`) | a tree of values under 32-bit sequence numbers, `headSeq`, `tailSeq` | pushes, pops, `LSet`, `LIndex`, `LRange`, `LMove` | numbers wrap round; popped values stay in the tree |
| Hashes, sets (`hash.go`, `set.go`) | trees per key | `HSet`..., `SAdd`... | what is discarded, what `Merge` finds, recovery; a hash state shared by readers |
| Sorted sets (`zset.go`) | a tree and a skip list per key | `ZAdd`, `ZRem`, `ZPopMax`... | locks released and leaked, two indexes in step |
| Transactions (`tx.go`) | pending entries, a global lock | `Begin`, `Commit`, `Rollback` | five goroutines, partial commits |
| Concurrent map, radix tree (`ds/`) | shards with locks; trees | | locks left to the caller |
| File access (`iocontroller/`, `mmap/`) | | read, write, sync | what a power failure loses |

Correctness, part by part: a lookup returns the last value written, also across
restarts and while `Merge` runs; `Merge` changes nothing a reader sees and
removes no entry that is needed; the discard counts are the real amounts of
garbage; slots of the discard file are neither lost nor handed out twice; a
list is a double-ended queue; a transaction happens as a whole; nobody waits
for ever for a lock.

`PROJECT.json` lists the components with what is modelled of each, the hazards
with their source lines and the properties that cover them, and for every
definition the lines it translates.

## Modules

* `KVStore` is the promise of the string store: a map from keys to values with
  an optional expiry second.  Commands replace or remove one key's value; a
  step of garbage collection may drop values whose second has come and no
  others; stopping and reopening change nothing.  `gc` (mapped to `merge`) and
  `up` tell these steps apart, so that a value lost by `Merge` or by a restart
  cannot pass for a delete.
* `Discard` is the discard file as a record and one operator per method, which
  maps a state to the set of states the method may leave.  The set is empty
  when the method runs out of slots and ends the process.  Which free slot is
  taken does not matter to any caller, so the free list is a set.
* `StrStore` composes log files, index, discard file, channel and `Merge`.  The
  log is a set of entries with their positions (file, offset); an entry's bytes
  are abstracted to its size.  One action per command and per step of `Merge`:
  read and skip an entry, read and rewrite it, remove the file, clear its
  discard record.  A string command holds `strIndex.mu` throughout, and the
  rewrite of one entry holds the same lock, so these are the units that
  interleave.  `Stop` is `Close` or the end of the process at any moment; what
  was written stays.  `Open` replays the log: the last readable entry of each
  key decides, expiry is not restored, the write offset is the end of the scan.
  The places where the code calls `log.Fatalf` (a full channel, no slot) take
  the store down in the state it is then in.
* `StrStoreInv` holds the inductive invariants, apart from the proofs, so that
  TLC can check them.
* `DiscardProofs` proves what the discard operators keep, `StrStoreProofs` the
  theorems on types, slots and the order of the log, `StrStoreGetProofs` the one
  on lookups; `NatOrder` has two facts about least and greatest numbers they
  use.
* `RWMutex` is Go's `sync.RWMutex`, which is not part of the repository: a
  writer that waits keeps new readers out, and lets the ones that came meanwhile
  in when it is done.  A lock is a record and each call an operator on it.
* `StrThreads` cuts string commands and `Merge` where another thread can come
  in: at `strIndex.mu`, between the steps of a lookup (node, file, entry), in
  `getActiveLogFile`, which `Merge` calls without a lock, and inside `mergeStr`,
  which writes the log and the index under the lock for reading.  Open files are
  handles with an offset of their own, so that a file opened twice is written
  over.  Time, crashes and the discard file stay with `StrStore`.
* `FieldThreads` extends it to the fields of a hash and the members of a sorted
  set, whose logs, locks and `Merge`s work alike.  `HGetAll` reads one entry after
  the other under one read lock, which keeps writers out but not `Merge`; `ZAdd`
  and `ZRem` write their entry and then look up the old score; `ZIncrBy` reads the
  score under one lock and writes under another.
* `ZSetStore` is `zset.go` in several threads: one key, its members in a tree and
  in a skip list.  A command is a series of stages, each asking for
  `zSetIndex.mu` in a step of its own; the pops and `ZIncrBy` let go of it
  between looking and writing.  What the skip list does with two nodes of which
  neither is `Less` is left open.
* `TxStore` is `tx.go`: transactions in threads of their own under `db.mu`, the
  goroutines of `Commit` (those for strings and for sets have something to do,
  since a transaction has only `Set` and `SAdd`), plain `Set`s beside them,
  `Sync`, `Close`, crashes, and power failures that cut off what was not synced.
* `Collections` extends `StrStore`: a hash, a set or a sorted set in its log, with
  `Keys` for its fields or members.  The three types share the log, the discard
  file and `Merge`, and differ in what their commands write and discard, in
  how `Merge` finds the collection's tree, and in what `Open` makes of the log.
  `mergeSet` decodes keys that were never encoded: it panics or, where the bytes
  happen to spell the key of another set (`alias`), looks the member up there.
* `Deque` is the promise of the lists, `ListStore` models `list.go` on sequence
  numbers modulo `SeqSpace` (2^32 in the code).
* `StrValue` is the value of one string as the commands that compute with it see
  it: `Incr` and its sisters on integers from `-Half` to `Half - 1` (2^63 in the code),
  `Append`, `StrLen`, `GetRange`.
* `MCStrStore`, `MCZSetStore`, `MCTxStore`, `MCCollections` and `MCValues` give
  the constants their values for TLC.  `MCStrStoreRuns` adds to the first whether
  this is still the first run of the process.

How they fit together: `StrStore` is about what survives, `StrThreads` about what
threads see, of the same code.  `StrStore` may take a command and one entry of a
merge for single steps because of what `StrThreads` checks under
`OnlyWritesChangeValues`: a step of `Merge` never changes a key's value.  Its two
limits, several `Merge`s at a time and the first file opened twice, are limits of
`StrStore` too, which has one `Merge` at a time.  `FieldThreads` says the same of
fields and members, so that `Collections` may take a command for one step; with
`WrittenIsIndexed` it also shows that the error path of `ZAdd` and `ZRem`, which
`Collections` has, is not one that `Merge` sends them down.  `ZSetStore` leaves the
log to `Collections`, which leaves the order of members to `ZSetStore`.

## Runs

Passing:

| Run | Shows |
|---|---|
| `str_gc` | `Merge` on any candidate, crashes anywhere, slots running out: reads never fail, `Merge` is invisible, slots are kept in order; the invariants of the proofs hold |
| `str_oldest` | if `Merge` is always given the oldest file, the log implements `KVStore` through crashes, restarts and expiry; until the first restart the discard counts are exact and a read fails only in the second its key expires |
| `threads` | strings, a hash or a sorted set beside `Merge`: the index leads to a live entry at every step; a lookup reads the value of the moment, or fails because `Merge` has moved the entry since; what `HGetAll` has read stays right until it returns; `ZAdd` and `ZRem` find the old score; a `ZIncrBy` nobody overtakes adds to the score, or to zero when `Merge` has moved the entry; only writes change values, and `Expire` and `Persist` only undo writes that overtook them; every call returns, `Merge` included |
| `zset` | tree and skip list in step; `ZRange` returns the members whose `ZRank` is in the range; pops and increments nobody overtakes are right; every command returns, but for two named ways to wait for ever |
| `transactions` | the logs hold all of a committed transaction, nothing of one rolled back, and of one interrupted a prefix per data type; index and replay agree on keys that were not written by two threads at a time; readers see no commit of a writing transaction |
| `collections` | in the first run of the process a collection holds what its log says and can be read, through every `Merge` of the oldest file; a step of `Merge` takes nothing out of the log that the index needs; garbage is not overcounted |
| `values` | lists refine `Deque`, also while numbers wrap round, `LIndex` and `LRange` agree with the sequence until they do; counters are exact or report the overflow; `GetRange` is a substring |

What the properties have to leave out is part of what they show.  TLC refutes
each of them without its exception, so these are things the code does:

* `str_oldest`: in the second a key expires `Merge` already drops its entry
  (`<=`) while `getValue` still follows the index to it (`<`).
* `threads`: a `Get`, or an `HGetAll` half way through its fields, fails when `Merge`
  moves an entry and removes the file in between; a `ZIncrBy` takes this failure
  for a member that is not there and overwrites its score with the increment.
  Two `Merge`s at a time lose entries even when their files differ:
  one has written its copy and not yet changed the index, the other takes the
  copy for dead and drops the file it is in.  On the same file one of them
  panics.  `Merge` beside the very first write opens the first file twice.
* `zset`: members of equal score and length are one to the skip list; a pop on an
  empty or missing set keeps the lock; `ZRank` takes the lock for reading twice
  and blocks if a writer asks in between; a start before the first member is a
  nil dereference.
* `transactions`: a crash in `Commit` leaves a part of the transaction, which `Open`
  reads back; a plain `Set` beside a `Commit` of the same key can leave index and
  log with different values; a transaction begun for reading can write.
* `collections`: a set whose key `Merge` takes for that of another loses live
  members from the log; a collection that is used again after a restart has a
  new, empty tree, and `Merge` drops from the log what is not in it.  That `Merge`
  panics on a set, and on a collection not used since the process started, is
  in the model and loses nothing.
* `values`: once sequence numbers have wrapped round `LIndex`, `LSet` and `LRange`
  refuse positions the list has; `DecrBy` of the smallest integer is wrong; an
  end of `GetRange` before the first byte is taken for the first byte.

Disagreements between the code and what its documents say, each a run that
TLC refutes (quoted in `PROJECT.json`):

* `str_any_order`: `Merge` drops deletes whose put is still in an older file; a
  restart brings the value back.  (This is why `str_oldest` restricts the
  caller; with `OldestFirst` the older put is always gone before its delete.)
* `str_short_entries`: an entry shorter than the 25-byte header read at the end
  of a file cannot be read back.
* `str_stale_discard`: a discard counted after its file was cleared takes a slot
  for as long as the process lives, and a later file inherits its count.
* `collections_reopen`: sets and sorted sets are in the log and not in memory
  after a restart, and `Open` panics on a hash with anything in its log.
* `zset_rev_range`: `ZRevRange` counts positions from the lowest score and reverses
  what lies between them, where its comment orders from the highest.

Bounds of the string store and the collections.  Entries take two units and a
file holds two, so that files roll over, are half garbage, and hold a mixture of
live and dead entries with three or four files.  Two keys are needed for a
delete and its put to end up in files that `Merge` treats differently; one value
suffices where only presence matters.  `UserFid` bounds the file users write to,
`MaxFid` leaves `Merge` room for its copies; at `MaxFid` a write is not enabled.
Two slots make the discard file run out; three were run as well.  The channel holds two
discards, the number one `Delete` sends: with fewer, every deletion of a key
that is there would take the process down.  `MaxTime` stops the clock after an
expiry has passed; in `str_gc` nothing expires, and time passes only in the first
log file (`ClockOfOneFile`).  `str_oldest` was also run on three user files without expiry.

Bounds of the threads.  Two threads are all it takes for each of the exceptions
above.  `threads` has one entry to a file, so that every write rolls over and
every file but the last can be merged, and counts a `Merge` for as many writes as
its file may hold.  Strings have five writes, fields and members four.  Either
two of them are by calls that run side by side from the first one on, or calls
come one after another until a `Merge` begins, and the last two (`Raced`) run
beside it.  Five is what it takes for two `Merge`s of one file to lose an entry;
two `Merge`s of different files need six, which was run for that.  For strings
two values with four writes, and two entries to a file with five and six writes,
were run as well, all calls side by side.  `zset` has two members, of equal or
different length, scores 0 and 1 and counts up to two; three members were run as
well.  No call begins after the first file has been opened twice (`threads`)
or two members have tied (`zset`), since the properties are then silent; those
under way go on.  `transactions` has two transactions that collect three entries
between them, one plain `Set`, and no transaction after the first end of the
process.

Bounds of the values.  Two lists share three values and four sequence numbers,
enough to wrap round in both directions; one list of four values on six numbers
was run for the positions.  Counters have four bits (`Half` is 8), which is all that the
overflow check and the negation can tell from 64; texts have up to three
letters.

Keys, values and slots are symmetric; the runs with liveness properties do
without symmetry.  Deadlock is not checked in `threads` and `zset`, where the
threads come to the end of their calls or to one of the exceptions; there
`CallsReturn` says more.

Fairness.  `FieldThreads` and `ZSetStore` assume weak fairness of each thread's
steps, and strong fairness of asking for the lock, since a Go mutex hands
itself to a waiter after a millisecond.  Nothing is assumed of users, who may
stop calling, the clock, or restarts.

## Proofs

For every number of keys, values, files, slots and every size (`Spec` of
`StrStore`, TLAPS):

* `TypeCorrect`: `[]TypeOK`.
* `LatestCorrect`: `[]IndexIsLatest`, assuming `EntriesFillHeader`.
* `GetCorrect`: `[]GetNeverFails`, assuming `EntriesFillHeader` and that
  nothing expires.
* `SlotsCorrect`: `[]SlotsOK`.

The two assumptions are necessary: `str_short_entries` refutes the third
without the first, and `GetFailsOnlyAtExpiry` names the second in which a
lookup of an expiring key fails.

The argument.  `IndexIsLatest` is not inductive: a write must know that it goes
behind everything in the log, and a replay that it sees everything.  `OrderInv`
adds that entries lie inside existing files and do not overlap, that the active
file is the newest and the write offset lies behind its entries, and that
`Merge` works on an archived file.  From it follows that a new entry comes after
all others (`WriteOrder`), hence that pointing the index at it is right, and
that `Open`, which reads all entries when none is shorter than the header
(`AllReadable`), finds the last of each key.

`GetNeverFails` needs, beyond that, `StoreInv`: every index entry leads to a put
of its key (`ResolvesCore`), and what the index needs of the file being merged
lies at or behind the offset `Merge` has reached (`MergeCore`).  `PastEntry` is
the heart: entries do not overlap, so when `Merge` passes an entry that the
index does not need, whatever the index needs of that file starts behind it.
When nothing is left to read, the index needs nothing of the file and it can go.
Writes never disturb this, because they go to the active file, never to the one
being merged.

`SlotsOK` needs `DiscardInv`: what a slot says on disk agrees with the table in
memory.  Without it nothing would be known of the tables a restart rebuilds.

Only model-checked: refinement of `KVStore` and `Deque`, `ReopenKeepsValues`,
`MergeIsInvisible`, the exactness of the counts, everything about threads, sorted
sets, transactions, collections, lists and counters, and liveness, which is out
of the prover's reach.

## Not modelled

* Entries larger than a log file (`SizeAssumption`).  `writeLogEntry` does not
  refuse them: they go to a file of their own that is larger than allowed.
* The end of the process between the creation of a log file and the first write
  to it, but for the case that no slot is left for the file.  `str_gc`, `str_oldest`
  and `collections` were also run with it at every roll-over, without an error,
  but this makes them three to five times as large.
* `Merge` and power failure.  `Merge` removes a file without having synced the
  copies.  A model of it would keep for every file what is synced, in `StrStore`,
  whose invariants and proofs rest on a log that keeps what was written.
* The hash state that `SIsMember` and its sisters share under the lock for
  reading: a data race inside a library, after which any answer is possible.
* The race detector's view of the radix tree: a lookup beside a write finds the
  old node or the new one.
* System calls that fail, memory mapping, torn writes, the byte encoding and
  checksum of entries, and the libraries for radix trees, skip lists and hashes.
* `GetStrsKeys`, `PrefixScan` and `TTL`, which only read; `MSet` and `MSetNX` appear
  as their single writes.
* Numbers beyond 32 bits: `uint32(index)` in `lSequence` cuts positions of lists
  down, and `uint32(MaxLogFileSize)` is zero for files of 4 GiB, which are then
  never collected.  Positions and sizes are bounded below that.
* `mergeList`, which never runs, because lists send no discards.

Next: proofs of `MergeIsInvisible`, of `ReopenKeepsValues` and the refinement of
`KVStore` for a caller that merges the oldest file first, and of
`ReadersSeeNoCommit` and `IndexResolves` for any number of threads.
