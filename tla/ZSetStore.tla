------------------------------ MODULE ZSetStore ------------------------------
(***************************************************************************)
(* LazyDB's sorted sets (zset.go) used by several threads: one key, whose  *)
(* members are held twice, in a radix tree that leads to their scores and  *)
(* in a skip list ordered by Node.Less.  All commands share zSetIndex.mu.  *)
(*                                                                         *)
(* A command is a series of stages.  A stage asks for the lock in a step   *)
(* of its own; what the code does from there until it lets go of the lock  *)
(* is one step, since nobody else can then write.  ZIncrBy and the pops    *)
(* let go of the lock between looking and writing.                         *)
(*                                                                         *)
(* The skip list is a library.  It tells nodes apart by Less alone, so     *)
(* what it does among nodes of equal score and length is left open.        *)
(* Scores are read from the log; StrStore and Collections are about that.  *)
(***************************************************************************)
EXTENDS Integers, Sequences, SequencesExt, RWMutex

CONSTANTS
  Members,           \* the members
  Lengths,           \* how long they may be: functions on Members
  MaxScore,          \* bound: scores are 0 .. MaxScore
  MaxCount,          \* bound: the counts given to the pops
  Batches            \* what ZAdd is given: sequences of nodes

VARIABLES
  length, \* how long they are
  zset,   \* zSetIndex.indexes of the key
  mu,     \* zSetIndex.mu
  call    \* what each thread is doing

steps == <<zset, mu, call>>
vars == <<length, steps>>

NoScore == -1
Scores == 0 .. MaxScore
Node == [score : Scores, member : Members]
Increments == {-1, 1}

ASSUME LengthAssumption == Lengths \subseteq [Members -> Nat]
ASSUME BatchAssumption == Batches \subseteq Seq(Node) \ {<<>>}

MaxPops == {"ZPopMax", "ZPopMaxWithCount"}
CountPops == {"ZPopMaxWithCount", "ZPopMinWithCount"}
Pops == {"ZPopMax", "ZPopMin"} \cup CountPops
Ops == {"ZAdd", "ZRem", "ZScore", "ZRank", "ZIncrBy"} \cup Pops

(* The stages that lock for writing and for reading; "rank" and "idle" do  *)
(* not ask for the lock.                                                   *)
WriteStages == {"ZAdd", "ZRem", "count", "pick"}
ReadStages == {"ZRank", "ZScore"}

(* left: pops still to do; got: the nodes popped so far.  fresh, a history *)
(* variable: nobody else has written since the command first looked.       *)
Calls ==
  [op : Ops \cup {"none"},
   stage : WriteStages \cup ReadStages \cup {"rank", "idle"},
   asked : BOOLEAN, member : Members \cup {Nobody}, score : Scores,
   left : 0 .. MaxCount, got : Seq(Node), fresh : BOOLEAN]

Idle ==
  [op |-> "none", stage |-> "idle", asked |-> FALSE, member |-> Nobody,
   score |-> 0, left |-> 0, got |-> <<>>, fresh |-> FALSE]

(* tied, a history variable: two members of equal length have had the same *)
(* score.                                                                  *)
ZSetIndex ==
  [exists : BOOLEAN, tree : [Members -> Scores \cup {NoScore}],
   skl : Seq(Node), tied : BOOLEAN]

(* Sorted sets are typed, their lock is one, and every thread is somewhere *)
(* in a command.                                                           *)
TypeOK ==
  /\ length \in Lengths
  /\ zset \in ZSetIndex
  /\ mu \in Mutex
  /\ call \in [Threads -> Calls]

Init ==
  /\ length \in Lengths
  /\ zset = [exists |-> FALSE, tree |-> [m \in Members |-> NoScore],
             skl |-> <<>>, tied |-> FALSE]
  /\ mu = Unlocked
  /\ call = [t \in Threads |-> Idle]

-----------------------------------------------------------------------------
Less(n, o) ==
  \/ n.score < o.score
  \/ n.score = o.score /\ length[n.member] < length[o.member]

Alike(n, o) == ~Less(n, o) /\ ~Less(o, n)

sklInsert(s, n) ==
  {InsertAt(s, p, n) :
     p \in {q \in 1 .. Len(s) + 1 :
              /\ \A i \in 1 .. q - 1 : ~Less(n, s[i])
              /\ \A i \in q .. Len(s) : ~Less(s[i], n)}}

sklDelete(s, n) ==
  LET found == {i \in DOMAIN s : Alike(s[i], n)} IN
  IF found = {} THEN {s} ELSE {RemoveAt(s, i) : i \in found}

GetRank(s, n) == {i \in DOMAIN s : Alike(s[i], n)}

(* What ZRank and ZRevRank return for a node: both count from zero, the    *)
(* one from the lowest score, the other from the highest.                  *)
RankFromLowest(s, n) == {r - 1 : r \in GetRank(s, n)}
RankFromHighest(s, n) == {Len(s) - r : r \in GetRank(s, n)}

Has(z, m) == z.tree[m] # NoScore
NodeOf(z, m) == [score |-> z.tree[m], member |-> m]

Ties(tree) ==
  \E m, n \in Members : /\ m # n
                        /\ tree[m] # NoScore
                        /\ tree[m] = tree[n]
                        /\ length[m] = length[n]

-----------------------------------------------------------------------------
(* A mutant: the old node stays in the skip list.                          *)
AddWithoutDelete(z, n) ==
  LET tree == [z.tree EXCEPT ![n.member] = n.score] IN
  {[exists |-> TRUE, tree |-> tree, skl |-> s, tied |-> z.tied \/ Ties(tree)] :
     s \in sklInsert(z.skl, n)}

(* One round of ZAdd's loop: the sorted sets it may leave.                 *)
Add(z, n) ==
  LET tree == [z.tree EXCEPT ![n.member] = n.score]
      old  == IF Has(z, n.member) THEN sklDelete(z.skl, NodeOf(z, n.member))
              ELSE {z.skl}
  IN  {[exists |-> TRUE, tree |-> tree, skl |-> s, tied |-> z.tied \/ Ties(tree)] :
         s \in UNION {sklInsert(o, n) : o \in old}}

AddAll(z, ns) ==
  FoldLeft(LAMBDA zs, n : UNION {Add(y, n) : y \in zs}, {z}, ns)

(* One round of ZRem's loop.                                               *)
Rem(z, m) ==
  IF ~Has(z, m) THEN {z}
  ELSE {[z EXCEPT !.tree[m] = NoScore, !.skl = s] :
          s \in sklDelete(z.skl, NodeOf(z, m))}

RemAll(z, ms) ==
  FoldLeft(LAMBDA zs, m : UNION {Rem(y, m) : y \in zs}, {z}, SetToSeq(ms))

-----------------------------------------------------------------------------
(* ZRange takes the nodes from rank start to rank stop, both counted from  *)
(* zero, from the end if negative.  From(n, p) and To(n, p) are the ranks  *)
(* it ends up with in a list of n nodes, counted from one.                 *)
From(n, p) == (IF p < 0 THEN p + n ELSE p) + 1

(* A mutant: stop is not cut to the length.                                *)
ToUncut(n, p) == From(n, p)

To(n, p) == LET r == From(n, p) IN IF r < n THEN r ELSE n

(* There is no element at the rank where the loop starts, or the loop runs *)
(* off the list: the code uses a nil element.                              *)
RangePanics(s, start, stop) ==
  LET a == From(Len(s), start)  b == To(Len(s), stop) IN
  a <= b /\ (a < 1 \/ b > Len(s))

ZRange(s, start, stop) == SubSeq(s, From(Len(s), start), To(Len(s), stop))

(* From the element at rank stop, counted from the lowest score as for     *)
(* ZRange, towards the front.                                              *)
ZRevRange(s, start, stop) ==
  LET a == From(Len(s), start)  b == To(Len(s), stop) IN
  [i \in 1 .. (IF a <= b THEN b - a + 1 ELSE 0) |-> s[b - i + 1]]

-----------------------------------------------------------------------------
(* The stage a command begins with.                                        *)
FirstStage(op) ==
  CASE op \in {"ZAdd", "ZRem", "ZScore", "ZRank"} -> op
    [] op = "ZIncrBy" -> "ZScore"
    [] op \in CountPops -> "count"
    [] op \in Pops \ CountPops -> "pick"

(* Bound: none begins after a tie, when the safety properties are silent.  *)
Call(t) ==
  /\ call[t].stage = "idle" /\ ~zset.tied
  /\ \E op \in Ops :
       call' = [call EXCEPT ![t].op = op, ![t].stage = FirstStage(op)]
  /\ UNCHANGED <<zset, mu>>

(* The stage's Lock or RLock.                                              *)
Ask(t) ==
  /\ ~call[t].asked
  /\ \/ call[t].stage \in WriteStages /\ Free(mu) /\ mu' = Lock(mu, t)
     \/ call[t].stage \in ReadStages /\ mu' = RLock(mu, t)
  /\ call' = [call EXCEPT ![t].asked = TRUE]
  /\ UNCHANGED zset

(* t has the lock its stage asked for.                                     *)
In(t, stage) ==
  call[t].stage = stage /\ call[t].asked /\ ~Waits(mu, t)

Move(t, c) == call' = [call EXCEPT ![t] = c]

Goto(t, stage) == [call[t] EXCEPT !.stage = stage, !.asked = FALSE]

(* t writes z and goes on as c.                                            *)
Write(t, z, c) ==
  /\ zset' = z
  /\ call' = [u \in Threads |->
               IF u = t THEN c
               ELSE [call[u] EXCEPT !.fresh = @ /\ z = zset]]

ZAdd(t) ==
  /\ In(t, "ZAdd")
  /\ \E ns \in IF call[t].op = "ZAdd" THEN Batches
               ELSE {<<n>> : n \in {o \in Node :
                        /\ o.member = call[t].member
                        /\ o.score - call[t].score \in Increments}} :
       \E z \in AddAll(zset, ns) : Write(t, z, Idle)
  /\ mu' = Unlock(mu)

(* After a pop's ZRem: the next pop, or the command returns.               *)
AfterPop(c) ==
  IF c.left > 1 THEN [c EXCEPT !.stage = "pick", !.asked = FALSE, !.left = @ - 1]
  ELSE Idle

ZRem(t) ==
  /\ In(t, "ZRem")
  /\ IF call[t].op = "ZRem"
     THEN \E ms \in SUBSET Members : \E z \in RemAll(zset, ms) : Write(t, z, Idle)
     ELSE \E z \in Rem(zset, call[t].member) :
            Write(t, z, AfterPop([call[t] EXCEPT
              !.got = Append(@, [score |-> call[t].score, member |-> call[t].member])]))
  /\ mu' = Unlock(mu)

(* A mutant: the score is read without the lock.                           *)
ZRankUnlocked(t) ==
  /\ In(t, "ZRank")
  /\ Move(t, Goto(t, "ZScore"))
  /\ mu' = RUnlock(mu, t)
  /\ UNCHANGED zset

(* ZRank and ZRevRank keep the lock for reading while they call ZScore.    *)
ZRank(t) ==
  /\ In(t, "ZRank")
  /\ Move(t, Goto(t, "ZScore"))
  /\ UNCHANGED <<mu, zset>>

(* A mutant: the rank command keeps its own hold.                          *)
DeferredOnce(m, t) == RUnlock(m, t)

(* ZScore fails and ZRank with it: both let go.                            *)
Deferred(m, t) == RUnlock(RUnlock(m, t), t)

(* ZScore, and what its caller does with its answer; also the read of any  *)
(* command that only reads.                                                *)
ZScore(t) ==
  /\ In(t, "ZScore")
  /\ \/ call[t].op = "ZScore" /\ Move(t, Idle) /\ mu' = RUnlock(mu, t)
     \/ \E m \in Members :
          \/ /\ call[t].op = "ZIncrBy"
             /\ Move(t, [Goto(t, "ZAdd") EXCEPT
                          !.member = m, !.fresh = TRUE,
                          !.score = IF Has(zset, m) THEN zset.tree[m] ELSE 0])
             /\ mu' = RUnlock(mu, t)
          \/ /\ call[t].op = "ZRank" /\ Has(zset, m)
             /\ Move(t, [Goto(t, "rank") EXCEPT
                          !.member = m, !.score = zset.tree[m]])
             /\ mu' = RUnlock(mu, t)
          \/ /\ call[t].op = "ZRank" /\ ~Has(zset, m)
             /\ Move(t, Idle)
             /\ mu' = Deferred(mu, t)
  /\ UNCHANGED zset

(* GetRank, and ZRank returns.                                             *)
Rank(t) ==
  /\ call[t].stage = "rank"
  /\ Move(t, Idle)
  /\ mu' = RUnlock(mu, t)
  /\ UNCHANGED zset

(* ZPopMaxWithCount and ZPopMinWithCount cut count to the set's size; they *)
(* keep the lock when there is no such key.                                *)
Count(t) ==
  /\ In(t, "count")
  /\ IF ~zset.exists
     THEN Move(t, Idle) /\ UNCHANGED mu
     ELSE /\ \E count \in 0 .. MaxCount :
               LET n == IF count < Len(zset.skl) THEN count ELSE Len(zset.skl) IN
               Move(t, IF n = 0 THEN Idle
                       ELSE [Goto(t, "pick") EXCEPT !.left = n, !.fresh = TRUE])
          /\ mu' = Unlock(mu)
  /\ UNCHANGED zset

(* A mutant: the pops take the other end.                                  *)
PickedOtherEnd(op, s) == IF op \in MaxPops THEN s[1] ELSE s[Len(s)]

Picked(op, s) == IF op \in MaxPops THEN s[Len(s)] ELSE s[1]

(* ZPopMax and ZPopMin choose a node; they keep the lock when there is     *)
(* none, and within a counted pop the next one then waits for ever.        *)
Pick(t) ==
  /\ In(t, "pick")
  /\ IF zset.skl = <<>>
     THEN Move(t, AfterPop(call[t])) /\ UNCHANGED mu
     ELSE LET n == Picked(call[t].op, zset.skl) IN
          /\ Move(t, [Goto(t, "ZRem") EXCEPT
                       !.member = n.member, !.score = n.score,
                       !.fresh = @ \/ call[t].op \notin CountPops])
          /\ mu' = Unlock(mu)
  /\ UNCHANGED zset

Step(t) ==
  \/ Ask(t)
  \/ ZAdd(t)
  \/ ZRem(t)
  \/ ZRank(t)
  \/ ZScore(t)
  \/ Rank(t)
  \/ Count(t)
  \/ Pick(t)

Next == (\E t \in Threads : Call(t) \/ Step(t)) /\ UNCHANGED length

(* A thread goes on while it can, and a Lock is not passed over for ever:  *)
(* a Go mutex hands itself to whoever has waited for a millisecond.        *)
Fairness == \A t \in Threads : WF_steps(Step(t)) /\ SF_steps(Ask(t))

Spec == Init /\ [][Next]_vars /\ Fairness

-----------------------------------------------------------------------------
(* The skip list holds exactly the tree's members with their scores, in    *)
(* the order of Less, whatever threads add, remove and pop; unless members *)
(* of equal length ever had the same score, for then Delete may take the   *)
(* other one out.                                                          *)
IndexesInStep ==
  ~zset.tied =>
    /\ ToSet(zset.skl) = {NodeOf(zset, m) : m \in {n \in Members : Has(zset, n)}}
    /\ \A i, j \in DOMAIN zset.skl : i < j => Less(zset.skl[i], zset.skl[j])

(* When ZRank comes to look for a node it is there, although ZScore let go *)
(* of its own hold on the lock in between.                                 *)
RankFindsNode ==
  \A t \in Threads :
    call[t].stage = "rank" =>
      /\ zset.tree[call[t].member] = call[t].score
      /\ ~zset.tied => GetRank(zset.skl, NodeOf(zset, call[t].member)) # {}

(* A pop or an increment that nobody overtakes works on what it saw: the   *)
(* node a pop goes on to remove is the extreme one, those it returned were *)
(* more extreme still, and a counted pop does not come to an empty set,    *)
(* where it would keep the lock.                                           *)
UnovertakenIsRight ==
  \A t \in Threads :
    LET c == call[t]
        n == [score |-> c.score, member |-> c.member]
        Beats(x, o) == IF c.op \in MaxPops THEN Less(o, x) ELSE Less(x, o)
    IN  c.fresh /\ ~zset.tied =>
          /\ c.op = "ZIncrBy" =>
               c.score = IF Has(zset, c.member) THEN zset.tree[c.member] ELSE 0
          /\ c.op \in Pops =>
               /\ zset.skl # <<>> /\ c.left <= Len(zset.skl)
               /\ \A i, j \in DOMAIN c.got : i < j => Beats(c.got[i], c.got[j])
               /\ \A i \in DOMAIN c.got, j \in DOMAIN zset.skl :
                    Beats(c.got[i], zset.skl[j])
               /\ c.stage = "ZRem" =>
                    /\ n \in ToSet(zset.skl)
                    /\ \A o \in ToSet(zset.skl) \ {n} : Beats(n, o)

(* A range command has the lock for reading.                               *)
Ranging == \E t \in Threads : call[t].op = "ZScore" /\ In(t, "ZScore")

(* ZRange returns the members whose ZRank lies in the range asked for,     *)
(* counting from the end where it is negative; only a start before the     *)
(* first node is a nil dereference.                                        *)
RangeAgreesWithRank ==
  LET s == zset.skl  n == Len(s)
      Place(p) == IF p < 0 THEN n + p ELSE p
  IN  Ranging /\ ~zset.tied =>
        \A start, stop \in -n - 1 .. n + 1 :
          IF RangePanics(s, start, stop) THEN start < -n
          ELSE ToSet(ZRange(s, start, stop)) =
                 {m \in ToSet(s) : \A r \in RankFromLowest(s, m) :
                    Place(start) <= r /\ r <= Place(stop)}

(* ZRevRange returns the members whose ZRevRank lies in the range asked    *)
(* for: "The elements are considered to be ordered from the highest to the *)
(* lowest score", so the first is the one with the highest.                *)
RevRangeAgreesWithRevRank ==
  LET s == zset.skl  n == Len(s) IN
  Ranging /\ ~zset.tied =>
    \A start, stop \in 0 .. n - 1 :
      ToSet(ZRevRange(s, start, stop)) =
        {m \in ToSet(s) : \A r \in RankFromHighest(s, m) : start <= r /\ r <= stop}

(* A pop on an empty or missing set has returned with the lock held.       *)
LockLost ==
  \E t \in Threads :
    mu.writer = t /\ ~(call[t].asked /\ call[t].stage \in WriteStages)

(* A rank command waits for a writer that waits for it.                    *)
RankStuck == \E t \in Threads : t \in mu.queued /\ mu.readers[t] > 0

(* Every command returns, unless a pop lost the lock or a writer came      *)
(* between the two RLocks of a rank command: the only ways for threads to  *)
(* wait for ever.                                                          *)
CallsReturn ==
  \A t \in Threads :
    call[t].stage # "idle" ~> (call[t].stage = "idle" \/ LockLost \/ RankStuck)
=============================================================================
