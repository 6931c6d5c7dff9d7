------------------------------ MODULE ListStore ------------------------------
(***************************************************************************)
(* LazyDB's lists (list.go).  A list is a tree that holds its values under *)
(* sequence numbers, with the two numbers just outside the list, headSeq   *)
(* and tailSeq, kept in the tree as well.  Sequence numbers are unsigned   *)
(* and wrap round; values that were popped stay in the tree.               *)
(*                                                                         *)
(* Every command holds listIndex.mu for its whole body, so each is one     *)
(* step.  Lists never send discards, so their log files never become       *)
(* candidates for Merge and what a tree node points at stays readable: the *)
(* tree is modelled as holding the values themselves.  Open does not read  *)
(* lists back, so a list lives as long as the process.                     *)
(***************************************************************************)
EXTENDS Integers, Sequences

CONSTANTS
  Keys, Values, NoItem,
  SeqSpace,   \* how many sequence numbers there are (2^32 in the code)
  Batches,    \* the argument lists given to the push commands
  MaxLen      \* bound: no list grows beyond this

ASSUME SeqAssumption == SeqSpace \in Nat /\ SeqSpace > 2
ASSUME LenAssumption == MaxLen \in Nat /\ MaxLen < SeqSpace
ASSUME BatchAssumption == Batches \subseteq Seq(Values) \ {<<>>}

VARIABLES trees,   \* listIndex.trees; NoItem: no tree
          ret      \* what the last pop or move returned

vars == <<trees, ret>>

Seqs == 0 .. SeqSpace - 1
InitialListSeq == (SeqSpace - 1) \div 2

Tree == [headSeq : Seqs, tailSeq : Seqs, items : [Seqs -> Values \cup {NoItem}]]

ASSUME ItemAssumption == NoItem \notin Values \cup Tree

TypeOK ==
  /\ trees \in [Keys -> Tree \cup {NoItem}]
  /\ ret \in Values \cup {NoItem}

Init == trees = [k \in Keys |-> NoItem] /\ ret = NoItem

(* A tree without meta data reads as one with the initial numbers.         *)
NewTree ==
  [headSeq |-> InitialListSeq, tailSeq |-> InitialListSeq + 1,
   items |-> [s \in Seqs |-> NoItem]]

TreeOf(ts, k) == IF ts[k] = NoItem THEN NewTree ELSE ts[k]

LLen(t) == (t.tailSeq - t.headSeq - 1) % SeqSpace

-----------------------------------------------------------------------------
(* A mutant: sequence numbers below zero and beyond the largest.           *)
pushWithoutWrap(t, v, isLeft) ==
  IF isLeft
  THEN [t EXCEPT !.items[t.headSeq] = v, !.headSeq = @ - 1]
  ELSE [t EXCEPT !.items[t.tailSeq] = v, !.tailSeq = @ + 1]

push(t, v, isLeft) ==
  IF isLeft
  THEN [t EXCEPT !.items[t.headSeq] = v, !.headSeq = (@ - 1) % SeqSpace]
  ELSE [t EXCEPT !.items[t.tailSeq] = v, !.tailSeq = (@ + 1) % SeqSpace]

(* One push after the other.                                               *)
PushAll(t, vs, isLeft) ==
  LET after[n \in 0 .. Len(vs)] ==
        IF n = 0 THEN t ELSE push(after[n - 1], vs[n], isLeft)
  IN  after[Len(vs)]

(* A mutant: the wrong neighbour of headSeq and tailSeq is read.           *)
TopOffByOne(t, isLeft) == IF isLeft THEN t.headSeq ELSE t.tailSeq

Top(t, isLeft) ==
  (IF isLeft THEN t.headSeq + 1 ELSE t.tailSeq - 1) % SeqSpace

(* The tree after a pop; an emptied list loses its tree.                   *)
Popped(t, isLeft) ==
  IF LLen(t) = 1 THEN NoItem
  ELSE IF isLeft THEN [t EXCEPT !.headSeq = Top(t, isLeft)]
  ELSE [t EXCEPT !.tailSeq = Top(t, isLeft)]

Room(t, n) == LLen(t) + n <= MaxLen

LPush(k, vs) ==
  /\ Room(TreeOf(trees, k), Len(vs))
  /\ trees' = [trees EXCEPT ![k] = PushAll(TreeOf(trees, k), vs, TRUE)]
  /\ UNCHANGED ret

RPush(k, vs) ==
  /\ Room(TreeOf(trees, k), Len(vs))
  /\ trees' = [trees EXCEPT ![k] = PushAll(TreeOf(trees, k), vs, FALSE)]
  /\ UNCHANGED ret

LPushX(k, vs) == trees[k] # NoItem /\ LPush(k, vs)
RPushX(k, vs) == trees[k] # NoItem /\ RPush(k, vs)

(* LPop and RPop.                                                          *)
pop(k, isLeft) ==
  IF trees[k] = NoItem
  THEN ret' = NoItem /\ UNCHANGED trees
  ELSE /\ ret' = trees[k].items[Top(trees[k], isLeft)]
       /\ trees' = [trees EXCEPT ![k] = Popped(@, isLeft)]

(* With nothing to move the call has no effect.                            *)
LMove(src, dst, fromLeft, toLeft) ==
  /\ trees[src] # NoItem
  /\ LET v == trees[src].items[Top(trees[src], fromLeft)]
         ts == [trees EXCEPT ![src] = Popped(@, fromLeft)]
     IN  /\ Room(TreeOf(ts, dst), 1)
         /\ ret' = v
         /\ trees' = [ts EXCEPT ![dst] = push(TreeOf(ts, dst), v, toLeft)]

-----------------------------------------------------------------------------
(* A position counts from the head, or backwards from the tail if negative. *)
lSequence(t, i) ==
  (IF i >= 0 THEN t.headSeq + i + 1 ELSE t.tailSeq + i) % SeqSpace

(* A mutant: tailSeq itself counts as a position of the list.              *)
WrongIndexOffByOne(t, s) == s <= t.headSeq \/ s > t.tailSeq

WrongIndex(t, s) == s <= t.headSeq \/ s >= t.tailSeq

LSet(k, i, v) ==
  /\ trees[k] # NoItem
  /\ ~WrongIndex(trees[k], lSequence(trees[k], i))
  /\ trees' = [trees EXCEPT ![k].items[lSequence(trees[k], i)] = v]
  /\ UNCHANGED ret

LIndex(t, i) ==
  IF WrongIndex(t, lSequence(t, i)) THEN NoItem ELSE t.items[lSequence(t, i)]

(* A mutant: the range is not cut off at the tail.                         *)
LRangeNotCut(t, start, stop) ==
  LET from == lSequence(t, start)
      to == lSequence(t, stop)
  IN  IF from > to \/ from >= t.tailSeq \/ to <= t.headSeq
      THEN <<>>
      ELSE SubSeq([n \in 1 .. SeqSpace |-> t.items[n - 1]],
                  (IF from <= t.headSeq THEN t.headSeq + 1 ELSE from) + 1, to + 1)

(* LRange, with the empty sequence for ErrWrongIndex.                      *)
LRange(t, start, stop) ==
  LET from == lSequence(t, start)
      to == lSequence(t, stop)
      first == IF from <= t.headSeq THEN t.headSeq + 1 ELSE from
      last == IF to >= t.tailSeq THEN t.tailSeq - 1 ELSE to
  IN  IF from > to \/ from >= t.tailSeq \/ to <= t.headSeq
      THEN <<>>
      ELSE [n \in 1 .. last - first + 1 |-> t.items[first + n - 1]]

-----------------------------------------------------------------------------
Positions == - SeqSpace .. SeqSpace - 1

Next ==
  \/ \E k \in Keys, vs \in Batches :
       LPush(k, vs) \/ RPush(k, vs) \/ LPushX(k, vs) \/ RPushX(k, vs)
  \/ \E k \in Keys, isLeft \in BOOLEAN : pop(k, isLeft)
  \/ \E src, dst \in Keys, fromLeft, toLeft \in BOOLEAN :
       LMove(src, dst, fromLeft, toLeft)
  \/ \E k \in Keys, i \in Positions, v \in Values : LSet(k, i, v)

Spec == Init /\ [][Next]_vars

-----------------------------------------------------------------------------
(* Properties.                                                             *)

Content(t) ==
  IF t = NoItem THEN <<>>
  ELSE [n \in 1 .. LLen(t) |-> t.items[(t.headSeq + n) % SeqSpace]]

D == INSTANCE Deque WITH lists <- [k \in Keys |-> Content(trees[k])]

(* Pushing, popping, moving and assigning, and the values returned, are    *)
(* those of a double-ended queue, even while the sequence numbers wrap     *)
(* round and over the values earlier pops left in the tree.                *)
ImplementsDeque == D!Spec

(* The element of s at position i, counted as LIndex counts.               *)
ElementAt(s, i) ==
  LET n == IF i >= 0 THEN i + 1 ELSE Len(s) + i + 1
  IN  IF n \in DOMAIN s THEN s[n] ELSE NoItem

Unwrapped(t) == t.headSeq < t.tailSeq

(* LIndex finds every element of a list and nothing else, at every         *)
(* position that fits a sequence number, as long as the numbers of the     *)
(* list have not wrapped round.  Once they have, WrongIndex refuses        *)
(* positions the list has.                                                 *)
LIndexRightUnlessWrapped ==
  \A k \in Keys : trees[k] # NoItem /\ Unwrapped(trees[k]) =>
    \A i \in Positions : LIndex(trees[k], i) = ElementAt(Content(trees[k]), i)

(* LRange returns the elements between two positions, cut off at the ends  *)
(* of the list, as long as neither position leads beyond the last or the   *)
(* first sequence number.                                                  *)
LRangeRightUnlessWrapped ==
  \A k \in Keys : trees[k] # NoItem /\ Unwrapped(trees[k]) =>
    LET t == trees[k]
        s == Content(t)
        At(i) == IF i >= 0 THEN i + 1 ELSE Len(s) + i + 1
        Fits(i) == IF i >= 0 THEN t.headSeq + i + 1 < SeqSpace ELSE t.tailSeq + i >= 0
    IN  \A start, stop \in {i \in Positions : Fits(i)} :
          LRange(t, start, stop) =
            SubSeq(s, IF At(start) < 1 THEN 1 ELSE At(start),
                      IF At(stop) > Len(s) THEN Len(s) ELSE At(stop))

-----------------------------------------------------------------------------
(* Why that is so.  What lies between headSeq and tailSeq are values, and  *)
(* no list fills all the numbers there are.                                *)
ListOK(t) ==
  /\ t \in Tree /\ LLen(t) \in 0 .. MaxLen
  /\ \A n \in 1 .. LLen(t) : t.items[(t.headSeq + n) % SeqSpace] \in Values

(* A list that has a tree is not empty.                                    *)
ListInv ==
  /\ TypeOK
  /\ \A k \in Keys : trees[k] # NoItem => ListOK(trees[k]) /\ LLen(trees[k]) # 0
=============================================================================
