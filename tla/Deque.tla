-------------------------------- MODULE Deque --------------------------------
(***************************************************************************)
(* What LazyDB promises its list users: under each key a sequence of       *)
(* values that grows and shrinks at both ends.                             *)
(***************************************************************************)
EXTENDS Naturals, Sequences

CONSTANTS Keys, Values, NoItem,
          Batches   \* the argument lists a push may be given

VARIABLES lists,    \* the sequence under each key; empty: no such list
          ret       \* what the last pop or move gave its caller

dequeVars == <<lists, ret>>

Init == lists = [k \in Keys |-> <<>>] /\ ret = NoItem

(* Pushing several values on the left leaves the last one first.           *)
Backwards(s) == [i \in 1 .. Len(s) |-> s[Len(s) + 1 - i]]

Push(k, vs, isLeft) ==
  /\ lists' = [lists EXCEPT ![k] = IF isLeft THEN Backwards(vs) \o @ ELSE @ \o vs]
  /\ UNCHANGED ret

Taken(s, isLeft) == IF isLeft THEN Head(s) ELSE s[Len(s)]
Rest(s, isLeft) == IF isLeft THEN Tail(s) ELSE SubSeq(s, 1, Len(s) - 1)

Pop(k, isLeft) ==
  /\ lists[k] # <<>>
  /\ ret' = Taken(lists[k], isLeft)
  /\ lists' = [lists EXCEPT ![k] = Rest(@, isLeft)]

PopNothing(k) == lists[k] = <<>> /\ ret' = NoItem /\ UNCHANGED lists

Move(src, dst, fromLeft, toLeft) ==
  /\ lists[src] # <<>>
  /\ LET v == Taken(lists[src], fromLeft)
         rest == [lists EXCEPT ![src] = Rest(@, fromLeft)]
     IN  /\ ret' = v
         /\ lists' = [rest EXCEPT ![dst] = IF toLeft THEN <<v>> \o @ ELSE @ \o <<v>>]

Assign(k, i, v) ==
  /\ i \in DOMAIN lists[k]
  /\ lists' = [lists EXCEPT ![k][i] = v]
  /\ UNCHANGED ret

Next ==
  \/ \E k \in Keys, vs \in Batches, isLeft \in BOOLEAN : Push(k, vs, isLeft)
  \/ \E k \in Keys : PopNothing(k) \/ \E isLeft \in BOOLEAN : Pop(k, isLeft)
  \/ \E src, dst \in Keys, fromLeft, toLeft \in BOOLEAN :
       Move(src, dst, fromLeft, toLeft)
  \/ \E k \in Keys, v \in Values : \E i \in 1 .. Len(lists[k]) : Assign(k, i, v)

Spec == Init /\ [][Next]_dequeVars
=============================================================================
