----------------------------- MODULE Iterators -----------------------------
(***************************************************************************)
(* The id iterators of Iterator.h driving a filter query whose lookup      *)
(* filter is likes_contains (LikesFilter::findRemainingItems): one         *)
(* LikeEdgeIterator over the backward likes of each value, combined by     *)
(* IntersectionIdIterator, consumed by the loop of tryOptimizedFilterQuery *)
(* (Server.h).  The code is sequential; one step is one call the loop      *)
(* makes (valid(), the body with getId(), next()).  Each call is computed  *)
(* by recursive operators that reproduce the side effects of the nested    *)
(* calls, valid() of an intersection included.                            *)
(*                                                                         *)
(* An iterator is a record: a leaf [kind |-> "list" | "edge", seq, cur]    *)
(* with seq the list and cur the 0-based `current`, or an intersection     *)
(* [kind |-> "inter", a, b, value, bad], bad recording a failed MY_ASSERT  *)
(* of next().  The inputs are the forward likes of the accounts, the      *)
(* query's values and the ids the remaining filters accept; the backward   *)
(* lists are their mirror, sorted as sortAccountData leaves them.          *)
(***************************************************************************)
EXTENDS Integers, Sequences, SequencesExt, FiniteSets

CONSTANTS
    Ids,        \* existing accounts (any other id is an empty slot)
    Likes,      \* candidate forward-like lists of one account
    Queries,    \* candidate LikesFilter::values (1 to 3 ids)
    Others,     \* candidate sets of ids accepted by OptimizedFilter::matches
    Limit       \* the query's limit (> 0)

VARIABLES fw, vals, other, it, ids, pc

vars == <<fw, vals, other, it, ids, pc>>

InvalidId == -1

\* Account::backwardLikes of v: every liker once per like, descending.
Backward(v) ==
    LET S == SetToSortSeq(Ids, >)
        times(i) == Len(SelectSeq(fw[i], LAMBDA x : x = v))
    IN FlattenSeq([k \in 1..Len(S) |-> [j \in 1..times(S[k]) |-> S[k]]])

\* createSingleValueIterator: the empty IdListIterator for a missing account.
Leaf(v) ==
    IF v \in Ids THEN [kind |-> "edge", seq |-> Backward(v), cur |-> 0]
    ELSE [kind |-> "list", seq |-> <<>>, cur |-> 0]

Inter(a, b) == [kind |-> "inter", a |-> a, b |-> b, value |-> InvalidId, bad |-> FALSE]

\* LikesFilter::findRemainingItems for 1, 2 or 3 values.
FindRemainingItems(vs) ==
    CASE Len(vs) = 1 -> Leaf(vs[1])
      [] Len(vs) = 2 -> Inter(Leaf(vs[1]), Leaf(vs[2]))
      [] Len(vs) = 3 -> Inter(Inter(Leaf(vs[1]), Leaf(vs[2])), Leaf(vs[3]))

-----------------------------------------------------------------------------
(* The iterator calls.  Valid returns <<result, iterator after the call>>. *)

RECURSIVE Valid(_), NextOf(_), UntilMatch(_), SkipWhile(_, _), SkipRun(_, _)

GetId(n) == IF n.kind = "inter" THEN n.value ELSE n.seq[n.cur + 1]

\* IntersectionIdIterator::valid: iterateUntilMatch, then a->valid() &&
\* b->valid().  The leaves' valid() is current < end.
Valid(n) ==
    IF n.kind # "inter" THEN <<n.cur < Len(n.seq), n>>
    ELSE LET m == UntilMatch(n)
             va == Valid(m.a)
             vb == Valid(m.b)
         IN IF ~va[1] THEN <<FALSE, [m EXCEPT !.a = va[2]]>>
            ELSE <<vb[1], [m EXCEPT !.a = va[2], !.b = vb[2]]>>

\* Mutant: LikeEdgeIterator::next without the loop over repeated ids.
SkipRunNone(n, v) == n

\* LikeEdgeIterator::next: skip every edge to the id just returned.
SkipRun(n, v) ==
    IF n.cur < Len(n.seq) /\ n.seq[n.cur + 1] = v
    THEN SkipRun([n EXCEPT !.cur = @ + 1], v) ELSE n

\* while (c->valid() && c->getId() == v) c->next();
SkipWhile(c, v) ==
    LET vc == Valid(c) IN
    IF vc[1] /\ GetId(vc[2]) = v THEN SkipWhile(NextOf(vc[2]), v) ELSE vc[2]

\* The two skip loops of IntersectionIdIterator::next.
SkipValue(c) == [c EXCEPT !.a = SkipWhile(c.a, c.value), !.b = SkipWhile(c.b, c.value)]

\* Mutant: a match is found but `value` is not set.
UntilMatchNoValue(n) ==
    LET va == Valid(n.a)
        vb == Valid(n.b)
        m == [n EXCEPT !.a = va[2], !.b = vb[2]]
    IN IF ~va[1] \/ ~vb[1] \/ GetId(m.a) = GetId(m.b) THEN [n EXCEPT !.a = va[2], !.b = vb[2]]
       ELSE IF GetId(m.a) > GetId(m.b) THEN UntilMatch([m EXCEPT !.a = NextOf(m.a)])
       ELSE UntilMatch([m EXCEPT !.b = NextOf(m.b)])

\* iterateUntilMatch: advance the side with the larger id until both
\* sides agree (value := that id) or one side is exhausted.
UntilMatch(n) ==
    LET va == Valid(n.a)
        vb == Valid(n.b)
        m == [n EXCEPT !.a = va[2], !.b = vb[2]]
    IN IF ~va[1] THEN [n EXCEPT !.a = va[2]]
       ELSE IF ~vb[1] THEN m
       ELSE IF GetId(m.a) = GetId(m.b) THEN [m EXCEPT !.value = GetId(m.a)]
       ELSE IF GetId(m.a) > GetId(m.b) THEN UntilMatch([m EXCEPT !.a = NextOf(m.a)])
       ELSE UntilMatch([m EXCEPT !.b = NextOf(m.b)])

\* next() of the three iterators.  IntersectionIdIterator::next first
\* checks (MY_ASSERT) that both sides sit on `value`, then skips it on
\* both sides and looks for the next match.
NextOf(n) ==
    CASE n.kind = "list" -> [n EXCEPT !.cur = @ + 1]
      [] n.kind = "edge" -> SkipRun([n EXCEPT !.cur = @ + 1], GetId(n))
      [] n.kind = "inter" ->
            LET va == Valid(n.a)
                vb == Valid(n.b)
                c == IF ~va[1] THEN [n EXCEPT !.a = va[2]]
                     ELSE [n EXCEPT !.a = va[2], !.b = vb[2]]
                ok == ~(va[1] /\ vb[1]) \/ (GetId(c.a) = GetId(c.b) /\ c.value = GetId(c.a))
            IN UntilMatch([SkipValue(c) EXCEPT !.bad = @ \/ ~ok])

RECURSIVE Asserted(_)
\* Some MY_ASSERT of IntersectionIdIterator::next failed in the tree.
Asserted(n) == n.kind = "inter" /\ (n.bad \/ Asserted(n.a) \/ Asserted(n.b))

-----------------------------------------------------------------------------
(* The loop of tryOptimizedFilterQuery with the likes filter as lookup     *)
(* filter (checkLookup is false for it).                                   *)

Init ==
    /\ fw \in [Ids -> Likes]
    /\ vals \in Queries
    /\ other \in Others
    /\ it = FindRemainingItems(vals)
    /\ ids = <<>>
    /\ pc = "valid"

\* idIterator->valid()
CallValid ==
    /\ pc = "valid"
    /\ it' = Valid(it)[2]
    /\ pc' = IF Valid(it)[1] THEN "body" ELSE "done"
    /\ UNCHANGED <<fw, vals, other, ids>>

\* The body with a limit of at least 1: push the id if the remaining
\* filters match it, and break once `limit` ids were pushed.
BodyOffByOne ==
    /\ pc = "body"
    /\ ids' = IF GetId(it) \in other THEN Append(ids, GetId(it)) ELSE ids
    /\ pc' = IF Len(ids') > Limit THEN "done" ELSE "next"
    /\ UNCHANGED <<fw, vals, other, it>>

Body ==
    /\ pc = "body"
    /\ ids' = IF GetId(it) \in other THEN Append(ids, GetId(it)) ELSE ids
    /\ pc' = IF Len(ids') >= Limit THEN "done" ELSE "next"
    /\ UNCHANGED <<fw, vals, other, it>>

\* Mutant: the loop goes back to valid() without calling next() (a
\* `continue` in a while loop written around the for loop).
CallNextSkipped ==
    /\ pc = "next"
    /\ pc' = "valid"
    /\ UNCHANGED <<fw, vals, other, ids, it>>

\* idIterator->next()
CallNext ==
    /\ pc = "next"
    /\ it' = NextOf(it)
    /\ pc' = "valid"
    /\ UNCHANGED <<fw, vals, other, ids>>

\* The query has returned; the system stops here.
Done == pc = "done" /\ UNCHANGED vars

Next == CallValid \/ Body \/ CallNext \/ Done

Spec == Init /\ [][Next]_vars

-----------------------------------------------------------------------------
(* Properties *)

\* The answer the query promises: the accounts that like every value and
\* pass the remaining filters, descending, the first Limit of them.
Want ==
    LET r == {i \in Ids : i \in other /\ \A k \in 1..Len(vals) : vals[k] \in ToSet(fw[i])}
        s == SetToSortSeq(r, >)
    IN SubSeq(s, 1, IF Len(s) < Limit THEN Len(s) ELSE Limit)

TypeOK ==
    /\ pc \in {"valid", "body", "next", "done"}
    /\ ids \in Seq(Ids)
    /\ Len(ids) <= Limit

\* No MY_ASSERT of IntersectionIdIterator::next fires, for the nested
\* intersection of three likes values included.
NeverAsserts == ~Asserted(it)

\* The loop over the iterator tree implements the safety part of
\* IdStream: it returns matching ids strictly descending, each once
\* (LikeEdgeIterator skips a liker's repeated likes, the intersection
\* skips `value` on both sides), never one past the first Limit, and
\* returns only once it has all of them.
Abstract == INSTANCE IdStream WITH out <- ids, done <- (pc = "done"), want <- Want

ImplementsIdStream == Abstract!SafetySpec

RECURSIVE Consumed(_)
\* How far the leaves of an iterator tree have advanced.
Consumed(n) == IF n.kind = "inter" THEN Consumed(n.a) + Consumed(n.b) ELSE n.cur

\* Position of the loop: leaves consumed, then the call within the round.
Progress == 3 * Consumed(it) + (CASE pc = "valid" -> 0 [] pc = "body" -> 1 [] OTHER -> 2)

\* The loop always returns: every call until the return strictly advances
\* Progress, which is bounded by the lists' lengths, so neither
\* iterateUntilMatch nor the skip loops of next() can spin on an id.
\* With deadlock checking (every state before the return has a step) the
\* query ends, with Want by ImplementsIdStream.
QueryReturns == [][pc # "done" => Progress' > Progress]_vars

=============================================================================
