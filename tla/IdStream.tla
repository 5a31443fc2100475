------------------------------ MODULE IdStream ------------------------------
(***************************************************************************)
(* What a lookup-driven filter query promises (spec sections 4.2 and 4.4): *)
(* the ids it returns are the matching accounts in strictly descending id  *)
(* order, one at a time, and it stops after the first Limit of them or     *)
(* when there are no more.  `want` is that answer, fixed for the query.    *)
(***************************************************************************)
EXTENDS Naturals, Sequences

VARIABLES out, done, want

vars == <<out, done, want>>

Init == out = <<>> /\ done = FALSE

\* Return the next id of the answer; the query may end with it.
Emit ==
    /\ ~done
    /\ Len(out) < Len(want)
    /\ out' = Append(out, want[Len(out) + 1])
    /\ done' \in {FALSE, out' = want}
    /\ UNCHANGED want

\* End the query once the whole answer has been returned.
Stop ==
    /\ ~done
    /\ out = want
    /\ done' = TRUE
    /\ UNCHANGED <<out, want>>

Next == Emit \/ Stop

SafetySpec == Init /\ [][Next]_vars

Spec == SafetySpec /\ WF_vars(Next)

=============================================================================
