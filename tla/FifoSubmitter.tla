---------------------------- MODULE FifoSubmitter ----------------------------
(***************************************************************************)
(* What the relayer's queue promises to the HTTP handlers: the requests it *)
(* accepted are sent one after another, in the order they came, and each   *)
(* is reported once, as sent or as failed.                                 *)
(***************************************************************************)
EXTENDS Naturals, Sequences, FiniteSetsExt

CONSTANT Requests

VARIABLES
    order,   \* the accepted requests, oldest first
    result   \* "none", or what was reported of a request

Accepted == {order[i] : i \in DOMAIN order}
Served   == {r \in Requests : result[r] # "none"}

Init ==
    /\ order = <<>>
    /\ result = [r \in Requests |-> "none"]

Submit(r) ==
    /\ r \notin Accepted
    /\ order' = Append(order, r)
    /\ UNCHANGED result

\* The oldest request without a result gets one.
Serve(outcome) ==
    /\ Cardinality(Served) < Len(order)
    /\ result' = [result EXCEPT ![order[Cardinality(Served) + 1]] = outcome]
    /\ UNCHANGED order

ServeNext == \E outcome \in {"sent", "failed"} : Serve(outcome)

Next == (\E r \in Requests : Submit(r)) \/ ServeNext

Spec == Init /\ [][Next]_<<order, result>>

FairSpec == Spec /\ WF_<<order, result>>(ServeNext)
=============================================================================
