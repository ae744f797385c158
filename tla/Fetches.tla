------------------------------- MODULE Fetches -------------------------------
(***************************************************************************)
(* The requests of one page of the web client, as a value: a function from *)
(* the numbers 1, 2, ... in the order of sending.  No page cancels a       *)
(* request, numbers its answers or waits for one answer before it sends    *)
(* the next request: every .then runs whenever its answer is there.        *)
(***************************************************************************)
EXTENDS Naturals

NotSent == [state |-> "not sent"]
Sent(request) == [state |-> "sent", request |-> request]
Answered(request, answer) == [state |-> "answered", request |-> request, answer |-> answer]
Failed(request) == [state |-> "failed", request |-> request]  \* refused, or no answer
Handled == [state |-> "handled"]

\* The numbers in a state.
InState(fetches, state) == {n \in DOMAIN fetches : fetches[n].state = state}

\* The number the next request takes; there is none when the bound is reached.
IsNext(fetches, n) ==
  n \in InState(fetches, "not sent") /\ \A m \in InState(fetches, "not sent") : n <= m

\* Request n is the newest.
NotSentAfter(fetches, n) ==
  n \in DOMAIN fetches /\ \A m \in DOMAIN fetches : m > n => fetches[m] = NotSent

\* The requests of a page before it is mounted, and once its first effect has run.
NoneSent(bound) == [n \in 1..bound |-> NotSent]
FirstSent(bound, request) == [NoneSent(bound) EXCEPT ![1] = Sent(request)]

\* Nothing is under way.
Quiet(fetches) == InState(fetches, "sent") \cup InState(fetches, "answered")
                    \cup InState(fetches, "failed") = {}

\* The server answers request n with `answer`, or it fails on the way.
MayAnswer(fetches, fetches1, n, answer) ==
  /\ fetches[n].state = "sent"
  /\ fetches1 \in {[fetches EXCEPT ![n] = Answered(@.request, answer)],
                   [fetches EXCEPT ![n] = Failed(@.request)]}
=============================================================================
