------------------------------- MODULE MCPages -------------------------------
(***************************************************************************)
(* One visit of each page, on a small instance.                            *)
(***************************************************************************)
EXTENDS Pages, TLC

\* Of "r" the column keeps "b".
MCColumn == "a" :> "a" @@ "b" :> "b" @@ "r" :> "b"

MCOrder == <<"e1", "e2">>
MCAllRuns == <<"new", "old">>

\* On the match screen, a line as ordered, one with two exceptions, the worse of which the
\* tokens are about, and one on no order.
MCSeverity == [price |-> "block", qty |-> "warn"]
MCLineOf == [price |-> "l2", qty |-> "l2"]

\* No page waits for ever: every "Saving", "Starting...", "Resolving..." and
\* "Uploading...", every decision, the first list or numbers, and the drawing of a
\* document come to their end, whatever is refused or lost.  (Only one page is visited,
\* so that what different pages wait for shares a formula.)
Awaited ==
  Verify!Waiting \cup Viewer!Waiting \cup Exceptions!Waiting \cup Invoices!Waiting
    \cup Waiting \cup Analytics!Waiting \cup Benchmarks!Waiting \cup Dropzone!Waiting
TogetherAwaited ==
  <<{"f", "document", "e1", "list", "decision", "numbers", "runs", "upload"},
    {"re-run", "e2"}, {"bulk"}>>
PagesComeToRest ==
  \A k \in 1..3 : (Awaited \cap TogetherAwaited[k] # {}) ~> (Awaited \cap TogetherAwaited[k] = {})
=============================================================================
