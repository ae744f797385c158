---------------------- MODULE PipelineOwnershipProofs -----------------------
(***************************************************************************)
(* Proofs about what the handlers of one invoice rely on.  None of them    *)
(* locks the invoice between its transactions; what keeps them apart is    *)
(* that a job has one handler and that the status says which job may go    *)
(* on.  `Owned' says so for each status, and the theorems follow from it.  *)
(***************************************************************************)
EXTENDS PipelineProofs

-----------------------------------------------------------------------------
(***************************************************************************)
(* Who owns an invoice                                                     *)
(***************************************************************************)

\* Nothing has been extracted, or nothing has yet been committed as extracted.
NotExtracted == Unread \cup {"EXTRACTING"}

\* Between the first transition of a match and its outcome.
MatchingPcs == {"MATCHING", "line_matches", "exceptions", "decide", "apply"}

\* An invoice that waits for its approval, or has had it; and one whose match has been
\* decided.
Sent == {"PENDING_APPROVAL", "APPROVED", "REJECTED"}
Decided == Sent \cup {"MATCHED_CLEAN", "EXCEPTIONS_RAISED", "AUTO_POSTED"}

\* No worker has overrun its lock and no re-run of the invoice has been written.
UndisturbedInvoice(i) ==
  /\ overruns = 0
  /\ \A r \in Reruns : request[r].pc = "done" => request[r].invoice # i

\* What the handler of the 'extract' job counts on.
ExtractCounts(i, w) ==
  /\ local[w].pc = "begin" /\ local[w].status = "RECEIVED" => istatus[i] = "RECEIVED"
  /\ local[w].pc \in {"EXTRACTING", "persisted"} => istatus[i] = "EXTRACTING"
  /\ local[w].pc = "persisted" => doc[i] # NoDoc
  /\ local[w].pc = "enqueue" => istatus[i] \notin NotExtracted /\ doc[i] # NoDoc

\* And it may: what it counts on is so.
ExtractOwns(i) == \A w \in Workers : Handles(w, ExtractJob(i)) => ExtractCounts(i, w)

\* What the handler of the 'match' job counts on; the job comes after the extraction.
MatchCounts(i, w) ==
  /\ local[w].pc = "begin" /\ local[w].status \in {"EXTRACTED", "NEEDS_VERIFICATION"}
       => istatus[i] = local[w].status
  /\ local[w].pc \in MatchingPcs => istatus[i] = "MATCHING"
  /\ local[w].pc = "route" => istatus[i] = Intermediate(local[w].result)
  /\ local[w].pc \in {"issue", "page"} => istatus[i] \in Sent

\* So is what the handler of the 'match' job counts on; and there is no 'match' job
\* before the extraction has been committed.
MatchOwns(i) ==
  /\ jstatus[MatchJob(i)] # "absent" => istatus[i] \notin NotExtracted /\ doc[i] # NoDoc
  /\ \A w \in Workers : Handles(w, MatchJob(i)) => MatchCounts(i, w)

\* The latest match run is the one that the handler of the 'match' job is writing.
RunOf(i, w) ==
  /\ local[w].pc # "start" => local[w].doc # NoDoc /\ (corrections = 0 => local[w].doc = doc[i])
  /\ local[w].pc \in MatchPcs \ {"MATCHING"} => run[i].result = local[w].result
  /\ local[w].pc \in MatchPcs \ {"MATCHING", "line_matches"} => run[i].lines
  /\ local[w].pc \in MatchPcs \ {"MATCHING", "line_matches", "exceptions"} => run[i].exceptions
  /\ local[w].pc \in {"apply", "route", "issue", "page"} => run[i].decision = DecisionOf(w)
  /\ local[w].pc = "route" => DecisionOf(w).outcome # "NEEDS_VERIFICATION"

\* The handler of the 'match' job finds the latest run to be its own.
RunFollows(i) == \A w \in Workers : Handles(w, MatchJob(i)) => RunOf(i, w)

\* What DecisionJustified says of one invoice.
Justified(i) ==
  istatus[i] \in Decided =>
    /\ run[i].lines /\ run[i].exceptions
    /\ run[i].decision.outcome # "NEEDS_VERIFICATION"
    /\ istatus[i] = "AUTO_POSTED" => run[i].decision.outcome = "AUTO_POST"
    /\ istatus[i] \in Sent => run[i].decision.outcome = "PENDING_APPROVAL"
    /\ corrections = 0 =>
         run[i].decision = decide(run[i].result, doc[i].confidence, doc[i].total, Policy)

\* Tokens are issued once, to the approvers that the recorded decision asks for, each
\* before its page ...
TokenRow(i, a) ==
  /\ tokens[i][a] > 0 => istatus[i] \in Sent
  /\ tokens[i][a] <= 1
  /\ tokens[i][a] > 0 => a \in Contacts(run[i].decision.required_approvers)
  /\ jstatus[NotifyJob(i, a)] # "absent" => tokens[i][a] > 0

\* ... and in order.
Issues(i, w) ==
  /\ local[w].pc = "issue" => \A b \in Approvers : b >= local[w].approver => tokens[i][b] = 0
  /\ local[w].pc = "page" => /\ tokens[i][local[w].approver] = 1
                             /\ \A b \in Approvers : b > local[w].approver => tokens[i][b] = 0
  /\ local[w].pc \in {"issue", "page"} =>
       local[w].approver \in Contacts(run[i].decision.required_approvers)

\* The tokens of an invoice, and the handler that is issuing them.
TokensFollow(i) ==
  /\ \A a \in Approvers : TokenRow(i, a)
  /\ \A w \in Workers : Handles(w, MatchJob(i)) => Issues(i, w)

\* The rows of an invoice are those that its own two jobs have written: the invariant.
Owned(i) == ExtractOwns(i) /\ MatchOwns(i) /\ RunFollows(i) /\ Justified(i) /\ TokensFollow(i)

-----------------------------------------------------------------------------

\* What was written for a re-run stays written.
LEMMA UndisturbedBefore ==
  ASSUME WellTyped, [Next]_vars, NEW i \in Invoices, UndisturbedInvoice(i)'
  PROVE  UndisturbedInvoice(i)
  <1>1. overruns = 0
    BY OverrunsGrow DEF UndisturbedInvoice
  <1>2. ASSUME NEW r \in Reruns, request[r].pc = "done" PROVE request'[r] = request[r]
    BY <1>2, RequestWrites DEF RerunRead, RerunWrite, WellTyped, RowsTyped
  <1>3. QED
    BY <1>1, <1>2 DEF UndisturbedInvoice

\* Undisturbed, an invoice is handled for its 'extract' and its 'match' job only.
LEMMA OwnHandlers ==
  ASSUME WellTyped, NEW i \in Invoices, UndisturbedInvoice(i), NEW w \in Workers, InHandler(w),
         Inv(w) = i, wjob[w][1] # "notify"
  PROVE  wjob[w] = ExtractJob(i) \/ wjob[w] = MatchJob(i)
  <1>1. wjob[w] \in Jobs /\ jstatus[wjob[w]] # "absent"
    BY DEF WellTyped, Q!TypeOK, Q!JobsExist, InHandler, Q!Busy
  <1>2. ASSUME wjob[w][1] = "rerun" PROVE FALSE
    <2>1. wjob[w][2] \in Reruns /\ request[wjob[w][2]].pc = "done"
      BY <1>1, <1>2, JobKinds DEF WellTyped, SubjectsExist
    <2>2. request[wjob[w][2]].invoice = i
      BY <1>2 DEF Inv, InvoiceOf
    <2>3. QED
      BY <2>1, <2>2 DEF UndisturbedInvoice
  <1>3. QED
    BY <1>1, <1>2, JobKinds DEF Inv, InvoiceOf

\* Where a match goes on to, and what it keeps.
LEMMA MatchMoves ==
  ASSUME WellTyped, NEW w \in Workers, HandlerStep(w), InHandler(w)', wjob[w][1] = "match"
  PROVE  \/ ReadInvoice(w) /\ local[w].pc = "start" /\ local'[w].pc = "begin"
         \/ Begin(w) /\ Moves(w, "begin", "MATCHING")
         \/ /\ PersistMatchRun(w) /\ Moves(w, "MATCHING", "line_matches")
            /\ run' = [run EXCEPT ![Inv(w)] =
                         [result |-> local'[w].result, lines |-> FALSE, exceptions |-> FALSE,
                          decision |-> NoDecision]]
         \/ /\ local'[w].result = local[w].result
            /\ \/ PersistLineMatches(w) /\ Moves(w, "line_matches", "exceptions")
               \/ PersistMatchExceptions(w) /\ Moves(w, "exceptions", "decide")
               \/ PersistDecisionReason(w) /\ Moves(w, "decide", "apply")
               \/ /\ ApplyDecision(w) /\ Moves(w, "apply", "route")
                  /\ DecisionOf(w).outcome # "NEEDS_VERIFICATION"
                  /\ _transition(Inv(w), "MATCHING", Intermediate(local[w].result))
               \/ /\ RouteInvoice(w) /\ Moves(w, "route", "issue") /\ local'[w].approver = 1
                  /\ DecisionOf(w).outcome # "AUTO_POST"
                  /\ Contacts(DecisionOf(w).required_approvers) # {}
               \/ /\ IssueToken(w) /\ Moves(w, "issue", "page")
                  /\ local'[w].approver = local[w].approver
               \/ /\ EnqueueNotify(w) /\ Moves(w, "page", "issue")
                  /\ local'[w].approver = local[w].approver + 1
                  /\ local[w].approver + 1 \in Contacts(DecisionOf(w).required_approvers)
               \/ EnqueueNotify(w) /\ Moves(w, "page", "finished")
  <1>1. /\ local[w] \in LocalType /\ local \in [Workers -> LocalType \cup {NoLocal}]
        /\ Placed(wjob[w][1], local[w]) /\ local[w].pc \in HandlerPcs
    BY HandlerInside, LocalTyped DEF InHandler, WellTyped, LocalsTyped
  <1>2. ~(Return(w) \/ Raise(w))
    BY Ends
  <1> DEFINE Keeps(from, to) == Moves(w, from, to) /\ local'[w].result = local[w].result
  <1>3. ASSUME NEW to \in HandlerPcs, local' = [local EXCEPT ![w] = [local[w] EXCEPT !.pc = to]]
        PROVE  Keeps(local[w].pc, to) /\ local'[w].approver = local[w].approver
    <2>1. local'[w] = [local[w] EXCEPT !.pc = to]
      BY <1>1, <1>3
    <2>2. QED
      BY <1>1, <2>1, Zenon DEF Moves, LocalType
  <1>4. ASSUME NEW a,
               local' = [local EXCEPT ![w] = [local[w] EXCEPT !.pc = "issue", !.approver = a]]
        PROVE  Keeps(local[w].pc, "issue") /\ local'[w].approver = a
    <2>1. local'[w] = [local[w] EXCEPT !.pc = "issue", !.approver = a]
      BY <1>1, <1>4
    <2>2. QED
      BY <1>1, <2>1 DEF Moves, LocalType
  <1>5. MatchPcs \subseteq HandlerPcs /\ "finished" \in HandlerPcs
    BY Places
  <1>6. CASE local[w].pc = "start"
    BY <1>6, ReadsWhatIs
  <1>7. CASE local[w].pc = "begin"
    <2>1. Begin(w)
      BY <1>7, StepsAt
    <2>2. local'[w] = [local[w] EXCEPT !.pc = "MATCHING"]
      BY <1>7, BeginsFromWhatWasRead
    <2>3. Moves(w, "begin", "MATCHING")
      BY <1>1, <1>7, <2>2 DEF Moves, LocalType
    <2>4. QED
      BY <2>1, <2>3
  <1>8. CASE local[w].pc = "MATCHING"
    <2>1. PersistMatchRun(w)
      BY <1>2, <1>8, StepsAt DEF MatchRaises, MatchInvalid
    <2>2. PICK result \in MatchResults :
            /\ run' = [run EXCEPT ![Inv(w)] = [result |-> result, lines |-> FALSE,
                                               exceptions |-> FALSE, decision |-> NoDecision]]
            /\ Goto(w, [local[w] EXCEPT !.pc = "line_matches", !.result = result])
      BY <2>1 DEF PersistMatchRun
    <2>3. local'[w] = [local[w] EXCEPT !.pc = "line_matches", !.result = result]
      BY <1>1, <2>2 DEF Goto
    <2>4. Moves(w, "MATCHING", "line_matches") /\ local'[w].result = result
      BY <1>1, <1>8, <2>3 DEF Moves, LocalType
    <2>5. QED
      BY <2>1, <2>2, <2>4
  <1>9. {"exceptions", "decide", "apply", "route", "page"} \subseteq HandlerPcs
    BY <1>5 DEF MatchPcs
  <1>10. CASE local[w].pc = "line_matches"
    BY <1>3, <1>9, <1>10, StepsAt DEF PersistLineMatches, Goto
  <1>11. CASE local[w].pc = "exceptions"
    BY <1>3, <1>9, <1>11, StepsAt DEF PersistMatchExceptions, Goto
  <1>12. CASE local[w].pc = "decide"
    BY <1>3, <1>9, <1>12, StepsAt DEF PersistDecisionReason, Goto
  <1>13. CASE local[w].pc = "apply"
    <2>1. /\ ApplyDecision(w) /\ DecisionOf(w).outcome # "NEEDS_VERIFICATION"
          /\ _transition(Inv(w), "MATCHING", Intermediate(local[w].result))
          /\ local' = [local EXCEPT ![w] = [local[w] EXCEPT !.pc = "route"]]
      BY <1>2, <1>13, StepsAt DEF ApplyDecision, Goto
    <2>2. Keeps("apply", "route")
      BY <1>3, <1>9, <1>13, <2>1
    <2>3. QED
      BY <2>1, <2>2
  <1>14. CASE local[w].pc = "route"
    <2>1. /\ RouteInvoice(w) /\ DecisionOf(w).outcome # "AUTO_POST"
          /\ Contacts(DecisionOf(w).required_approvers) # {}
          /\ local' = [local EXCEPT ![w] = [local[w] EXCEPT !.pc = "issue", !.approver = 1]]
      BY <1>2, <1>14, StepsAt DEF RouteInvoice, Goto
    <2>2. Keeps("route", "issue") /\ local'[w].approver = 1
      BY <1>4, <1>14, <2>1
    <2>3. QED
      BY <2>1, <2>2
  <1>15. CASE local[w].pc = "issue"
    BY <1>3, <1>9, <1>15, StepsAt DEF IssueToken, Goto
  <1>16. CASE local[w].pc = "page"
    <2>1. EnqueueNotify(w)
      BY <1>16, StepsAt
    <2>2. CASE local[w].approver + 1 \in Contacts(DecisionOf(w).required_approvers)
      <3>1. local' = [local EXCEPT ![w] = [local[w] EXCEPT !.pc = "issue",
                                                           !.approver = local[w].approver + 1]]
        BY <2>1, <2>2 DEF EnqueueNotify
      <3>2. QED
        BY <1>4, <1>16, <2>1, <2>2, <3>1
    <2>3. CASE local[w].approver + 1 \notin Contacts(DecisionOf(w).required_approvers)
      <3>1. local' = [local EXCEPT ![w] = [local[w] EXCEPT !.pc = "finished"]]
        BY <2>1, <2>3 DEF EnqueueNotify
      <3>2. QED
        BY <1>3, <1>5, <1>16, <2>1, <3>1
    <2>4. QED
      BY <2>2, <2>3
  <1>17. CASE local[w].pc = "finished"
    BY <1>2, <1>17, StepsAt DEF Finished
  <1>18. local[w].pc \notin ExtractPcs
    BY <1>1 DEF Placed
  <1>19. QED
    BY <1>1, <1>6, <1>7, <1>8, <1>10, <1>11, <1>12, <1>13, <1>14, <1>15, <1>16, <1>17, <1>18
       DEF HandlerPcs, MatchPcs

-----------------------------------------------------------------------------

\* A step that is no handler's on the invoice: its status stays or is one of
\* ingestion's or an approver's, its fields stay or are corrected, it has no new
\* job, and its handlers are where they were or at their start.
Still(i) ==
  /\ \/ istatus'[i] = istatus[i]
     \/ istatus[i] = NoInvoice /\ istatus'[i] = "RECEIVED"
     \/ istatus[i] = "PENDING_APPROVAL" /\ istatus'[i] \in {"APPROVED", "REJECTED"}
  /\ \/ doc'[i] = doc[i] /\ (corrections' = 0 => corrections = 0)
     \/ doc[i] # NoDoc /\ doc'[i] # NoDoc /\ corrections' # 0
  /\ run'[i] = run[i] /\ tokens'[i] = tokens[i]
  /\ jstatus'[MatchJob(i)] # "absent" => jstatus[MatchJob(i)] # "absent"
  /\ \A a \in Approvers :
       jstatus'[NotifyJob(i, a)] # "absent" => jstatus[NotifyJob(i, a)] # "absent"
  /\ \A v \in Workers, k \in {ExtractJob(i), MatchJob(i)} : Handles(v, k)' =>
       local'[v].pc = "start" \/ (Handles(v, k) /\ local'[v] = local[v])

\* So it keeps what the handlers count on ...
LEMMA StillOwned ==
  ASSUME NEW i \in Invoices, Still(i), Owned(i)
  PROVE  Owned(i)'
  <1>1. /\ istatus[i] \in Sent <=> istatus'[i] \in Sent
        /\ istatus[i] \in Decided <=> istatus'[i] \in Decided
        /\ istatus[i] \notin NotExtracted <=> istatus'[i] \notin NotExtracted
        /\ istatus[i] \notin {NoInvoice, "PENDING_APPROVAL"} => istatus'[i] = istatus[i]
        /\ istatus'[i] = "AUTO_POSTED" => istatus[i] = "AUTO_POSTED"
    BY DEF Still, Sent, Decided, NotExtracted, Unread, NoInvoice, Lifecycle!NoInvoice
  <1>2. doc[i] # NoDoc => doc'[i] # NoDoc
    BY DEF Still
  <1>3. corrections' = 0 => corrections = 0 /\ doc'[i] = doc[i]
    BY DEF Still
  <1>4. ExtractOwns(i)'
    <2> SUFFICES ASSUME NEW v \in Workers, Handles(v, ExtractJob(i))', local'[v].pc # "start"
                 PROVE  /\ /\ local'[v].pc = "begin" /\ local'[v].status = "RECEIVED"
                           => istatus'[i] = "RECEIVED"
                        /\ local'[v].pc \in {"EXTRACTING", "persisted"} => istatus'[i] = "EXTRACTING"
                        /\ local'[v].pc = "persisted" => doc'[i] # NoDoc
                        /\ local'[v].pc = "enqueue" => istatus'[i] \notin NotExtracted
                                                       /\ doc'[i] # NoDoc
      BY DEF ExtractOwns, ExtractCounts, ExtractJob, Handles
    <2>1. Handles(v, ExtractJob(i)) /\ local'[v] = local[v]
      BY DEF Still
    <2>2. /\ local[v].pc = "begin" /\ local[v].status = "RECEIVED" => istatus[i] = "RECEIVED"
          /\ local[v].pc \in {"EXTRACTING", "persisted"} => istatus[i] = "EXTRACTING"
          /\ local[v].pc = "persisted" => doc[i] # NoDoc
          /\ local[v].pc = "enqueue" => istatus[i] \notin NotExtracted /\ doc[i] # NoDoc
      BY <2>1 DEF Owned, ExtractOwns, ExtractCounts
    <2>3. "RECEIVED" \notin {NoInvoice, "PENDING_APPROVAL"}
          /\ "EXTRACTING" \notin {NoInvoice, "PENDING_APPROVAL"}
      BY DEF NoInvoice, Lifecycle!NoInvoice
    <2>4. QED
      BY <1>1, <1>2, <2>1, <2>2, <2>3
  <1>5. MatchOwns(i)'
    <2>1. jstatus'[MatchJob(i)] # "absent" => istatus'[i] \notin NotExtracted /\ doc'[i] # NoDoc
      BY <1>1, <1>2 DEF Still, Owned, MatchOwns, MatchCounts
    <2>2. ASSUME NEW v \in Workers, Handles(v, MatchJob(i))', local'[v].pc # "start"
          PROVE  /\ /\ local'[v].pc = "begin"
                    /\ local'[v].status \in {"EXTRACTED", "NEEDS_VERIFICATION"}
                    => istatus'[i] = local'[v].status
                 /\ local'[v].pc \in MatchingPcs => istatus'[i] = "MATCHING"
                 /\ local'[v].pc = "route" => istatus'[i] = Intermediate(local'[v].result)
                 /\ local'[v].pc \in {"issue", "page"} => istatus'[i] \in Sent
      <3>1. Handles(v, MatchJob(i)) /\ local'[v] = local[v]
        BY <2>2 DEF Still
      <3>2. /\ /\ local[v].pc = "begin"
               /\ local[v].status \in {"EXTRACTED", "NEEDS_VERIFICATION"}
               => istatus[i] = local[v].status
            /\ local[v].pc \in MatchingPcs => istatus[i] = "MATCHING"
            /\ local[v].pc = "route" => istatus[i] = Intermediate(local[v].result)
            /\ local[v].pc \in {"issue", "page"} => istatus[i] \in Sent
        BY <3>1 DEF Owned, MatchOwns, MatchCounts
      <3>3. /\ {"EXTRACTED", "NEEDS_VERIFICATION", "MATCHING"}
                 \cap {NoInvoice, "PENDING_APPROVAL"} = {}
            /\ Intermediate(local[v].result) \notin {NoInvoice, "PENDING_APPROVAL"}
        BY DEF NoInvoice, Lifecycle!NoInvoice, Intermediate
      <3>4. QED
        BY <1>1, <3>1, <3>2, <3>3
    <2>3. QED
      BY <2>1, <2>2 DEF MatchOwns, MatchCounts, MatchingPcs, MatchJob, Handles
  <1>6. RunFollows(i)'
    <2>1. ASSUME NEW v \in Workers, Handles(v, MatchJob(i))', local'[v].pc # "start"
          PROVE  /\ local'[v].doc # NoDoc /\ (corrections' = 0 => local'[v].doc = doc'[i])
                 /\ local'[v].pc \in MatchPcs \ {"MATCHING"} => run'[i].result = local'[v].result
                 /\ local'[v].pc \in MatchPcs \ {"MATCHING", "line_matches"} => run'[i].lines
                 /\ local'[v].pc \in MatchPcs \ {"MATCHING", "line_matches", "exceptions"}
                      => run'[i].exceptions
                 /\ local'[v].pc \in {"apply", "route", "issue", "page"}
                      => run'[i].decision = DecisionOf(v)'
                 /\ local'[v].pc = "route" => DecisionOf(v)'.outcome # "NEEDS_VERIFICATION"
      <3>1. Handles(v, MatchJob(i)) /\ local'[v] = local[v]
        BY <2>1 DEF Still
      <3>2. DecisionOf(v)' = DecisionOf(v) /\ run'[i] = run[i]
        BY <3>1 DEF DecisionOf, Still
      <3>3. QED
        BY <1>3, <2>1, <3>1, <3>2 DEF Owned, RunFollows, RunOf
    <2>2. "start" \notin MatchPcs
      BY DEF MatchPcs
    <2>3. QED
      BY <2>1, <2>2 DEF RunFollows, RunOf, MatchJob, Handles
  <1>7. Justified(i)'
    BY <1>1, <1>3 DEF Owned, Justified, Still
  <1>8. TokensFollow(i)'
    <2>1. ASSUME NEW a \in Approvers
          PROVE  /\ tokens'[i][a] > 0 => istatus'[i] \in Sent
                 /\ tokens'[i][a] <= 1
                 /\ tokens'[i][a] > 0 => a \in Contacts(run'[i].decision.required_approvers)
                 /\ jstatus'[NotifyJob(i, a)] # "absent" => tokens'[i][a] > 0
      BY <1>1 DEF Owned, TokensFollow, TokenRow, Issues, Still
    <2>2. ASSUME NEW v \in Workers, Handles(v, MatchJob(i))', local'[v].pc # "start"
          PROVE  Handles(v, MatchJob(i)) /\ local'[v] = local[v]
      BY <2>2 DEF Still
    <2>3. tokens'[i] = tokens[i] /\ run'[i] = run[i]
      BY DEF Still
    <2>4. \A v \in Workers : Handles(v, MatchJob(i))' =>
            /\ local'[v].pc = "issue" =>
                 \A b \in Approvers : b >= local'[v].approver => tokens'[i][b] = 0
            /\ local'[v].pc = "page" =>
                 /\ tokens'[i][local'[v].approver] = 1
                 /\ \A b \in Approvers : b > local'[v].approver => tokens'[i][b] = 0
            /\ local'[v].pc \in {"issue", "page"} =>
                 local'[v].approver \in Contacts(run'[i].decision.required_approvers)
      BY <2>2, <2>3 DEF Owned, TokensFollow, TokenRow, Issues
    <2>5. QED
      BY <2>1, <2>4 DEF TokensFollow, TokenRow, Issues, NotifyJob, MatchJob, Handles, Contacts
  <1>9. QED
    BY <1>4, <1>5, <1>6, <1>7, <1>8 DEF Owned

-----------------------------------------------------------------------------

\* ... and every step but a handler's on the invoice is such a step.
LEMMA OthersAreStill ==
  ASSUME WellTyped, [Next]_vars, NEW i \in Invoices, UndisturbedInvoice(i)',
         ~ \E w \in Workers : HandlerStep(w) /\ Inv(w) = i /\ wjob[w][1] # "notify"
  PROVE  Still(i)
  <1>1. /\ \/ istatus'[i] = istatus[i]
           \/ istatus[i] = NoInvoice /\ istatus'[i] = "RECEIVED"
           \/ istatus[i] = "PENDING_APPROVAL" /\ istatus'[i] \in {"APPROVED", "REJECTED"}
        /\ \/ doc'[i] = doc[i] /\ (corrections' = 0 => corrections = 0)
           \/ doc[i] # NoDoc /\ doc'[i] # NoDoc /\ corrections' # 0
        /\ run'[i] = run[i] /\ tokens'[i] = tokens[i]
    <2>1. CASE Untouched(i)
      BY <2>1 DEF Untouched
    <2>2. CASE Ingest(i)
      BY <2>2 DEF Ingest, _transition, apiVars, WellTyped, RowsTyped
    <2>3. CASE Settle(i, "APPROVED") \/ Settle(i, "REJECTED")
      <3>1. istatus[i] = "PENDING_APPROVAL"
        BY <2>3, EdgesAsked DEF Settle, WellTyped, RowsTyped
      <3>2. QED
        BY <2>3, <3>1 DEF Settle, _transition, apiVars, WellTyped, RowsTyped
    <2>4. CASE \E d \in Documents : CorrectField(i, d)
      <3>1. PICK d \in Documents : CorrectField(i, d)
        BY <2>4
      <3>2. d # NoDoc
        BY PipelineAssumption DEF DocumentType, NoDoc
      <3>3. corrections' # 0
        BY <3>1 DEF CorrectField, WellTyped, RowsTyped
      <3>4. QED
        BY <3>1, <3>2, <3>3 DEF CorrectField, WellTyped, RowsTyped
    <2>5. ASSUME NEW r \in Reruns, RerunWrite(r), request[r].invoice = i PROVE FALSE
      <3>1. request'[r] = [request[r] EXCEPT !.pc = "done"] /\ request[r] \in RequestType
            /\ request[r].pc = "read"
        BY <2>5 DEF RerunWrite, WellTyped, RowsTyped
      <3>2. request'[r].pc = "done" /\ request'[r].invoice = i
        BY <2>5, <3>1 DEF RequestType
      <3>3. QED
        BY <3>2 DEF UndisturbedInvoice
    <2>6. QED
      BY <2>1, <2>2, <2>3, <2>4, <2>5, WhoWrites DEF Touches
  <1>2. ASSUME NEW w \in Workers, EnqueueMatch(w), wjob[w][1] = "extract" PROVE Inv(w) # i
    BY <1>2 DEF HandlerStep
  <1>3. ASSUME NEW w \in Workers, EnqueueNotify(w) PROVE Inv(w) # i
    <2>1. InHandler(w) /\ local[w].pc = "page"
      BY <1>3 DEF EnqueueNotify, At, InHandler
    <2>2. wjob[w][1] # "notify"
      BY <2>1, LocalTyped DEF Placed
    <2>3. QED
      BY <1>3, <2>2 DEF HandlerStep
  <1>4. ASSUME NEW k \in Jobs, jstatus[k] = "absent", jstatus'[k] # "absent" PROVE Next
    BY <1>4 DEF vars, queueVars
  <1>5. ASSUME jstatus[MatchJob(i)] = "absent", jstatus'[MatchJob(i)] # "absent" PROVE FALSE
    <2>1. \/ \E j \in Invoices : MatchJob(i) = ExtractJob(j)
          \/ \E w \in Workers : EnqueueMatch(w) /\ wjob[w][1] = "extract"
                                  /\ MatchJob(i) = MatchJob(Inv(w))
          \/ \E w \in Workers : MatchJob(i) = NotifyJob(Inv(w), local[w].approver)
          \/ \E r \in Reruns : MatchJob(i) = RerunJob(r)
      <3>1. MatchJob(i) \in Jobs
        BY JobsMade
      <3>2. QED
        BY <1>4, <1>5, <3>1, Inserts
    <2>2. PICK w \in Workers : EnqueueMatch(w) /\ wjob[w][1] = "extract"
                                /\ MatchJob(i) = MatchJob(Inv(w))
      BY <2>1, JobFields
    <2>3. Inv(w) = i
      BY <2>2, JobFields
    <2>4. QED
      BY <1>2, <2>2, <2>3
  <1>6. ASSUME NEW a \in Approvers, jstatus[NotifyJob(i, a)] = "absent",
               jstatus'[NotifyJob(i, a)] # "absent"
        PROVE  FALSE
    <2>1. \/ \E j \in Invoices : NotifyJob(i, a) = ExtractJob(j)
          \/ \E w \in Workers : NotifyJob(i, a) = MatchJob(Inv(w))
          \/ \E w \in Workers : /\ EnqueueNotify(w)
                                /\ NotifyJob(i, a) = NotifyJob(Inv(w), local[w].approver)
          \/ \E r \in Reruns : NotifyJob(i, a) = RerunJob(r)
      <3>1. NotifyJob(i, a) \in Jobs
        BY JobsMade
      <3>2. QED
        BY <1>4, <1>6, <3>1, Inserts
    <2>2. PICK w \in Workers : /\ EnqueueNotify(w)
                               /\ NotifyJob(i, a) = NotifyJob(Inv(w), local[w].approver)
      BY <2>1, JobFields
    <2>3. Inv(w) = i
      BY <2>2, JobFields
    <2>4. QED
      BY <1>3, <2>2, <2>3
  <1>7. ASSUME NEW v \in Workers, NEW k \in {ExtractJob(i), MatchJob(i)}, Handles(v, k)'
        PROVE  local'[v].pc = "start" \/ (Handles(v, k) /\ local'[v] = local[v])
    <2>1. InHandler(v)' /\ wjob'[v] = k /\ k[1] \in {"extract", "match"} /\ k[2] = i
      BY <1>7, JobFields DEF Handles
    <2>2. ASSUME HandlerStep(v), wjob'[v] = wjob[v] PROVE FALSE
      BY <2>1, <2>2 DEF Inv, InvoiceOf
    <2>3. QED
      BY <2>1, <2>2, HandlerMoves DEF Handles
  <1>8. QED
    BY <1>1, <1>5, <1>6, <1>7 DEF Still

-----------------------------------------------------------------------------

\* The step of one handler leaves every other one, and what it handles.
LEMMA OtherHandlers ==
  ASSUME WellTyped, NEW w \in Workers, HandlerStep(w)
  PROVE  /\ \A v \in Workers \ {w}, k \in Jobs : Handles(v, k)' <=> Handles(v, k)
         /\ \A v \in Workers \ {w} : local'[v] = local[v]
         /\ \A k \in Jobs : Handles(w, k)' => Handles(w, k)
         /\ InHandler(w) /\ wjob'[w] = wjob[w]
  BY OthersStand, HandlerInside DEF WorkerNext, Handles, InHandler, Inside

\* What a handler's step does to the jobs of an invoice that it does not insert.
LEMMA HandlerQueue ==
  ASSUME WellTyped, NEW w \in Workers, HandlerStep(w), ~EnqueueMatch(w), ~EnqueueNotify(w)
  PROVE  jstatus' = jstatus
  BY HandlerInside DEF queueVars, Q!HandlerReturns, Q!HandlerRaises, Q!jobVars

\* Before the extraction is over nothing of a match is there.
LEMMA NothingMatched ==
  ASSUME WellTyped, NEW i \in Invoices, Owned(i), istatus[i] \in NotExtracted
  PROVE  /\ jstatus[MatchJob(i)] = "absent"
         /\ \A v \in Workers : ~Handles(v, MatchJob(i))
         /\ \A a \in Approvers : tokens[i][a] = 0 /\ jstatus[NotifyJob(i, a)] = "absent"
  <1>1. jstatus[MatchJob(i)] = "absent"
    BY DEF Owned, MatchOwns, MatchCounts
  <1>2. \A v \in Workers : ~Handles(v, MatchJob(i))
    BY <1>1 DEF WellTyped, Q!JobsExist, Handles, InHandler, Q!Busy
  <1>3. istatus[i] \notin Sent
    BY DEF NotExtracted, Unread, Sent, NoInvoice, Lifecycle!NoInvoice
  <1>4. ASSUME NEW a \in Approvers PROVE tokens[i][a] = 0 /\ jstatus[NotifyJob(i, a)] = "absent"
    <2>1. tokens[i][a] \in Nat
      BY DEF WellTyped, RowsTyped
    <2>2. QED
      BY <1>3, <2>1 DEF Owned, TokensFollow, TokenRow, Issues
  <1>5. QED
    BY <1>1, <1>2, <1>4

-----------------------------------------------------------------------------

\* As long as nothing of a match is there, the status alone decides what holds of it.
LEMMA StillUnmatched ==
  ASSUME NEW i \in Invoices, istatus'[i] \notin Decided,
         jstatus'[MatchJob(i)] = "absent",
         \A v \in Workers : ~Handles(v, MatchJob(i))',
         \A a \in Approvers : tokens'[i][a] = 0 /\ jstatus'[NotifyJob(i, a)] = "absent"
  PROVE  MatchOwns(i)' /\ RunFollows(i)' /\ Justified(i)' /\ TokensFollow(i)'
  BY DEF MatchOwns, MatchCounts, RunFollows, RunOf, Justified, TokensFollow, TokenRow, Issues,
         Handles, MatchJob, NotifyJob

\* What a handler that ends has done to the rows.
LEMMA Leaves ==
  ASSUME WellTyped, NEW w \in Workers, HandlerStep(w), ~InHandler(w)'
  PROVE  /\ ~EnqueueMatch(w) /\ ~EnqueueNotify(w)
         /\ \/ UNCHANGED <<bizVars, apiVars>>
            \/ ExtractFails(w) \/ MatchInvalid(w)
            \/ /\ ApplyDecision(w) /\ _transition(Inv(w), "MATCHING", "NEEDS_VERIFICATION")
            \/ RouteInvoice(w)
  <1>1. InHandler(w)
    BY HandlerInside DEF InHandler
  <1>2. ASSUME NEW l, Goto(w, l) PROVE FALSE
    BY <1>1, <1>2 DEF Goto, queueVars, InHandler
  <1>3. ~EnqueueMatch(w) /\ ~EnqueueNotify(w)
    BY <1>1 DEF EnqueueMatch, EnqueueNotify, Q!Enqueue, Q!workerVars, InHandler
  <1>4. ~PersistExtraction(w) /\ ~FinishExtraction(w) /\ ~PersistMatchRun(w)
        /\ ~PersistLineMatches(w) /\ ~PersistMatchExceptions(w) /\ ~PersistDecisionReason(w)
        /\ ~IssueToken(w)
    BY <1>2 DEF PersistExtraction, FinishExtraction, PersistMatchRun, PersistLineMatches,
                PersistMatchExceptions, PersistDecisionReason, IssueToken
  <1>5. CASE Begin(w)
    <2>1. UNCHANGED <<istatus, audit>> /\ UNCHANGED <<linked, doc, extractions, run, tokens, apiVars>>
      BY <1>2, <1>5 DEF Begin
    <2>2. UNCHANGED <<bizVars, apiVars>>
      BY <2>1 DEF bizVars
    <2>3. QED
      BY <1>3, <2>2
  <1>6. CASE ReadInvoice(w) \/ MatchRaises(w) \/ Finished(w) \/ NotifyEnds(w)
    BY <1>3, <1>6 DEF ReadInvoice, MatchRaises, Finished, NotifyEnds
  <1>7. CASE ApplyDecision(w)
    BY <1>2, <1>3, <1>7 DEF ApplyDecision
  <1>8. QED
    BY <1>3, <1>4, <1>5, <1>6, <1>7 DEF HandlerStep

\* A step of the handler of the 'extract' job keeps the invoice owned.
LEMMA ExtractKeepsOwned ==
  ASSUME WellTyped, Exclusive, [Next]_vars, NEW i \in Invoices, UndisturbedInvoice(i), Owned(i),
         NEW w \in Workers, HandlerStep(w), Handles(w, ExtractJob(i))
  PROVE  Owned(i)'
  <1>1. wjob[w][1] = "extract" /\ Inv(w) = i /\ ExtractJob(i) \in Jobs /\ MatchJob(i) \in Jobs
    BY JobFields, JobsMade DEF Handles, Inv, InvoiceOf
  <1>2. ASSUME NEW v \in Workers, Handles(v, ExtractJob(i))' PROVE v = w
    BY <1>1, <1>2, OtherHandlers, OneHandler DEF Handles, UndisturbedInvoice
  <1>3. ASSUME NEW v \in Workers, Handles(v, MatchJob(i))' \/ Handles(v, MatchJob(i))
        PROVE  v # w /\ local'[v] = local[v] /\ Handles(v, MatchJob(i))
    BY <1>1, <1>3, OtherHandlers, JobFields DEF Handles, MatchJob
  \* The handler's own share.
  <1>4. ASSUME InHandler(w)' =>
                 /\ local'[w].pc = "begin" /\ local'[w].status = "RECEIVED"
                      => istatus'[i] = "RECEIVED"
                 /\ local'[w].pc \in {"EXTRACTING", "persisted"} => istatus'[i] = "EXTRACTING"
                 /\ local'[w].pc = "persisted" => doc'[i] # NoDoc
                 /\ local'[w].pc = "enqueue" => istatus'[i] \notin NotExtracted /\ doc'[i] # NoDoc
        PROVE  ExtractOwns(i)'
    BY <1>2, <1>4 DEF ExtractOwns, ExtractCounts, Handles, ExtractJob
  \* A step that changes a row happens before there is anything of a match.
  <1>5. ASSUME istatus[i] \in {"RECEIVED", "EXTRACTING"}, ~EnqueueMatch(w), tokens'[i] = tokens[i],
               istatus'[i] \in {"RECEIVED", "EXTRACTING", "EXTRACTED", "EXTRACTION_FAILED"}
        PROVE  MatchOwns(i)' /\ RunFollows(i)' /\ Justified(i)' /\ TokensFollow(i)'
    <2>1. istatus[i] \in NotExtracted
      BY <1>5 DEF NotExtracted, Unread
    <2>2. /\ jstatus[MatchJob(i)] = "absent"
          /\ \A v \in Workers : ~Handles(v, MatchJob(i))
          /\ \A a \in Approvers : tokens[i][a] = 0 /\ jstatus[NotifyJob(i, a)] = "absent"
      BY <2>1, NothingMatched
    <2>3. ~EnqueueNotify(w)
      <3>1. EnqueueNotify(w) => local[w].pc = "page"
        BY DEF EnqueueNotify, At
      <3>2. local[w].pc \notin MatchPcs
        BY <1>1, LocalTyped DEF Handles, Placed
      <3>3. QED
        BY <3>1, <3>2 DEF MatchPcs
    <2>4. jstatus' = jstatus
      BY <1>5, <2>3, HandlerQueue
    <2>5. istatus'[i] \notin Decided
      BY <1>5 DEF Decided, Sent
    <2>6. \A v \in Workers : ~Handles(v, MatchJob(i))'
      BY <1>3, <2>2
    <2>7. QED
      BY <1>5, <2>2, <2>4, <2>5, <2>6, StillUnmatched
  \* A step that changes no row and no job of a match keeps what holds of the match.
  <1>6. ASSUME UNCHANGED <<bizVars, apiVars>>,
               \A a \in Approvers : jstatus'[NotifyJob(i, a)] = jstatus[NotifyJob(i, a)],
               jstatus'[MatchJob(i)] # "absent" =>
                  \/ jstatus[MatchJob(i)] # "absent"
                  \/ istatus[i] \notin NotExtracted /\ doc[i] # NoDoc
        PROVE  MatchOwns(i)' /\ RunFollows(i)' /\ Justified(i)' /\ TokensFollow(i)'
    <2>1. UNCHANGED <<istatus, doc, run, tokens, corrections>>
      BY <1>6 DEF bizVars, apiVars
    <2>2. MatchOwns(i)'
      <3>1. jstatus'[MatchJob(i)] # "absent" => istatus'[i] \notin NotExtracted /\ doc'[i] # NoDoc
        BY <1>6, <2>1 DEF Owned, MatchOwns, MatchCounts
      <3>2. QED
        BY <1>3, <2>1, <3>1 DEF Owned, MatchOwns, MatchCounts, Handles, MatchJob
    <2>3. RunFollows(i)'
      <3>1. \A v \in Workers : Handles(v, MatchJob(i))' => DecisionOf(v)' = DecisionOf(v)
        BY <1>3 DEF DecisionOf
      <3>2. QED
        BY <1>3, <2>1, <3>1 DEF Owned, RunFollows, RunOf, Handles, MatchJob
    <2>4. Justified(i)'
      BY <2>1 DEF Owned, Justified
    <2>5. TokensFollow(i)'
      <3>1. \A a \in Approvers :
               /\ tokens'[i][a] > 0 => istatus'[i] \in Sent
               /\ tokens'[i][a] <= 1
               /\ tokens'[i][a] > 0 => a \in Contacts(run'[i].decision.required_approvers)
               /\ jstatus'[NotifyJob(i, a)] # "absent" => tokens'[i][a] > 0
        BY <1>6, <2>1 DEF Owned, TokensFollow, TokenRow, Issues
      <3>2. \A v \in Workers : Handles(v, MatchJob(i))' =>
              /\ local'[v].pc = "issue" =>
                   \A b \in Approvers : b >= local'[v].approver => tokens'[i][b] = 0
              /\ local'[v].pc = "page" =>
                   /\ tokens'[i][local'[v].approver] = 1
                   /\ \A b \in Approvers : b > local'[v].approver => tokens'[i][b] = 0
              /\ local'[v].pc \in {"issue", "page"} =>
                   local'[v].approver \in Contacts(run'[i].decision.required_approvers)
        BY <1>3, <2>1 DEF Owned, TokensFollow, TokenRow, Issues
      <3>3. QED
        BY <3>1, <3>2 DEF TokensFollow, TokenRow, Issues, NotifyJob, MatchJob, Handles, Contacts
    <2>6. QED
      BY <2>2, <2>3, <2>4, <2>5
  <1>7. ASSUME UNCHANGED <<bizVars, apiVars>>, ~EnqueueMatch(w), ~EnqueueNotify(w)
        PROVE  MatchOwns(i)' /\ RunFollows(i)' /\ Justified(i)' /\ TokensFollow(i)'
    <2>1. jstatus' = jstatus
      BY <1>7, HandlerQueue
    <2>2. \A a \in Approvers : jstatus'[NotifyJob(i, a)] = jstatus[NotifyJob(i, a)]
      BY <2>1
    <2>3. jstatus'[MatchJob(i)] # "absent" =>
            jstatus[MatchJob(i)] # "absent" \/ (istatus[i] \notin NotExtracted /\ doc[i] # NoDoc)
      BY <2>1
    <2>4. UNCHANGED <<bizVars, apiVars>>
      BY <1>7
    <2>5. QED
      BY <1>6, <2>2, <2>3, <2>4
  <1>8. /\ local[w].pc = "begin" /\ local[w].status = "RECEIVED" => istatus[i] = "RECEIVED"
        /\ local[w].pc \in {"EXTRACTING", "persisted"} => istatus[i] = "EXTRACTING"
        /\ local[w].pc = "persisted" => doc[i] # NoDoc
        /\ local[w].pc = "enqueue" => istatus[i] \notin NotExtracted /\ doc[i] # NoDoc
    BY DEF Owned, ExtractOwns, ExtractCounts
  <1>9. istatus \in [Invoices -> Statuses] /\ doc \in [Invoices -> Documents \cup {NoDoc}]
    BY DEF WellTyped, RowsTyped
  <1>10. CASE ~InHandler(w)'
    <2>1. ExtractOwns(i)'
      BY <1>4, <1>10
    <2>2. CASE UNCHANGED <<bizVars, apiVars>> /\ ~EnqueueMatch(w) /\ ~EnqueueNotify(w)
      BY <1>7, <2>1, <2>2 DEF Owned
    <2>3. CASE ExtractFails(w)
      <3>1. istatus[i] = "EXTRACTING" /\ tokens' = tokens /\ ~EnqueueMatch(w)
        BY <1>8, <2>3 DEF ExtractFails, At, EnqueueMatch
      <3>2. istatus'[i] \in {"EXTRACTING", "EXTRACTION_FAILED"}
        BY <1>1, <1>9, <2>3, <3>1 DEF ExtractFails, _transition
      <3>3. QED
        BY <1>5, <2>1, <3>1, <3>2 DEF Owned
    <2>4. local[w].pc \notin MatchPcs
      BY <1>1, LocalTyped DEF Handles, Placed
    <2>5. ~MatchInvalid(w) /\ ~ApplyDecision(w) /\ ~RouteInvoice(w)
      BY <2>4 DEF MatchInvalid, ApplyDecision, RouteInvoice, At, MatchPcs
    <2>6. QED
      BY <1>10, <2>2, <2>3, <2>5, Leaves
  <1>11. CASE InHandler(w)'
    <2>1. CASE ReadInvoice(w) /\ local[w].pc = "start" /\ local'[w].pc = "begin"
      <3>1. UNCHANGED <<bizVars, apiVars>> /\ local'[w].status = istatus[i]
        BY <1>1, <1>11, <2>1, ReadsWhatIs
      <3>2. ExtractOwns(i)'
        BY <1>4, <2>1, <3>1 DEF bizVars
      <3>3. ~EnqueueMatch(w) /\ ~EnqueueNotify(w)
        BY <2>1 DEF EnqueueMatch, EnqueueNotify, At
      <3>4. QED
        BY <1>7, <3>1, <3>2, <3>3 DEF Owned
    <2>2. CASE Begin(w) /\ Moves(w, "begin", "EXTRACTING")
      <3>1. /\ local[w].status = "RECEIVED" /\ _transition(i, "RECEIVED", "EXTRACTING")
            /\ tokens' = tokens
        BY <1>1, <1>11, <2>2, BeginsFromWhatWasRead DEF Moves
      <3>2. istatus[i] = "RECEIVED" /\ istatus'[i] = "EXTRACTING"
        BY <1>8, <1>9, <2>2, <3>1 DEF Moves, _transition
      <3>3. ExtractOwns(i)'
        BY <1>4, <2>2, <3>2 DEF Moves
      <3>4. ~EnqueueMatch(w)
        BY <2>2 DEF EnqueueMatch, At, Moves
      <3>5. QED
        BY <1>5, <3>1, <3>2, <3>3, <3>4 DEF Owned
    <2>3. CASE PersistExtraction(w) /\ Moves(w, "EXTRACTING", "persisted")
      <3>1. PICK d \in Documents : doc' = [doc EXCEPT ![i] = d]
        BY <1>1, <2>3 DEF PersistExtraction
      <3>2. doc'[i] # NoDoc
        <4>1. d # NoDoc
          BY PipelineAssumption DEF DocumentType, NoDoc
        <4>2. QED
          BY <1>9, <3>1, <4>1
      <3>3. istatus' = istatus /\ tokens' = tokens /\ istatus[i] = "EXTRACTING"
        BY <1>8, <2>3 DEF PersistExtraction, Moves
      <3>4. ExtractOwns(i)'
        BY <1>4, <2>3, <3>2, <3>3 DEF Moves
      <3>5. ~EnqueueMatch(w)
        BY <2>3 DEF EnqueueMatch, At, Moves
      <3>6. QED
        BY <1>5, <3>3, <3>4, <3>5 DEF Owned
    <2>4. CASE FinishExtraction(w) /\ Moves(w, "persisted", "enqueue")
      <3>1. /\ istatus[i] = "EXTRACTING" /\ istatus'[i] = "EXTRACTED" /\ tokens' = tokens
            /\ doc'[i] # NoDoc
        BY <1>1, <1>8, <1>9, <2>4 DEF FinishExtraction, _transition, Moves
      <3>2. istatus'[i] \notin NotExtracted
        BY <3>1 DEF NotExtracted, Unread, NoInvoice, Lifecycle!NoInvoice
      <3>3. ExtractOwns(i)'
        BY <1>4, <2>4, <3>1, <3>2 DEF Moves
      <3>4. ~EnqueueMatch(w)
        BY <2>4 DEF EnqueueMatch, At, Moves
      <3>5. QED
        BY <1>5, <3>1, <3>3, <3>4 DEF Owned
    <2>5. CASE EnqueueMatch(w) /\ Moves(w, "enqueue", "finished")
      <3>1. istatus[i] \notin NotExtracted /\ doc[i] # NoDoc
        BY <1>8, <2>5 DEF Moves
      <3>2. UNCHANGED <<bizVars, apiVars>> /\ Q!Enqueue(MatchJob(i))
        BY <1>1, <2>5 DEF EnqueueMatch
      <3>3. ExtractOwns(i)'
        BY <1>4, <2>5 DEF Moves
      <3>4. ASSUME NEW a \in Approvers PROVE jstatus'[NotifyJob(i, a)] = jstatus[NotifyJob(i, a)]
        <4>1. NotifyJob(i, a) # MatchJob(i) /\ NotifyJob(i, a) \in Jobs
          BY JobFields, JobsMade
        <4>2. jstatus \in [Jobs -> Q!JobStatus] /\ Q!enqueue(MatchJob(i))
          BY <3>2 DEF Q!Enqueue, WellTyped, Q!TypeOK
        <4>3. jstatus' = jstatus \/ jstatus' = [jstatus EXCEPT ![MatchJob(i)] = "queued"]
          BY <4>2 DEF Q!enqueue, Q!jobVars
        <4>4. QED
          BY <4>1, <4>2, <4>3
      <3>5. QED
        BY <1>6, <3>1, <3>2, <3>3, <3>4 DEF Owned
    <2>6. QED
      BY <1>1, <1>11, <2>1, <2>2, <2>3, <2>4, <2>5, ExtractMoves
  <1>12. QED
    BY <1>10, <1>11

-----------------------------------------------------------------------------

\* A match writes no extracted field and no re-run request.
LEMMA MatchWrites ==
  ASSUME WellTyped, NEW w \in Workers, HandlerStep(w), wjob[w][1] = "match"
  PROVE  UNCHANGED <<doc, corrections, request>>
  <1>1. InHandler(w) /\ local[w].pc \notin ExtractPcs
    BY HandlerInside, LocalTyped DEF Placed, InHandler
  <1>2. ~PersistExtraction(w)
    BY <1>1 DEF PersistExtraction, At, ExtractPcs
  <1>3. QED
    BY <1>2 DEF HandlerStep, ReadInvoice, Begin, ExtractFails, FinishExtraction, EnqueueMatch,
           MatchRaises, MatchInvalid, PersistMatchRun, PersistLineMatches,
           PersistMatchExceptions, PersistDecisionReason, ApplyDecision, RouteInvoice,
           IssueToken, EnqueueNotify, Finished, NotifyEnds, bizVars, apiVars

\* Before an invoice is sent to its approvers there is no token and no page.
LEMMA NoTokenYet ==
  ASSUME WellTyped, NEW i \in Invoices, Owned(i), istatus[i] \notin Sent
  PROVE  \A a \in Approvers : tokens[i][a] = 0 /\ jstatus[NotifyJob(i, a)] = "absent"
  <1> SUFFICES ASSUME NEW a \in Approvers
               PROVE  tokens[i][a] = 0 /\ jstatus[NotifyJob(i, a)] = "absent"
    OBVIOUS
  <1>1. tokens[i][a] \in Nat
    BY DEF WellTyped, RowsTyped
  <1>2. TokenRow(i, a)
    BY DEF Owned, TokensFollow
  <1>3. QED
    BY <1>1, <1>2 DEF TokenRow

\* How the parts of Owned are kept by a step of the handler of the 'match' job: the
\* handler of the 'extract' job is past its demands, no other worker handles the
\* 'match' job, and so only the handler's own share is to be shown.
LEMMA OwnShare ==
  ASSUME WellTyped, Exclusive, NEW i \in Invoices, UndisturbedInvoice(i), Owned(i),
         NEW w \in Workers, HandlerStep(w), Handles(w, MatchJob(i))
  PROVE  /\ wjob[w][1] = "match" /\ Inv(w) = i
         /\ istatus[i] \notin NotExtracted /\ doc[i] # NoDoc
         /\ doc' = doc /\ corrections' = corrections
         /\ istatus'[i] \notin NotExtracted => ExtractOwns(i)'
         /\ istatus'[i] \notin NotExtracted /\ (InHandler(w)' => MatchCounts(i, w)')
              => MatchOwns(i)'
         /\ (InHandler(w)' => RunOf(i, w)') => RunFollows(i)'
         /\ (\A a \in Approvers : TokenRow(i, a)') /\ (InHandler(w)' => Issues(i, w)')
              => TokensFollow(i)'
         /\ MatchCounts(i, w) /\ RunOf(i, w) /\ Issues(i, w)
  <1>1. /\ wjob[w][1] = "match" /\ Inv(w) = i
        /\ ExtractJob(i) \in Jobs /\ MatchJob(i) \in Jobs /\ ExtractJob(i) # MatchJob(i)
    BY JobFields, JobsMade DEF Handles, Inv, InvoiceOf
  <1>2. istatus[i] \notin NotExtracted /\ doc[i] # NoDoc
    BY DEF Owned, MatchOwns, WellTyped, Q!JobsExist, Handles, InHandler, Q!Busy
  <1>3. doc' = doc /\ corrections' = corrections
    BY <1>1, MatchWrites
  <1>4. ASSUME NEW v \in Workers, Handles(v, MatchJob(i))' PROVE v = w /\ InHandler(w)'
    BY <1>1, <1>4, OtherHandlers, OneHandler DEF Handles, UndisturbedInvoice
  <1>5. ASSUME istatus'[i] \notin NotExtracted PROVE ExtractOwns(i)'
    <2>1. ASSUME NEW v \in Workers, Handles(v, ExtractJob(i))' PROVE ExtractCounts(i, v)'
      <3>1. v # w /\ local'[v] = local[v] /\ Handles(v, ExtractJob(i))
        BY <1>1, <2>1, OtherHandlers DEF Handles
      <3>2. ExtractCounts(i, v)
        BY <3>1 DEF Owned, ExtractOwns
      <3>3. "RECEIVED" \in NotExtracted /\ "EXTRACTING" \in NotExtracted
        BY DEF NotExtracted, Unread
      <3>4. QED
        BY <1>2, <1>3, <1>5, <3>1, <3>2, <3>3 DEF ExtractCounts
    <2>2. QED
      BY <2>1 DEF ExtractOwns, Handles, ExtractJob
  <1>6. ASSUME istatus'[i] \notin NotExtracted, InHandler(w)' => MatchCounts(i, w)'
        PROVE  MatchOwns(i)'
    BY <1>2, <1>3, <1>4, <1>6 DEF MatchOwns, Handles, MatchJob
  <1>7. ASSUME InHandler(w)' => RunOf(i, w)' PROVE RunFollows(i)'
    BY <1>4, <1>7 DEF RunFollows, Handles, MatchJob
  <1>8. ASSUME \A a \in Approvers : TokenRow(i, a)', InHandler(w)' => Issues(i, w)'
        PROVE  TokensFollow(i)'
    BY <1>4, <1>8 DEF TokensFollow, Handles, MatchJob
  <1>9. MatchCounts(i, w) /\ RunOf(i, w) /\ Issues(i, w)
    BY DEF Owned, MatchOwns, RunFollows, TokensFollow
  <1>10. QED
    BY <1>1, <1>2, <1>3, <1>5, <1>6, <1>7, <1>8, <1>9

-----------------------------------------------------------------------------

\* As long as the invoice has not been sent, a step that issues and pages nothing.
LEMMA StillNoToken ==
  ASSUME WellTyped, NEW i \in Invoices, Owned(i), istatus[i] \notin Sent,
         tokens' = tokens, jstatus' = jstatus
  PROVE  \A a \in Approvers : TokenRow(i, a)' /\ tokens'[i][a] = 0
  <1> SUFFICES ASSUME NEW a \in Approvers PROVE TokenRow(i, a)' /\ tokens'[i][a] = 0
    OBVIOUS
  <1>1. tokens'[i][a] = 0 /\ jstatus'[NotifyJob(i, a)] = "absent"
    BY NoTokenYet
  <1>2. QED
    BY <1>1 DEF TokenRow, NotifyJob

\* A handler of the 'match' job that ends leaves the invoice owned.
LEMMA MatchEnds ==
  ASSUME WellTyped, Exclusive, NEW i \in Invoices, UndisturbedInvoice(i), Owned(i),
         NEW w \in Workers, HandlerStep(w), Handles(w, MatchJob(i)), ~InHandler(w)'
  PROVE  Owned(i)'
  <1>1. /\ wjob[w][1] = "match" /\ Inv(w) = i
        /\ istatus[i] \notin NotExtracted
        /\ doc' = doc /\ corrections' = corrections
        /\ istatus'[i] \notin NotExtracted => ExtractOwns(i)' /\ MatchOwns(i)'
        /\ RunFollows(i)'
        /\ (\A a \in Approvers : TokenRow(i, a)') => TokensFollow(i)'
        /\ MatchCounts(i, w) /\ RunOf(i, w)
    BY OwnShare
  <1>2. istatus \in [Invoices -> Statuses] /\ jstatus' = jstatus
    BY Leaves, HandlerQueue DEF WellTyped, RowsTyped
  <1>3. local[w].pc \notin ExtractPcs
    BY <1>1, LocalTyped DEF Handles, Placed
  <1>4. CASE UNCHANGED <<bizVars, apiVars>>
    <2>1. UNCHANGED <<istatus, doc, run, tokens, corrections>>
      BY <1>4 DEF bizVars, apiVars
    <2>2. Justified(i)'
      BY <2>1 DEF Owned, Justified
    <2>3. \A a \in Approvers : TokenRow(i, a)'
      BY <1>2, <2>1 DEF Owned, TokensFollow, TokenRow, NotifyJob, Contacts
    <2>4. QED
      BY <1>1, <2>1, <2>2, <2>3 DEF Owned
  <1>5. CASE \/ MatchInvalid(w)
             \/ ApplyDecision(w) /\ _transition(i, "MATCHING", "NEEDS_VERIFICATION")
    <2>1. istatus[i] = "MATCHING"
      BY <1>1, <1>5 DEF MatchInvalid, ApplyDecision, At, MatchCounts, MatchingPcs
    <2>2. istatus'[i] = "NEEDS_VERIFICATION" /\ tokens' = tokens
      BY <1>1, <1>2, <1>5 DEF MatchInvalid, ApplyDecision, _transition
    <2>3. Justified(i)' /\ istatus'[i] \notin NotExtracted /\ istatus[i] \notin Sent
      BY <2>1, <2>2 DEF Justified, Decided, Sent, NotExtracted, Unread, NoInvoice,
                        Lifecycle!NoInvoice
    <2>4. QED
      BY <1>1, <1>2, <2>2, <2>3, StillNoToken DEF Owned
  <1>6. CASE RouteInvoice(w)
    <2>1. local[w].pc = "route"
      BY <1>6 DEF RouteInvoice, At
    <2>2. istatus[i] = Intermediate(local[w].result)
      BY <1>1, <2>1 DEF MatchCounts
    <2>3. istatus[i] \in Decided /\ istatus[i] \notin Sent
      BY <2>2 DEF Intermediate, Decided, Sent
    <2>4. /\ istatus'[i] = IF DecisionOf(w).outcome = "AUTO_POST" THEN "AUTO_POSTED"
                           ELSE "PENDING_APPROVAL"
          /\ run' = run /\ tokens' = tokens
      BY <1>1, <1>2, <1>6 DEF RouteInvoice, _transition
    <2>5. istatus'[i] \notin NotExtracted
      BY <2>4 DEF NotExtracted, Unread, NoInvoice, Lifecycle!NoInvoice
    <2>6. run[i].decision = DecisionOf(w) /\ DecisionOf(w).outcome # "NEEDS_VERIFICATION"
      BY <1>1, <2>1 DEF RunOf
    <2>7. Justified(i)'
      <3>1. DecisionOf(w).outcome \in {"AUTO_POST", "PENDING_APPROVAL"}
        BY <2>6, DecisionsTyped DEF DecisionOf
      <3>2. /\ run[i].lines /\ run[i].exceptions
            /\ corrections = 0 =>
                 run[i].decision = decide(run[i].result, doc[i].confidence, doc[i].total, Policy)
        BY <2>3 DEF Owned, Justified
      <3>3. QED
        BY <1>1, <2>4, <2>6, <3>1, <3>2 DEF Justified, Sent
    <2>8. QED
      BY <1>1, <1>2, <2>3, <2>4, <2>5, <2>7, StillNoToken DEF Owned
  <1>7. ~ExtractFails(w)
    BY <1>3 DEF ExtractFails, At, ExtractPcs
  <1>8. QED
    BY <1>1, <1>4, <1>5, <1>6, <1>7, Leaves

-----------------------------------------------------------------------------

\* A step of the 'match' handler that leaves the invoice undecided and unsent.
LEMMA MatchUnsent ==
  ASSUME WellTyped, Exclusive, NEW i \in Invoices, UndisturbedInvoice(i), Owned(i),
         NEW w \in Workers, HandlerStep(w), Handles(w, MatchJob(i)),
         local[w].pc \notin {"enqueue", "page"}, local'[w].pc \notin {"issue", "page"},
         istatus[i] \notin Sent, istatus'[i] \notin NotExtracted \cup Decided, tokens' = tokens,
         MatchCounts(i, w)', RunOf(i, w)'
  PROVE  Owned(i)'
  <1>1. ~EnqueueMatch(w) /\ ~EnqueueNotify(w)
    BY DEF EnqueueMatch, EnqueueNotify, At
  <1>2. jstatus' = jstatus
    BY <1>1, HandlerQueue
  <1>3. \A a \in Approvers : TokenRow(i, a)'
    BY <1>2, StillNoToken
  <1>4. Issues(i, w)' /\ Justified(i)'
    BY DEF Issues, Justified
  <1>5. QED
    BY <1>3, <1>4, OwnShare DEF Owned

\* A match reads the invoice, and begins.
LEMMA MatchReads ==
  ASSUME WellTyped, Exclusive, NEW i \in Invoices, UndisturbedInvoice(i), Owned(i),
         NEW w \in Workers, HandlerStep(w), Handles(w, MatchJob(i)), InHandler(w)',
         local[w].pc \in {"start", "begin"}
  PROVE  Owned(i)'
  <1>1. /\ wjob[w][1] = "match" /\ Inv(w) = i
        /\ istatus[i] \notin NotExtracted /\ doc[i] # NoDoc
        /\ doc' = doc /\ corrections' = corrections
        /\ MatchCounts(i, w) /\ RunOf(i, w)
    BY OwnShare
  <1>2. istatus \in [Invoices -> Statuses]
    BY DEF WellTyped, RowsTyped
  <1>3. CASE local[w].pc = "start"
    <2>1. /\ UNCHANGED <<bizVars, apiVars>> /\ local'[w].pc = "begin"
          /\ local'[w].status = istatus[i] /\ local'[w].doc = doc[i]
      BY <1>1, <1>3, ReadsWhatIs
    <2>2. UNCHANGED <<istatus, doc, run, tokens, corrections>>
      BY <2>1 DEF bizVars, apiVars
    <2>3. MatchCounts(i, w)' /\ RunOf(i, w)' /\ Issues(i, w)'
      BY <1>1, <2>1, <2>2 DEF MatchCounts, RunOf, Issues, MatchingPcs, MatchPcs
    <2>4. jstatus' = jstatus
      BY <1>3, HandlerQueue DEF EnqueueMatch, EnqueueNotify, At
    <2>5. \A a \in Approvers : TokenRow(i, a)'
      BY <2>2, <2>4 DEF Owned, TokensFollow, TokenRow, NotifyJob, Contacts
    <2>6. Justified(i)'
      BY <2>2 DEF Owned, Justified
    <2>7. QED
      BY <1>1, <2>2, <2>3, <2>5, <2>6, OwnShare DEF Owned
  <1>4. CASE local[w].pc = "begin"
    <2>1. /\ local[w].status \in {"EXTRACTED", "NEEDS_VERIFICATION"}
          /\ local'[w] = [local[w] EXCEPT !.pc = "MATCHING"] /\ local'[w].pc = "MATCHING"
          /\ _transition(i, local[w].status, "MATCHING") /\ tokens' = tokens /\ run' = run
      BY <1>1, <1>4, BeginsFromWhatWasRead
    <2>2. local'[w].doc = local[w].doc
      <3>1. local[w] \in LocalType
        BY LocalTyped DEF Handles
      <3>2. QED
        BY <2>1, <3>1 DEF LocalType
    <2>3. istatus[i] \in {"EXTRACTED", "NEEDS_VERIFICATION"} /\ istatus'[i] = "MATCHING"
      BY <1>1, <1>2, <1>4, <2>1 DEF MatchCounts, _transition
    <2>4. istatus[i] \notin Sent /\ istatus'[i] \notin NotExtracted \cup Decided
      BY <2>3 DEF Sent, Decided, NotExtracted, Unread, NoInvoice, Lifecycle!NoInvoice
    <2>5. MatchCounts(i, w)' /\ RunOf(i, w)'
      BY <1>1, <1>4, <2>1, <2>2, <2>3 DEF MatchCounts, RunOf, MatchingPcs, MatchPcs
    <2>6. QED
      BY <1>4, <2>1, <2>4, <2>5, MatchUnsent
  <1>5. QED
    BY <1>3, <1>4

\* The match run is written, row by row, in MATCHING.
LEMMA MatchWritesRun ==
  ASSUME WellTyped, Exclusive, NEW i \in Invoices, UndisturbedInvoice(i), Owned(i),
         NEW w \in Workers, HandlerStep(w), Handles(w, MatchJob(i)), InHandler(w)',
         local[w].pc \in {"MATCHING", "line_matches", "exceptions", "decide"}
  PROVE  Owned(i)'
  <1>1. /\ wjob[w][1] = "match" /\ Inv(w) = i
        /\ doc' = doc /\ corrections' = corrections
        /\ MatchCounts(i, w) /\ RunOf(i, w)
    BY OwnShare
  <1>2. istatus[i] = "MATCHING" /\ local[w].pc \in MatchPcs
    BY <1>1 DEF MatchCounts, MatchingPcs, MatchPcs
  <1>3. local[w].doc # NoDoc /\ (corrections = 0 => local[w].doc = doc[i])
    BY <1>1 DEF RunOf
  <1>4. run \in [Invoices -> RunType]
    BY DEF WellTyped, RowsTyped
  <1>5. run[i] \in RunType
    BY <1>4
  <1>6. ASSUME local'[w].pc \in {"line_matches", "exceptions", "decide", "apply"}, istatus' = istatus,
               tokens' = tokens, local'[w].doc = local[w].doc, RunOf(i, w)'
        PROVE  Owned(i)'
    <2>1. istatus[i] \notin Sent /\ istatus'[i] \notin NotExtracted \cup Decided
      BY <1>2, <1>6 DEF Sent, Decided, NotExtracted, Unread, NoInvoice, Lifecycle!NoInvoice
    <2>2. MatchCounts(i, w)'
      BY <1>2, <1>6 DEF MatchCounts
    <2>3. QED
      BY <1>6, <2>1, <2>2, MatchUnsent
  <1>7. CASE PersistMatchRun(w) /\ Moves(w, "MATCHING", "line_matches")
             /\ run' = [run EXCEPT ![i] = [result |-> local'[w].result, lines |-> FALSE,
                                           exceptions |-> FALSE, decision |-> NoDecision]]
    <2>1. run'[i].result = local'[w].result
      BY <1>4, <1>7
    <2>2. RunOf(i, w)'
      BY <1>1, <1>3, <1>7, <2>1 DEF Moves, RunOf
    <2>3. QED
      BY <1>6, <1>7, <2>2 DEF Moves, PersistMatchRun
  <1>8. CASE PersistLineMatches(w) /\ Moves(w, "line_matches", "exceptions")
             /\ local'[w].result = local[w].result
    <2>1. run' = [run EXCEPT ![i].lines = TRUE]
      BY <1>1, <1>8 DEF PersistLineMatches
    <2>2. run'[i].result = run[i].result /\ run'[i].lines
      BY <1>4, <1>5, <2>1 DEF RunType
    <2>3. run[i].result = local[w].result
      BY <1>1, <1>2, <1>8 DEF RunOf, Moves
    <2>4. RunOf(i, w)'
      BY <1>1, <1>3, <1>8, <2>2, <2>3 DEF Moves, RunOf
    <2>5. QED
      BY <1>6, <1>8, <2>4 DEF Moves, PersistLineMatches
  <1>9. CASE PersistMatchExceptions(w) /\ Moves(w, "exceptions", "decide")
             /\ local'[w].result = local[w].result
    <2>1. run' = [run EXCEPT ![i].exceptions = TRUE]
      BY <1>1, <1>9 DEF PersistMatchExceptions
    <2>2. run'[i].result = run[i].result /\ run'[i].lines = run[i].lines /\ run'[i].exceptions
      BY <1>4, <1>5, <2>1 DEF RunType
    <2>3. run[i].result = local[w].result /\ run[i].lines
      BY <1>1, <1>2, <1>9 DEF RunOf, Moves
    <2>4. RunOf(i, w)'
      BY <1>1, <1>3, <1>9, <2>2, <2>3 DEF Moves, RunOf
    <2>5. QED
      BY <1>6, <1>9, <2>4 DEF Moves, PersistMatchExceptions
  <1>10. CASE PersistDecisionReason(w) /\ Moves(w, "decide", "apply")
              /\ local'[w].result = local[w].result
    <2>1. run' = [run EXCEPT ![i].decision = DecisionOf(w)]
      BY <1>1, <1>10 DEF PersistDecisionReason
    <2>2. /\ run'[i].result = run[i].result /\ run'[i].lines = run[i].lines
          /\ run'[i].exceptions = run[i].exceptions /\ run'[i].decision = DecisionOf(w)
      BY <1>4, <1>5, <2>1 DEF RunType
    <2>3. run[i].result = local[w].result /\ run[i].lines /\ run[i].exceptions
      BY <1>1, <1>2, <1>10 DEF RunOf, Moves
    <2>4. DecisionOf(w)' = DecisionOf(w)
      BY <1>10 DEF DecisionOf, Moves
    <2>5. RunOf(i, w)'
      BY <1>1, <1>3, <1>10, <2>2, <2>3, <2>4 DEF Moves, RunOf
    <2>6. QED
      BY <1>6, <1>10, <2>5 DEF Moves, PersistDecisionReason
  <1>11. QED
    BY <1>1, <1>7, <1>8, <1>9, <1>10, MatchMoves DEF Moves

-----------------------------------------------------------------------------

\* A match is decided, and routed to its approvers.
LEMMA MatchDecides ==
  ASSUME WellTyped, Exclusive, NEW i \in Invoices, UndisturbedInvoice(i), Owned(i),
         NEW w \in Workers, HandlerStep(w), Handles(w, MatchJob(i)), InHandler(w)',
         local[w].pc \in {"apply", "route"}
  PROVE  Owned(i)'
  <1>1. /\ wjob[w][1] = "match" /\ Inv(w) = i
        /\ doc' = doc /\ corrections' = corrections
        /\ MatchCounts(i, w) /\ RunOf(i, w)
    BY OwnShare
  <1>2. /\ local[w].doc # NoDoc /\ (corrections = 0 => local[w].doc = doc[i])
        /\ run[i].result = local[w].result /\ run[i].lines /\ run[i].exceptions
        /\ run[i].decision = DecisionOf(w)
    BY <1>1 DEF RunOf, MatchPcs
  <1>3. corrections = 0 =>
          run[i].decision = decide(run[i].result, doc[i].confidence, doc[i].total, Policy)
    BY <1>2 DEF DecisionOf
  <1>4. istatus \in [Invoices -> Statuses] /\ istatus[i] \notin Sent
    BY <1>1 DEF WellTyped, RowsTyped, MatchCounts, MatchingPcs, Intermediate, Sent
  <1>5. jstatus' = jstatus
    BY HandlerQueue DEF EnqueueMatch, EnqueueNotify, At
  <1>6. CASE /\ ApplyDecision(w) /\ Moves(w, "apply", "route")
             /\ local'[w].result = local[w].result
             /\ DecisionOf(w).outcome # "NEEDS_VERIFICATION"
             /\ _transition(i, "MATCHING", Intermediate(local[w].result))
    <2>1. istatus'[i] = Intermediate(local[w].result) /\ run' = run /\ tokens' = tokens
      BY <1>4, <1>6 DEF ApplyDecision, _transition
    <2>2. istatus'[i] \in {"MATCHED_CLEAN", "EXCEPTIONS_RAISED"}
      BY <2>1 DEF Intermediate
    <2>3. istatus'[i] \notin Sent /\ istatus'[i] \notin NotExtracted
      BY <2>2 DEF Sent, NotExtracted, Unread, NoInvoice, Lifecycle!NoInvoice
    <2>4. DecisionOf(w)' = DecisionOf(w)
      BY <1>6 DEF DecisionOf, Moves
    <2>5. MatchCounts(i, w)' /\ RunOf(i, w)' /\ Issues(i, w)'
      <3>1. local'[w].pc = "route" /\ local'[w].doc = local[w].doc
            /\ local'[w].result = local[w].result
        BY <1>6 DEF Moves
      <3>2. MatchCounts(i, w)'
        BY <2>1, <3>1 DEF MatchCounts, MatchingPcs, Intermediate
      <3>3. RunOf(i, w)'
        BY <1>1, <1>2, <1>6, <2>1, <2>4, <3>1 DEF RunOf
      <3>4. QED
        BY <3>1, <3>2, <3>3 DEF Issues
    <2>6. Justified(i)'
      <3>1. run[i].decision.outcome # "NEEDS_VERIFICATION"
        BY <1>2, <1>6
      <3>2. QED
        BY <1>1, <1>2, <1>3, <2>1, <2>2, <2>3, <3>1 DEF Justified
    <2>7. \A a \in Approvers : TokenRow(i, a)'
      BY <1>4, <1>5, <2>1, StillNoToken
    <2>8. QED
      BY <2>3, <2>5, <2>6, <2>7, OwnShare DEF Owned
  <1>7. CASE /\ RouteInvoice(w) /\ Moves(w, "route", "issue")
             /\ local'[w].result = local[w].result /\ local'[w].approver = 1
             /\ DecisionOf(w).outcome # "AUTO_POST"
             /\ Contacts(DecisionOf(w).required_approvers) # {}
    <2>1. istatus'[i] = "PENDING_APPROVAL" /\ run' = run /\ tokens' = tokens
      BY <1>1, <1>4, <1>7 DEF RouteInvoice, _transition
    <2>2. istatus'[i] \in Sent /\ istatus'[i] \in Decided /\ istatus'[i] \notin NotExtracted
      BY <2>1 DEF Sent, Decided, NotExtracted, Unread, NoInvoice, Lifecycle!NoInvoice
    <2>3. DecisionOf(w).outcome = "PENDING_APPROVAL"
      <3>1. DecisionOf(w).outcome # "NEEDS_VERIFICATION"
        BY <1>1, <1>7 DEF RunOf, Moves
      <3>2. QED
        BY <1>7, <3>1, DecisionsTyped DEF DecisionOf
    <2>4. DecisionOf(w)' = DecisionOf(w)
      BY <1>7 DEF DecisionOf, Moves
    <2>5. 1 \in Contacts(DecisionOf(w).required_approvers)
      <3>1. DecisionOf(w).required_approvers \in Nat
        BY DecisionsTyped DEF DecisionOf, DecisionType
      <3>2. QED
        BY <1>7, <3>1, PipelineAssumption DEF Contacts, Approvers
    <2>6. \A a \in Approvers : TokenRow(i, a)' /\ tokens'[i][a] = 0
      BY <1>4, <1>5, <2>1, StillNoToken
    <2>7. MatchCounts(i, w)' /\ RunOf(i, w)' /\ Issues(i, w)'
      <3>1. local'[w].pc = "issue" /\ local'[w].doc = local[w].doc
            /\ local'[w].result = local[w].result
        BY <1>7 DEF Moves
      <3>2. MatchCounts(i, w)'
        BY <2>2, <3>1 DEF MatchCounts, MatchingPcs
      <3>3. RunOf(i, w)'
        BY <1>1, <1>2, <2>1, <2>4, <3>1 DEF RunOf
      <3>4. local'[w].approver \in Contacts(run'[i].decision.required_approvers)
        BY <1>2, <1>7, <2>1, <2>5
      <3>5. QED
        BY <2>6, <3>1, <3>2, <3>3, <3>4 DEF Issues, Contacts
    <2>8. Justified(i)'
      BY <1>1, <1>2, <1>3, <2>1, <2>2, <2>3 DEF Justified
    <2>9. QED
      BY <2>2, <2>6, <2>7, <2>8, OwnShare DEF Owned
  <1>8. QED
    BY <1>1, <1>6, <1>7, MatchMoves DEF Moves

\* The approvers are issued their tokens one by one, and paged.
LEMMA MatchIssues ==
  ASSUME WellTyped, Exclusive, NEW i \in Invoices, UndisturbedInvoice(i), Owned(i),
         NEW w \in Workers, HandlerStep(w), Handles(w, MatchJob(i)), InHandler(w)',
         local[w].pc \in {"issue", "page"}
  PROVE  Owned(i)'
  <1>1. /\ wjob[w][1] = "match" /\ Inv(w) = i
        /\ istatus[i] \notin NotExtracted
        /\ doc' = doc /\ corrections' = corrections
        /\ MatchCounts(i, w) /\ RunOf(i, w) /\ Issues(i, w)
    BY OwnShare
  <1>2. /\ local[w].doc # NoDoc /\ (corrections = 0 => local[w].doc = doc[i])
        /\ run[i].result = local[w].result /\ run[i].lines /\ run[i].exceptions
        /\ run[i].decision = DecisionOf(w)
    BY <1>1 DEF RunOf, MatchPcs
  <1>3. /\ istatus[i] \in Sent
        /\ local[w].approver \in Contacts(run[i].decision.required_approvers)
    BY <1>1 DEF MatchCounts, Issues
  <1>4. /\ tokens \in [Invoices -> [Approvers -> Nat]] /\ tokens[i] \in [Approvers -> Nat]
        /\ local[w].approver \in Approvers /\ Approvers \subseteq Nat /\ local[w].approver \in Nat
    BY <1>3 DEF WellTyped, RowsTyped, Contacts, Approvers
  <1>5. ASSUME Moves(w, local[w].pc, local'[w].pc), local'[w].pc \in {"issue", "page", "finished"},
               local'[w].result = local[w].result, UNCHANGED <<istatus, run>>,
               Issues(i, w)', \A a \in Approvers : TokenRow(i, a)'
        PROVE  Owned(i)'
    <2>1. MatchCounts(i, w)'
      BY <1>3, <1>5 DEF MatchCounts, MatchingPcs
    <2>2. DecisionOf(w)' = DecisionOf(w)
      BY <1>5 DEF DecisionOf, Moves
    <2>3. RunOf(i, w)'
      BY <1>1, <1>2, <1>5, <2>2 DEF RunOf, Moves
    <2>4. Justified(i)'
      BY <1>1, <1>5 DEF Owned, Justified
    <2>5. QED
      BY <1>1, <1>5, <2>1, <2>3, <2>4, OwnShare DEF Owned
  <1>6. ASSUME NEW a \in Approvers PROVE TokenRow(i, a)
    BY DEF Owned, TokensFollow
  <1>7. CASE /\ IssueToken(w) /\ Moves(w, "issue", "page")
             /\ local'[w].result = local[w].result /\ local'[w].approver = local[w].approver
    <2>1. /\ tokens' = [tokens EXCEPT ![i][local[w].approver] = @ + 1]
          /\ UNCHANGED <<istatus, run>>
      BY <1>1, <1>7 DEF IssueToken
    <2>2. jstatus' = jstatus
      BY <1>7, HandlerQueue DEF EnqueueMatch, EnqueueNotify, At, Moves
    <2>3. \A b \in Approvers : b >= local[w].approver => tokens[i][b] = 0
      BY <1>1, <1>7 DEF Issues, Moves
    <2>4. /\ tokens'[i][local[w].approver] = 1
          /\ \A b \in Approvers : b # local[w].approver => tokens'[i][b] = tokens[i][b]
      <3>1. tokens'[i] = [tokens[i] EXCEPT ![local[w].approver] = tokens[i][local[w].approver] + 1]
        BY <1>4, <2>1, Zenon
      <3>2. tokens[i][local[w].approver] = 0
        <4>1. local[w].approver >= local[w].approver
          BY <1>4
        <4>2. QED
          BY <1>4, <2>3, <4>1, Zenon
      <3>3. tokens'[i] = [tokens[i] EXCEPT ![local[w].approver] = 1]
        BY <3>1, <3>2
      <3>4. QED
        BY <1>4, <3>3, Zenon
    <2>5. ASSUME NEW a \in Approvers PROVE TokenRow(i, a)'
      <3>1. CASE a = local[w].approver
        BY <1>3, <2>1, <2>4, <3>1 DEF TokenRow, Contacts
      <3>2. CASE a # local[w].approver
        BY <1>6, <2>1, <2>2, <2>4, <3>2 DEF TokenRow, Contacts, NotifyJob
      <3>3. QED
        BY <3>1, <3>2
    <2>6. ASSUME NEW b \in Approvers, b > local'[w].approver PROVE tokens'[i][b] = 0
      <3>1. b >= local[w].approver /\ b # local[w].approver
        <4>1. b \in Nat /\ b > local[w].approver
          BY <1>4, <1>7, <2>6
        <4>2. QED
          BY <1>4, <4>1
      <3>2. QED
        BY <2>3, <2>4, <3>1
    <2>7. Issues(i, w)'
      BY <1>3, <1>7, <2>1, <2>4, <2>6 DEF Issues, Moves, Contacts
    <2>8. QED
      BY <1>5, <1>7, <2>1, <2>5, <2>7 DEF Moves
  <1>8. ASSUME EnqueueNotify(w), local[w].pc = "page"
        PROVE  /\ \A a \in Approvers : TokenRow(i, a)'
               /\ UNCHANGED <<istatus, run, tokens>>
    <2>1. UNCHANGED <<istatus, run, tokens>> /\ Q!Enqueue(NotifyJob(i, local[w].approver))
      BY <1>1, <1>8 DEF EnqueueNotify, bizVars
    <2>2. tokens[i][local[w].approver] = 1
      BY <1>1, <1>8 DEF Issues
    <2>3. jstatus \in [Jobs -> Q!JobStatus]
      BY DEF WellTyped, Q!TypeOK
    <2>4. \/ jstatus' = jstatus
          \/ jstatus' = [jstatus EXCEPT ![NotifyJob(i, local[w].approver)] = "queued"]
      BY <2>1 DEF Q!Enqueue, Q!enqueue, Q!jobVars
    <2>5. ASSUME NEW a \in Approvers PROVE TokenRow(i, a)'
      <3>1. CASE a = local[w].approver
        BY <1>3, <1>6, <2>1, <2>2, <3>1 DEF TokenRow, Contacts
      <3>2. CASE a # local[w].approver
        <4>1. NotifyJob(i, a) # NotifyJob(i, local[w].approver) /\ NotifyJob(i, a) \in Jobs
          BY <3>2, JobFields, JobsMade
        <4>2. jstatus'[NotifyJob(i, a)] = jstatus[NotifyJob(i, a)]
          BY <2>3, <2>4, <4>1
        <4>3. QED
          BY <1>6, <2>1, <4>2 DEF TokenRow, Contacts, NotifyJob
      <3>3. QED
        BY <3>1, <3>2
    <2>6. QED
      BY <2>1, <2>5
  <1>9. CASE /\ EnqueueNotify(w) /\ Moves(w, "page", "issue")
             /\ local'[w].result = local[w].result
             /\ local'[w].approver = local[w].approver + 1
             /\ local[w].approver + 1 \in Contacts(DecisionOf(w).required_approvers)
    <2>1. (\A a \in Approvers : TokenRow(i, a)') /\ UNCHANGED <<istatus, run, tokens>>
      BY <1>8, <1>9 DEF Moves
    <2>2. \A b \in Approvers : b > local[w].approver => tokens[i][b] = 0
      BY <1>1, <1>9 DEF Issues, Moves
    <2>3. ASSUME NEW b \in Approvers, b >= local'[w].approver PROVE tokens'[i][b] = 0
      <3>1. b > local[w].approver
        BY <1>4, <1>9, <2>3
      <3>2. QED
        BY <2>1, <2>2, <3>1
    <2>4. local'[w].approver \in Contacts(run'[i].decision.required_approvers)
      BY <1>2, <1>9, <2>1
    <2>5. Issues(i, w)'
      BY <1>9, <2>3, <2>4 DEF Issues, Moves, Contacts
    <2>6. QED
      BY <1>5, <1>9, <2>1, <2>5 DEF Moves
  <1>10. CASE EnqueueNotify(w) /\ Moves(w, "page", "finished")
              /\ local'[w].result = local[w].result
    <2>1. (\A a \in Approvers : TokenRow(i, a)') /\ UNCHANGED <<istatus, run, tokens>>
      BY <1>8, <1>10 DEF Moves
    <2>2. Issues(i, w)'
      BY <1>10 DEF Issues, Moves
    <2>3. QED
      BY <1>5, <1>10, <2>1, <2>2 DEF Moves
  <1>11. QED
    BY <1>1, <1>7, <1>9, <1>10, MatchMoves DEF Moves

\* So every step of the 'match' handler keeps the invoice owned.
LEMMA MatchKeepsOwned ==
  ASSUME WellTyped, Exclusive, NEW i \in Invoices, UndisturbedInvoice(i), Owned(i),
         NEW w \in Workers, HandlerStep(w), Handles(w, MatchJob(i))
  PROVE  Owned(i)'
  <1>1. wjob[w][1] = "match"
    BY JobFields DEF Handles
  <1>2. InHandler(w)' => local[w].pc \in {"start", "begin", "MATCHING", "line_matches", "exceptions",
                                          "decide", "apply", "route", "issue", "page"}
    BY <1>1, MatchMoves DEF Moves
  <1>3. QED
    BY <1>2, MatchEnds, MatchReads, MatchWritesRun, MatchDecides, MatchIssues

-----------------------------------------------------------------------------

\* Whoever steps, an undisturbed invoice stays owned.
LEMMA OwnedStep ==
  ASSUME WellTyped, Exclusive, [Next]_vars, NEW i \in Invoices, UndisturbedInvoice(i)', Owned(i)
  PROVE  Owned(i)'
  <1>1. UndisturbedInvoice(i)
    BY UndisturbedBefore
  <1>2. CASE \E w \in Workers : HandlerStep(w) /\ Inv(w) = i /\ wjob[w][1] # "notify"
    <2>1. PICK w \in Workers : HandlerStep(w) /\ Inv(w) = i /\ wjob[w][1] # "notify"
      BY <1>2
    <2>2. InHandler(w)
      BY <2>1, HandlerInside DEF InHandler
    <2>3. Handles(w, ExtractJob(i)) \/ Handles(w, MatchJob(i))
      BY <1>1, <2>1, <2>2, OwnHandlers DEF Handles
    <2>4. QED
      BY <1>1, <2>1, <2>3, ExtractKeepsOwned, MatchKeepsOwned
  <1>3. CASE ~ \E w \in Workers : HandlerStep(w) /\ Inv(w) = i /\ wjob[w][1] # "notify"
    BY <1>3, OthersAreStill, StillOwned
  <1>4. QED
    BY <1>2, <1>3

\* In the beginning there is nothing to own.
LEMMA OwnedInit == Init => \A i \in Invoices : Owned(i)
  <1> SUFFICES ASSUME Init, NEW i \in Invoices PROVE Owned(i)
    OBVIOUS
  <1>1. \A v \in Workers : ~InHandler(v)
    BY DEF Init, Q!Init, InHandler
  <1>2. /\ istatus[i] = NoInvoice
        /\ jstatus[MatchJob(i)] = "absent"
        /\ \A a \in Approvers : tokens[i][a] = 0 /\ jstatus[NotifyJob(i, a)] = "absent"
    BY JobsMade DEF Init, Q!Init, Lifecycle!Init, NoInvoice
  <1>3. istatus[i] \notin Decided
    BY <1>2 DEF Decided, Sent, NoInvoice, Lifecycle!NoInvoice
  <1>4. QED
    BY <1>1, <1>2, <1>3 DEF Owned, ExtractOwns, MatchOwns, RunFollows, Justified, TokensFollow,
                            TokenRow, Handles

\* The inductive invariant.
OwnedInv == \A i \in Invoices : UndisturbedInvoice(i) => Owned(i)

\* It holds initially, every step keeps it, and so it always holds.
LEMMA OwnedInvAlways == Spec => []OwnedInv
  <1>1. Init => OwnedInv
    BY OwnedInit DEF OwnedInv
  <1>2. WellTyped /\ Q!LockHeld /\ OwnedInv /\ [Next]_vars => OwnedInv'
    <2> SUFFICES ASSUME WellTyped, Q!LockHeld, OwnedInv, [Next]_vars,
                        NEW i \in Invoices, UndisturbedInvoice(i)'
                 PROVE  Owned(i)'
      BY DEF OwnedInv
    <2>1. Owned(i)
      BY UndisturbedBefore DEF OwnedInv
    <2>2. QED
      BY <2>1, ExclusiveWhileLocked, OwnedStep
  <1>3. QED
    BY <1>1, <1>2, WellTypedAlways, LockHeldAlways, PTL DEF Spec

\* No worker has overrun its lock and no re-run has been written.
Undisturbed == \A i \in Invoices : UndisturbedInvoice(i)

\* So as long as no invoice is disturbed, all are owned.
LEMMA OwnedAlways == Spec => [](Undisturbed => \A i \in Invoices : Owned(i))
  <1>1. OwnedInv => (Undisturbed => \A i \in Invoices : Owned(i))
    BY DEF OwnedInv, Undisturbed
  <1>2. QED
    BY <1>1, OwnedInvAlways, PTL

\* As long as no lock is overrun and no re-run is written, an invoice with a token that
\* was issued is pending approval or settled.
THEOREM LiveTokensMeanPending == Spec => [](Undisturbed => TokensMeanPending)
  <1>1. (\A i \in Invoices : Owned(i)) => TokensMeanPending
    BY DEF Owned, TokensFollow, TokenRow, Sent, TokensMeanPending
  <1>2. QED
    BY <1>1, OwnedAlways, PTL

\* No approver is issued a second token of an invoice, none is issued one that the
\* recorded decision does not ask for, and nobody is paged without one.
THEOREM TokensAreIssuedOnce == Spec => [](Undisturbed => TokensIssuedOnce)
  <1>1. (\A i \in Invoices : Owned(i)) => TokensIssuedOnce
    BY DEF Owned, TokensFollow, TokenRow, TokensIssuedOnce
  <1>2. QED
    BY <1>1, OwnedAlways, PTL

\* The code's decide is the documents' table, on the side of its strict thresholds too.
LEMMA DecideFollowsTable ==
  ASSUME NEW match, NEW fields,
         match.decision = decide(match.result, fields.confidence, fields.total, Policy),
         match.decision.outcome # "NEEDS_VERIFICATION"
  PROVE  FollowsTable(match, fields)
  <1>1. CASE ~Trusted(fields.confidence, Policy)
    BY <1>1 DEF decide
  <1>2. CASE /\ Trusted(fields.confidence, Policy)
             /\ match.result = "clean" /\ fields.total < Policy.auto_approve_below
    BY <1>2 DEF decide, Trusted, FollowsTable
  <1>3. CASE /\ Trusted(fields.confidence, Policy)
             /\ ~(match.result = "clean" /\ fields.total < Policy.auto_approve_below)
    BY <1>3 DEF decide, Trusted, FollowsTable, _required_approvers
  <1>4. QED
    BY <1>1, <1>2, <1>3

\* An invoice that is past MATCHING is where the decision of its complete, latest match
\* run put it, and without corrections that is what the documents' table asks for the
\* extracted fields.
THEOREM DecisionsAreJustified == Spec => [](Undisturbed => DecisionJustified)
  <1>1. ASSUME \A i \in Invoices : Owned(i) PROVE DecisionJustified
    <2>1. \A i \in Invoices : run[i].lines => run[i] # NoRun
      BY DEF NoRun
    <2>2. ASSUME NEW i \in Invoices, istatus[i] \in Decided, corrections = 0
          PROVE  FollowsTable(run[i], doc[i])
      <3>1. /\ run[i].decision = decide(run[i].result, doc[i].confidence, doc[i].total, Policy)
            /\ run[i].decision.outcome # "NEEDS_VERIFICATION"
        BY <1>1, <2>2 DEF Owned, Justified
      <3>2. QED
        BY <3>1, DecideFollowsTable
    <2>3. QED
      BY <1>1, <2>1, <2>2 DEF Owned, Justified, Decided, Sent, DecisionJustified
  <1>2. QED
    BY <1>1, OwnedAlways, PTL

-----------------------------------------------------------------------------

\* The edges of the diagram that the handlers take.
LEMMA EdgesTaken ==
  /\ Lifecycle!validate_transition("RECEIVED", "EXTRACTING")
  /\ Lifecycle!validate_transition("EXTRACTING", "EXTRACTED")
  /\ Lifecycle!validate_transition("EXTRACTING", "EXTRACTION_FAILED")
  /\ Lifecycle!validate_transition("EXTRACTED", "MATCHING")
  /\ Lifecycle!validate_transition("NEEDS_VERIFICATION", "MATCHING")
  /\ Lifecycle!validate_transition("MATCHING", "NEEDS_VERIFICATION")
  /\ \A result : /\ Lifecycle!validate_transition("MATCHING", Intermediate(result))
                 /\ Lifecycle!validate_transition(Intermediate(result), "PENDING_APPROVAL")
  /\ Lifecycle!validate_transition("MATCHED_CLEAN", "AUTO_POSTED")
  BY DEF Lifecycle!validate_transition, Lifecycle!ALLOWED_TRANSITIONS, Intermediate

\* A transition of the invoice, recorded as what it is, along an edge of the diagram.
Legal(i) ==
  /\ audit'[i] = <<istatus[i], istatus'[i]>>
  /\ \/ istatus[i] = NoInvoice /\ istatus'[i] = "RECEIVED"
     \/ istatus[i] # NoInvoice /\ Lifecycle!validate_transition(istatus[i], istatus'[i])

\* What a transition writes, if the status it was validated against is still there.
LEMMA Transition ==
  ASSUME WellTyped, NEW i \in Invoices, NEW from, NEW to, _transition(i, from, to),
         from = istatus[i]
  PROVE  istatus'[i] = to /\ audit'[i] = <<istatus[i], istatus'[i]>>
  BY DEF WellTyped, RowsTyped, _transition

\* The handlers write only what they may: what each counts on is what the row holds.
LEMMA HandlerLegal ==
  ASSUME WellTyped, NEW i \in Invoices, UndisturbedInvoice(i), Owned(i),
         NEW w \in Workers, HandlerStep(w), Inv(w) = i, wjob[w][1] # "notify",
         istatus'[i] # istatus[i]
  PROVE  Legal(i)
  <1>1. InHandler(w) /\ local[w] \in LocalType /\ Placed(wjob[w][1], local[w])
    BY HandlerInside, LocalTyped DEF InHandler
  <1>2. Handles(w, ExtractJob(i)) \/ Handles(w, MatchJob(i))
    BY <1>1, OwnHandlers DEF Handles
  <1>3. /\ Handles(w, ExtractJob(i)) => ExtractCounts(i, w) /\ wjob[w][1] = "extract"
        /\ Handles(w, MatchJob(i)) => MatchCounts(i, w) /\ RunOf(i, w) /\ wjob[w][1] = "match"
    BY JobFields DEF Owned, ExtractOwns, MatchOwns, RunFollows, Handles
  <1>4. {"RECEIVED", "EXTRACTING", "EXTRACTED", "MATCHING", "NEEDS_VERIFICATION", "MATCHED_CLEAN",
         "EXCEPTIONS_RAISED"} \cap {NoInvoice} = {}
    BY DEF NoInvoice, Lifecycle!NoInvoice
  <1>5. ASSUME NEW from, NEW to, _transition(i, from, to), from = istatus[i],
               from \in {"RECEIVED", "EXTRACTING", "EXTRACTED", "MATCHING", "NEEDS_VERIFICATION",
                         "MATCHED_CLEAN", "EXCEPTIONS_RAISED"},
               Lifecycle!validate_transition(from, to)
        PROVE  Legal(i)
    <2>1. istatus'[i] = to /\ audit'[i] = <<istatus[i], istatus'[i]>>
      BY <1>5, Transition
    <2>2. istatus[i] # NoInvoice
      BY <1>4, <1>5
    <2>3. QED
      BY <1>5, <2>1, <2>2 DEF Legal
  <1>6. ASSUME local[w].pc \in MatchPcs PROVE Handles(w, MatchJob(i))
    BY <1>1, <1>2, <1>3, <1>6 DEF Placed
  <1>7. ASSUME local[w].pc \in ExtractPcs PROVE Handles(w, ExtractJob(i))
    BY <1>1, <1>2, <1>3, <1>7 DEF Placed
  <1>8. CASE Begin(w)
    <2>1. /\ local[w].pc = "begin" /\ local[w].status \in Statuses /\ local[w].status # NoInvoice
          /\ \/ UNCHANGED istatus
             \/ LET to == IF wjob[w][1] = "extract" THEN "EXTRACTING" ELSE "MATCHING" IN
                /\ Lifecycle!validate_transition(local[w].status, to)
                /\ _transition(i, local[w].status, to)
      BY <1>1, <1>8 DEF Begin, At, Placed, LocalType
    <2>2. CASE Handles(w, ExtractJob(i))
      <3>1. local[w].status = "RECEIVED" /\ _transition(i, "RECEIVED", "EXTRACTING")
        BY <1>3, <2>1, <2>2, EdgesAsked
      <3>2. istatus[i] = "RECEIVED"
        BY <1>3, <2>1, <2>2, <3>1 DEF ExtractCounts
      <3>3. QED
        BY <1>5, <3>1, <3>2, EdgesTaken
    <2>3. CASE Handles(w, MatchJob(i))
      <3>1. /\ local[w].status \in {"EXTRACTED", "NEEDS_VERIFICATION"}
            /\ _transition(i, local[w].status, "MATCHING")
        BY <1>3, <2>1, <2>3, EdgesAsked
      <3>2. istatus[i] = local[w].status
        BY <1>3, <2>1, <2>3, <3>1 DEF MatchCounts
      <3>3. QED
        BY <1>5, <3>1, <3>2, EdgesTaken
    <2>4. QED
      BY <1>2, <2>2, <2>3
  <1>9. CASE ExtractFails(w)
    <2>1. local[w].pc = "EXTRACTING" /\ _transition(i, "EXTRACTING", "EXTRACTION_FAILED")
      BY <1>9 DEF ExtractFails, At
    <2>2. istatus[i] = "EXTRACTING"
      BY <1>3, <1>7, <2>1 DEF ExtractCounts, ExtractPcs
    <2>3. QED
      BY <1>5, <2>1, <2>2, EdgesTaken
  <1>10. CASE FinishExtraction(w)
    <2>1. local[w].pc = "persisted" /\ _transition(i, "EXTRACTING", "EXTRACTED")
      BY <1>10 DEF FinishExtraction, At
    <2>2. istatus[i] = "EXTRACTING"
      BY <1>3, <1>7, <2>1 DEF ExtractCounts, ExtractPcs
    <2>3. QED
      BY <1>5, <2>1, <2>2, EdgesTaken
  <1>11. CASE MatchInvalid(w) \/ ApplyDecision(w)
    <2>1. /\ local[w].pc \in {"MATCHING", "apply"}
          /\ \/ _transition(i, "MATCHING", "NEEDS_VERIFICATION")
             \/ _transition(i, "MATCHING", Intermediate(local[w].result))
      BY <1>11 DEF MatchInvalid, ApplyDecision, At
    <2>2. istatus[i] = "MATCHING"
      BY <1>3, <1>6, <2>1 DEF MatchCounts, MatchingPcs, MatchPcs
    <2>3. QED
      BY <1>5, <2>1, <2>2, EdgesTaken
  <1>12. CASE RouteInvoice(w)
    <2>1. /\ local[w].pc = "route"
          /\ _transition(i, Intermediate(local[w].result),
               IF DecisionOf(w).outcome = "AUTO_POST" THEN "AUTO_POSTED" ELSE "PENDING_APPROVAL")
      BY <1>12 DEF RouteInvoice, At
    <2>2. istatus[i] = Intermediate(local[w].result)
      BY <1>3, <1>6, <2>1 DEF MatchCounts, MatchPcs
    <2>3. Intermediate(local[w].result) \in {"MATCHED_CLEAN", "EXCEPTIONS_RAISED"}
      BY DEF Intermediate
    <2>4. CASE DecisionOf(w).outcome = "AUTO_POST"
      <3>1. Intermediate(local[w].result) = "MATCHED_CLEAN"
        BY <2>4, DecisionsTyped DEF DecisionOf, Intermediate
      <3>2. QED
        BY <1>5, <2>1, <2>2, <2>4, <3>1, EdgesTaken
    <2>5. CASE DecisionOf(w).outcome # "AUTO_POST"
      BY <1>5, <2>1, <2>2, <2>3, <2>5, EdgesTaken
    <2>6. QED
      BY <2>4, <2>5
  <1>13. CASE UNCHANGED istatus
    BY <1>13
  <1>14. QED
    BY <1>8, <1>9, <1>10, <1>11, <1>12, <1>13
       DEF HandlerStep, ReadInvoice, PersistExtraction, EnqueueMatch, MatchRaises, PersistMatchRun,
           PersistLineMatches, PersistMatchExceptions, PersistDecisionReason, IssueToken,
           EnqueueNotify, Finished, NotifyEnds, bizVars

\* And so does everybody else.
LEMMA StatusStep ==
  ASSUME WellTyped, [Next]_vars, NEW i \in Invoices, UndisturbedInvoice(i)', Owned(i),
         istatus'[i] # istatus[i]
  PROVE  Legal(i)
  <1>1. UndisturbedInvoice(i)
    BY UndisturbedBefore
  <1>2. CASE \E w \in Workers : HandlerStep(w) /\ Inv(w) = i /\ wjob[w][1] # "notify"
    BY <1>1, <1>2, HandlerLegal
  <1>3. CASE Ingest(i)
    BY <1>3, Transition DEF Ingest, Legal
  <1>4. CASE Settle(i, "APPROVED") \/ Settle(i, "REJECTED")
    <2>1. PICK to \in {"APPROVED", "REJECTED"} : Settle(i, to)
      BY <1>4
    <2>2. istatus'[i] = to /\ audit'[i] = <<istatus[i], istatus'[i]>>
      BY <2>1, Transition DEF Settle
    <2>3. QED
      BY <2>1, <2>2 DEF Settle, Legal
  <1>5. CASE \E d \in Documents : CorrectField(i, d)
    BY <1>5 DEF CorrectField
  <1>6. ASSUME NEW r \in Reruns, RerunWrite(r), request[r].invoice = i PROVE FALSE
    <2>1. request'[r] = [request[r] EXCEPT !.pc = "done"] /\ request[r] \in RequestType
          /\ request[r].pc = "read"
      BY <1>6 DEF RerunWrite, WellTyped, RowsTyped
    <2>2. request'[r].pc = "done" /\ request'[r].invoice = i
      BY <1>6, <2>1 DEF RequestType
    <2>3. QED
      BY <2>2 DEF UndisturbedInvoice
  <1>7. QED
    BY <1>2, <1>3, <1>4, <1>5, <1>6, WhoWrites DEF Touches, Untouched

\* One invoice at a time.
LEMMA LifecycleStep ==
  ASSUME WellTyped, [Next]_vars, Undisturbed', \A i \in Invoices : Owned(i)
  PROVE  [Lifecycle!Next]_istatus
  <1>1. CASE UNCHANGED <<istatus, audit>> \/ UNCHANGED vars
    BY <1>1 DEF vars, bizVars
  <1>2. ASSUME NEW i \in Invoices, NEW from \in Statuses, NEW to \in Statuses \ {NoInvoice},
               _transition(i, from, to)
        PROVE  [Lifecycle!Next]_istatus
    <2>1. istatus' = [istatus EXCEPT ![i] = to] /\ istatus \in [Invoices -> Statuses]
      BY <1>2 DEF _transition, WellTyped, RowsTyped
    <2>2. CASE istatus[i] = to
      BY <2>1, <2>2
    <2>3. CASE istatus[i] # to
      <3>1. istatus'[i] = to
        BY <2>1
      <3>2. Legal(i)
        BY <2>3, <3>1, StatusStep DEF Undisturbed
      <3>3. to \in Lifecycle!InvoiceStatus
        BY DEF Statuses
      <3>4. Lifecycle!Receive(i) \/ Lifecycle!Move(i, to)
        BY <2>1, <3>1, <3>2 DEF Legal, Lifecycle!Receive, Lifecycle!Move, NoInvoice
      <3>5. QED
        BY <3>3, <3>4 DEF Lifecycle!Next
    <2>4. QED
      BY <2>2, <2>3
  <1>3. QED
    BY <1>1, <1>2, StatusWrites

\* As long as no lock is overrun and no re-run is written, the pipeline implements the
\* state machine: every step is one of its transitions or leaves all statuses alone.
THEOREM FollowsTheLifecycle == Spec /\ []Undisturbed => FollowsLifecycle
  <1>1. Init => Lifecycle!Init
    BY DEF Init
  <1>2. WellTyped /\ [Next]_vars /\ Undisturbed' /\ (\A i \in Invoices : Owned(i))
          => [Lifecycle!Next]_istatus
    BY LifecycleStep
  <1>3. QED
    BY <1>1, <1>2, WellTypedAlways, OwnedAlways, PTL DEF Spec, FollowsLifecycle, Lifecycle!Spec

\* Under the same condition every audit row names the status that the invoice really had
\* before.
THEOREM AuditIsTruthful == Spec /\ []Undisturbed => AuditTruthful
  <1>1. WellTyped /\ [Next]_vars /\ Undisturbed' /\ (\A i \in Invoices : Owned(i))
          => [\A i \in Invoices :
                istatus'[i] # istatus[i] => audit'[i] = <<istatus[i], istatus'[i]>>]_vars
    BY StatusStep DEF Undisturbed, Legal
  <1>2. QED
    BY <1>1, WellTypedAlways, OwnedAlways, PTL DEF Spec, AuditTruthful
=============================================================================
