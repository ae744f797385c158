----------------------------- MODULE VerifyPage -----------------------------
(***************************************************************************)
(* The verification screen of one invoice                                  *)
(* (apps/web/components/verify/verify-page-client.tsx): a panel of         *)
(* editable values, each saved with a request of its own, and a button     *)
(* that starts the match again and leaves the screen.  Other people        *)
(* correct the same fields meanwhile.                                      *)
(*                                                                         *)
(* An EditableValue copies its value when it is mounted and never looks at *)
(* the prop again, so the screen holds every value twice: in `invoice` and *)
(* in the editor.                                                          *)
(***************************************************************************)
EXTENDS Fetches

CONSTANTS
  Fields,      \* the field paths of the panel
  Values,      \* texts
  Typed,       \* those somebody types
  Column,      \* what the column keeps of a text: rounded to its scale, or Unparsable
  Unparsable,
  MaxLoads,    \* bound: how often the screen loads the invoice
  MaxSaves     \* bound: how many saves it sends

VARIABLES
  stored,      \* the column of each field in the database
  fixed,       \* field_confidences.human_corrected
  rerun,       \* a re-run of this screen was committed
  invoice,     \* invoice: the values and the fields with full confidence, or NoInvoice
  failure,     \* error # null: the error page replaces the panel
  rerunning,   \* rerunning
  left,        \* router.push("/pipeline") has been called
  editor,      \* the EditableValue of each field
  loads,       \* fetchInvoiceForVerification
  saves,       \* correctInvoiceField
  reruns,      \* rerunMatch: one request at a time
  acked        \* history: the last acknowledged text of a field nobody touched since

server == <<stored, fixed, rerun>>
vars == <<server, invoice, failure, rerunning, left, editor, loads, saves, reruns, acked>>

\* What the screen tells apart in a VerificationInvoice.
VerificationInvoice == [values : [Fields -> Values], corrected : SUBSET Fields]
NoInvoice == [values |-> "none"]

\* The invoice of a row and the corrections recorded for it.
toInvoice(values, corrected) == [values |-> values, corrected |-> corrected]

\* An EditableValue: not mounted, showing, editing, or editing with its save under way.
EditableValue == [mode : {"absent", "view", "edit", "saving"}, display : Values, draft : Values]

SaveRequest == [field : Fields, text : Values, orphan : BOOLEAN]

None == "none"

TypeOK ==
  /\ stored \in [Fields -> Values] /\ fixed \subseteq Fields
  /\ {rerun, failure, rerunning, left} \subseteq BOOLEAN
  /\ invoice \in VerificationInvoice \cup {NoInvoice}
  /\ editor \in [Fields -> EditableValue]
  /\ \A n \in InState(loads, "answered") : loads[n].answer \in VerificationInvoice
  /\ \A n \in InState(saves, "sent") \cup InState(saves, "answered") :
        saves[n].request \in SaveRequest
  /\ reruns \in {NotSent, Sent(None), Answered(None, None), Failed(None)}
  /\ acked \in [Fields -> Values \cup {None}]

Initial == CHOOSE v \in Values : Column[v] = v

\* An editor that is gone, and one that shows a value; their draft is never read.
Absent == [mode |-> "absent", display |-> Initial, draft |-> Initial]
Showing(v) == [mode |-> "view", display |-> v, draft |-> v]

\* Before the screen is mounted, and mounted with its first load sent.
Start(mounted) ==
  /\ stored = [f \in Fields |-> Initial] /\ fixed = {} /\ rerun = FALSE
  /\ invoice = NoInvoice /\ failure = FALSE /\ rerunning = FALSE /\ left = FALSE
  /\ editor = [f \in Fields |-> Absent]
  /\ loads = IF mounted THEN FirstSent(MaxLoads, None) ELSE NoneSent(MaxLoads)
  /\ saves = NoneSent(MaxSaves)
  /\ reruns = NotSent
  /\ acked = [f \in Fields |-> None]

Init == Start(TRUE)

-----------------------------------------------------------------------------
(***************************************************************************)
(* The server                                                              *)
(***************************************************************************)

\* correct_field, committed: the column, and full confidence for the field.
correct_field(f, text) ==
  /\ Column[text] # Unparsable
  /\ stored' = [stored EXCEPT ![f] = Column[text]]
  /\ fixed' = fixed \cup {f}

\* Somebody else corrects a field.
CorrectElsewhere(f, text) ==
  /\ correct_field(f, text)
  /\ acked' = [acked EXCEPT ![f] = None]
  /\ UNCHANGED <<rerun, invoice, failure, rerunning, left, editor, loads, saves,
                 reruns>>

\* GET /v1/invoices/{id}.
ServeLoad(n) ==
  /\ MayAnswer(loads, loads', n, toInvoice(stored, fixed))
  /\ UNCHANGED <<server, invoice, failure, rerunning, left, editor, saves, reruns, acked>>

\* PATCH .../fields: committed and answered with the text as it was sent, committed
\* with its answer lost, refused (422), or never there.
ServeSave(n) ==
  /\ saves[n].state = "sent"
  /\ LET s == saves[n].request IN
     \/ /\ correct_field(s.field, s.text)
        /\ MayAnswer(saves, saves', n, s.text)
        /\ acked' = [acked EXCEPT ![s.field] = None]
     \/ /\ saves' = [saves EXCEPT ![n] = Failed(s)]
        /\ UNCHANGED <<stored, fixed, acked>>
  /\ UNCHANGED <<rerun, invoice, failure, rerunning, left, editor, loads, reruns>>

\* POST .../rerun-match: rerun_match moves an invoice in NEEDS_VERIFICATION to MATCHING
\* and enqueues the job.  Others move the invoice meanwhile, so that it may also be
\* refused (409); or the request or its answer is lost.
ServeRerun ==
  /\ reruns = Sent(None)
  /\ \/ rerun' = TRUE /\ reruns' \in {Answered(None, None), Failed(None)}
     \/ reruns' = Failed(None) /\ UNCHANGED rerun
  /\ UNCHANGED <<stored, fixed, invoice, failure, rerunning, left, editor, loads, saves,
                 acked>>

-----------------------------------------------------------------------------
(***************************************************************************)
(* The screen                                                              *)
(***************************************************************************)

PanelMounted == invoice # NoInvoice /\ ~failure

\* The panel is mounted: every editor copies its value.
FieldsPanel(values) == [f \in Fields |-> Showing(values[f])]

\* One row of it: what the editor shows while it is not editing, and the mark
\* "corrected" with the full confidence bar.
FieldRow(f) ==
  [shows |-> IF editor[f].mode = "view" THEN editor[f].display ELSE None,
   corrected |-> f \in invoice.corrected]

\* The footer: the fields it counts as below the threshold (as extracted all of them
\* are), and the button.
VerifyFooter == [below |-> Fields \ invoice.corrected, button |-> ~rerunning]

\* The error page takes the panel away, and with it the editors: a save under way
\* goes on without the component that would show its end.
ShowError ==
  /\ failure' = TRUE
  /\ editor' = [f \in Fields |-> Absent]

Orphaned(fetches) ==
  [n \in DOMAIN fetches |->
     IF fetches[n].state \in {"sent", "answered", "failed"}
       THEN [fetches[n] EXCEPT !.request.orphan = TRUE] ELSE fetches[n]]

\* load, from "Retry".  A panel of the invoice the screen still has appears at once.
Retry ==
  /\ failure /\ ~left
  /\ \E n \in DOMAIN loads : IsNext(loads, n) /\ loads' = [loads EXCEPT ![n] = Sent(None)]
  /\ failure' = FALSE
  /\ editor' = IF invoice = NoInvoice THEN editor ELSE FieldsPanel(invoice.values)
  /\ UNCHANGED <<server, invoice, rerunning, left, saves, reruns, acked>>

\* setInvoice with a loaded invoice.  Mounted editors keep what they show.  A value
\* older than the row undoes what an acknowledged save had put into `invoice`.
LoadArrives(n) ==
  /\ ~left /\ loads[n].state = "answered"
  /\ LET loaded == loads[n].answer IN
     /\ invoice' = loaded
     /\ editor' = IF invoice = NoInvoice /\ ~failure THEN FieldsPanel(loaded.values) ELSE editor
     /\ acked' = [f \in Fields |-> IF loaded.values[f] = stored[f] THEN acked[f] ELSE None]
  /\ loads' = [loads EXCEPT ![n] = Handled]
  /\ UNCHANGED <<server, failure, rerunning, left, saves, reruns>>

LoadFails(n) ==
  /\ ~left /\ loads[n].state = "failed"
  /\ loads' = [loads EXCEPT ![n] = Handled]
  /\ ShowError
  /\ saves' = Orphaned(saves)
  /\ UNCHANGED <<server, invoice, rerunning, left, reruns, acked>>

startEdit(f) ==
  /\ ~left /\ editor[f].mode = "view"
  /\ editor' = [editor EXCEPT ![f].mode = "edit", ![f].draft = editor[f].display]
  /\ UNCHANGED <<server, invoice, failure, rerunning, left, loads, saves, reruns, acked>>

\* onChange of the input.  (A space reaches it by paste only: the keydown of the row
\* around it prevents the default of " ".)
TypeDraft(f, text) ==
  /\ ~left /\ editor[f].mode = "edit"
  /\ editor' = [editor EXCEPT ![f].draft = text]
  /\ UNCHANGED <<server, invoice, failure, rerunning, left, loads, saves, reruns, acked>>

cancelEdit(f) ==
  /\ ~left /\ editor[f].mode = "edit"
  /\ editor' = [editor EXCEPT ![f] = Showing(@.display)]
  /\ UNCHANGED <<server, invoice, failure, rerunning, left, loads, saves, reruns, acked>>

\* commitEdit up to its await: an unchanged draft closes the input, any other is sent.
commitEdit(f) ==
  /\ ~left /\ editor[f].mode = "edit"
  /\ IF editor[f].draft = editor[f].display
       THEN editor' = [editor EXCEPT ![f] = Showing(@.display)] /\ UNCHANGED saves
       ELSE /\ \E n \in DOMAIN saves :
                  /\ IsNext(saves, n)
                  /\ saves' = [saves EXCEPT ![n] = Sent([field |-> f, text |-> editor[f].draft,
                                                         orphan |-> FALSE])]
            /\ editor' = [editor EXCEPT ![f].mode = "saving"]
  /\ UNCHANGED <<server, invoice, failure, rerunning, left, loads, reruns, acked>>

\* applyCorrection.
applyCorrection(inv, f, text) ==
  [inv EXCEPT !.values[f] = text, !.corrected = @ \cup {f}]

\* animateToNewValue: the span it needs is not on the page while the input is, so the
\* new value is simply there.
animateToNewValue(text) == Showing(text)

\* handleSaveField and commitEdit go on: one batch of state updates.  An orphan's end
\* reaches `invoice`, but no editor.
SaveAnswered(n) ==
  /\ ~left /\ saves[n].state = "answered"
  /\ saves' = [saves EXCEPT ![n] = Handled]
  /\ LET s == saves[n].request IN
     /\ invoice' = applyCorrection(invoice, s.field, saves[n].answer)
     /\ editor' = IF s.orphan THEN editor ELSE [editor EXCEPT ![s.field] = animateToNewValue(s.text)]
     /\ acked' = [acked EXCEPT ![s.field] =
                     IF stored[s.field] = Column[s.text] /\ ~(s.orphan /\ PanelMounted)
                       THEN s.text ELSE None]
  /\ UNCHANGED <<server, failure, rerunning, left, loads, reruns>>

\* Mutant: the correction is applied in the finally.
Mutant_SaveFails(n) ==
  /\ ~left /\ saves[n].state = "failed"
  /\ saves' = [saves EXCEPT ![n] = Handled]
  /\ LET s == saves[n].request IN
     /\ invoice' = applyCorrection(invoice, s.field, s.text)
     /\ editor' = IF s.orphan THEN editor ELSE [editor EXCEPT ![s.field].mode = "edit"]
  /\ UNCHANGED <<server, failure, rerunning, left, loads, reruns, acked>>

\* The save threw: the finally of commitEdit ends `saving`, the input stays open and
\* nothing is said.
SaveFails(n) ==
  /\ ~left /\ saves[n].state = "failed"
  /\ saves' = [saves EXCEPT ![n] = Handled]
  /\ LET s == saves[n].request IN
     editor' = IF s.orphan THEN editor ELSE [editor EXCEPT ![s.field].mode = "edit"]
  /\ UNCHANGED <<server, invoice, failure, rerunning, left, loads, reruns, acked>>

\* handleRerunMatch up to its await.  Nothing asks whether a save is under way.
handleRerunMatch ==
  /\ ~left /\ PanelMounted /\ VerifyFooter.button
  /\ rerunning' = TRUE
  /\ reruns' = Sent(None)
  /\ UNCHANGED <<server, invoice, failure, left, editor, loads, saves, acked>>

\* It goes on: to the pipeline board.  Nobody listens to the other requests any more,
\* and the model does not follow them.
RerunAnswered ==
  /\ reruns = Answered(None, None)
  /\ reruns' = NotSent
  /\ left' = TRUE
  /\ loads' = [n \in DOMAIN loads |-> Handled]
  /\ saves' = [n \in DOMAIN saves |-> Handled]
  /\ UNCHANGED <<server, invoice, failure, rerunning, editor, acked>>

RerunFails ==
  /\ reruns = Failed(None)
  /\ reruns' = NotSent
  /\ rerunning' = FALSE
  /\ ShowError
  /\ saves' = Orphaned(saves)
  /\ UNCHANGED <<server, invoice, left, loads, acked>>

-----------------------------------------------------------------------------

Next ==
  \/ \E f \in Fields, text \in Typed : CorrectElsewhere(f, text) \/ TypeDraft(f, text)
  \/ \E n \in DOMAIN loads : ServeLoad(n) \/ LoadArrives(n) \/ LoadFails(n)
  \/ \E n \in DOMAIN saves : ServeSave(n) \/ SaveAnswered(n) \/ SaveFails(n)
  \/ ServeRerun \/ RerunAnswered \/ RerunFails \/ handleRerunMatch \/ Retry
  \/ \E f \in Fields : startEdit(f) \/ cancelEdit(f) \/ commitEdit(f)

\* Requests end and their continuations run.  Nobody is obliged to type or click.
Proceed ==
  \/ \E n \in DOMAIN loads : ServeLoad(n) \/ LoadArrives(n) \/ LoadFails(n)
  \/ \E n \in DOMAIN saves : ServeSave(n) \/ SaveAnswered(n) \/ SaveFails(n)
  \/ ServeRerun \/ RerunAnswered \/ RerunFails

Fairness == WF_vars(Proceed)

\* What the screen waits for: each save of a mounted editor and the re-run, by name.
Waiting ==
  IF left THEN {}
  ELSE {f \in Fields : editor[f].mode = "saving"} \cup (IF rerunning THEN {"re-run"} ELSE {})

-----------------------------------------------------------------------------
(***************************************************************************)
(* Properties                                                              *)
(***************************************************************************)

\* The screen marks no field as corrected, and leaves none out of its count, that is not
\* confirmed in the database; and it hands over to the pipeline only an invoice whose
\* re-run is committed.
CorrectionsAreReal ==
  /\ PanelMounted =>
       /\ \A f \in Fields : FieldRow(f).corrected => f \in fixed
       /\ Fields \ fixed \subseteq VerifyFooter.below
  /\ left => rerun

\* A save the server has acknowledged stays on the screen, through error page, "Retry"
\* and reload, for as long as nobody else writes the field: what is shown is a
\* text of what is stored.  (An answer older than the row, to a load or to an earlier
\* save of the same field, or one that finds the panel mounted anew, breaks this for its
\* field until the next reload or save: `acked` forgets it.)
AckedStaysShown ==
  \A f \in Fields :
     acked[f] # None /\ PanelMounted /\ FieldRow(f).shows # None =>
        Column[FieldRow(f).shows] = stored[f]
=============================================================================
