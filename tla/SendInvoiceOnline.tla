-------------------------- MODULE SendInvoiceOnline --------------------------
(***************************************************************************)
(* SendInvoiceOnlineWorkflow and the activities it runs: the submission    *)
(* row, the KSeF session opened for the invoice, the document sent in it,  *)
(* and the polling of its status.                                          *)
(*                                                                         *)
(* An activity runs at least once.  The state of a workflow execution is   *)
(* durable, the attempts of its activities are not: an attempt may be      *)
(* refused, its worker may die before or after the call took effect, or it *)
(* may be given up at its start-to-close timeout while the call is still   *)
(* on its way.  Given-up calls are kept in "late" and may take effect at   *)
(* any time after.  After MaxAttempts failed attempts the workflow sees an *)
(* ActivityError and runs its failure handler.                             *)
(***************************************************************************)
EXTENDS KsefGateway, FiniteSets

CONSTANTS
    InvoiceOf,      \* the invoice_id of each execution's input
    MaxAttempts,    \* maximum_attempts of DEFAULT_ACTIVITY_RETRY_POLICY
    MaxPolls,       \* MAX_POLL_ATTEMPTS
    MaxLate         \* bound of the model: given-up calls on their way at once

FinalStatus == {"accepted", "processing", "failed"}

ASSUME WorkflowAssumption ==
    /\ None \notin FinalStatus
    /\ InvoiceOf \in [Client -> Invoice]
    /\ MaxAttempts \in Nat \ {0}
    /\ MaxPolls \in Nat \ {0}
    /\ MaxLate \in Nat

VARIABLES
    pc,             \* _current_step, and which handler or ending is reached
    tries,          \* failed attempts of the current activity
    polls,          \* iterations of _poll_invoice_status done
    submitted,      \* _submission_id is set
    sref,           \* _session_reference_number
    iref,           \* _invoice_reference_number
    lastStatus,     \* final_status_response, the answer that ended the polling
    final,          \* final_status
    cancel,         \* _cancel_requested
    rowStatus,      \* the submission row: its status
    rowSession,     \* ... its session_reference_number
    rowDoc,         \* ... its invoice_reference_number
    audit,          \* event types appended for the submission
    late            \* calls of given-up attempts still on their way

flowVars == <<pc, tries, polls, submitted, sref, iref, lastStatus, final, cancel>>
rowVars  == <<rowStatus, rowSession, rowDoc, audit>>
vars     == <<gatewayVars, flowVars, rowVars, late>>

RowStatus   == {"none", "created", "started"} \cup FinalStatus
Event       == {"workflow_started", "workflow_completed", "workflow_failed"}

(* The activities that only compute or read: what they do to the auth      *)
(* context is the subject of another module.                               *)
AfterLocal ==
    [ load_invoice_for_send     |-> "validate_invoice_for_send",
      validate_invoice_for_send |-> "ensure_auth_context",
      ensure_auth_context       |-> "open_online_session",
      build_fa3_xml             |-> "encrypt_invoice_xml",
      encrypt_invoice_xml       |-> "send_invoice_online" ]

LocalStep == DOMAIN AfterLocal

(* The activities that raise an error of a non-retryable type.             *)
NonRetryableStep ==
    {"load_invoice_for_send", "validate_invoice_for_send", "ensure_auth_context"}

(* The activities that write, in the row, in the audit log or at KSeF.     *)
WriteStep ==
    {"create_submission_record", "audit_started", "open_online_session",
     "mark_submission_started", "send_invoice_online",
     "attach_invoice_reference_number", "close_online_session",
     "mark_submission_terminal", "audit_completed",
     "mark_failed", "audit_failed"}

HandlerStep  == {"mark_failed", "audit_failed"}
ActivityStep == LocalStep \cup WriteStep \cup {"get_invoice_status"}
Ended        == {"completed", "failed", "aborted"}

(* "stuck": the code of the workflow itself raised, which fails the        *)
(* workflow task.  Temporal repeats it on the same history, to the same    *)
(* end, and the run has neither a result nor an error.                     *)
Stopped      == Ended \cup {"stuck"}
Step         == ActivityStep \cup {"idle", "poll_check"} \cup Stopped

(* An answer to a status request: its code, and the field isTerminal,      *)
(* which the workflow obeys and the contract does not know.                *)
StatusAnswer == [code : Nat \cup {None}, isTerminal : {"absent", "true", "false"}]

(* A call in flight: the attempt it belongs to and its one argument.       *)
Argument == SessionRef \cup DocRef \cup FinalStatus \cup {None}
Call == [wf : Client, step : WriteStep, try : Nat, arg : Argument]

TypeOK ==
    /\ GatewayTypeOK
    /\ pc         \in [Client -> Step]
    /\ tries      \in [Client -> 0 .. MaxAttempts - 1]
    /\ polls      \in [Client -> 0 .. MaxPolls]
    /\ submitted  \in [Client -> BOOLEAN]
    /\ sref       \in [Client -> SessionRef \cup {None}]
    /\ iref       \in [Client -> DocRef \cup {None}]
    /\ lastStatus \in [Client -> StatusAnswer \cup {None}]
    /\ final      \in [Client -> FinalStatus \cup {None}]
    /\ cancel     \in [Client -> BOOLEAN]
    /\ rowStatus  \in [Client -> RowStatus]
    /\ rowSession \in [Client -> SessionRef \cup {None}]
    /\ rowDoc     \in [Client -> DocRef \cup {None}]
    /\ audit      \in [Client -> SUBSET Event]
    /\ late       \subseteq Call

Init ==
    /\ GatewayInit
    /\ pc         = [w \in Client |-> "idle"]
    /\ tries      = [w \in Client |-> 0]
    /\ polls      = [w \in Client |-> 0]
    /\ submitted  = [w \in Client |-> FALSE]
    /\ sref       = [w \in Client |-> None]
    /\ iref       = [w \in Client |-> None]
    /\ lastStatus = [w \in Client |-> None]
    /\ final      = [w \in Client |-> None]
    /\ cancel     = [w \in Client |-> FALSE]
    /\ rowStatus  = [w \in Client |-> "none"]
    /\ rowSession = [w \in Client |-> None]
    /\ rowDoc     = [w \in Client |-> None]
    /\ audit      = [w \in Client |-> {}]
    /\ late       = {}

(***************************************************************************)
(* What each writing call does when it takes effect, in time or late.      *)
(***************************************************************************)
CreateRow(w) ==                     \* create_submission_if_absent
    /\ rowStatus' = [rowStatus EXCEPT ![w] = IF @ = "none" THEN "created" ELSE @]
    /\ UNCHANGED <<gatewayVars, rowSession, rowDoc, audit>>

MarkStarted(w, s) ==
    /\ rowStatus'  = [rowStatus  EXCEPT ![w] = "started"]
    /\ rowSession' = [rowSession EXCEPT ![w] = s]
    /\ UNCHANGED <<gatewayVars, rowDoc, audit>>

AttachReference(w, d) ==
    /\ rowDoc' = [rowDoc EXCEPT ![w] = d]
    /\ UNCHANGED <<gatewayVars, rowStatus, rowSession, audit>>

MarkTerminal(w, status) ==
    /\ rowStatus' = [rowStatus EXCEPT ![w] = status]
    /\ UNCHANGED <<gatewayVars, rowSession, rowDoc, audit>>

AppendEvent(w, event) ==
    /\ audit' = [audit EXCEPT ![w] = @ \cup {event}]
    /\ UNCHANGED <<gatewayVars, rowStatus, rowSession, rowDoc>>

OpenOnlineSession(w, s) ==
    /\ OpenSession(w, s)
    /\ UNCHANGED <<docVars, rowVars>>

SendOnlineInvoice(w, s, d) ==
    /\ ReceiveDoc(w, s, InvoiceOf[w], d)
    /\ UNCHANGED <<sessionVars, rowVars>>

CloseOnlineSession(s) ==
    /\ CloseSession(s)
    /\ UNCHANGED <<docVars, rowVars>>

(***************************************************************************)
(* The run: one action per awaited activity, taken when an attempt         *)
(* succeeds and its answer reaches the workflow in time.                   *)
(***************************************************************************)
Goto(w, step) ==
    /\ pc'    = [pc    EXCEPT ![w] = step]
    /\ tries' = [tries EXCEPT ![w] = 0]
    /\ UNCHANGED <<cancel, late>>

Start(w) ==
    /\ pc[w] = "idle"
    /\ Goto(w, "create_submission_record")
    /\ UNCHANGED <<polls, submitted, sref, iref, lastStatus, final, gatewayVars, rowVars>>

CreateSubmissionRecord(w) ==
    /\ pc[w] = "create_submission_record"
    /\ CreateRow(w)
    /\ submitted' = [submitted EXCEPT ![w] = TRUE]
    /\ Goto(w, "audit_started")
    /\ UNCHANGED <<polls, sref, iref, lastStatus, final>>

AuditStarted(w) ==
    /\ pc[w] = "audit_started"
    /\ AppendEvent(w, "workflow_started")
    /\ Goto(w, "load_invoice_for_send")
    /\ UNCHANGED <<polls, submitted, sref, iref, lastStatus, final>>

LocalActivity(w) ==
    /\ pc[w] \in LocalStep
    /\ Goto(w, AfterLocal[pc[w]])
    /\ UNCHANGED <<polls, submitted, sref, iref, lastStatus, final, gatewayVars, rowVars>>

OpenForWorkflow(w) ==
    /\ pc[w] = "open_online_session"
    /\ \E s \in SessionRef :
         /\ OpenOnlineSession(w, s)
         /\ sref' = [sref EXCEPT ![w] = s]
    /\ Goto(w, "mark_submission_started")
    /\ UNCHANGED <<polls, submitted, iref, lastStatus, final>>

MarkSubmissionStarted(w) ==
    /\ pc[w] = "mark_submission_started"
    /\ MarkStarted(w, sref[w])
    /\ Goto(w, "build_fa3_xml")
    /\ UNCHANGED <<polls, submitted, sref, iref, lastStatus, final>>

(* Mutant: the send takes any session of the application that is open.     *)
SendInAnySession(w) ==
    /\ pc[w] = "send_invoice_online"
    /\ \E s \in SessionRef, d \in DocRef :
         /\ SendOnlineInvoice(w, s, d)
         /\ iref' = [iref EXCEPT ![w] = d]
    /\ Goto(w, "attach_invoice_reference_number")
    /\ UNCHANGED <<polls, submitted, sref, lastStatus, final>>

SendInvoice(w) ==
    /\ pc[w] = "send_invoice_online"
    /\ \E d \in DocRef :
         /\ SendOnlineInvoice(w, sref[w], d)
         /\ iref' = [iref EXCEPT ![w] = d]
    /\ Goto(w, "attach_invoice_reference_number")
    /\ UNCHANGED <<polls, submitted, sref, lastStatus, final>>

(* KSeF opened the session, or took the document, and its answer has no    *)
(* "referenceNumber" (an empty 2xx body): the activity returns it as it    *)
(* is, and the workflow raises a KeyError on it (lines 117 and 161).       *)
AnswerWithoutReference(w) ==
    /\ \/ /\ pc[w] = "open_online_session"
          /\ \E s \in SessionRef : OpenOnlineSession(w, s)
       \/ /\ pc[w] = "send_invoice_online"
          /\ \E d \in DocRef : SendOnlineInvoice(w, sref[w], d)
    /\ Goto(w, "stuck")
    /\ UNCHANGED <<polls, submitted, sref, iref, lastStatus, final>>

AttachInvoiceReference(w) ==
    /\ pc[w] = "attach_invoice_reference_number"
    /\ AttachReference(w, iref[w])
    /\ Goto(w, "close_online_session")
    /\ UNCHANGED <<polls, submitted, sref, iref, lastStatus, final>>

(* Mutant: an error of the close is swallowed.                             *)
CloseIgnoringErrors(w) ==
    /\ pc[w] = "close_online_session"
    /\ CloseOnlineSession(sref[w]) \/ UNCHANGED <<gatewayVars, rowVars>>
    /\ Goto(w, "poll_check")
    /\ UNCHANGED <<polls, submitted, sref, iref, lastStatus, final>>

CloseForWorkflow(w) ==
    /\ pc[w] = "close_online_session"
    /\ CloseOnlineSession(sref[w])
    /\ Goto(w, "poll_check")
    /\ UNCHANGED <<polls, submitted, sref, iref, lastStatus, final>>

(* Mutant: the polling loop has no end.                                    *)
PollCheckUnbounded(w) ==
    /\ pc[w] = "poll_check"
    /\ Goto(w, IF cancel[w] THEN "aborted" ELSE "get_invoice_status")
    /\ UNCHANGED <<polls, submitted, sref, iref, lastStatus, final, gatewayVars, rowVars>>

(* Top of the polling loop: a cancellation or the end of the range raises  *)
(* an ApplicationError, which the handler does not catch.                  *)
PollCheck(w) ==
    /\ pc[w] = "poll_check"
    /\ Goto(w, IF cancel[w] \/ polls[w] = MaxPolls THEN "aborted" ELSE "get_invoice_status")
    /\ UNCHANGED <<polls, submitted, sref, iref, lastStatus, final, gatewayVars, rowVars>>

NonTerminalCode == {100, 110, 120, 150}

StatusAnswers(d) ==
    [code : StatusCodes(d), isTerminal : {"absent", "true", "false"}]

(* Mutant: 150 is taken for a final code.                                  *)
IsTerminalStatus150(a) ==
    \/ a.isTerminal = "true"
    \/ a.isTerminal = "absent" /\ a.code \notin NonTerminalCode \ {150}

(* The field decides if it is there; without it, every code but four, and  *)
(* the lack of one, is terminal.                                           *)
IsTerminalStatus(a) ==
    \/ a.isTerminal = "true"
    \/ a.isTerminal = "absent" /\ a.code \notin NonTerminalCode

(* Mutant: any final code counts as accepted.                              *)
NormalizeAnyAccepted(a) ==
    IF a.code \in NonTerminalCode THEN "processing" ELSE "accepted"

NormalizeTerminalStatus(a) ==
    IF a.code = 200 THEN "accepted"
    ELSE IF a.code \in NonTerminalCode THEN "processing" ELSE "failed"

(* Mutant: an answer that is not terminal does not use up an iteration.    *)
PollWithoutCounting(w) ==
    /\ pc[w] = "get_invoice_status"
    /\ \E a \in StatusAnswers(iref[w]) :
         \/ /\ IsTerminalStatus(a)
            /\ lastStatus' = [lastStatus EXCEPT ![w] = a]
            /\ final' = [final EXCEPT ![w] = NormalizeTerminalStatus(a)]
            /\ Goto(w, "mark_submission_terminal")
         \/ /\ ~IsTerminalStatus(a)
            /\ Goto(w, "poll_check")
            /\ UNCHANGED <<lastStatus, final>>
    /\ UNCHANGED <<polls, submitted, sref, iref, gatewayVars, rowVars>>

(* One get_invoice_status: a terminal answer leaves the loop, any other is *)
(* followed by the sleep and the next iteration.                           *)
PollInvoiceStatus(w) ==
    /\ pc[w] = "get_invoice_status"
    /\ \E a \in StatusAnswers(iref[w]) :
         \/ /\ IsTerminalStatus(a)
            /\ lastStatus' = [lastStatus EXCEPT ![w] = a]
            /\ final' = [final EXCEPT ![w] = NormalizeTerminalStatus(a)]
            /\ Goto(w, "mark_submission_terminal")
            /\ UNCHANGED polls
         \/ /\ ~IsTerminalStatus(a)
            /\ polls' = [polls EXCEPT ![w] = @ + 1]
            /\ Goto(w, "poll_check")
            /\ UNCHANGED <<lastStatus, final>>
    /\ UNCHANGED <<submitted, sref, iref, gatewayVars, rowVars>>

MarkSubmissionTerminal(w) ==
    /\ pc[w] = "mark_submission_terminal"
    /\ MarkTerminal(w, final[w])
    /\ Goto(w, "audit_completed")
    /\ UNCHANGED <<polls, submitted, sref, iref, lastStatus, final>>

AuditCompleted(w) ==
    /\ pc[w] = "audit_completed"
    /\ AppendEvent(w, "workflow_completed")
    /\ Goto(w, "completed")
    /\ UNCHANGED <<polls, submitted, sref, iref, lastStatus, final>>

(***************************************************************************)
(* Failed attempts, and the handler of the ActivityError.                  *)
(***************************************************************************)

(* Mutant: an error of the handler is swallowed by it.                     *)
HandlerSwallowsErrors(w) ==
    IF pc[w] \notin HandlerStep /\ submitted[w] THEN "mark_failed" ELSE "failed"

(* Where the ActivityError of the current step leads: the handler writes   *)
(* only if the row's id is known, and an error in the handler escapes.     *)
AfterError(w) ==
    IF pc[w] \in HandlerStep THEN "aborted"
    ELSE IF submitted[w] THEN "mark_failed" ELSE "failed"

(* Mutant: one attempt too many.                                           *)
CountFailureOffByOne(w) ==
    IF tries[w] < MaxAttempts
    THEN /\ tries' = [tries EXCEPT ![w] = @ + 1]
         /\ UNCHANGED <<pc, cancel>>
    ELSE /\ pc'    = [pc EXCEPT ![w] = AfterError(w)]
         /\ tries' = [tries EXCEPT ![w] = 0]
         /\ UNCHANGED cancel

CountFailure(w) ==
    IF tries[w] + 1 < MaxAttempts
    THEN /\ tries' = [tries EXCEPT ![w] = @ + 1]
         /\ UNCHANGED <<pc, cancel>>
    ELSE /\ pc'    = [pc EXCEPT ![w] = AfterError(w)]
         /\ tries' = [tries EXCEPT ![w] = 0]
         /\ UNCHANGED cancel

(* An attempt fails before its call takes effect.                          *)
AttemptFails(w) ==
    /\ pc[w] \in ActivityStep
    /\ CountFailure(w)
    /\ UNCHANGED <<polls, submitted, sref, iref, lastStatus, final, gatewayVars, rowVars, late>>

(* An attempt fails with a type the retry policy does not retry.           *)
AttemptRefused(w) ==
    /\ pc[w] \in NonRetryableStep
    /\ Goto(w, AfterError(w))
    /\ UNCHANGED <<polls, submitted, sref, iref, lastStatus, final, gatewayVars, rowVars>>

CallArgument(w) ==
    CASE pc[w] \in {"mark_submission_started", "send_invoice_online",
                    "close_online_session"}              -> sref[w]
      [] pc[w] = "attach_invoice_reference_number"       -> iref[w]
      [] pc[w] = "mark_submission_terminal"              -> final[w]
      [] pc[w] = "mark_failed"                           -> "failed"
      [] OTHER                                           -> None

(* An attempt is given up at its timeout, or its answer is lost: the call  *)
(* may still take effect.                                                  *)
AttemptTimesOut(w) ==
    /\ pc[w] \in WriteStep
    /\ Cardinality(late) < MaxLate
    /\ late' = late \cup {[wf |-> w, step |-> pc[w], try |-> tries[w],
                           arg |-> CallArgument(w)]}
    /\ CountFailure(w)
    /\ UNCHANGED <<polls, submitted, sref, iref, lastStatus, final, gatewayVars, rowVars>>

(* Mutant: the handler writes the status of a row still in work.           *)
HandlerMarksProcessing(w) ==
    /\ pc[w] = "mark_failed"
    /\ MarkTerminal(w, "processing")
    /\ Goto(w, "audit_failed")
    /\ UNCHANGED <<polls, submitted, sref, iref, lastStatus, final>>

MarkSubmissionFailed(w) ==
    /\ pc[w] = "mark_failed"
    /\ MarkTerminal(w, "failed")
    /\ Goto(w, "audit_failed")
    /\ UNCHANGED <<polls, submitted, sref, iref, lastStatus, final>>

AuditFailed(w) ==
    /\ pc[w] = "audit_failed"
    /\ AppendEvent(w, "workflow_failed")
    /\ Goto(w, "failed")
    /\ UNCHANGED <<polls, submitted, sref, iref, lastStatus, final>>

(* A given-up call takes effect after all.                                 *)
LateEffect(c) ==
    \/ c.step = "create_submission_record" /\ CreateRow(c.wf)
    \/ c.step = "audit_started"            /\ AppendEvent(c.wf, "workflow_started")
    \/ c.step = "audit_completed"          /\ AppendEvent(c.wf, "workflow_completed")
    \/ c.step = "audit_failed"             /\ AppendEvent(c.wf, "workflow_failed")
    \/ c.step = "open_online_session"
         /\ \E s \in SessionRef : OpenOnlineSession(c.wf, s)
    \/ c.step = "mark_submission_started"  /\ MarkStarted(c.wf, c.arg)
    \/ c.step = "send_invoice_online"
         /\ \E d \in DocRef : SendOnlineInvoice(c.wf, c.arg, d)
    \/ c.step = "attach_invoice_reference_number" /\ AttachReference(c.wf, c.arg)
    \/ c.step = "close_online_session"     /\ CloseOnlineSession(c.arg)
    \/ c.step \in {"mark_submission_terminal", "mark_failed"}
         /\ MarkTerminal(c.wf, c.arg)

(* KSeF refuses a late call on a session that is no longer open.           *)
LateRefused(c) ==
    /\ c.step \in {"send_invoice_online", "close_online_session"}
    /\ session[c.arg] # "open"
    /\ UNCHANGED <<gatewayVars, rowVars>>

LateCall(c) ==
    /\ late' = late \ {c}
    /\ LateEffect(c) \/ LateRefused(c)
    /\ UNCHANGED flowVars

(* Signal cancel_submission.                                               *)
CancelSubmission(w) ==
    /\ pc[w] \notin Ended \cup {"idle"}
    /\ ~cancel[w]
    /\ cancel' = [cancel EXCEPT ![w] = TRUE]
    /\ UNCHANGED <<pc, tries, polls, submitted, sref, iref, lastStatus, final,
                   gatewayVars, rowVars, late>>

(***************************************************************************)
(* The next-state relation.                                                *)
(***************************************************************************)
Run(w) ==
    \/ AttemptFails(w)
    \/ CreateSubmissionRecord(w)
    \/ AuditStarted(w)
    \/ LocalActivity(w)
    \/ OpenForWorkflow(w)
    \/ MarkSubmissionStarted(w)
    \/ SendInvoice(w)
    \/ AnswerWithoutReference(w)
    \/ AttachInvoiceReference(w)
    \/ CloseForWorkflow(w)
    \/ PollCheck(w)
    \/ PollInvoiceStatus(w)
    \/ MarkSubmissionTerminal(w)
    \/ AuditCompleted(w)
    \/ MarkSubmissionFailed(w)
    \/ AuditFailed(w)
    \/ AttemptRefused(w)
    \/ AttemptTimesOut(w)

Environment ==
    /\ GatewayStep
    /\ UNCHANGED <<flowVars, rowVars, late>>

Next ==
    \/ \E w \in Client : Start(w) \/ Run(w) \/ CancelSubmission(w)
    \/ \E c \in late : LateCall(c)
    \/ Environment

Spec == Init /\ [][Next]_vars

(* Temporal keeps scheduling the next attempt of a running execution.      *)
FairSpec == Spec /\ \A w \in Client : WF_vars(Run(w))

(***************************************************************************)
(* Properties.                                                             *)
(***************************************************************************)

(* The two references of a row belong together and to the row: the         *)
(* document it names is a copy of the row's invoice, sent by the row's own *)
(* execution, in the session the row names, whatever attempts were retried *)
(* or arrived late (lines 119-172 of the workflow).                        *)
RowReferencesMatch ==
    \A w \in Client :
        rowDoc[w] # None =>
            /\ docSender[rowDoc[w]]  = w
            /\ docInvoice[rowDoc[w]] = InvoiceOf[w]
            /\ docSession[rowDoc[w]] = rowSession[w]

(* A row says "accepted" only if it names the document that KSeF accepted: *)
(* a retried send, a failed run of the handler or a late write never marks *)
(* a refused, duplicate or unprocessed document as accepted.               *)
AcceptedRowIsAccepted ==
    \A w \in Client :
        rowStatus[w] = "accepted" =>
            rowDoc[w] # None /\ doc[rowDoc[w]] = "accepted"

PollingOrLater == {"poll_check", "get_invoice_status", "mark_submission_terminal",
                   "audit_completed", "completed"}

(* From the first poll on, no session in which the execution's invoice was *)
(* sent, by any attempt, is open: nothing can be added to it any more and  *)
(* KSeF will finish it (the close at lines 174-183 precedes the polling).  *)
NoOpenSessionWhenPolling ==
    \A w \in Client : pc[w] \in PollingOrLater =>
        \A d \in DocRef : docSender[d] = w => session[docSession[d]] = "closed"

(* Attempts are given up but their calls are not: still no execution opens *)
(* more sessions, or sends more copies of its invoice, than the retry      *)
(* policy has attempts (maximum_attempts, models/common.py:28).            *)
AtMostMaxAttempts ==
    \A w \in Client :
        /\ Cardinality({s \in SessionRef : opener[s] = w}) <= MaxAttempts
        /\ Cardinality({d \in DocRef : docSender[d] = w})  <= MaxAttempts

(* The audit trail of a completed run has its start and its completion and *)
(* no failure; a run that failed with a known row has a failure event.     *)
AuditTrail ==
    \A w \in Client :
        /\ pc[w] = "completed" => audit[w] = {"workflow_started", "workflow_completed"}
        /\ pc[w] = "failed" /\ submitted[w] => "workflow_failed" \in audit[w]

(* A row leaves a final status only when the failure handler writes        *)
(* "failed" over it, or when a call given up earlier arrives late.         *)
FinalStatusStable ==
    [][\A w \in Client :
         rowStatus[w] \in FinalStatus /\ rowStatus'[w] # rowStatus[w] =>
            \/ pc[w] = "mark_failed" /\ rowStatus'[w] = "failed"
            \/ \E c \in late : c.wf = w /\ c \notin late']_vars

(* The answer has a code, and one the contract lists.                      *)
ListedCode(a) == a.code \notin {None, UnlistedCode}

(* The answer has the shape that the contract gives it.                    *)
WithinContract(a) == ListedCode(a) /\ a.isTerminal = "absent"

(* A run ends its polling with "accepted" only when KSeF accepted the      *)
(* document it sent last, whatever shape the answer has.  If the answer    *)
(* has the shape of the contract, the final status is KSeF's verdict: the  *)
(* document is judged, and the status is "accepted" or "failed" as it was  *)
(* accepted or not (lines 297-315).  An answer without a code, or with an  *)
(* unlisted one, gives "failed" and says nothing about the document; one   *)
(* with isTerminal may end the run as "processing".  The row says          *)
(* "accepted" only of an accepted document.                                *)
FinalStatusIsVerdict ==
    /\ \A w \in Client : final[w] # None =>
         /\ final[w] = "accepted" => doc[iref[w]] = "accepted"
         /\ WithinContract(lastStatus[w]) =>
              /\ doc[iref[w]] \in {"accepted", "rejected", "duplicate"}
              /\ final[w] = IF doc[iref[w]] = "accepted" THEN "accepted" ELSE "failed"
    /\ AcceptedRowIsAccepted

(* Every started execution ends, unless an answer of KSeF to its open or   *)
(* its send lacked the reference: no combination of failing attempts, lost *)
(* calls, cancellation, documents that KSeF never judges and answers       *)
(* without a status leaves it running (MAX_POLL_ATTEMPTS,                  *)
(* maximum_attempts).  A run that lacks a reference is stuck for good, for *)
(* no attempt limit applies to the workflow's own code.                    *)
EveryRunEnds ==
    \A w \in Client : pc[w] = "create_submission_record" ~> pc[w] \in Stopped

(* The executions implement the promise made to their callers.  A run that *)
(* completes with "accepted" says so; "failed" is a refusal by KSeF only   *)
(* if the answer it was taken from had a listed code, and so is no claim   *)
(* without one.  A run that ends as "processing", fails or aborts claims   *)
(* nothing, and one that is stuck does not answer.                         *)
OutcomeOf(w) ==
    CASE pc[w] = "idle"                  -> "idle"
      [] pc[w] \in {"failed", "aborted"} -> "unknown"
      [] pc[w] = "completed"             ->
            (CASE final[w] = "accepted"  -> "delivered"
               [] final[w] = "failed" /\ ListedCode(lastStatus[w]) -> "refused"
               [] OTHER                  -> "unknown")
      [] OTHER                           -> "running"

Delivery == INSTANCE InvoiceDelivery WITH
    accepted <- InvoicesWith({"accepted"}),
    refused  <- InvoicesWith({"rejected", "duplicate"}),
    asked    <- InvoiceOf,
    outcome  <- [w \in Client |-> OutcomeOf(w)]

(* Every behaviour of the workflow executions is one of InvoiceDelivery:   *)
(* answers are given once and agree with the verdicts of KSeF.             *)
ImplementsDelivery == Delivery!Spec
=============================================================================
