-------------------------- MODULE InvoiceSubmission --------------------------
(***************************************************************************)
(* The submission rows of one company and its requests: InvoiceService     *)
(* (submit, resubmit) and the invoice half of StatusService, running       *)
(* beside the session requests of LocalSessions, with which they share the *)
(* session rows and KSeF.                                                  *)
(*                                                                         *)
(* A submission row is named by the request that created it.               *)
(***************************************************************************)
EXTENDS LocalSessions

CONSTANT InvoiceOf      \* the invoice each request would submit

InvoiceStatus == {"processing", "accepted", "rejected"}

ASSUME SubmissionAssumption ==
    /\ InvoiceOf \in [Client -> Invoice]
    /\ None \notin InvoiceStatus

VARIABLES
    target,         \* the row a request works on
    dref,           \* the document reference it works with
    rowStatus,      \* local_status of each row, "none" if there is no row
    rowSession,     \* its session_reference_number
    rowDoc          \* its invoice_reference_number

rowVars == <<rowStatus, rowSession, rowDoc>>
vars    == <<gatewayVars, requestVars, local, target, dref, rowVars>>

RowStatus == {"none", "prepared", "send_failed", "sent", "resent"} \cup InvoiceStatus

SubmissionStep == {"save_row", "send", "mark_failed", "save_sent",
                   "poll_invoice", "store_status"}

Operation == {"none", "open", "close", "poll_session", "submit", "resubmit", "poll_invoice"}

TypeOK ==
    /\ GatewayTypeOK
    /\ pc         \in [Client -> {"idle", "done", "failed"} \cup SessionStep
                                                            \cup SubmissionStep]
    /\ op         \in [Client -> Operation]
    /\ held       \in [Client -> SessionRef \cup {None}]
    /\ answer     \in [Client -> LocalStatus \cup InvoiceStatus \cup {None}]
    /\ local      \in [SessionRef -> LocalStatus]
    /\ target     \in [Client -> Client]
    /\ dref       \in [Client -> DocRef \cup {None}]
    /\ rowStatus  \in [Client -> RowStatus]
    /\ rowSession \in [Client -> SessionRef \cup {None}]
    /\ rowDoc     \in [Client -> DocRef \cup {None}]

Init ==
    /\ SessionsInit
    /\ target     = [c \in Client |-> c]
    /\ dref       = [c \in Client |-> None]
    /\ rowStatus  = [c \in Client |-> "none"]
    /\ rowSession = [c \in Client |-> None]
    /\ rowDoc     = [c \in Client |-> None]

SetStatus(r, status) == rowStatus' = [rowStatus EXCEPT ![r] = status]

(***************************************************************************)
(* Submitting and resubmitting.  The session comes from FindSession,       *)
(* OpenRemote and PersistOpened.                                           *)
(***************************************************************************)
BeginSubmit(c) ==
    /\ Request(c, "submit", "find")
    /\ UNCHANGED <<held, answer, local, target, dref, rowVars, gatewayVars>>

(* A submission in any status can be resubmitted.                          *)
BeginResubmit(c, r) ==
    /\ rowStatus[r] # "none"
    /\ Request(c, "resubmit", "find")
    /\ target' = [target EXCEPT ![c] = r]
    /\ UNCHANGED <<held, answer, local, dref, rowVars, gatewayVars>>

SaveSubmission(c) ==
    /\ pc[c] = "save_row"
    /\ SetStatus(c, "prepared")
    /\ rowSession' = [rowSession EXCEPT ![c] = held[c]]
    /\ Goto(c, "send")
    /\ UNCHANGED <<op, held, answer, local, target, dref, rowDoc, gatewayVars>>

Receive(c, d) == ReceiveDoc(c, held[c], InvoiceOf[target[c]], d)

(* KSeF takes the document; the answer names it, or has no reference.      *)
SendToKsef(c) ==
    /\ pc[c] = "send"
    /\ \E d \in DocRef : \E ref \in {d, None} :
         Receive(c, d) /\ dref' = [dref EXCEPT ![c] = ref]
    /\ Goto(c, "save_sent")
    /\ UNCHANGED <<op, held, answer, local, target, rowVars, sessionVars>>

(* The send raises, whether or not KSeF took the document.  Only           *)
(* submit_invoice has a handler.                                           *)
SendFails(c) ==
    /\ pc[c] = "send"
    /\ (\E d \in DocRef : Receive(c, d)) \/ UNCHANGED docVars
    /\ Goto(c, IF op[c] = "submit" THEN "mark_failed" ELSE "failed")
    /\ UNCHANGED <<op, held, answer, local, target, dref, rowVars, sessionVars>>

(* The process dies after KSeF took the document.                          *)
DiesAfterSend(c) ==
    /\ pc[c] = "send"
    /\ \E d \in DocRef : Receive(c, d)
    /\ Goto(c, "failed")
    /\ UNCHANGED <<op, held, answer, local, target, dref, rowVars, sessionVars>>

MarkSubmissionFailed(c) ==
    /\ pc[c] = "mark_failed"
    /\ SetStatus(c, "send_failed")
    /\ Goto(c, "failed")
    /\ UNCHANGED <<op, held, answer, local, target, dref, rowSession, rowDoc, gatewayVars>>

(* Mutant: a resubmission is stored like a first submission.               *)
UpdateAfterSendAsSent(c) ==
    /\ pc[c] = "save_sent"
    /\ SetStatus(target[c], "sent")
    /\ rowDoc' = [rowDoc EXCEPT ![target[c]] = dref[c]]
    /\ Goto(c, "done")
    /\ UNCHANGED <<op, held, answer, local, target, dref, rowSession, gatewayVars>>

(* The reference is stored as it is, also when there is none, and then     *)
(* replaces the one of an earlier send.  The session of the row is not     *)
(* written, not even by a resubmission that used another one.              *)
UpdateAfterSend(c) ==
    /\ pc[c] = "save_sent"
    /\ SetStatus(target[c], IF op[c] = "submit" THEN "sent" ELSE "resent")
    /\ rowDoc' = [rowDoc EXCEPT ![target[c]] = dref[c]]
    /\ Goto(c, "done")
    /\ UNCHANGED <<op, held, answer, local, target, dref, rowSession, gatewayVars>>

(***************************************************************************)
(* Polling an invoice.                                                     *)
(***************************************************************************)
BeginPollInvoice(c, r) ==
    /\ rowDoc[r] # None
    /\ local[rowSession[r]] # "none"
    /\ Request(c, "poll_invoice", "poll_invoice")
    /\ Hold(c, rowSession[r])
    /\ target' = [target EXCEPT ![c] = r]
    /\ dref'   = [dref   EXCEPT ![c] = rowDoc[r]]
    /\ UNCHANGED <<answer, local, rowVars, gatewayVars>>

(* Mutant: the codes of sessions.                                          *)
MapInvoiceStatusCodeAsSession(code) == MapSessionStatusCode(code)

(* Mutant: every code below 400 is taken as success.                       *)
MapInvoiceStatusCodeBelow400(code) ==
    IF code \in {150, 200} THEN "accepted" ELSE "rejected"

(* Mutant: every code but 200 is taken as a refusal.                       *)
MapInvoiceStatusCodeOnly200(code) ==
    IF code = 200 THEN "accepted" ELSE "rejected"

MapInvoiceStatusCode(code) ==
    CASE code = 200          -> "accepted"
      [] code \in {430, 440} -> "rejected"
      [] OTHER               -> "processing"

(* KSeF knows the document only in the session it was sent in.             *)
PollInvoice(c) ==
    /\ pc[c] = "poll_invoice"
    /\ docSession[dref[c]] = held[c]
    /\ \E code \in StatusCodes(dref[c]) :
         answer' = [answer EXCEPT ![c] = MapInvoiceStatusCode(code)]
    /\ Goto(c, "store_status")
    /\ UNCHANGED <<op, held, local, target, dref, rowVars, gatewayVars>>

StoreStatus(c) ==
    /\ pc[c] = "store_status"
    /\ SetStatus(target[c], answer[c])
    /\ Goto(c, "done")
    /\ UNCHANGED <<op, held, answer, local, target, dref, rowSession, rowDoc, gatewayVars>>

(* The step raises before it has an effect, or the process dies.           *)
SubmissionStepFails(c) ==
    /\ pc[c] \in SubmissionStep
    /\ Goto(c, "failed")
    /\ UNCHANGED <<op, held, answer, local, target, dref, rowVars, gatewayVars>>

SubmissionRequest(c) ==
    \/ BeginSubmit(c)
    \/ \E r \in Client : BeginResubmit(c, r) \/ BeginPollInvoice(c, r)
    \/ SaveSubmission(c)
    \/ SendToKsef(c)
    \/ SendFails(c)
    \/ DiesAfterSend(c)
    \/ MarkSubmissionFailed(c)
    \/ UpdateAfterSend(c)
    \/ PollInvoice(c)
    \/ StoreStatus(c)
    \/ SubmissionStepFails(c)

Next ==
    \/ \E c \in Client :
         \/ SubmissionRequest(c)
         \/ SessionRequest(c) /\ UNCHANGED <<target, dref, rowVars>>
    \/ GatewayStep /\ UNCHANGED <<requestVars, local, target, dref, rowVars>>

Spec == Init /\ [][Next]_vars

(***************************************************************************)
(* Properties.                                                             *)
(***************************************************************************)

(* d was sent for row r, by its own request or by a resubmission.          *)
SentFor(d, r) ==
    /\ doc[d] # "unused"
    /\ target[docSender[d]] = r
    /\ docInvoice[d] = InvoiceOf[r]

(* Whatever crashes, KSeF never has a document of which the application    *)
(* does not know the submission and the session: both rows are written     *)
(* before the send (invoice_service.py:156-184, 435-484), and only the     *)
(* reference of the document may be missing from its row.                  *)
EveryDocumentHasRow ==
    \A d \in DocRef :
        doc[d] # "unused" =>
            /\ rowStatus[target[docSender[d]]] # "none"
            /\ local[docSession[d]] # "none"

(* A row names a copy of its own invoice, or nothing.  While it says       *)
(* "sent", KSeF has a document that the row's own request sent in the      *)
(* session the row names, and the reference in the row, if the answer had  *)
(* one, is that document's, also when a resubmission overlaps the first    *)
(* submission (invoice_service.py:206-218, 304-312 write one row without   *)
(* looking at it, or at the reference).                                    *)
SentRowMatches ==
    \A r \in Client :
        /\ rowDoc[r] # None => SentFor(rowDoc[r], r)
        /\ rowStatus[r] = "sent" =>
              \E d \in DocRef : /\ SentFor(d, r)
                               /\ docSender[d] = r
                               /\ docSession[d] = rowSession[r]
                               /\ rowDoc[r] \in {d, None}

(* A row says "accepted" or "rejected" only if KSeF gave that verdict on   *)
(* a copy sent for it, however late the answer of a poll is stored         *)
(* (status_service.py:126-153).                                            *)
VerdictRows ==
    \A r \in Client :
        /\ rowStatus[r] = "accepted" =>
              \E d \in DocRef : SentFor(d, r) /\ doc[d] = "accepted"
        /\ rowStatus[r] = "rejected" =>
              \E d \in DocRef : SentFor(d, r) /\ doc[d] \in {"rejected", "duplicate"}

(* Polls stored out of order do not turn an accepted row into a rejected   *)
(* one: that takes a further copy, sent by a resubmission                  *)
(* (status_service.py:73-80, 126-153; invoice_service.py:264).             *)
RejectedOnlyByCopy ==
    [][\A r \in Client :
         rowStatus[r] = "accepted" /\ rowStatus'[r] = "rejected" =>
             \E d, e \in DocRef : d # e /\ SentFor(d, r) /\ SentFor(e, r)]_rowStatus

(* The requests implement the promise of InvoiceDelivery.  Only a request  *)
(* that polls an invoice claims a verdict, and only when it is done; one   *)
(* that submits says no more than that the document was sent.              *)
OutcomeOf(c) ==
    CASE pc[c] = "idle"   -> "idle"
      [] pc[c] = "failed" -> "unknown"
      [] pc[c] = "done"   ->
            (CASE answer[c] = "accepted" -> "delivered"
               [] answer[c] = "rejected" -> "refused"
               [] OTHER                  -> "unknown")
      [] OTHER            -> "running"

Delivery == INSTANCE InvoiceDelivery WITH
    accepted <- InvoicesWith({"accepted"}),
    refused  <- InvoicesWith({"rejected", "duplicate"}),
    asked    <- [c \in Client |-> InvoiceOf[target[c]]],
    outcome  <- [c \in Client |-> OutcomeOf(c)]

(* A status request never tells its caller of a verdict that KSeF has not  *)
(* reached on the invoice it asked about, and takes nothing back, although *)
(* rows, sessions and references change between its steps                  *)
(* (status_service.py:126-158).                                             *)
ImplementsDelivery == Delivery!Spec

(* The docstring of resubmit_invoice (invoice_service.py:269): "Resubmit   *)
(* previously failed or pending invoice submission."  A request that finds *)
(* the row accepted goes no further than that.                             *)
ResubmitsFailedOrPending ==
    [][\A c \in Client :
         op'[c] = "resubmit" /\ op[c] # "resubmit" =>
             rowStatus[target'[c]] # "accepted"]_op
=============================================================================
