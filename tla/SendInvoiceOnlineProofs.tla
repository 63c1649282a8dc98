----------------------- MODULE SendInvoiceOnlineProofs -----------------------
(***************************************************************************)
(* Proofs about SendInvoiceOnline, for any number of executions, attempts, *)
(* polls, given-up calls, sessions and documents.                          *)
(*                                                                         *)
(* The inductive invariant says how far an execution has come from its     *)
(* step, that its references are set once, and that every given-up call    *)
(* carries the reference its execution still has: this is why a call that  *)
(* takes effect late writes nothing wrong into the row.                    *)
(***************************************************************************)
EXTENDS SendInvoiceOnline, FiniteSetTheorems, TLAPS

USE DEF ListedCode, WithinContract

(* Steps by what the execution has reached when it is in them.             *)
Judged   == {"mark_submission_terminal", "audit_completed", "completed"}
Attached == {"close_online_session"} \cup PollingOrLater
Sent     == {"attach_invoice_reference_number"} \cup Attached
Marked   == {"build_fa3_xml", "encrypt_invoice_xml", "send_invoice_online"} \cup Sent
Opened   == {"mark_submission_started"} \cup Marked

NotOpened == {"idle", "create_submission_record", "audit_started",
              "load_invoice_for_send", "validate_invoice_for_send",
              "ensure_auth_context", "open_online_session"}
NotSent   == NotOpened \cup {"mark_submission_started", "build_fa3_xml",
                             "encrypt_invoice_xml", "send_invoice_online"}
NotJudged == NotSent \cup {"attach_invoice_reference_number", "close_online_session",
                           "poll_check", "get_invoice_status"}

(* What the step of an execution says of its references and of its row.    *)
StepInv(w) ==
    /\ pc[w] \in NotOpened => sref[w] = None
    /\ pc[w] \in NotSent   => iref[w] = None
    /\ pc[w] \in NotJudged => final[w] = None
    /\ pc[w] \in Opened    => sref[w] # None
    /\ pc[w] \in Marked    => rowSession[w] = sref[w]
    /\ pc[w] \in Sent      => iref[w] # None
    /\ pc[w] \in Attached  => rowDoc[w] = iref[w]
    /\ pc[w] \in Judged    => final[w] # None
    /\ pc[w] \in PollingOrLater => session[sref[w]] = "closed"
    /\ pc[w] = "get_invoice_status" => polls[w] < MaxPolls

(* What a reference that is set says of KSeF and of the row.               *)
ReferenceInv(w) ==
    /\ rowSession[w] # None => rowSession[w] = sref[w]
    /\ rowDoc[w] # None     => rowDoc[w] = iref[w]
    /\ sref[w] # None       => session[sref[w]] # "unused"
    /\ iref[w] # None =>
         /\ sref[w] # None
         /\ rowSession[w] = sref[w]
         /\ doc[iref[w]] # "unused"
         /\ docSender[iref[w]]  = w
         /\ docInvoice[iref[w]] = InvoiceOf[w]
    /\ final[w] # None =>
         /\ iref[w] # None
         /\ rowDoc[w] = iref[w]
         /\ final[w] = "accepted" => doc[iref[w]] = "accepted"
         /\ ListedCode(lastStatus[w]) /\ final[w] = "failed" =>
              doc[iref[w]] \in {"rejected", "duplicate"}
         /\ WithinContract(lastStatus[w]) => final[w] # "processing"
    /\ rowStatus[w] = "accepted" => final[w] = "accepted"

(* Every document is a copy of an invoice, and was sent in the one session *)
(* of its execution.                                                       *)
DocumentInv(d) ==
    /\ doc[d] = "unused" => docSender[d] = None
    /\ doc[d] # "unused" => docInvoice[d] \in Invoice
    /\ docSender[d] # None =>
         /\ sref[docSender[d]] # None
         /\ docSession[d] = sref[docSender[d]]

(* A given-up call carries what its execution still has.                   *)
LateInv(c) ==
    /\ c.step \in {"mark_submission_started", "send_invoice_online",
                   "close_online_session"} =>
         c.arg = sref[c.wf] /\ c.arg # None
    /\ c.step = "attach_invoice_reference_number" =>
         c.arg = iref[c.wf] /\ c.arg # None
    /\ c.step = "mark_submission_terminal" =>
         c.arg = final[c.wf] /\ c.arg # None
    /\ c.step = "mark_failed" => c.arg = "failed"

IInv ==
    /\ TypeOK
    /\ \A w \in Client : StepInv(w)
    /\ \A w \in Client : ReferenceInv(w)
    /\ \A d \in DocRef : DocumentInv(d)
    /\ \A c \in late : LateInv(c)

-----------------------------------------------------------------------------

LEMMA InitIInv == Init => IInv
BY NoneAssumption, WorkflowAssumption
   DEF Init, GatewayInit, IInv, TypeOK, GatewayTypeOK, StepInv, ReferenceInv,
       DocumentInv, LateInv, SessionState, DocState, Step, Stopped, Ended, RowStatus,
       NotOpened, Opened, Marked, Sent, Attached, Judged, NotSent, NotJudged,
       PollingOrLater

(* What an answer that ends the polling loop says of the document: 200 and *)
(* the codes of a refusal come only after KSeF's verdict, and an answer    *)
(* that is terminal without the field isTerminal is not "processing".      *)
LEMMA StatusVerdict ==
    ASSUME TypeOK, NEW d \in DocRef, doc[d] # "unused",
           NEW a \in StatusAnswers(d), IsTerminalStatus(a)
    PROVE  /\ a \in StatusAnswer
           /\ NormalizeTerminalStatus(a) \in FinalStatus
           /\ NormalizeTerminalStatus(a) = "accepted" => doc[d] = "accepted"
           /\ ListedCode(a) /\ NormalizeTerminalStatus(a) = "failed" =>
                doc[d] \in {"rejected", "duplicate"}
           /\ WithinContract(a) => NormalizeTerminalStatus(a) # "processing"
<1>1. doc[d] \in {"received", "accepted", "rejected", "duplicate"}
  BY DEF TypeOK, GatewayTypeOK, DocState
<1>2. /\ a.code \in {StatusCode(d), None, UnlistedCode}
      /\ a.isTerminal \in {"absent", "true", "false"}
      /\ a = [code |-> a.code, isTerminal |-> a.isTerminal]
  BY DEF StatusAnswers, StatusCodes
<1>3. StatusCode(d) = IF doc[d] = "accepted" THEN 200 ELSE IF doc[d] = "rejected" THEN 430
                      ELSE IF doc[d] = "duplicate" THEN 440 ELSE 150
  BY <1>1 DEF StatusCode
<1>4. None \notin Nat BY NoneAssumption
<1>5. a \in StatusAnswer
  BY <1>1, <1>2, <1>3 DEF StatusAnswer, UnlistedCode
<1> QED
  BY <1>1, <1>2, <1>3, <1>4, <1>5
  DEF NormalizeTerminalStatus, IsTerminalStatus, NonTerminalCode, FinalStatus,
      ListedCode, WithinContract, UnlistedCode

LEMMA LocalSteps ==
    LocalStep = {"load_invoice_for_send", "validate_invoice_for_send",
                 "ensure_auth_context", "build_fa3_xml", "encrypt_invoice_xml"}
BY DEF LocalStep, AfterLocal

LEMMA StartInv ==
    ASSUME IInv, NEW w \in Client, Start(w)
    PROVE  IInv'
<1> USE NoneAssumption, WorkflowAssumption
    DEF IInv, TypeOK, GatewayTypeOK, gatewayVars, docVars, sessionVars, rowVars,
        Start, Goto,
        StepInv, NotOpened, Opened, Marked, Sent, Attached, Judged, NotSent, NotJudged,
        PollingOrLater
<1>1. TypeOK'
  <2>1. (pc \in [Client -> Step])'
    BY LocalSteps DEF Step, ActivityStep, WriteStep, HandlerStep, Stopped, Ended
  <2> QED BY <2>1
<1>2. \A v \in Client : StepInv(v)'  BY DEF ReferenceInv
<1>3. \A v \in Client : ReferenceInv(v)'  BY DEF ReferenceInv
<1>4. \A d \in DocRef : DocumentInv(d)'  BY DEF ReferenceInv, DocumentInv
<1>5. \A c \in late' : LateInv(c)'  BY DEF ReferenceInv, LateInv, Call
<1> QED BY <1>1, <1>2, <1>3, <1>4, <1>5

LEMMA CreateSubmissionRecordInv ==
    ASSUME IInv, NEW w \in Client, CreateSubmissionRecord(w)
    PROVE  IInv'
<1> USE NoneAssumption, WorkflowAssumption
    DEF IInv, TypeOK, GatewayTypeOK, gatewayVars, docVars, sessionVars, rowVars,
        CreateSubmissionRecord, CreateRow, Goto,
        StepInv, NotOpened, Opened, Marked, Sent, Attached, Judged, NotSent, NotJudged,
        PollingOrLater
<1>1. TypeOK'
  <2>1. (pc \in [Client -> Step])'
    BY LocalSteps DEF Step, ActivityStep, WriteStep, HandlerStep, Stopped, Ended
  <2>2. (rowStatus \in [Client -> RowStatus])' BY DEF RowStatus, FinalStatus
  <2> QED BY <2>1, <2>2
<1>2. \A v \in Client : StepInv(v)'  BY DEF ReferenceInv
<1>3. \A v \in Client : ReferenceInv(v)'  BY DEF ReferenceInv
<1>4. \A d \in DocRef : DocumentInv(d)'  BY DEF ReferenceInv, DocumentInv
<1>5. \A c \in late' : LateInv(c)'  BY DEF ReferenceInv, LateInv, Call
<1> QED BY <1>1, <1>2, <1>3, <1>4, <1>5

LEMMA AuditStartedInv ==
    ASSUME IInv, NEW w \in Client, AuditStarted(w)
    PROVE  IInv'
<1> USE NoneAssumption, WorkflowAssumption
    DEF IInv, TypeOK, GatewayTypeOK, gatewayVars, docVars, sessionVars, rowVars,
        AuditStarted, AppendEvent, Goto,
        StepInv, NotOpened, Opened, Marked, Sent, Attached, Judged, NotSent, NotJudged,
        PollingOrLater
<1>1. TypeOK'
  <2>1. (pc \in [Client -> Step])'
    BY LocalSteps DEF Step, ActivityStep, WriteStep, HandlerStep, Stopped, Ended
  <2>2. (audit \in [Client -> SUBSET Event])' BY DEF Event
  <2> QED BY <2>1, <2>2
<1>2. \A v \in Client : StepInv(v)'  BY DEF ReferenceInv
<1>3. \A v \in Client : ReferenceInv(v)'  BY DEF ReferenceInv
<1>4. \A d \in DocRef : DocumentInv(d)'  BY DEF ReferenceInv, DocumentInv
<1>5. \A c \in late' : LateInv(c)'  BY DEF ReferenceInv, LateInv, Call
<1> QED BY <1>1, <1>2, <1>3, <1>4, <1>5

LEMMA LocalActivityInv ==
    ASSUME IInv, NEW w \in Client, LocalActivity(w)
    PROVE  IInv'
<1> USE NoneAssumption, WorkflowAssumption
    DEF IInv, TypeOK, GatewayTypeOK, gatewayVars, docVars, sessionVars, rowVars,
        LocalActivity, LocalStep, AfterLocal, Goto,
        StepInv, NotOpened, Opened, Marked, Sent, Attached, Judged, NotSent, NotJudged,
        PollingOrLater
<1>1. TypeOK'
  <2>1. (pc \in [Client -> Step])'
    BY LocalSteps DEF Step, ActivityStep, WriteStep, HandlerStep, Stopped, Ended
  <2> QED BY <2>1
<1>2. \A v \in Client : StepInv(v)'  BY DEF ReferenceInv
<1>3. \A v \in Client : ReferenceInv(v)'  BY DEF ReferenceInv
<1>4. \A d \in DocRef : DocumentInv(d)'  BY DEF ReferenceInv, DocumentInv
<1>5. \A c \in late' : LateInv(c)'  BY DEF ReferenceInv, LateInv, Call
<1> QED BY <1>1, <1>2, <1>3, <1>4, <1>5

LEMMA OpenForWorkflowInv ==
    ASSUME IInv, NEW w \in Client, OpenForWorkflow(w)
    PROVE  IInv'
<1> USE NoneAssumption, WorkflowAssumption
    DEF IInv, TypeOK, GatewayTypeOK, gatewayVars, docVars, sessionVars, rowVars,
        OpenForWorkflow, OpenOnlineSession, OpenSession, Goto,
        StepInv, NotOpened, Opened, Marked, Sent, Attached, Judged, NotSent, NotJudged,
        PollingOrLater
<1>1. TypeOK'
  <2>1. (pc \in [Client -> Step])'
    BY LocalSteps DEF Step, ActivityStep, WriteStep, HandlerStep, Stopped, Ended
  <2>2. (session \in [SessionRef -> SessionState])' BY DEF SessionState
  <2> QED BY <2>1, <2>2
<1>2. \A v \in Client : StepInv(v)'  BY DEF ReferenceInv
<1>3. \A v \in Client : ReferenceInv(v)'  BY DEF ReferenceInv
<1>4. \A d \in DocRef : DocumentInv(d)'  BY DEF ReferenceInv, DocumentInv
<1>5. \A c \in late' : LateInv(c)'  BY DEF ReferenceInv, LateInv, Call
<1> QED BY <1>1, <1>2, <1>3, <1>4, <1>5

LEMMA MarkSubmissionStartedInv ==
    ASSUME IInv, NEW w \in Client, MarkSubmissionStarted(w)
    PROVE  IInv'
<1> USE NoneAssumption, WorkflowAssumption
    DEF IInv, TypeOK, GatewayTypeOK, gatewayVars, docVars, sessionVars, rowVars,
        MarkSubmissionStarted, MarkStarted, Goto,
        StepInv, NotOpened, Opened, Marked, Sent, Attached, Judged, NotSent, NotJudged,
        PollingOrLater
<1>1. TypeOK'
  <2>1. (pc \in [Client -> Step])'
    BY LocalSteps DEF Step, ActivityStep, WriteStep, HandlerStep, Stopped, Ended
  <2>2. (rowStatus \in [Client -> RowStatus])' BY DEF RowStatus, FinalStatus
  <2> QED BY <2>1, <2>2
<1>2. \A v \in Client : StepInv(v)'  BY DEF ReferenceInv
<1>3. \A v \in Client : ReferenceInv(v)'  BY DEF ReferenceInv
<1>4. \A d \in DocRef : DocumentInv(d)'  BY DEF ReferenceInv, DocumentInv
<1>5. \A c \in late' : LateInv(c)'  BY DEF ReferenceInv, LateInv, Call
<1> QED BY <1>1, <1>2, <1>3, <1>4, <1>5

LEMMA SendInvoiceInv ==
    ASSUME IInv, NEW w \in Client, SendInvoice(w)
    PROVE  IInv'
<1> USE NoneAssumption, WorkflowAssumption
    DEF IInv, TypeOK, GatewayTypeOK, gatewayVars, docVars, sessionVars, rowVars,
        SendInvoice, SendOnlineInvoice, ReceiveDoc, Goto,
        StepInv, NotOpened, Opened, Marked, Sent, Attached, Judged, NotSent, NotJudged,
        PollingOrLater
<1>1. TypeOK'
  <2>1. GatewayTypeOK'
    <3> PICK d \in DocRef : SendOnlineInvoice(w, sref[w], d) OBVIOUS
    <3>1. /\ doc'        = [doc        EXCEPT ![d] = "received"]
          /\ docSession' = [docSession EXCEPT ![d] = sref[w]]
          /\ docSender'  = [docSender  EXCEPT ![d] = w]
          /\ docInvoice' = [docInvoice EXCEPT ![d] = InvoiceOf[w]]
          /\ session' = session /\ opener' = opener
      OBVIOUS
    <3>2. /\ doc        \in [DocRef -> DocState]
          /\ docSession \in [DocRef -> SessionRef \cup {None}]
          /\ docSender  \in [DocRef -> Client \cup {None}]
          /\ docInvoice \in [DocRef -> Invoice \cup {None}]
          /\ session    \in [SessionRef -> SessionState]
          /\ opener     \in [SessionRef -> Client \cup {None}]
          /\ sref[w] \in SessionRef \cup {None}
          /\ InvoiceOf[w] \in Invoice
      OBVIOUS
    <3> HIDE DEF IInv, SendInvoice, SendOnlineInvoice, ReceiveDoc, Goto, TypeOK
    <3> QED BY <3>1, <3>2 DEF DocState
  <2>2. (pc \in [Client -> Step])' BY DEF Step, ActivityStep, WriteStep
  <2> QED BY <2>1, <2>2
<1>2. \A v \in Client : StepInv(v)'  BY DEF ReferenceInv
<1>3. \A v \in Client : ReferenceInv(v)'  BY DEF ReferenceInv
<1>4. \A d \in DocRef : DocumentInv(d)'
  <2> PICK d \in DocRef : SendOnlineInvoice(w, sref[w], d) OBVIOUS
  <2>1. DocumentInv(d)'
    <3>1. sref' = sref /\ sref[w] # None OBVIOUS
    <3>2. doc'[d] = "received" /\ docInvoice'[d] = InvoiceOf[w] OBVIOUS
    <3>3. docSender'[d] = w /\ docSession'[d] = sref[w] OBVIOUS
    <3>4. InvoiceOf[w] \in Invoice OBVIOUS
    <3> HIDE DEF IInv, SendInvoice, SendOnlineInvoice, Goto
    <3> QED BY <3>1, <3>2, <3>3, <3>4 DEF DocumentInv
  <2>2. ASSUME NEW e \in DocRef, e # d PROVE DocumentInv(e)'
    BY <2>2 DEF DocumentInv
  <2> QED BY <2>1, <2>2
<1>5. \A c \in late' : LateInv(c)'  BY DEF ReferenceInv, LateInv, Call
<1> QED BY <1>1, <1>2, <1>3, <1>4, <1>5

LEMMA AnswerWithoutReferenceInv ==
    ASSUME IInv, NEW w \in Client, AnswerWithoutReference(w)
    PROVE  IInv'
<1> USE NoneAssumption, WorkflowAssumption
    DEF IInv, TypeOK, GatewayTypeOK, gatewayVars, docVars, sessionVars, rowVars,
        Goto, StepInv, NotOpened, Opened, Marked, Sent, Attached, Judged, NotSent,
        NotJudged, PollingOrLater
<1>0. pc' = [pc EXCEPT ![w] = "stuck"]
  BY DEF AnswerWithoutReference
<1>1. CASE pc[w] = "open_online_session" /\ \E s \in SessionRef : OpenOnlineSession(w, s)
  <2> USE <1>0, <1>1 DEF AnswerWithoutReference, OpenOnlineSession, OpenSession
  <2>1. TypeOK'
    <3>1. (pc \in [Client -> Step])' BY DEF Step, Stopped
    <3>2. (session \in [SessionRef -> SessionState])' BY DEF SessionState
    <3> QED BY <3>1, <3>2
  <2>2. \A v \in Client : StepInv(v)'  BY DEF ReferenceInv
  <2>3. \A v \in Client : ReferenceInv(v)'  BY DEF ReferenceInv
  <2>4. \A d \in DocRef : DocumentInv(d)'  BY DEF ReferenceInv, DocumentInv
  <2>5. \A c \in late' : LateInv(c)'  BY DEF ReferenceInv, LateInv, Call
  <2> QED BY <2>1, <2>2, <2>3, <2>4, <2>5
<1>2. CASE pc[w] = "send_invoice_online"
           /\ \E d \in DocRef : SendOnlineInvoice(w, sref[w], d)
  <2> PICK d \in DocRef : SendOnlineInvoice(w, sref[w], d) BY <1>2
  <2>0. /\ doc'        = [doc        EXCEPT ![d] = "received"]
        /\ docSession' = [docSession EXCEPT ![d] = sref[w]]
        /\ docSender'  = [docSender  EXCEPT ![d] = w]
        /\ docInvoice' = [docInvoice EXCEPT ![d] = InvoiceOf[w]]
        /\ session' = session /\ opener' = opener /\ doc[d] = "unused"
        /\ UNCHANGED <<polls, submitted, sref, iref, lastStatus, final, cancel, late>>
        /\ UNCHANGED <<rowStatus, rowSession, rowDoc, audit>>
        /\ tries' = [tries EXCEPT ![w] = 0]
    BY <1>2 DEF AnswerWithoutReference, SendOnlineInvoice, ReceiveDoc
  <2> USE <1>0, <1>2, <2>0
  <2>1. TypeOK'
    <3>1. (pc \in [Client -> Step])' BY DEF Step, Stopped
    <3>2. /\ sref[w] \in SessionRef \cup {None}
          /\ InvoiceOf[w] \in Invoice
      OBVIOUS
    <3>3. GatewayTypeOK' BY <3>2 DEF DocState
    <3> QED BY <3>1, <3>3
  <2>2. \A v \in Client : StepInv(v)'  BY DEF ReferenceInv
  <2>3. \A v \in Client : ReferenceInv(v)'  BY DEF ReferenceInv
  <2>4. \A e \in DocRef : DocumentInv(e)'
    <3>1. DocumentInv(d)'
      <4>1. sref[w] # None OBVIOUS
      <4>2. InvoiceOf[w] \in Invoice OBVIOUS
      <4> QED BY <4>1, <4>2 DEF DocumentInv
    <3>2. ASSUME NEW e \in DocRef, e # d PROVE DocumentInv(e)'
      BY <3>2 DEF DocumentInv
    <3> QED BY <3>1, <3>2
  <2>5. \A c \in late' : LateInv(c)'  BY DEF ReferenceInv, LateInv, Call
  <2> QED BY <2>1, <2>2, <2>3, <2>4, <2>5
<1> QED BY <1>1, <1>2 DEF AnswerWithoutReference

LEMMA AttachInvoiceReferenceInv ==
    ASSUME IInv, NEW w \in Client, AttachInvoiceReference(w)
    PROVE  IInv'
<1> USE NoneAssumption, WorkflowAssumption
    DEF IInv, TypeOK, GatewayTypeOK, gatewayVars, docVars, sessionVars, rowVars,
        AttachInvoiceReference, AttachReference, Goto,
        StepInv, NotOpened, Opened, Marked, Sent, Attached, Judged, NotSent, NotJudged,
        PollingOrLater
<1>1. TypeOK'
  <2>1. (pc \in [Client -> Step])'
    BY LocalSteps DEF Step, ActivityStep, WriteStep, HandlerStep, Stopped, Ended
  <2> QED BY <2>1
<1>2. \A v \in Client : StepInv(v)'  BY DEF ReferenceInv
<1>3. \A v \in Client : ReferenceInv(v)'  BY DEF ReferenceInv
<1>4. \A d \in DocRef : DocumentInv(d)'  BY DEF ReferenceInv, DocumentInv
<1>5. \A c \in late' : LateInv(c)'  BY DEF ReferenceInv, LateInv, Call
<1> QED BY <1>1, <1>2, <1>3, <1>4, <1>5

LEMMA CloseForWorkflowInv ==
    ASSUME IInv, NEW w \in Client, CloseForWorkflow(w)
    PROVE  IInv'
<1> USE NoneAssumption, WorkflowAssumption
    DEF IInv, TypeOK, GatewayTypeOK, gatewayVars, docVars, sessionVars, rowVars,
        CloseForWorkflow, CloseOnlineSession, CloseSession, Goto,
        StepInv, NotOpened, Opened, Marked, Sent, Attached, Judged, NotSent, NotJudged,
        PollingOrLater
<1>1. TypeOK'
  <2>1. (pc \in [Client -> Step])'
    BY LocalSteps DEF Step, ActivityStep, WriteStep, HandlerStep, Stopped, Ended
  <2>2. (session \in [SessionRef -> SessionState])' BY DEF SessionState
  <2> QED BY <2>1, <2>2
<1>2. \A v \in Client : StepInv(v)'  BY DEF ReferenceInv
<1>3. \A v \in Client : ReferenceInv(v)'  BY DEF ReferenceInv
<1>4. \A d \in DocRef : DocumentInv(d)'  BY DEF ReferenceInv, DocumentInv
<1>5. \A c \in late' : LateInv(c)'  BY DEF ReferenceInv, LateInv, Call
<1> QED BY <1>1, <1>2, <1>3, <1>4, <1>5

LEMMA PollCheckInv ==
    ASSUME IInv, NEW w \in Client, PollCheck(w)
    PROVE  IInv'
<1>0. polls[w] # MaxPolls => polls[w] < MaxPolls
  BY WorkflowAssumption DEF IInv, TypeOK
<1> USE NoneAssumption, WorkflowAssumption
    DEF IInv, TypeOK, GatewayTypeOK, gatewayVars, docVars, sessionVars, rowVars,
        PollCheck, Goto,
        StepInv, NotOpened, Opened, Marked, Sent, Attached, Judged, NotSent, NotJudged,
        PollingOrLater
<1>1. TypeOK'
  <2>1. (pc \in [Client -> Step])'
    BY LocalSteps DEF Step, ActivityStep, WriteStep, HandlerStep, Stopped, Ended
  <2> QED BY <2>1
<1>2. \A v \in Client : StepInv(v)'
  BY <1>0
<1>3. \A v \in Client : ReferenceInv(v)'  BY DEF ReferenceInv
<1>4. \A d \in DocRef : DocumentInv(d)'  BY DEF ReferenceInv, DocumentInv
<1>5. \A c \in late' : LateInv(c)'  BY DEF ReferenceInv, LateInv, Call
<1> QED BY <1>1, <1>2, <1>3, <1>4, <1>5

LEMMA PollInvoiceStatusInv ==
    ASSUME IInv, NEW w \in Client, PollInvoiceStatus(w)
    PROVE  IInv'
<1> USE NoneAssumption, WorkflowAssumption
    DEF IInv, gatewayVars, docVars, sessionVars, rowVars, PollInvoiceStatus, Goto
<1>a. iref[w] \in DocRef /\ doc[iref[w]] # "unused" /\ final[w] = None
      /\ polls[w] < MaxPolls /\ rowDoc[w] = iref[w] /\ session[sref[w]] = "closed"
      /\ sref[w] # None /\ rowSession[w] = sref[w]
  BY DEF TypeOK, StepInv, ReferenceInv, NotOpened, Opened, Marked, Sent, Attached,
          Judged, NotSent, NotJudged, PollingOrLater
<1> PICK a \in StatusAnswers(iref[w]) :
         \/ /\ IsTerminalStatus(a)
            /\ lastStatus' = [lastStatus EXCEPT ![w] = a]
            /\ final' = [final EXCEPT ![w] = NormalizeTerminalStatus(a)]
            /\ Goto(w, "mark_submission_terminal")
            /\ UNCHANGED polls
         \/ /\ ~IsTerminalStatus(a)
            /\ polls' = [polls EXCEPT ![w] = @ + 1]
            /\ Goto(w, "poll_check")
            /\ UNCHANGED <<lastStatus, final>>
  OBVIOUS
<1>b. IsTerminalStatus(a) =>
        /\ a \in StatusAnswer
        /\ NormalizeTerminalStatus(a) \in FinalStatus
        /\ NormalizeTerminalStatus(a) = "accepted" => doc[iref[w]] = "accepted"
        /\ ListedCode(a) /\ NormalizeTerminalStatus(a) = "failed" =>
             doc[iref[w]] \in {"rejected", "duplicate"}
        /\ WithinContract(a) => NormalizeTerminalStatus(a) # "processing"
  BY <1>a, StatusVerdict
<1>1. CASE ~IsTerminalStatus(a)
  <2> USE <1>1, <1>a
  <2>0. /\ polls' = [polls EXCEPT ![w] = polls[w] + 1]
        /\ pc' = [pc EXCEPT ![w] = "poll_check"]
        /\ final' = final
        /\ lastStatus' = lastStatus
    OBVIOUS
  <2>1. TypeOK'
    <3>1. polls[w] + 1 \in 0 .. MaxPolls BY DEF TypeOK
    <3>2. (polls \in [Client -> 0 .. MaxPolls])' BY <2>0, <3>1 DEF TypeOK
    <3>3. (pc \in [Client -> Step])' BY <2>0 DEF TypeOK, Step
    <3> QED BY <2>0, <3>2, <3>3 DEF TypeOK, GatewayTypeOK
  <2>2. \A v \in Client : StepInv(v)'
    <3>1. ASSUME NEW v \in Client, v # w PROVE StepInv(v)'
      BY <2>0, <3>1 DEF TypeOK, StepInv, NotOpened, Opened, Marked, Sent, Attached,
          Judged, NotSent, NotJudged, PollingOrLater
    <3>2. StepInv(w)'
      BY <2>0 DEF TypeOK, StepInv, NotOpened, Opened, Marked, Sent, Attached,
          Judged, NotSent, NotJudged, PollingOrLater
    <3> QED BY <3>1, <3>2
  <2>3. \A v \in Client : ReferenceInv(v)'
    BY <2>0 DEF ReferenceInv
  <2>4. \A d \in DocRef : DocumentInv(d)'
    BY DEF DocumentInv
  <2>5. \A c \in late' : LateInv(c)'
    BY <2>0 DEF LateInv
  <2> QED BY <2>1, <2>2, <2>3, <2>4, <2>5
<1>2. CASE IsTerminalStatus(a)
  <2> USE <1>2, <1>a
  <2>0. /\ final' = [final EXCEPT ![w] = NormalizeTerminalStatus(a)]
        /\ pc' = [pc EXCEPT ![w] = "mark_submission_terminal"]
        /\ polls' = polls
        /\ lastStatus' = [lastStatus EXCEPT ![w] = a]
    OBVIOUS
  <2>1. TypeOK'
    <3>1. (final \in [Client -> FinalStatus \cup {None}])' BY <2>0, <1>b DEF TypeOK
    <3>2. (pc \in [Client -> Step])' BY <2>0 DEF TypeOK, Step, ActivityStep, WriteStep
    <3>3. (lastStatus \in [Client -> StatusAnswer \cup {None}])' BY <2>0, <1>b DEF TypeOK
    <3> QED BY <2>0, <3>1, <3>2, <3>3 DEF TypeOK, GatewayTypeOK
  <2>2. /\ final'[w] # None
        /\ final'[w] = "accepted" => doc[iref[w]] = "accepted"
        /\ ListedCode(lastStatus'[w]) /\ final'[w] = "failed" =>
             doc[iref[w]] \in {"rejected", "duplicate"}
        /\ WithinContract(lastStatus'[w]) => final'[w] # "processing"
    <3>1. final'[w] = NormalizeTerminalStatus(a) /\ lastStatus'[w] = a
      BY <2>0 DEF TypeOK
    <3>2. None \notin FinalStatus BY WorkflowAssumption
    <3> QED BY <3>1, <3>2, <1>b
  <2>3. \A v \in Client : StepInv(v)'
    <3>1. ASSUME NEW v \in Client, v # w PROVE StepInv(v)'
      BY <2>0, <3>1 DEF TypeOK, StepInv, NotOpened, Opened, Marked, Sent, Attached,
          Judged, NotSent, NotJudged, PollingOrLater
    <3>2. StepInv(w)'
      BY <2>0, <2>2 DEF TypeOK, StepInv, NotOpened, Opened, Marked, Sent, Attached,
          Judged, NotSent, NotJudged, PollingOrLater
    <3> QED BY <3>1, <3>2
  <2>4. \A v \in Client : ReferenceInv(v)'
    <3>1. ASSUME NEW v \in Client, v # w PROVE ReferenceInv(v)'
      BY <2>0, <3>1 DEF TypeOK, ReferenceInv
    <3>3. iref[w] # None /\ rowDoc[w] = iref[w] /\ rowStatus[w] # "accepted"
      BY DEF ReferenceInv, FinalStatus
    <3>4. ReferenceInv(w)'
      BY <2>0, <2>2, <3>3 DEF ReferenceInv
    <3> QED BY <3>1, <3>4
  <2>5. \A d \in DocRef : DocumentInv(d)'
    BY DEF DocumentInv
  <2>6. \A c \in late' : LateInv(c)'
    BY <2>0 DEF TypeOK, LateInv, Call
  <2> QED BY <2>1, <2>3, <2>4, <2>5, <2>6
<1> QED BY <1>1, <1>2

LEMMA MarkSubmissionTerminalInv ==
    ASSUME IInv, NEW w \in Client, MarkSubmissionTerminal(w)
    PROVE  IInv'
<1> USE NoneAssumption, WorkflowAssumption
    DEF IInv, TypeOK, GatewayTypeOK, gatewayVars, docVars, sessionVars, rowVars,
        MarkSubmissionTerminal, MarkTerminal, Goto,
        StepInv, NotOpened, Opened, Marked, Sent, Attached, Judged, NotSent, NotJudged,
        PollingOrLater
<1>1. TypeOK'
  <2>1. (pc \in [Client -> Step])'
    BY LocalSteps DEF Step, ActivityStep, WriteStep, HandlerStep, Stopped, Ended
  <2>2. (rowStatus \in [Client -> RowStatus])' BY DEF RowStatus, FinalStatus
  <2> QED BY <2>1, <2>2
<1>2. \A v \in Client : StepInv(v)'  BY DEF ReferenceInv
<1>3. \A v \in Client : ReferenceInv(v)'  BY DEF ReferenceInv
<1>4. \A d \in DocRef : DocumentInv(d)'  BY DEF ReferenceInv, DocumentInv
<1>5. \A c \in late' : LateInv(c)'  BY DEF ReferenceInv, LateInv, Call
<1> QED BY <1>1, <1>2, <1>3, <1>4, <1>5

LEMMA AuditCompletedInv ==
    ASSUME IInv, NEW w \in Client, AuditCompleted(w)
    PROVE  IInv'
<1> USE NoneAssumption, WorkflowAssumption
    DEF IInv, TypeOK, GatewayTypeOK, gatewayVars, docVars, sessionVars, rowVars,
        AuditCompleted, AppendEvent, Goto,
        StepInv, NotOpened, Opened, Marked, Sent, Attached, Judged, NotSent, NotJudged,
        PollingOrLater
<1>1. TypeOK'
  <2>1. (pc \in [Client -> Step])'
    BY LocalSteps DEF Step, ActivityStep, WriteStep, HandlerStep, Stopped, Ended
  <2>2. (audit \in [Client -> SUBSET Event])' BY DEF Event
  <2> QED BY <2>1, <2>2
<1>2. \A v \in Client : StepInv(v)'  BY DEF ReferenceInv
<1>3. \A v \in Client : ReferenceInv(v)'  BY DEF ReferenceInv
<1>4. \A d \in DocRef : DocumentInv(d)'  BY DEF ReferenceInv, DocumentInv
<1>5. \A c \in late' : LateInv(c)'  BY DEF ReferenceInv, LateInv, Call
<1> QED BY <1>1, <1>2, <1>3, <1>4, <1>5

LEMMA MarkSubmissionFailedInv ==
    ASSUME IInv, NEW w \in Client, MarkSubmissionFailed(w)
    PROVE  IInv'
<1> USE NoneAssumption, WorkflowAssumption
    DEF IInv, TypeOK, GatewayTypeOK, gatewayVars, docVars, sessionVars, rowVars,
        MarkSubmissionFailed, MarkTerminal, Goto,
        StepInv, NotOpened, Opened, Marked, Sent, Attached, Judged, NotSent, NotJudged,
        PollingOrLater
<1>1. TypeOK'
  <2>1. (pc \in [Client -> Step])'
    BY LocalSteps DEF Step, ActivityStep, WriteStep, HandlerStep, Stopped, Ended
  <2>2. (rowStatus \in [Client -> RowStatus])' BY DEF RowStatus, FinalStatus
  <2> QED BY <2>1, <2>2
<1>2. \A v \in Client : StepInv(v)'  BY DEF ReferenceInv
<1>3. \A v \in Client : ReferenceInv(v)'  BY DEF ReferenceInv
<1>4. \A d \in DocRef : DocumentInv(d)'  BY DEF ReferenceInv, DocumentInv
<1>5. \A c \in late' : LateInv(c)'  BY DEF ReferenceInv, LateInv, Call
<1> QED BY <1>1, <1>2, <1>3, <1>4, <1>5

LEMMA AuditFailedInv ==
    ASSUME IInv, NEW w \in Client, AuditFailed(w)
    PROVE  IInv'
<1> USE NoneAssumption, WorkflowAssumption
    DEF IInv, TypeOK, GatewayTypeOK, gatewayVars, docVars, sessionVars, rowVars,
        AuditFailed, AppendEvent, Goto,
        StepInv, NotOpened, Opened, Marked, Sent, Attached, Judged, NotSent, NotJudged,
        PollingOrLater
<1>1. TypeOK'
  <2>1. (pc \in [Client -> Step])'
    BY LocalSteps DEF Step, ActivityStep, WriteStep, HandlerStep, Stopped, Ended
  <2>2. (audit \in [Client -> SUBSET Event])' BY DEF Event
  <2> QED BY <2>1, <2>2
<1>2. \A v \in Client : StepInv(v)'  BY DEF ReferenceInv
<1>3. \A v \in Client : ReferenceInv(v)'  BY DEF ReferenceInv
<1>4. \A d \in DocRef : DocumentInv(d)'  BY DEF ReferenceInv, DocumentInv
<1>5. \A c \in late' : LateInv(c)'  BY DEF ReferenceInv, LateInv, Call
<1> QED BY <1>1, <1>2, <1>3, <1>4, <1>5

LEMMA AttemptFailsInv ==
    ASSUME IInv, NEW w \in Client, AttemptFails(w)
    PROVE  IInv'
<1> USE NoneAssumption, WorkflowAssumption
    DEF IInv, TypeOK, GatewayTypeOK, gatewayVars, docVars, sessionVars, rowVars,
        AttemptFails, CountFailure, AfterError, HandlerStep,
        StepInv, NotOpened, Opened, Marked, Sent, Attached, Judged, NotSent, NotJudged,
        PollingOrLater
<1>1. TypeOK'
  <2>1. (pc \in [Client -> Step])'
    BY LocalSteps DEF Step, ActivityStep, WriteStep, HandlerStep, Stopped, Ended
  <2>2. (tries \in [Client -> 0 .. MaxAttempts - 1])' OBVIOUS
  <2> QED BY <2>1, <2>2
<1>2. \A v \in Client : StepInv(v)'  BY DEF ReferenceInv
<1>3. \A v \in Client : ReferenceInv(v)'  BY DEF ReferenceInv
<1>4. \A d \in DocRef : DocumentInv(d)'  BY DEF ReferenceInv, DocumentInv
<1>5. \A c \in late' : LateInv(c)'  BY DEF ReferenceInv, LateInv, Call
<1> QED BY <1>1, <1>2, <1>3, <1>4, <1>5

LEMMA AttemptRefusedInv ==
    ASSUME IInv, NEW w \in Client, AttemptRefused(w)
    PROVE  IInv'
<1> USE NoneAssumption, WorkflowAssumption
    DEF IInv, TypeOK, GatewayTypeOK, gatewayVars, docVars, sessionVars, rowVars,
        AttemptRefused, NonRetryableStep, AfterError, HandlerStep, Goto,
        StepInv, NotOpened, Opened, Marked, Sent, Attached, Judged, NotSent, NotJudged,
        PollingOrLater
<1>1. TypeOK'
  <2>1. (pc \in [Client -> Step])'
    BY LocalSteps DEF Step, ActivityStep, WriteStep, HandlerStep, Stopped, Ended
  <2> QED BY <2>1
<1>2. \A v \in Client : StepInv(v)'  BY DEF ReferenceInv
<1>3. \A v \in Client : ReferenceInv(v)'  BY DEF ReferenceInv
<1>4. \A d \in DocRef : DocumentInv(d)'  BY DEF ReferenceInv, DocumentInv
<1>5. \A c \in late' : LateInv(c)'  BY DEF ReferenceInv, LateInv, Call
<1> QED BY <1>1, <1>2, <1>3, <1>4, <1>5

LEMMA AttemptTimesOutInv ==
    ASSUME IInv, NEW w \in Client, AttemptTimesOut(w)
    PROVE  IInv'
<1> USE NoneAssumption, WorkflowAssumption
    DEF IInv, TypeOK, GatewayTypeOK, gatewayVars, docVars, sessionVars, rowVars,
        AttemptTimesOut, CountFailure, AfterError, HandlerStep, CallArgument,
        StepInv, NotOpened, Opened, Marked, Sent, Attached, Judged, NotSent, NotJudged,
        PollingOrLater
<1>1. TypeOK'
  <2>1. (pc \in [Client -> Step])'
    BY LocalSteps DEF Step, ActivityStep, WriteStep, HandlerStep, Stopped, Ended
  <2>2. (tries \in [Client -> 0 .. MaxAttempts - 1])' OBVIOUS
  <2>3. (late \subseteq Call)' BY DEF Call, Argument, WriteStep, FinalStatus
  <2> QED BY <2>1, <2>2, <2>3
<1>2. \A v \in Client : StepInv(v)'  BY DEF ReferenceInv
<1>3. \A v \in Client : ReferenceInv(v)'  BY DEF ReferenceInv
<1>4. \A d \in DocRef : DocumentInv(d)'  BY DEF ReferenceInv, DocumentInv
<1>5. \A c \in late' : LateInv(c)'  BY DEF ReferenceInv, LateInv, Call
<1> QED BY <1>1, <1>2, <1>3, <1>4, <1>5

LEMMA CancelSubmissionInv ==
    ASSUME IInv, NEW w \in Client, CancelSubmission(w)
    PROVE  IInv'
<1> USE NoneAssumption, WorkflowAssumption
    DEF IInv, TypeOK, GatewayTypeOK, gatewayVars, docVars, sessionVars, rowVars,
        CancelSubmission, Ended,
        StepInv, NotOpened, Opened, Marked, Sent, Attached, Judged, NotSent, NotJudged,
        PollingOrLater
<1>1. TypeOK'
  <2>1. (pc \in [Client -> Step])'
    BY LocalSteps DEF Step, ActivityStep, WriteStep, HandlerStep, Stopped, Ended
  <2> QED BY <2>1
<1>2. \A v \in Client : StepInv(v)'  BY DEF ReferenceInv
<1>3. \A v \in Client : ReferenceInv(v)'  BY DEF ReferenceInv
<1>4. \A d \in DocRef : DocumentInv(d)'  BY DEF ReferenceInv, DocumentInv
<1>5. \A c \in late' : LateInv(c)'  BY DEF ReferenceInv, LateInv, Call
<1> QED BY <1>1, <1>2, <1>3, <1>4, <1>5

LEMMA LateCallInv ==
    ASSUME IInv, NEW c \in late, LateCall(c)
    PROVE  IInv'
<1> USE NoneAssumption, WorkflowAssumption
    DEF gatewayVars, flowVars, docVars, sessionVars, rowVars
<1>a. /\ c \in Call /\ c.wf \in Client /\ LateInv(c)
      /\ late' \subseteq late /\ late \subseteq Call /\ UNCHANGED flowVars
  BY DEF IInv, TypeOK, Call, LateCall
<1>b. \A b \in late' : LateInv(b)'
  BY <1>a DEF IInv, LateInv
<1> USE <1>a DEF IInv, TypeOK, GatewayTypeOK
<1>c. SUFFICES TypeOK' /\ (\A v \in Client : StepInv(v)' /\ ReferenceInv(v)')
                       /\ (\A d \in DocRef : DocumentInv(d)')
  BY <1>b
<1>1. CASE c.step = "create_submission_record" /\ CreateRow(c.wf)
  <2>1. TypeOK'
    BY <1>1 DEF CreateRow, RowStatus, FinalStatus
  <2>2. \A v \in Client : StepInv(v)'
    BY <1>1 DEF StepInv, ReferenceInv, CreateRow, NotOpened, Opened, Marked, Sent, Attached,
            Judged, NotSent, NotJudged, PollingOrLater
  <2>3. \A v \in Client : ReferenceInv(v)'
    BY <1>1 DEF StepInv, ReferenceInv, CreateRow, NotOpened, Opened, Marked, Sent, Attached,
            Judged, NotSent, NotJudged, PollingOrLater
  <2>4. \A d \in DocRef : DocumentInv(d)'
    BY <1>1 DEF ReferenceInv, DocumentInv, CreateRow
  <2> QED BY <2>1, <2>2, <2>3, <2>4
<1>2. CASE \E event \in Event : AppendEvent(c.wf, event)
  <2>1. TypeOK'
    BY <1>2 DEF AppendEvent, Event
  <2>2. \A v \in Client : StepInv(v)'
    BY <1>2 DEF StepInv, ReferenceInv, AppendEvent, NotOpened, Opened, Marked, Sent, Attached,
            Judged, NotSent, NotJudged, PollingOrLater
  <2>3. \A v \in Client : ReferenceInv(v)'
    BY <1>2 DEF StepInv, ReferenceInv, AppendEvent, NotOpened, Opened, Marked, Sent, Attached,
            Judged, NotSent, NotJudged, PollingOrLater
  <2>4. \A d \in DocRef : DocumentInv(d)'
    BY <1>2 DEF ReferenceInv, DocumentInv, AppendEvent
  <2> QED BY <2>1, <2>2, <2>3, <2>4
<1>3. CASE \E s \in SessionRef : OpenOnlineSession(c.wf, s)
  <2>1. TypeOK'
    BY <1>3 DEF OpenOnlineSession, OpenSession, SessionState
  <2>2. \A v \in Client : StepInv(v)'
    BY <1>3 DEF StepInv, ReferenceInv, OpenOnlineSession, OpenSession, NotOpened, Opened, Marked, Sent, Attached,
            Judged, NotSent, NotJudged, PollingOrLater
  <2>3. \A v \in Client : ReferenceInv(v)'
    BY <1>3 DEF StepInv, ReferenceInv, OpenOnlineSession, OpenSession, NotOpened, Opened, Marked, Sent, Attached,
            Judged, NotSent, NotJudged, PollingOrLater
  <2>4. \A d \in DocRef : DocumentInv(d)'
    BY <1>3 DEF ReferenceInv, DocumentInv, OpenOnlineSession, OpenSession
  <2> QED BY <2>1, <2>2, <2>3, <2>4
<1>4. CASE c.step = "mark_submission_started" /\ MarkStarted(c.wf, c.arg)
  <2>1. TypeOK'
    BY <1>4 DEF MarkStarted, LateInv, RowStatus, FinalStatus
  <2>2. \A v \in Client : StepInv(v)'
    BY <1>4 DEF StepInv, ReferenceInv, MarkStarted, LateInv, NotOpened, Opened, Marked, Sent, Attached,
            Judged, NotSent, NotJudged, PollingOrLater
  <2>3. \A v \in Client : ReferenceInv(v)'
    BY <1>4 DEF StepInv, ReferenceInv, MarkStarted, LateInv, NotOpened, Opened, Marked, Sent, Attached,
            Judged, NotSent, NotJudged, PollingOrLater
  <2>4. \A d \in DocRef : DocumentInv(d)'
    BY <1>4 DEF ReferenceInv, DocumentInv, MarkStarted, LateInv
  <2> QED BY <2>1, <2>2, <2>3, <2>4
<1>5. CASE /\ c.step = "send_invoice_online"
           /\ \E d \in DocRef : SendOnlineInvoice(c.wf, c.arg, d)
  <2>1. TypeOK'
    BY <1>5 DEF SendOnlineInvoice, ReceiveDoc, LateInv, DocState
  <2>2. \A v \in Client : StepInv(v)'
    BY <1>5 DEF StepInv, ReferenceInv, SendOnlineInvoice, ReceiveDoc, LateInv, NotOpened, Opened, Marked, Sent, Attached,
            Judged, NotSent, NotJudged, PollingOrLater
  <2>3. \A v \in Client : ReferenceInv(v)'
    BY <1>5 DEF StepInv, ReferenceInv, SendOnlineInvoice, ReceiveDoc, LateInv, NotOpened, Opened, Marked, Sent, Attached,
            Judged, NotSent, NotJudged, PollingOrLater
  <2>4. \A d \in DocRef : DocumentInv(d)'
    BY <1>5 DEF ReferenceInv, DocumentInv, SendOnlineInvoice, ReceiveDoc, LateInv
  <2> QED BY <2>1, <2>2, <2>3, <2>4
<1>6. CASE /\ c.step = "attach_invoice_reference_number"
           /\ AttachReference(c.wf, c.arg)
  <2>1. TypeOK'
    BY <1>6 DEF AttachReference, LateInv
  <2>2. \A v \in Client : StepInv(v)'
    BY <1>6 DEF StepInv, ReferenceInv, AttachReference, LateInv, NotOpened, Opened, Marked, Sent, Attached,
            Judged, NotSent, NotJudged, PollingOrLater
  <2>3. \A v \in Client : ReferenceInv(v)'
    BY <1>6 DEF StepInv, ReferenceInv, AttachReference, LateInv, NotOpened, Opened, Marked, Sent, Attached,
            Judged, NotSent, NotJudged, PollingOrLater
  <2>4. \A d \in DocRef : DocumentInv(d)'
    BY <1>6 DEF ReferenceInv, DocumentInv, AttachReference, LateInv
  <2> QED BY <2>1, <2>2, <2>3, <2>4
<1>7. CASE c.step = "close_online_session" /\ CloseOnlineSession(c.arg)
  <2>1. TypeOK'
    BY <1>7 DEF CloseOnlineSession, CloseSession, LateInv, SessionState
  <2>2. \A v \in Client : StepInv(v)'
    BY <1>7 DEF StepInv, ReferenceInv, CloseOnlineSession, CloseSession, LateInv, NotOpened, Opened, Marked, Sent, Attached,
            Judged, NotSent, NotJudged, PollingOrLater
  <2>3. \A v \in Client : ReferenceInv(v)'
    BY <1>7 DEF StepInv, ReferenceInv, CloseOnlineSession, CloseSession, LateInv, NotOpened, Opened, Marked, Sent, Attached,
            Judged, NotSent, NotJudged, PollingOrLater
  <2>4. \A d \in DocRef : DocumentInv(d)'
    BY <1>7 DEF ReferenceInv, DocumentInv, CloseOnlineSession, CloseSession, LateInv
  <2> QED BY <2>1, <2>2, <2>3, <2>4
<1>8. CASE /\ c.step \in {"mark_submission_terminal", "mark_failed"}
           /\ MarkTerminal(c.wf, c.arg)
  <2>1. TypeOK'
    BY <1>8 DEF MarkTerminal, LateInv, RowStatus, FinalStatus
  <2>2. \A v \in Client : StepInv(v)'
    BY <1>8 DEF StepInv, ReferenceInv, MarkTerminal, LateInv, NotOpened, Opened, Marked, Sent, Attached,
            Judged, NotSent, NotJudged, PollingOrLater
  <2>3. \A v \in Client : ReferenceInv(v)'
    BY <1>8 DEF StepInv, ReferenceInv, MarkTerminal, LateInv, NotOpened, Opened, Marked, Sent, Attached,
            Judged, NotSent, NotJudged, PollingOrLater
  <2>4. \A d \in DocRef : DocumentInv(d)'
    BY <1>8 DEF ReferenceInv, DocumentInv, MarkTerminal, LateInv
  <2> QED BY <2>1, <2>2, <2>3, <2>4
<1>9. CASE UNCHANGED <<gatewayVars, rowVars>>
  <2>1. TypeOK'
    BY <1>9
  <2>2. \A v \in Client : StepInv(v)'
    BY <1>9 DEF StepInv, ReferenceInv, NotOpened, Opened, Marked, Sent, Attached,
            Judged, NotSent, NotJudged, PollingOrLater
  <2>3. \A v \in Client : ReferenceInv(v)'
    BY <1>9 DEF StepInv, ReferenceInv, NotOpened, Opened, Marked, Sent, Attached,
            Judged, NotSent, NotJudged, PollingOrLater
  <2>4. \A d \in DocRef : DocumentInv(d)'
    BY <1>9 DEF ReferenceInv, DocumentInv
  <2> QED BY <2>1, <2>2, <2>3, <2>4
<1> QED
  BY <1>1, <1>2, <1>3, <1>4, <1>5, <1>6, <1>7, <1>8, <1>9
     DEF LateCall, LateEffect, LateRefused, Event

(* KSeF judges a document or ends a session: a verdict is never taken back, *)
(* and a closed session stays closed.                                      *)
LEMMA EnvironmentInv ==
    ASSUME IInv, Environment
    PROVE  IInv'
<1> USE NoneAssumption, WorkflowAssumption
    DEF IInv, TypeOK, GatewayTypeOK, gatewayVars, flowVars, docVars, sessionVars,
        rowVars, Environment
<1>1. CASE \E d \in DocRef : JudgeDoc(d)
  <2> PICK d \in DocRef : JudgeDoc(d) BY <1>1
  <2>1. TypeOK' BY DEF JudgeDoc, DocState
  <2>2. \A v \in Client : StepInv(v)' BY DEF JudgeDoc, StepInv
  <2>3. \A v \in Client : ReferenceInv(v)' BY DEF JudgeDoc, ReferenceInv
  <2>4. \A e \in DocRef : DocumentInv(e)' BY DEF JudgeDoc, DocumentInv
  <2>5. \A c \in late' : LateInv(c)' BY DEF JudgeDoc, LateInv
  <2> QED BY <2>1, <2>2, <2>3, <2>4, <2>5
<1>2. CASE \E s \in SessionRef : ExpireSession(s)
  <2> PICK s \in SessionRef : ExpireSession(s) BY <1>2
  <2> USE DEF ExpireSession, CloseSession
  <2>1. TypeOK' BY DEF SessionState
  <2>2. \A v \in Client : StepInv(v)' BY DEF StepInv
  <2>3. \A v \in Client : ReferenceInv(v)' BY DEF ReferenceInv
  <2>4. \A e \in DocRef : DocumentInv(e)' BY DEF DocumentInv
  <2>5. \A c \in late' : LateInv(c)' BY DEF LateInv
  <2> QED BY <2>1, <2>2, <2>3, <2>4, <2>5
<1> QED BY <1>1, <1>2 DEF GatewayStep

-----------------------------------------------------------------------------

LEMMA NextIInv == IInv /\ [Next]_vars => IInv'
<1> SUFFICES ASSUME IInv, [Next]_vars PROVE IInv'
  OBVIOUS
<1>1. ASSUME NEW w \in Client, Start(w) \/ Run(w) \/ CancelSubmission(w)
      PROVE  IInv'
  BY <1>1, StartInv, CreateSubmissionRecordInv, AuditStartedInv, LocalActivityInv,
     OpenForWorkflowInv, MarkSubmissionStartedInv, SendInvoiceInv,
     AnswerWithoutReferenceInv, AttachInvoiceReferenceInv, CloseForWorkflowInv, PollCheckInv,
     PollInvoiceStatusInv, MarkSubmissionTerminalInv, AuditCompletedInv,
     MarkSubmissionFailedInv, AuditFailedInv, AttemptFailsInv, AttemptRefusedInv,
     AttemptTimesOutInv, CancelSubmissionInv
     DEF Run
<1>2. CASE UNCHANGED vars
  BY <1>2 DEF vars, gatewayVars, flowVars, rowVars, IInv, TypeOK, GatewayTypeOK,
     StepInv, ReferenceInv, DocumentInv, LateInv
<1> QED BY <1>1, <1>2, LateCallInv, EnvironmentInv DEF Next

(* What the invariant says of the judged                                   *)
(* documents and of the rows: the safety properties follow from it.        *)
LEMMA IInvImplies ==
    IInv => /\ TypeOK
            /\ RowReferencesMatch
            /\ AcceptedRowIsAccepted
            /\ NoOpenSessionWhenPolling
            /\ FinalStatusIsVerdict
<1> SUFFICES ASSUME IInv PROVE
        /\ TypeOK
        /\ RowReferencesMatch
        /\ AcceptedRowIsAccepted
        /\ NoOpenSessionWhenPolling
        /\ FinalStatusIsVerdict
  OBVIOUS
<1> USE NoneAssumption, WorkflowAssumption DEF IInv, TypeOK, GatewayTypeOK
<1>1. RowReferencesMatch
  BY DEF RowReferencesMatch, ReferenceInv, DocumentInv
<1>2. AcceptedRowIsAccepted
  BY DEF AcceptedRowIsAccepted, ReferenceInv, FinalStatus
<1>3. NoOpenSessionWhenPolling
  BY DEF NoOpenSessionWhenPolling, StepInv, DocumentInv
<1>4. FinalStatusIsVerdict
  BY <1>2 DEF FinalStatusIsVerdict, ReferenceInv, FinalStatus
<1> QED BY <1>1, <1>2, <1>3, <1>4

LEMMA Inductive == Spec => []IInv
BY InitIInv, NextIInv, PTL DEF Spec

(* Every reachable state of the executions is well typed.                  *)
THEOREM TypeCorrect == Spec => []TypeOK
BY Inductive, IInvImplies, PTL

(* The session and the document a submission row names always belong       *)
(* together, to that row's execution and to its invoice, however many      *)
(* attempts were retried and in whatever order given-up calls arrive.      *)
THEOREM RowReferencesCorrect == Spec => []RowReferencesMatch
BY Inductive, IInvImplies, PTL

(* A row that says "accepted" names a document that KSeF accepted.         *)
THEOREM AcceptedCorrect == Spec => []AcceptedRowIsAccepted
BY Inductive, IInvImplies, PTL

(* When polling starts no session that holds a copy of the execution's     *)
(* invoice is open.                                                        *)
THEOREM PollingCorrect == Spec => []NoOpenSessionWhenPolling
BY Inductive, IInvImplies, PTL

(* The status an execution reports is "accepted" only if KSeF accepted the *)
(* document it sent last; it is KSeF's verdict on it whenever the answer   *)
(* that ended the polling has the shape of the contract; and no row says   *)
(* "accepted" of any other document.                                       *)
THEOREM VerdictCorrect == Spec => []FinalStatusIsVerdict
BY Inductive, IInvImplies, PTL

(* A row has no final status before its execution, or its handler, comes   *)
(* to write one; a retried write finds the status its first attempt wrote. *)
RowStatusInv(w) ==
    /\ pc[w] \in NotJudged => rowStatus[w] \notin FinalStatus
    /\ pc[w] = "mark_submission_terminal" /\ rowStatus[w] \in FinalStatus =>
         rowStatus[w] = final[w]

LateStatusInv(c) ==
    /\ c.step = "mark_submission_terminal" => pc[c.wf] \notin NotJudged
    /\ c.step = "mark_failed" =>
         pc[c.wf] \in {"mark_failed", "audit_failed", "failed", "aborted"}

StatusInv ==
    /\ \A w \in Client : RowStatusInv(w)
    /\ \A c \in late : LateStatusInv(c)

LEMMA StatusInvInductive ==
    /\ Init => StatusInv
    /\ IInv /\ StatusInv /\ [Next]_vars => StatusInv'
<1>1. Init => StatusInv
  BY DEF Init, StatusInv, RowStatusInv, LateStatusInv, FinalStatus, NotJudged, NotSent,
         NotOpened
<1>2. ASSUME IInv, StatusInv, [Next]_vars PROVE StatusInv'
  <2> USE NoneAssumption, WorkflowAssumption
      DEF StatusInv, RowStatusInv, LateStatusInv, NotJudged, NotSent, NotOpened, FinalStatus
  <2>0. /\ \A c \in late : c \in Call /\ c.wf \in Client
        /\ pc \in [Client -> Step] /\ final \in [Client -> FinalStatus \cup {None}]
        /\ rowStatus \in [Client -> RowStatus]
    BY <1>2 DEF IInv, TypeOK, Call
  <2> USE <1>2, <2>0 DEF gatewayVars, flowVars, rowVars
  <2>1. ASSUME NEW w \in Client, Start(w) PROVE StatusInv'
    BY <2>1 DEF Start, Goto
  <2>2. ASSUME NEW w \in Client, CreateSubmissionRecord(w) PROVE StatusInv'
    BY <2>2 DEF CreateSubmissionRecord, CreateRow, Goto
  <2>3. ASSUME NEW w \in Client, AuditStarted(w) PROVE StatusInv'
    BY <2>3 DEF AuditStarted, AppendEvent, Goto
  <2>4. ASSUME NEW w \in Client, LocalActivity(w) PROVE StatusInv'
    BY <2>4, LocalSteps DEF LocalActivity, AfterLocal, Goto
  <2>5. ASSUME NEW w \in Client, OpenForWorkflow(w) PROVE StatusInv'
    BY <2>5 DEF OpenForWorkflow, OpenOnlineSession, Goto, docVars
  <2>6. ASSUME NEW w \in Client, MarkSubmissionStarted(w) PROVE StatusInv'
    BY <2>6 DEF MarkSubmissionStarted, MarkStarted, Goto
  <2>7. ASSUME NEW w \in Client, SendInvoice(w) PROVE StatusInv'
    BY <2>7 DEF SendInvoice, SendOnlineInvoice, Goto
  <2>8. ASSUME NEW w \in Client, AttachInvoiceReference(w) PROVE StatusInv'
    BY <2>8 DEF AttachInvoiceReference, AttachReference, Goto
  <2>9. ASSUME NEW w \in Client, CloseForWorkflow(w) PROVE StatusInv'
    BY <2>9 DEF CloseForWorkflow, CloseOnlineSession, Goto
  <2>10. ASSUME NEW w \in Client, PollCheck(w) PROVE StatusInv'
    BY <2>10 DEF PollCheck, Goto
  <2>11. ASSUME NEW w \in Client, PollInvoiceStatus(w) PROVE StatusInv'
    BY <2>11 DEF PollInvoiceStatus, Goto
  <2>12. ASSUME NEW w \in Client, MarkSubmissionTerminal(w) PROVE StatusInv'
    BY <2>12 DEF MarkSubmissionTerminal, MarkTerminal, Goto
  <2>13. ASSUME NEW w \in Client, AuditCompleted(w) PROVE StatusInv'
    BY <2>13 DEF AuditCompleted, AppendEvent, Goto
  <2>14. ASSUME NEW w \in Client, MarkSubmissionFailed(w) PROVE StatusInv'
    BY <2>14 DEF MarkSubmissionFailed, MarkTerminal, Goto
  <2>15. ASSUME NEW w \in Client, AuditFailed(w) PROVE StatusInv'
    BY <2>15 DEF AuditFailed, AppendEvent, Goto
  <2>16. ASSUME NEW w \in Client, AttemptFails(w) PROVE StatusInv'
    BY <2>16 DEF AttemptFails, CountFailure, AfterError, HandlerStep
  <2>17. ASSUME NEW w \in Client, AttemptRefused(w) PROVE StatusInv'
    BY <2>17 DEF AttemptRefused, Goto, AfterError, NonRetryableStep, HandlerStep
  <2>18. ASSUME NEW w \in Client, AttemptTimesOut(w) PROVE StatusInv'
    BY <2>18 DEF AttemptTimesOut, CountFailure, AfterError, HandlerStep, WriteStep
  <2>19. ASSUME NEW w \in Client, CancelSubmission(w) PROVE StatusInv'
    BY <2>19 DEF CancelSubmission, Ended
  <2>20. ASSUME NEW c \in late, LateCall(c) PROVE StatusInv'
    <3>1. CASE c.step \in {"mark_submission_terminal", "mark_failed"} /\ MarkTerminal(c.wf, c.arg)
      BY <2>20, <3>1 DEF LateCall, MarkTerminal, IInv, LateInv
    <3>2. CASE c.step = "mark_submission_started" /\ MarkStarted(c.wf, c.arg)
      BY <2>20, <3>2 DEF LateCall, MarkStarted
    <3>3. CASE c.step = "create_submission_record" /\ CreateRow(c.wf)
      BY <2>20, <3>3 DEF LateCall, CreateRow
    <3>4. CASE UNCHANGED rowStatus
      BY <2>20, <3>4 DEF LateCall
    <3> QED
      BY <2>20, <3>1, <3>2, <3>3, <3>4
         DEF LateCall, LateEffect, LateRefused, AppendEvent, OpenOnlineSession,
             SendOnlineInvoice, AttachReference, CloseOnlineSession
  <2>21. CASE Environment BY <2>21 DEF Environment
  <2>22. CASE UNCHANGED vars BY <2>22 DEF vars
  <2>23. ASSUME NEW w \in Client, AnswerWithoutReference(w) PROVE StatusInv'
    BY <2>23 DEF AnswerWithoutReference, OpenOnlineSession, SendOnlineInvoice, Goto, docVars
  <2> QED
    BY <2>1, <2>2, <2>3, <2>4, <2>5, <2>6, <2>7, <2>8, <2>9, <2>10, <2>11, <2>12, <2>13, <2>14, <2>15, <2>16, <2>17, <2>18, <2>19, <2>20, <2>21, <2>22, <2>23 DEF Next, Run
<1> QED BY <1>1, <1>2

(* A final status leaves a row only by the failure handler or by a call    *)
(* given up earlier: no step of the main path writes over it.              *)
THEOREM FinalStatusStays == Spec => FinalStatusStable
<1> DEFINE Stable(w) ==
      rowStatus[w] \in FinalStatus /\ rowStatus'[w] # rowStatus[w] =>
         \/ pc[w] = "mark_failed" /\ rowStatus'[w] = "failed"
         \/ \E c \in late : c.wf = w /\ c \notin late'
<1>1. ASSUME IInv, StatusInv, [Next]_vars, NEW w \in Client PROVE Stable(w)
  <2> USE <1>1 DEF Stable, IInv, TypeOK, rowVars
  <2>0. rowStatus \in [Client -> RowStatus] OBVIOUS
  <2>1. ASSUME NEW v \in Client, CreateSubmissionRecord(v) PROVE Stable(w)
    BY <2>1 DEF CreateSubmissionRecord, CreateRow, FinalStatus
  <2>2. ASSUME NEW v \in Client, MarkSubmissionStarted(v) PROVE Stable(w)
    BY <2>2 DEF MarkSubmissionStarted, MarkStarted, StatusInv, RowStatusInv,
                NotJudged, NotSent
  <2>3. ASSUME NEW v \in Client, MarkSubmissionTerminal(v) PROVE Stable(w)
    BY <2>3 DEF MarkSubmissionTerminal, MarkTerminal, StatusInv, RowStatusInv
  <2>4. ASSUME NEW v \in Client, MarkSubmissionFailed(v) PROVE Stable(w)
    BY <2>4 DEF MarkSubmissionFailed, MarkTerminal
  <2>5. ASSUME NEW c \in late, LateCall(c) PROVE Stable(w)
    <3>1. c \notin late' BY <2>5 DEF LateCall
    <3>2. CASE c.wf = w BY <3>1, <3>2
    <3>3. CASE c.wf # w
      BY <2>5, <3>3 DEF LateCall, LateEffect, LateRefused, CreateRow, AppendEvent,
         OpenOnlineSession, MarkStarted, SendOnlineInvoice, AttachReference,
         CloseOnlineSession, MarkTerminal
    <3> QED BY <3>2, <3>3
  <2>6. CASE UNCHANGED rowStatus BY <2>6
  <2> QED
    BY <2>1, <2>2, <2>3, <2>4, <2>5, <2>6
       DEF Next, Run, vars, Environment, Start, AuditStarted, LocalActivity, OpenForWorkflow,
           SendInvoice, AnswerWithoutReference, AttachInvoiceReference,
           CloseForWorkflow, PollCheck, PollInvoiceStatus, AuditCompleted, AuditFailed,
           AttemptFails, AttemptRefused, AttemptTimesOut, CancelSubmission, AppendEvent,
           OpenOnlineSession,
           SendOnlineInvoice, AttachReference, CloseOnlineSession
<1>2. IInv /\ StatusInv /\ [Next]_vars =>
        [\A w \in Client : Stable(w)]_vars
  BY <1>1
<1> QED BY <1>2, InitIInv, NextIInv, StatusInvInductive, PTL DEF FinalStatusStable, Spec

(* The events of an execution by its step: the start is on record once the *)
(* run is past it, the completion at its end, and a failure only when the  *)
(* handler has come to write one.                                          *)
NotStarted   == {"idle", "create_submission_record", "audit_started"}
FailureKnown == {"audit_failed", "failed", "aborted"}

AuditEventInv(w) ==
    /\ pc[w] \notin NotStarted \cup HandlerStep \cup {"failed", "aborted"} =>
         "workflow_started" \in audit[w]
    /\ pc[w] = "completed" => "workflow_completed" \in audit[w]
    /\ pc[w] = "failed" /\ submitted[w] => "workflow_failed" \in audit[w]
    /\ "workflow_failed" \in audit[w] => pc[w] \in FailureKnown

LateAuditInv(c) == c.step = "audit_failed" => pc[c.wf] \in FailureKnown

AuditInv ==
    /\ \A w \in Client : AuditEventInv(w)
    /\ \A c \in late : LateAuditInv(c)

LEMMA AuditInvInductive ==
    /\ Init => AuditInv
    /\ TypeOK /\ AuditInv /\ [Next]_vars => AuditInv'
<1>1. Init => AuditInv
  BY DEF Init, AuditInv, AuditEventInv, LateAuditInv, NotStarted
<1>2. ASSUME TypeOK, AuditInv, [Next]_vars PROVE AuditInv'
  <2> USE DEF AuditInv, AuditEventInv, LateAuditInv, NotStarted, FailureKnown, HandlerStep
  <2>0. /\ \A c \in late : c \in Call /\ c.wf \in Client
        /\ pc \in [Client -> Step] /\ submitted \in [Client -> BOOLEAN]
        /\ audit \in [Client -> SUBSET Event]
    BY <1>2 DEF TypeOK, Call
  <2> USE <1>2, <2>0 DEF gatewayVars, flowVars, rowVars
  <2>1. ASSUME NEW w \in Client, Start(w) PROVE AuditInv'
    BY <2>1 DEF Start, Goto
  <2>2. ASSUME NEW w \in Client, CreateSubmissionRecord(w) PROVE AuditInv'
    BY <2>2 DEF CreateSubmissionRecord, CreateRow, Goto
  <2>3. ASSUME NEW w \in Client, AuditStarted(w) PROVE AuditInv'
    BY <2>3 DEF AuditStarted, AppendEvent, Goto
  <2>4. ASSUME NEW w \in Client, LocalActivity(w) PROVE AuditInv'
    BY <2>4, LocalSteps DEF LocalActivity, AfterLocal, Goto
  <2>5. ASSUME NEW w \in Client, OpenForWorkflow(w) PROVE AuditInv'
    BY <2>5 DEF OpenForWorkflow, OpenOnlineSession, Goto
  <2>6. ASSUME NEW w \in Client, MarkSubmissionStarted(w) PROVE AuditInv'
    BY <2>6 DEF MarkSubmissionStarted, MarkStarted, Goto
  <2>7. ASSUME NEW w \in Client, SendInvoice(w) PROVE AuditInv'
    BY <2>7 DEF SendInvoice, SendOnlineInvoice, Goto
  <2>8. ASSUME NEW w \in Client, AttachInvoiceReference(w) PROVE AuditInv'
    BY <2>8 DEF AttachInvoiceReference, AttachReference, Goto
  <2>9. ASSUME NEW w \in Client, CloseForWorkflow(w) PROVE AuditInv'
    BY <2>9 DEF CloseForWorkflow, CloseOnlineSession, Goto
  <2>10. ASSUME NEW w \in Client, PollCheck(w) PROVE AuditInv'
    BY <2>10 DEF PollCheck, Goto
  <2>11. ASSUME NEW w \in Client, PollInvoiceStatus(w) PROVE AuditInv'
    BY <2>11 DEF PollInvoiceStatus, Goto
  <2>12. ASSUME NEW w \in Client, MarkSubmissionTerminal(w) PROVE AuditInv'
    BY <2>12 DEF MarkSubmissionTerminal, MarkTerminal, Goto
  <2>13. ASSUME NEW w \in Client, AuditCompleted(w) PROVE AuditInv'
    BY <2>13 DEF AuditCompleted, AppendEvent, Goto
  <2>14. ASSUME NEW w \in Client, MarkSubmissionFailed(w) PROVE AuditInv'
    BY <2>14 DEF MarkSubmissionFailed, MarkTerminal, Goto
  <2>15. ASSUME NEW w \in Client, AuditFailed(w) PROVE AuditInv'
    BY <2>15 DEF AuditFailed, AppendEvent, Goto
  <2>16. ASSUME NEW w \in Client, AttemptFails(w) PROVE AuditInv'
    <3>1. pc[w] \notin Ended
      BY <2>16, LocalSteps DEF AttemptFails, ActivityStep, WriteStep, Ended
    <3> QED BY <2>16, <3>1 DEF AttemptFails, CountFailure, AfterError, Ended
  <2>17. ASSUME NEW w \in Client, AttemptRefused(w) PROVE AuditInv'
    BY <2>17 DEF AttemptRefused, Goto, AfterError, NonRetryableStep
  <2>18. ASSUME NEW w \in Client, AttemptTimesOut(w) PROVE AuditInv'
    BY <2>18 DEF AttemptTimesOut, CountFailure, AfterError, WriteStep
  <2>19. ASSUME NEW w \in Client, CancelSubmission(w) PROVE AuditInv'
    BY <2>19 DEF CancelSubmission
  <2>20. ASSUME NEW c \in late, LateCall(c) PROVE AuditInv'
    <3>1. CASE c.step = "audit_started" /\ AppendEvent(c.wf, "workflow_started")
      BY <2>20, <3>1 DEF LateCall, AppendEvent
    <3>2. CASE c.step = "audit_completed" /\ AppendEvent(c.wf, "workflow_completed")
      BY <2>20, <3>2 DEF LateCall, AppendEvent
    <3>3. CASE c.step = "audit_failed" /\ AppendEvent(c.wf, "workflow_failed")
      BY <2>20, <3>3 DEF LateCall, AppendEvent
    <3>4. CASE UNCHANGED audit
      BY <2>20, <3>4 DEF LateCall
    <3> QED
      BY <2>20, <3>1, <3>2, <3>3, <3>4
         DEF LateCall, LateEffect, LateRefused, CreateRow, MarkStarted, MarkTerminal,
             OpenOnlineSession, SendOnlineInvoice, AttachReference, CloseOnlineSession
  <2>21. CASE Environment BY <2>21 DEF Environment
  <2>22. CASE UNCHANGED vars BY <2>22 DEF vars
  <2>23. ASSUME NEW w \in Client, AnswerWithoutReference(w) PROVE AuditInv'
    BY <2>23 DEF AnswerWithoutReference, OpenOnlineSession, SendOnlineInvoice, Goto
  <2> QED
    BY <2>1, <2>2, <2>3, <2>4, <2>5, <2>6, <2>7, <2>8, <2>9, <2>10, <2>11, <2>12,
       <2>13, <2>14, <2>15, <2>16, <2>17, <2>18, <2>19, <2>20, <2>21, <2>22, <2>23
       DEF Next, Run
<1> QED BY <1>1, <1>2

LEMMA AuditInvImplies == TypeOK /\ AuditInv => AuditTrail
BY DEF TypeOK, AuditInv, AuditEventInv, AuditTrail, NotStarted, HandlerStep,
       FailureKnown, Event

(* A completed run left its start, its completion and no failure in the    *)
(* audit log, and a run that failed with a known row left the failure:     *)
(* no retried or late write of an event changes this.                      *)
THEOREM AuditTrailCorrect == Spec => []AuditTrail
BY AuditInvImplies, TypeCorrect, AuditInvInductive, PTL DEF Spec

(***************************************************************************)
(* AtMostMaxAttempts.  What an execution has opened (sent) and the         *)
(* given-up calls that may still open (send) are together no more than the *)
(* attempts it has used up, whichever of them took effect.                 *)
(***************************************************************************)
OpenedBy(w) == {s \in SessionRef : opener[s] = w}
SentBy(w)   == {d \in DocRef : docSender[d] = w}
LateOpen(w) == {c \in late : c.wf = w /\ c.step = "open_online_session"}
LateSend(w) == {c \in late : c.wf = w /\ c.step = "send_invoice_online"}

BeforeOpen == NotOpened \ {"open_online_session"}
BeforeSend == NotSent \ {"send_invoice_online"}

(* The attempts used up so far, all of them once the step is left.         *)
OpenAttempts(w) ==
    IF pc[w] \in BeforeOpen THEN 0
    ELSE IF pc[w] = "open_online_session" THEN tries[w] ELSE MaxAttempts
SendAttempts(w) ==
    IF pc[w] \in BeforeSend THEN 0
    ELSE IF pc[w] = "send_invoice_online" THEN tries[w] ELSE MaxAttempts

Within(done, pending, attempts) ==
    /\ IsFiniteSet(done) /\ IsFiniteSet(pending)
    /\ Cardinality(done) + Cardinality(pending) <= attempts

(* The ways a step may change what is done and pending, from done to done2 *)
(* and from pending to pending2: nothing new; one attempt more, done or    *)
(* given up; a given-up call that is now done.                             *)
Accounted(done, pending, used, done2, pending2, used2) ==
    \/ done2 \subseteq done /\ pending2 \subseteq pending /\ used2 >= used
    \/ \E x : done2 \subseteq done \cup {x} /\ pending2 \subseteq pending /\ used2 >= used + 1
    \/ \E x : done2 \subseteq done /\ pending2 \subseteq pending \cup {x} /\ used2 >= used + 1
    \/ \E x : \E c \in pending :
         done2 \subseteq done \cup {x} /\ pending2 \subseteq pending \ {c} /\ used2 >= used

LEMMA OneMore ==
    ASSUME NEW S, IsFiniteSet(S), NEW x, NEW T, T \subseteq S \cup {x}
    PROVE  IsFiniteSet(T) /\ Cardinality(T) <= Cardinality(S) + 1
<1>1. /\ IsFiniteSet(S \cup {x})
      /\ Cardinality(S \cup {x}) \in Nat /\ Cardinality(S) \in Nat
      /\ Cardinality(S \cup {x}) <= Cardinality(S) + 1
  BY FS_AddElement, FS_CardinalityType
<1>2. IsFiniteSet(T) /\ Cardinality(T) <= Cardinality(S \cup {x})
  BY <1>1, FS_Subset
<1> QED BY <1>1, <1>2, FS_CardinalityType

LEMMA OneLess ==
    ASSUME NEW S, IsFiniteSet(S), NEW c \in S, NEW T, T \subseteq S \ {c}
    PROVE  IsFiniteSet(T) /\ Cardinality(T) + 1 <= Cardinality(S)
<1>1. /\ IsFiniteSet(S \ {c})
      /\ Cardinality(S \ {c}) = Cardinality(S) - 1
  BY FS_RemoveElement
<1>2. IsFiniteSet(T) /\ Cardinality(T) <= Cardinality(S \ {c})
  BY <1>1, FS_Subset
<1>3. Cardinality(S) \in Nat /\ Cardinality(T) \in Nat
  BY <1>2, FS_CardinalityType
<1> QED BY <1>1, <1>2, <1>3

LEMMA AccountedStaysWithin ==
    ASSUME NEW done, NEW pending, NEW used \in Nat, Within(done, pending, used),
           NEW done2, NEW pending2, NEW used2 \in Nat,
           Accounted(done, pending, used, done2, pending2, used2)
    PROVE  Within(done2, pending2, used2)
<1> DEFINE Card(S) == Cardinality(S)
<1>0. /\ IsFiniteSet(done) /\ IsFiniteSet(pending)
      /\ Card(done) \in Nat /\ Card(pending) \in Nat /\ Card(done) + Card(pending) <= used
  BY FS_CardinalityType DEF Within
<1>1. SUFFICES /\ IsFiniteSet(done2) /\ IsFiniteSet(pending2)
               /\ Card(done2) + Card(pending2) <= used2
  BY DEF Within
<1>2. ASSUME done2 \subseteq done PROVE IsFiniteSet(done2) /\ Card(done2) <= Card(done)
  BY <1>0, <1>2, FS_Subset
<1>3. ASSUME pending2 \subseteq pending
      PROVE  IsFiniteSet(pending2) /\ Card(pending2) <= Card(pending)
  BY <1>0, <1>3, FS_Subset
<1>4. ASSUME NEW x, done2 \subseteq done \cup {x}
      PROVE  IsFiniteSet(done2) /\ Card(done2) <= Card(done) + 1
  BY <1>0, <1>4, OneMore
<1>5. ASSUME NEW x, pending2 \subseteq pending \cup {x}
      PROVE  IsFiniteSet(pending2) /\ Card(pending2) <= Card(pending) + 1
  BY <1>0, <1>5, OneMore
<1>6. ASSUME NEW c \in pending, pending2 \subseteq pending \ {c}
      PROVE  IsFiniteSet(pending2) /\ Card(pending2) + 1 <= Card(pending)
  BY <1>0, <1>6, OneLess
<1>7. ASSUME IsFiniteSet(done2), IsFiniteSet(pending2)
      PROVE  Card(done2) \in Nat /\ Card(pending2) \in Nat
  BY <1>7, FS_CardinalityType
<1> HIDE DEF Card
<1>8. CASE done2 \subseteq done /\ pending2 \subseteq pending /\ used2 >= used
  BY <1>0, <1>2, <1>3, <1>7, <1>8
<1>9. ASSUME NEW x, done2 \subseteq done \cup {x}, pending2 \subseteq pending, used2 >= used + 1
      PROVE  IsFiniteSet(done2) /\ IsFiniteSet(pending2) /\ Card(done2) + Card(pending2) <= used2
  BY <1>0, <1>3, <1>4, <1>7, <1>9
<1>10. ASSUME NEW x, done2 \subseteq done, pending2 \subseteq pending \cup {x}, used2 >= used + 1
       PROVE  IsFiniteSet(done2) /\ IsFiniteSet(pending2) /\ Card(done2) + Card(pending2) <= used2
  BY <1>0, <1>2, <1>5, <1>7, <1>10
<1>11. ASSUME NEW x, NEW c \in pending, done2 \subseteq done \cup {x},
              pending2 \subseteq pending \ {c}, used2 >= used
       PROVE  IsFiniteSet(done2) /\ IsFiniteSet(pending2) /\ Card(done2) + Card(pending2) <= used2
  BY <1>0, <1>4, <1>6, <1>7, <1>11
<1> QED BY <1>8, <1>9, <1>10, <1>11 DEF Accounted

LEMMA AttemptsBounded ==
    ASSUME TypeOK, NEW w \in Client
    PROVE  OpenAttempts(w) \in 0 .. MaxAttempts /\ SendAttempts(w) \in 0 .. MaxAttempts
BY WorkflowAssumption DEF TypeOK, OpenAttempts, SendAttempts

(* A failed attempt is counted, or was the last one.                       *)
LEMMA FailureCounts ==
    ASSUME TypeOK, NEW v \in Client, CountFailure(v), pc[v] \in ActivityStep, NEW w \in Client
    PROVE  /\ OpenAttempts(w)' >= OpenAttempts(w)
           /\ SendAttempts(w)' >= SendAttempts(w)
           /\ w = v /\ pc[v] = "open_online_session" =>
                OpenAttempts(w)' >= OpenAttempts(w) + 1
           /\ w = v /\ pc[v] = "send_invoice_online" =>
                SendAttempts(w)' >= SendAttempts(w) + 1
<1> USE WorkflowAssumption
    DEF OpenAttempts, SendAttempts, BeforeOpen, BeforeSend, NotOpened, NotSent
<1>0. /\ pc \in [Client -> Step] /\ tries \in [Client -> 0 .. MaxAttempts - 1]
      /\ MaxAttempts \in Nat /\ MaxAttempts >= 1
      /\ pc[v] # "idle"
  BY LocalSteps DEF TypeOK, ActivityStep, WriteStep
<1>1. CASE tries[v] + 1 < MaxAttempts
  <2>1. tries' = [tries EXCEPT ![v] = @ + 1] /\ pc' = pc
    BY <1>1 DEF CountFailure
  <2> QED BY <1>0, <2>1
<1>2. CASE ~(tries[v] + 1 < MaxAttempts)
  <2>1. /\ tries' = [tries EXCEPT ![v] = 0]
        /\ pc' = [pc EXCEPT ![v] = AfterError(v)]
        /\ AfterError(v) \in {"aborted", "mark_failed", "failed"}
    BY <1>2 DEF CountFailure, AfterError
  <2> HIDE DEF AfterError
  <2>2. tries[v] + 1 <= MaxAttempts BY <1>0
  <2> QED BY <1>0, <2>1, <2>2
<1> QED BY <1>1, <1>2

(* The run never comes back to a step.                                     *)
LEMMA AttemptsGrow ==
    ASSUME TypeOK, [Next]_vars, NEW w \in Client
    PROVE  /\ OpenAttempts(w)' >= OpenAttempts(w)
           /\ SendAttempts(w)' >= SendAttempts(w)
<1> DEFINE Grow == /\ OpenAttempts(w)' >= OpenAttempts(w)
                   /\ SendAttempts(w)' >= SendAttempts(w)
<1> SUFFICES Grow OBVIOUS
<1>0. /\ pc \in [Client -> Step] /\ tries \in [Client -> 0 .. MaxAttempts - 1]
      /\ MaxAttempts \in Nat /\ MaxAttempts >= 1
  BY WorkflowAssumption DEF TypeOK
<1> USE <1>0 DEF OpenAttempts, SendAttempts
<1>1. CASE UNCHANGED <<pc, tries>>
  BY <1>1
<1>2. ASSUME NEW v \in Client, NEW step, Goto(v, step),
             step \notin BeforeSend \cup {"send_invoice_online"}
      PROVE  Grow
  BY <1>2 DEF Goto, BeforeSend, BeforeOpen, NotSent, NotOpened
<1>3. ASSUME NEW v \in Client, NEW step, Goto(v, step),
             step = "open_online_session" => pc[v] \in BeforeOpen,
             step \in BeforeOpen => pc[v] \in BeforeOpen,
             step \in BeforeSend \cup {"send_invoice_online"} => pc[v] \in BeforeSend
      PROVE  Grow
  BY <1>3 DEF Goto
<1> USE DEF BeforeOpen, BeforeSend, NotOpened, NotSent
<1> HIDE DEF Grow, OpenAttempts, SendAttempts
<1>4. ASSUME NEW v \in Client, Start(v) PROVE Grow
  BY <1>3, <1>4 DEF Start
<1>5. ASSUME NEW v \in Client, CreateSubmissionRecord(v) PROVE Grow
  BY <1>3, <1>5 DEF CreateSubmissionRecord
<1>6. ASSUME NEW v \in Client, AuditStarted(v) PROVE Grow
  BY <1>3, <1>6 DEF AuditStarted
<1>7. ASSUME NEW v \in Client, LocalActivity(v) PROVE Grow
  BY <1>3, <1>7, LocalSteps DEF LocalActivity, AfterLocal
<1>8. ASSUME NEW v \in Client, OpenForWorkflow(v) PROVE Grow
  BY <1>3, <1>8 DEF OpenForWorkflow
<1>9. ASSUME NEW v \in Client, MarkSubmissionStarted(v) PROVE Grow
  BY <1>3, <1>9 DEF MarkSubmissionStarted
<1>10. ASSUME NEW v \in Client, SendInvoice(v) PROVE Grow
  BY <1>2, <1>10 DEF SendInvoice
<1>11. ASSUME NEW v \in Client, AttachInvoiceReference(v) PROVE Grow
  BY <1>2, <1>11 DEF AttachInvoiceReference
<1>12. ASSUME NEW v \in Client, CloseForWorkflow(v) PROVE Grow
  BY <1>2, <1>12 DEF CloseForWorkflow
<1>13. ASSUME NEW v \in Client, PollCheck(v) PROVE Grow
  BY <1>2, <1>13 DEF PollCheck
<1>14. ASSUME NEW v \in Client, PollInvoiceStatus(v) PROVE Grow
  BY <1>2, <1>14 DEF PollInvoiceStatus
<1>15. ASSUME NEW v \in Client, MarkSubmissionTerminal(v) PROVE Grow
  BY <1>2, <1>15 DEF MarkSubmissionTerminal
<1>16. ASSUME NEW v \in Client, AuditCompleted(v) PROVE Grow
  BY <1>2, <1>16 DEF AuditCompleted
<1>17. ASSUME NEW v \in Client, MarkSubmissionFailed(v) PROVE Grow
  BY <1>2, <1>17 DEF MarkSubmissionFailed
<1>18. ASSUME NEW v \in Client, AuditFailed(v) PROVE Grow
  BY <1>2, <1>18 DEF AuditFailed
<1>19. ASSUME NEW v \in Client, AttemptFails(v) \/ AttemptTimesOut(v) PROVE Grow
  BY <1>19, FailureCounts DEF AttemptFails, AttemptTimesOut, ActivityStep, Grow
<1>20. ASSUME NEW v \in Client, AttemptRefused(v) PROVE Grow
  BY <1>2, <1>20 DEF AttemptRefused, AfterError
<1>21. ASSUME NEW v \in Client, CancelSubmission(v) PROVE Grow
  BY <1>1, <1>21 DEF CancelSubmission
<1>22. ASSUME NEW c \in late, LateCall(c) PROVE Grow
  BY <1>1, <1>22 DEF LateCall, flowVars
<1>23. CASE Environment BY <1>1, <1>23 DEF Environment, flowVars
<1>24. CASE UNCHANGED vars BY <1>1, <1>24 DEF vars, flowVars
<1>25. ASSUME NEW v \in Client, AnswerWithoutReference(v) PROVE Grow
  BY <1>2, <1>25 DEF AnswerWithoutReference
<1> QED
  BY <1>4, <1>5, <1>6, <1>7, <1>8, <1>9, <1>10, <1>11, <1>12, <1>13, <1>14, <1>15, <1>16,
     <1>17, <1>18, <1>19, <1>20, <1>21, <1>22, <1>23, <1>24, <1>25 DEF Next, Run

(* Every step accounts for the sessions an execution opens.                *)
LEMMA OpensAccounted ==
    ASSUME TypeOK, [Next]_vars, NEW w \in Client
    PROVE  Accounted(OpenedBy(w), LateOpen(w), OpenAttempts(w),
                     OpenedBy(w)', LateOpen(w)', OpenAttempts(w)')
<1> DEFINE OK == Accounted(OpenedBy(w), LateOpen(w), OpenAttempts(w),
                           OpenedBy(w)', LateOpen(w)', OpenAttempts(w)')
<1> SUFFICES OK OBVIOUS
<1>0. /\ opener \in [SessionRef -> Client \cup {None}]
      /\ pc \in [Client -> Step] /\ tries \in [Client -> 0 .. MaxAttempts - 1]
      /\ MaxAttempts \in Nat /\ MaxAttempts >= 1
      /\ OpenAttempts(w)' >= OpenAttempts(w)
  BY WorkflowAssumption, AttemptsGrow DEF TypeOK, GatewayTypeOK
<1>1. CASE OpenedBy(w)' \subseteq OpenedBy(w) /\ LateOpen(w)' \subseteq LateOpen(w)
  BY <1>0, <1>1 DEF Accounted
<1>2. CASE UNCHANGED <<opener, late>>
  BY <1>1, <1>2 DEF OpenedBy, LateOpen
<1>3. ASSUME NEW v \in Client, OpenForWorkflow(v) \/ AnswerWithoutReference(v),
             pc[v] = "open_online_session"
      PROVE  OK
  <2>0. PICK step \in {"mark_submission_started", "stuck"} : Goto(v, step)
    BY <1>3 DEF OpenForWorkflow, AnswerWithoutReference
  <2>1. PICK s \in SessionRef : opener' = [opener EXCEPT ![s] = v]
    BY <1>3 DEF OpenForWorkflow, AnswerWithoutReference, OpenOnlineSession, OpenSession
  <2>2. LateOpen(w)' = LateOpen(w)
    BY <2>0 DEF Goto, LateOpen
  <2>3. CASE v # w
    BY <1>0, <1>1, <2>1, <2>2, <2>3 DEF OpenedBy
  <2>4. CASE v = w
    <3>1. OpenedBy(w)' \subseteq OpenedBy(w) \cup {s}
      BY <1>0, <2>1 DEF OpenedBy
    <3>2. OpenAttempts(w) = tries[w] /\ OpenAttempts(w)' = MaxAttempts
      BY <1>0, <1>3, <2>0, <2>4 DEF Goto, OpenAttempts, BeforeOpen, NotOpened
    <3>3. OpenAttempts(w)' >= OpenAttempts(w) + 1
      BY <1>0, <3>2
    <3> QED BY <2>2, <3>1, <3>3 DEF Accounted
  <2> QED BY <2>3, <2>4
<1>4. ASSUME NEW v \in Client, AttemptTimesOut(v) PROVE OK
  <2> DEFINE c == [wf |-> v, step |-> pc[v], try |-> tries[v], arg |-> CallArgument(v)]
  <2>1. late' = late \cup {c} /\ c.wf = v /\ c.step = pc[v]
    BY <1>4 DEF AttemptTimesOut
  <2> HIDE DEF c
  <2>2. OpenedBy(w)' = OpenedBy(w)
    BY <1>4 DEF AttemptTimesOut, gatewayVars, OpenedBy
  <2>3. CASE v # w \/ pc[v] # "open_online_session"
    BY <1>1, <2>1, <2>2, <2>3 DEF LateOpen
  <2>4. CASE v = w /\ pc[v] = "open_online_session"
    <3>1. LateOpen(w)' \subseteq LateOpen(w) \cup {c}
      BY <2>1 DEF LateOpen
    <3>2. OpenAttempts(w)' >= OpenAttempts(w) + 1
      BY <1>4, <2>4, FailureCounts DEF AttemptTimesOut, ActivityStep
    <3> QED BY <2>2, <3>1, <3>2 DEF Accounted
  <2> QED BY <2>3, <2>4
<1>5. ASSUME NEW c \in late, LateCall(c) PROVE OK
  <2>1. late' = late \ {c} BY <1>5 DEF LateCall
  <2>2. CASE UNCHANGED opener
    BY <1>1, <2>1, <2>2 DEF OpenedBy, LateOpen
  <2>3. ASSUME c.step = "open_online_session", NEW s \in SessionRef,
               OpenOnlineSession(c.wf, s)
        PROVE  OK
    <3>1. opener' = [opener EXCEPT ![s] = c.wf]
      BY <2>3 DEF OpenOnlineSession, OpenSession
    <3>2. CASE c.wf # w
      BY <1>0, <1>1, <2>1, <3>1, <3>2 DEF OpenedBy, LateOpen
    <3>3. CASE c.wf = w
      <4>1. /\ OpenedBy(w)' \subseteq OpenedBy(w) \cup {s}
            /\ LateOpen(w)' \subseteq LateOpen(w) \ {c}
            /\ c \in LateOpen(w)
        BY <1>0, <2>1, <2>3, <3>1, <3>3 DEF OpenedBy, LateOpen
      <4> QED BY <1>0, <4>1 DEF Accounted
    <3> QED BY <3>2, <3>3
  <2> QED
    BY <1>5, <2>2, <2>3
       DEF LateCall, LateEffect, LateRefused, CreateRow, AppendEvent, MarkStarted,
           MarkTerminal, AttachReference, SendOnlineInvoice, CloseOnlineSession,
           CloseSession, gatewayVars, sessionVars
<1> QED
  <2> USE DEF gatewayVars, sessionVars, rowVars
  <2>1. ASSUME NEW v \in Client, Start(v) \/ CancelSubmission(v) PROVE OK
    BY <1>2, <2>1 DEF Start, Goto, CancelSubmission
  <2>2. ASSUME NEW v \in Client, Run(v) PROVE OK
    <3>1. CASE AnswerWithoutReference(v)
      BY <1>2, <1>3, <3>1 DEF AnswerWithoutReference, SendOnlineInvoice, Goto
    <3>2. CASE OpenForWorkflow(v)
      BY <1>3, <3>2 DEF OpenForWorkflow
    <3> QED
      BY <1>2, <1>4, <2>2, <3>1, <3>2
         DEF Run, CreateSubmissionRecord, AuditStarted, LocalActivity,
             MarkSubmissionStarted, SendInvoice, AttachInvoiceReference, CloseForWorkflow,
             PollCheck, PollInvoiceStatus, MarkSubmissionTerminal, AuditCompleted,
             AuditFailed, MarkSubmissionFailed, AttemptFails, AttemptRefused, Goto,
             CreateRow, AppendEvent, MarkStarted, MarkTerminal, AttachReference,
             SendOnlineInvoice, CloseOnlineSession, CloseSession
  <2>3. CASE Environment
    BY <1>2, <2>3 DEF Environment, GatewayStep, JudgeDoc, ExpireSession, CloseSession
  <2>4. CASE UNCHANGED vars BY <1>2, <2>4 DEF vars
  <2> QED BY <1>5, <2>1, <2>2, <2>3, <2>4 DEF Next

(* Every step accounts for the copies of its invoice an execution sends.   *)
LEMMA SendsAccounted ==
    ASSUME TypeOK, [Next]_vars, NEW w \in Client
    PROVE  Accounted(SentBy(w), LateSend(w), SendAttempts(w),
                     SentBy(w)', LateSend(w)', SendAttempts(w)')
<1> DEFINE OK == Accounted(SentBy(w), LateSend(w), SendAttempts(w),
                           SentBy(w)', LateSend(w)', SendAttempts(w)')
<1> SUFFICES OK OBVIOUS
<1>0. /\ docSender \in [DocRef -> Client \cup {None}]
      /\ pc \in [Client -> Step] /\ tries \in [Client -> 0 .. MaxAttempts - 1]
      /\ MaxAttempts \in Nat /\ MaxAttempts >= 1
      /\ SendAttempts(w)' >= SendAttempts(w)
  BY WorkflowAssumption, AttemptsGrow DEF TypeOK, GatewayTypeOK
<1>1. CASE SentBy(w)' \subseteq SentBy(w) /\ LateSend(w)' \subseteq LateSend(w)
  BY <1>0, <1>1 DEF Accounted
<1>2. CASE UNCHANGED <<docSender, late>>
  BY <1>1, <1>2 DEF SentBy, LateSend
<1>3. ASSUME NEW v \in Client, SendInvoice(v) \/ AnswerWithoutReference(v),
             pc[v] = "send_invoice_online"
      PROVE  OK
  <2>0. PICK step \in {"attach_invoice_reference_number", "stuck"} : Goto(v, step)
    BY <1>3 DEF SendInvoice, AnswerWithoutReference
  <2>1. PICK d \in DocRef : docSender' = [docSender EXCEPT ![d] = v]
    BY <1>3 DEF SendInvoice, AnswerWithoutReference, SendOnlineInvoice, ReceiveDoc
  <2>2. LateSend(w)' = LateSend(w)
    BY <2>0 DEF Goto, LateSend
  <2>3. CASE v # w
    BY <1>0, <1>1, <2>1, <2>2, <2>3 DEF SentBy
  <2>4. CASE v = w
    <3>1. SentBy(w)' \subseteq SentBy(w) \cup {d}
      BY <1>0, <2>1 DEF SentBy
    <3>2. SendAttempts(w) = tries[w] /\ SendAttempts(w)' = MaxAttempts
      BY <1>0, <1>3, <2>0, <2>4 DEF Goto, SendAttempts, BeforeSend, NotSent, NotOpened
    <3>3. SendAttempts(w)' >= SendAttempts(w) + 1
      BY <1>0, <3>2
    <3> QED BY <2>2, <3>1, <3>3 DEF Accounted
  <2> QED BY <2>3, <2>4
<1>4. ASSUME NEW v \in Client, AttemptTimesOut(v) PROVE OK
  <2> DEFINE c == [wf |-> v, step |-> pc[v], try |-> tries[v], arg |-> CallArgument(v)]
  <2>1. late' = late \cup {c} /\ c.wf = v /\ c.step = pc[v]
    BY <1>4 DEF AttemptTimesOut
  <2> HIDE DEF c
  <2>2. SentBy(w)' = SentBy(w)
    BY <1>4 DEF AttemptTimesOut, gatewayVars, SentBy
  <2>3. CASE v # w \/ pc[v] # "send_invoice_online"
    BY <1>1, <2>1, <2>2, <2>3 DEF LateSend
  <2>4. CASE v = w /\ pc[v] = "send_invoice_online"
    <3>1. LateSend(w)' \subseteq LateSend(w) \cup {c}
      BY <2>1 DEF LateSend
    <3>2. SendAttempts(w)' >= SendAttempts(w) + 1
      BY <1>4, <2>4, FailureCounts DEF AttemptTimesOut, ActivityStep
    <3> QED BY <2>2, <3>1, <3>2 DEF Accounted
  <2> QED BY <2>3, <2>4
<1>5. ASSUME NEW c \in late, LateCall(c) PROVE OK
  <2>1. late' = late \ {c} BY <1>5 DEF LateCall
  <2>2. CASE UNCHANGED docSender
    BY <1>1, <2>1, <2>2 DEF SentBy, LateSend
  <2>3. ASSUME c.step = "send_invoice_online", NEW d \in DocRef,
               SendOnlineInvoice(c.wf, c.arg, d)
        PROVE  OK
    <3>1. docSender' = [docSender EXCEPT ![d] = c.wf]
      BY <2>3 DEF SendOnlineInvoice, ReceiveDoc
    <3>2. CASE c.wf # w
      BY <1>0, <1>1, <2>1, <3>1, <3>2 DEF SentBy, LateSend
    <3>3. CASE c.wf = w
      <4>1. /\ SentBy(w)' \subseteq SentBy(w) \cup {d}
            /\ LateSend(w)' \subseteq LateSend(w) \ {c}
            /\ c \in LateSend(w)
        BY <1>0, <2>1, <2>3, <3>1, <3>3 DEF SentBy, LateSend
      <4> QED BY <1>0, <4>1 DEF Accounted
    <3> QED BY <3>2, <3>3
  <2> QED
    BY <1>5, <2>2, <2>3
       DEF LateCall, LateEffect, LateRefused, CreateRow, AppendEvent, MarkStarted,
           MarkTerminal, AttachReference, OpenOnlineSession, CloseOnlineSession,
           gatewayVars, docVars
<1> QED
  <2> USE DEF gatewayVars, docVars, rowVars
  <2>1. ASSUME NEW v \in Client, Start(v) \/ CancelSubmission(v) PROVE OK
    BY <1>2, <2>1 DEF Start, Goto, CancelSubmission
  <2>2. ASSUME NEW v \in Client, Run(v) PROVE OK
    <3>1. CASE AnswerWithoutReference(v)
      BY <1>2, <1>3, <3>1 DEF AnswerWithoutReference, OpenOnlineSession, Goto
    <3>2. CASE SendInvoice(v)
      BY <1>3, <3>2 DEF SendInvoice
    <3> QED
      BY <1>2, <1>4, <2>2, <3>1, <3>2
         DEF Run, CreateSubmissionRecord, AuditStarted, LocalActivity,
             MarkSubmissionStarted, OpenForWorkflow, AttachInvoiceReference,
             CloseForWorkflow, PollCheck, PollInvoiceStatus, MarkSubmissionTerminal,
             AuditCompleted, AuditFailed, MarkSubmissionFailed, AttemptFails,
             AttemptRefused, Goto, CreateRow, AppendEvent, MarkStarted, MarkTerminal,
             AttachReference, OpenOnlineSession, CloseOnlineSession
  <2>3. CASE Environment
    BY <1>2, <2>3 DEF Environment, GatewayStep, JudgeDoc, ExpireSession
  <2>4. CASE UNCHANGED vars BY <1>2, <2>4 DEF vars
  <2> QED BY <1>5, <2>1, <2>2, <2>3, <2>4 DEF Next

AttemptInv ==
    \A w \in Client :
        /\ Within(OpenedBy(w), LateOpen(w), OpenAttempts(w))
        /\ Within(SentBy(w), LateSend(w), SendAttempts(w))

LEMMA AttemptInvInductive ==
    /\ Init => AttemptInv
    /\ TypeOK /\ TypeOK' /\ AttemptInv /\ [Next]_vars => AttemptInv'
<1>1. ASSUME Init PROVE AttemptInv
  <2>1. ASSUME NEW w \in Client
        PROVE  /\ OpenedBy(w) = {} /\ LateOpen(w) = {} /\ OpenAttempts(w) = 0
               /\ SentBy(w) = {} /\ LateSend(w) = {} /\ SendAttempts(w) = 0
    BY <1>1, NoneAssumption
       DEF Init, GatewayInit, OpenedBy, LateOpen, OpenAttempts, SentBy, LateSend, SendAttempts,
           BeforeOpen, BeforeSend, NotSent, NotOpened
  <2> QED BY <2>1, FS_EmptySet DEF AttemptInv, Within
<1>2. ASSUME TypeOK, TypeOK', AttemptInv, [Next]_vars, NEW w \in Client
      PROVE  /\ Within(OpenedBy(w)', LateOpen(w)', OpenAttempts(w)')
             /\ Within(SentBy(w)', LateSend(w)', SendAttempts(w)')
  <2>1. /\ OpenAttempts(w) \in Nat /\ SendAttempts(w) \in Nat
        /\ OpenAttempts(w)' \in Nat /\ SendAttempts(w)' \in Nat
    BY <1>2, WorkflowAssumption DEF TypeOK, OpenAttempts, SendAttempts
  <2>2. /\ Within(OpenedBy(w), LateOpen(w), OpenAttempts(w))
        /\ Within(SentBy(w), LateSend(w), SendAttempts(w))
    BY <1>2 DEF AttemptInv
  <2>3. /\ Accounted(OpenedBy(w), LateOpen(w), OpenAttempts(w),
                     OpenedBy(w)', LateOpen(w)', OpenAttempts(w)')
        /\ Accounted(SentBy(w), LateSend(w), SendAttempts(w),
                     SentBy(w)', LateSend(w)', SendAttempts(w)')
    BY <1>2, OpensAccounted, SendsAccounted
  <2> QED BY <2>1, <2>2, <2>3, AccountedStaysWithin
<1> QED BY <1>1, <1>2 DEF AttemptInv, Within

LEMMA AttemptInvImplies == TypeOK /\ AttemptInv => AtMostMaxAttempts
<1>1. ASSUME TypeOK, AttemptInv, NEW w \in Client
      PROVE  /\ Cardinality(OpenedBy(w)) <= MaxAttempts
             /\ Cardinality(SentBy(w)) <= MaxAttempts
  <2>1. OpenAttempts(w) \in 0 .. MaxAttempts /\ SendAttempts(w) \in 0 .. MaxAttempts
    BY <1>1, AttemptsBounded
  <2>2. /\ Within(OpenedBy(w), LateOpen(w), OpenAttempts(w))
        /\ Within(SentBy(w), LateSend(w), SendAttempts(w))
    BY <1>1 DEF AttemptInv
  <2>3. /\ Cardinality(OpenedBy(w)) \in Nat /\ Cardinality(LateOpen(w)) \in Nat
        /\ Cardinality(SentBy(w)) \in Nat /\ Cardinality(LateSend(w)) \in Nat
    BY <2>2, FS_CardinalityType DEF Within
  <2> QED BY <2>1, <2>2, <2>3, WorkflowAssumption DEF Within
<1>2. TypeOK /\ AttemptInv => AtMostMaxAttempts
  BY <1>1 DEF AtMostMaxAttempts, OpenedBy, SentBy
<1> QED BY <1>2

(* No execution opens more sessions, or sends more copies of its invoice,  *)
(* than the retry policy has attempts, whichever of the calls it gave up   *)
(* take effect after all.                                                  *)
THEOREM AttemptsCorrect == Spec => []AtMostMaxAttempts
BY AttemptInvImplies, TypeCorrect, AttemptInvInductive, PTL DEF Spec

-----------------------------------------------------------------------------
(***************************************************************************)
(* SendInvoiceOnline implements InvoiceDelivery: every step of the         *)
(* executions, of KSeF and of given-up calls is a step of the abstract     *)
(* specification or leaves its variables as they are.                      *)
(***************************************************************************)

(* The abstract variables of a state.                                      *)
AbsAccepted == InvoicesWith({"accepted"})
AbsRefused  == InvoicesWith({"rejected", "duplicate"})
AbsOutcome  == [w \in Client |-> OutcomeOf(w)]

LEMMA InitAbstract == Init => Delivery!Init
<1> SUFFICES ASSUME Init PROVE Delivery!Init
  OBVIOUS
<1>1. \A S \in SUBSET DocState : "unused" \notin S => InvoicesWith(S) = {}
  BY DEF Init, GatewayInit, InvoicesWith
<1>2. InvoicesWith({"accepted"}) = {} /\ InvoicesWith({"rejected", "duplicate"}) = {}
  BY <1>1 DEF DocState
<1>3. \A w \in Client : OutcomeOf(w) = "idle"
  BY DEF Init, OutcomeOf
<1> QED BY <1>2, <1>3, WorkflowAssumption DEF Delivery!Init

(* Between judgements the sets of judged invoices do not change.           *)
LEMMA InvoicesUnchanged ==
    ASSUME IInv,
           \/ UNCHANGED docVars
           \/ \E w \in Client, s \in SessionRef, i \in Invoice, d \in DocRef :
                ReceiveDoc(w, s, i, d)
    PROVE  AbsAccepted' = AbsAccepted /\ AbsRefused' = AbsRefused
<1>1. CASE UNCHANGED docVars
  BY <1>1 DEF docVars, AbsAccepted, AbsRefused, InvoicesWith
<1>2. ASSUME NEW w \in Client, NEW s \in SessionRef, NEW i \in Invoice, NEW d \in DocRef,
             ReceiveDoc(w, s, i, d)
      PROVE  AbsAccepted' = AbsAccepted /\ AbsRefused' = AbsRefused
  <2>1. \A e \in DocRef : e # d => doc'[e] = doc[e] /\ docInvoice'[e] = docInvoice[e]
    BY <1>2 DEF ReceiveDoc, IInv, TypeOK, GatewayTypeOK
  <2>2. doc[d] = "unused" /\ doc'[d] = "received"
    BY <1>2 DEF ReceiveDoc, IInv, TypeOK, GatewayTypeOK
  <2> QED BY <2>1, <2>2 DEF AbsAccepted, AbsRefused, InvoicesWith
<1> QED BY <1>1, <1>2

(* A judgement is a verdict on the document's invoice.                     *)
LEMMA JudgementIsVerdict ==
    ASSUME IInv, NEW d \in DocRef, JudgeDoc(d), UNCHANGED AbsOutcome
    PROVE  Delivery!Next
<1> DEFINE i == docInvoice[d]
<1>1. i \in Invoice
  BY DEF JudgeDoc, IInv, DocumentInv
<1>2. PICK verdict \in {"accepted", "rejected", "duplicate"} :
        /\ verdict = "accepted" => ~AcceptedCopy(d)
        /\ doc' = [doc EXCEPT ![d] = verdict]
  BY DEF JudgeDoc
<1>3. /\ doc[d] = "received" /\ doc'[d] = verdict /\ docInvoice' = docInvoice
      /\ \A e \in DocRef : e # d => doc'[e] = doc[e]
  BY <1>2 DEF JudgeDoc, IInv, TypeOK, GatewayTypeOK
<1>4. CASE verdict = "accepted"
  <2>1. AbsAccepted' = AbsAccepted \cup {i}
    BY <1>3, <1>4 DEF AbsAccepted, InvoicesWith
  <2>2. AbsRefused' = AbsRefused
    BY <1>3, <1>4 DEF AbsRefused, InvoicesWith
  <2>3. i \notin AbsAccepted
    BY <1>2, <1>4 DEF AbsAccepted, InvoicesWith, AcceptedCopy
  <2> QED
    BY <1>1, <2>1, <2>2, <2>3
       DEF Delivery!Next, Delivery!Verdict, AbsAccepted, AbsRefused, AbsOutcome
<1>5. CASE verdict # "accepted"
  <2>1. AbsAccepted' = AbsAccepted
    BY <1>3, <1>5 DEF AbsAccepted, InvoicesWith
  <2>2. AbsRefused' = AbsRefused \cup {i}
    BY <1>2, <1>3, <1>5 DEF AbsRefused, InvoicesWith
  <2> QED
    BY <1>1, <2>1, <2>2
       DEF Delivery!Next, Delivery!Verdict, AbsAccepted, AbsRefused, AbsOutcome
<1> QED BY <1>4, <1>5

(* A step of an execution gives it no outcome, starts it, or ends it with  *)
(* an answer that KSeF's verdicts support.                                 *)
LEMMA OutcomeStep ==
    ASSUME IInv, NEW w \in Client, Start(w) \/ Run(w)
    PROVE  /\ \A v \in Client \ {w} : OutcomeOf(v)' = OutcomeOf(v)
           /\ \/ OutcomeOf(w)' = OutcomeOf(w)
              \/ OutcomeOf(w) = "idle" /\ OutcomeOf(w)' = "running"
              \/ /\ OutcomeOf(w) = "running"
                 /\ OutcomeOf(w)' \in Delivery!Answer
                 /\ OutcomeOf(w)' = "delivered" => InvoiceOf[w] \in AbsAccepted
                 /\ OutcomeOf(w)' = "refused" => InvoiceOf[w] \in AbsRefused
<1> USE DEF OutcomeOf, Delivery!Answer
<1>0. pc \in [Client -> Step] /\ final \in [Client -> FinalStatus \cup {None}]
  BY DEF IInv, TypeOK
<1>1. CASE Start(w)
  BY <1>0, <1>1 DEF Start, Goto
<1>2. CASE AuditCompleted(w)
  <2>1. /\ iref[w] \in DocRef /\ docInvoice[iref[w]] = InvoiceOf[w]
        /\ final[w] = "accepted" => doc[iref[w]] = "accepted"
        /\ ListedCode(lastStatus[w]) /\ final[w] = "failed" =>
             doc[iref[w]] \in {"rejected", "duplicate"}
    BY <1>2 DEF AuditCompleted, IInv, TypeOK, StepInv, ReferenceInv, Judged
  <2>2. /\ final[w] = "accepted" => InvoiceOf[w] \in AbsAccepted
        /\ ListedCode(lastStatus[w]) /\ final[w] = "failed" => InvoiceOf[w] \in AbsRefused
    <3>1. doc[iref[w]] = "accepted" => InvoiceOf[w] \in AbsAccepted
      BY <2>1 DEF AbsAccepted, InvoicesWith
    <3>2. doc[iref[w]] \in {"rejected", "duplicate"} => InvoiceOf[w] \in AbsRefused
      BY <2>1 DEF AbsRefused, InvoicesWith
    <3> HIDE DEF ListedCode
    <3> QED BY <2>1, <3>1, <3>2
  <2>3. /\ OutcomeOf(w) = "running"
        /\ OutcomeOf(w)' = IF final[w] = "accepted" THEN "delivered"
                           ELSE IF ListedCode(lastStatus[w]) /\ final[w] = "failed"
                           THEN "refused" ELSE "unknown"
    BY <1>0, <1>2 DEF AuditCompleted, Goto
  <2>4. \A v \in Client \ {w} : OutcomeOf(v)' = OutcomeOf(v)
    BY <1>0, <1>2 DEF AuditCompleted, Goto
  <2> HIDE DEF OutcomeOf, ListedCode
  <2> QED BY <2>2, <2>3, <2>4
<1>3. CASE AttemptFails(w) \/ AttemptTimesOut(w)
  BY <1>0, <1>3 DEF AttemptFails, AttemptTimesOut, CountFailure, AfterError, ActivityStep,
     WriteStep, HandlerStep, LocalStep, AfterLocal
<1>4. CASE AttemptRefused(w)
  BY <1>0, <1>4 DEF AttemptRefused, AfterError, NonRetryableStep, HandlerStep, Goto
<1>5. CASE LocalActivity(w)
  BY <1>0, <1>5, LocalSteps DEF LocalActivity, AfterLocal, Goto
<1>6. CASE PollInvoiceStatus(w)
  <2>1. /\ pc[w] = "get_invoice_status"
        /\ \E step \in {"mark_submission_terminal", "poll_check"} :
             pc' = [pc EXCEPT ![w] = step]
        /\ \A v \in Client \ {w} : final'[v] = final[v] /\ lastStatus'[v] = lastStatus[v]
    BY <1>0, <1>6 DEF PollInvoiceStatus, Goto, IInv, TypeOK
  <2> QED BY <1>0, <2>1
<1>7. CASE PollCheck(w)
  BY <1>0, <1>7 DEF PollCheck, Goto
<1>8. CASE \/ CreateSubmissionRecord(w) \/ AuditStarted(w) \/ OpenForWorkflow(w)
           \/ MarkSubmissionStarted(w) \/ SendInvoice(w) \/ AttachInvoiceReference(w)
           \/ CloseForWorkflow(w) \/ MarkSubmissionTerminal(w)
           \/ MarkSubmissionFailed(w) \/ AuditFailed(w) \/ AnswerWithoutReference(w)
  BY <1>0, <1>8 DEF CreateSubmissionRecord, AuditStarted, OpenForWorkflow,
     MarkSubmissionStarted, SendInvoice, AnswerWithoutReference, AttachInvoiceReference,
     CloseForWorkflow, MarkSubmissionTerminal, MarkSubmissionFailed, AuditFailed, Goto
<1> QED BY <1>1, <1>2, <1>3, <1>4, <1>5, <1>6, <1>7, <1>8 DEF Run

(* The documents change only by a submission, in time or late.             *)
LEMMA RunDocuments ==
    ASSUME IInv, NEW w \in Client, Start(w) \/ Run(w) \/ CancelSubmission(w)
    PROVE  AbsAccepted' = AbsAccepted /\ AbsRefused' = AbsRefused
<1>1. ASSUME pc[w] = "send_invoice_online",
             NEW d \in DocRef, SendOnlineInvoice(w, sref[w], d)
      PROVE  AbsAccepted' = AbsAccepted /\ AbsRefused' = AbsRefused
  <2>1. sref[w] \in SessionRef /\ InvoiceOf[w] \in Invoice
    BY <1>1, WorkflowAssumption DEF IInv, TypeOK, StepInv, Opened, Marked
  <2> QED BY <1>1, <2>1, InvoicesUnchanged DEF SendOnlineInvoice
<1>2. CASE UNCHANGED docVars
  BY <1>2, InvoicesUnchanged
<1>3. CASE SendInvoice(w) \/ AnswerWithoutReference(w)
  BY <1>1, <1>2, <1>3 DEF SendInvoice, AnswerWithoutReference, OpenOnlineSession
<1> QED
  BY <1>2, <1>3
     DEF Run, Start, CreateSubmissionRecord, CreateRow, AuditStarted, AppendEvent,
         LocalActivity, OpenForWorkflow, OpenOnlineSession, MarkSubmissionStarted,
         MarkStarted, AttachInvoiceReference, AttachReference, CloseForWorkflow,
         CloseOnlineSession, PollCheck, PollInvoiceStatus, MarkSubmissionTerminal,
         MarkTerminal, AuditCompleted, MarkSubmissionFailed, AuditFailed, AttemptFails,
         AttemptRefused, AttemptTimesOut, CancelSubmission, gatewayVars, docVars

LEMMA LateDocuments ==
    ASSUME IInv, NEW c \in late, LateCall(c)
    PROVE  AbsAccepted' = AbsAccepted /\ AbsRefused' = AbsRefused
<1>0. c.wf \in Client BY DEF IInv, TypeOK, Call
<1>1. CASE /\ c.step = "send_invoice_online"
           /\ \E d \in DocRef : SendOnlineInvoice(c.wf, c.arg, d)
  <2>1. c.arg \in SessionRef /\ InvoiceOf[c.wf] \in Invoice
    BY <1>0, <1>1, WorkflowAssumption DEF IInv, TypeOK, LateInv
  <2> QED BY <1>0, <1>1, <2>1, InvoicesUnchanged DEF SendOnlineInvoice
<1>2. CASE UNCHANGED docVars
  BY <1>2, InvoicesUnchanged
<1> QED
  BY <1>1, <1>2
     DEF LateCall, LateEffect, LateRefused, CreateRow, AppendEvent, OpenOnlineSession,
         MarkStarted, AttachReference, CloseOnlineSession, MarkTerminal, gatewayVars, docVars

LEMMA StepRefines ==
    ASSUME IInv, [Next]_vars
    PROVE  [Delivery!Next]_(Delivery!deliveryVars)
<1> DEFINE Stutter == /\ AbsAccepted' = AbsAccepted
                      /\ AbsRefused' = AbsRefused
                      /\ AbsOutcome' = AbsOutcome
<1>0. Stutter => [Delivery!Next]_(Delivery!deliveryVars)
  BY DEF Delivery!deliveryVars, AbsAccepted, AbsRefused, AbsOutcome
<1>1. ASSUME NEW w \in Client, Start(w) \/ Run(w)
      PROVE  [Delivery!Next]_(Delivery!deliveryVars)
  <2>1. AbsAccepted' = AbsAccepted /\ AbsRefused' = AbsRefused
    BY <1>1, RunDocuments
  <2>2. CASE OutcomeOf(w)' = OutcomeOf(w)
    <3>1. \A v \in Client : OutcomeOf(v)' = OutcomeOf(v)
      BY <1>1, <2>2, OutcomeStep
    <3> QED BY <1>0, <2>1, <3>1 DEF AbsOutcome
  <2>3. CASE OutcomeOf(w)' # OutcomeOf(w)
    <3>1. AbsOutcome' = [AbsOutcome EXCEPT ![w] = OutcomeOf(w)']
      BY <1>1, OutcomeStep DEF AbsOutcome
    <3>2. CASE OutcomeOf(w) = "idle" /\ OutcomeOf(w)' = "running"
      <4>1. Delivery!Begin(w)
        <5>1. InvoiceOf = [InvoiceOf EXCEPT ![w] = InvoiceOf[w]] /\ InvoiceOf[w] \in Invoice
          BY WorkflowAssumption
        <5> QED
          BY <2>1, <3>1, <3>2, <5>1
             DEF Delivery!Begin, AbsAccepted, AbsRefused, AbsOutcome
      <4> QED BY <4>1 DEF Delivery!Next
    <3>3. CASE /\ OutcomeOf(w) = "running"
               /\ OutcomeOf(w)' \in Delivery!Answer
               /\ OutcomeOf(w)' = "delivered" => InvoiceOf[w] \in AbsAccepted
               /\ OutcomeOf(w)' = "refused" => InvoiceOf[w] \in AbsRefused
      <4>1. Delivery!GiveAnswer(w)
        BY <2>1, <3>1, <3>3
           DEF Delivery!GiveAnswer, AbsAccepted, AbsRefused, AbsOutcome
      <4> QED BY <4>1 DEF Delivery!Next
    <3> QED BY <1>1, <2>3, <3>2, <3>3, OutcomeStep
  <2> QED BY <2>2, <2>3
<1>2. ASSUME NEW w \in Client, CancelSubmission(w)
      PROVE  [Delivery!Next]_(Delivery!deliveryVars)
  <2>1. \A v \in Client : OutcomeOf(v)' = OutcomeOf(v)
    BY <1>2 DEF CancelSubmission, OutcomeOf
  <2> QED BY <1>0, <1>2, <2>1, RunDocuments DEF AbsOutcome
<1>3. ASSUME NEW c \in late, LateCall(c)
      PROVE  [Delivery!Next]_(Delivery!deliveryVars)
  <2>1. \A v \in Client : OutcomeOf(v)' = OutcomeOf(v)
    BY <1>3 DEF LateCall, flowVars, OutcomeOf
  <2> QED BY <1>0, <1>3, <2>1, LateDocuments DEF AbsOutcome
<1>4. CASE Environment
  <2>1. \A v \in Client : OutcomeOf(v)' = OutcomeOf(v)
    BY <1>4 DEF Environment, flowVars, OutcomeOf
  <2>2. AbsOutcome' = AbsOutcome
    BY <2>1 DEF AbsOutcome
  <2>3. CASE \E d \in DocRef : JudgeDoc(d)
    BY <2>2, <2>3, JudgementIsVerdict
  <2>4. CASE \E s \in SessionRef : ExpireSession(s)
    BY <1>0, <2>2, <2>4, InvoicesUnchanged DEF ExpireSession
  <2> QED BY <1>4, <2>3, <2>4 DEF Environment, GatewayStep
<1>5. CASE UNCHANGED vars
  <2>1. \A v \in Client : OutcomeOf(v)' = OutcomeOf(v)
    BY <1>5 DEF vars, flowVars, OutcomeOf
  <2> QED
    BY <1>0, <1>5, <2>1, InvoicesUnchanged DEF AbsOutcome, vars, gatewayVars, docVars
<1> QED BY <1>1, <1>2, <1>3, <1>4, <1>5 DEF Next

(* The submission executions, with all their retries, timeouts, failures   *)
(* and late calls, implement what InvoiceDelivery promises to a caller.    *)
THEOREM DeliveryImplemented == Spec => ImplementsDelivery
BY InitAbstract, InitIInv, NextIInv, StepRefines, PTL
   DEF Spec, ImplementsDelivery, Delivery!Spec

-----------------------------------------------------------------------------
(***************************************************************************)
(* How long an execution can still run.  Every step has a rank, a bound of *)
(* the steps that can come after it, the polling loop apart.  While the    *)
(* loop is ahead, or running, each poll left counts two steps more.  Each  *)
(* step has MaxAttempts attempts, of which tries are used up.              *)
(***************************************************************************)
StepsAfter ==
    [ idle                            |-> 18,
      create_submission_record        |-> 17,
      audit_started                   |-> 16,
      load_invoice_for_send           |-> 15,
      validate_invoice_for_send       |-> 14,
      ensure_auth_context             |-> 13,
      open_online_session             |-> 12,
      mark_submission_started         |-> 11,
      build_fa3_xml                   |-> 10,
      encrypt_invoice_xml             |-> 9,
      send_invoice_online             |-> 8,
      attach_invoice_reference_number |-> 7,
      close_online_session            |-> 6,
      poll_check                      |-> 5,
      get_invoice_status              |-> 4,
      mark_submission_terminal        |-> 4,
      audit_completed                 |-> 3,
      mark_failed                     |-> 2,
      audit_failed                    |-> 1,
      completed                       |-> 0,
      failed                          |-> 0,
      aborted                         |-> 0,
      stuck                           |-> 0 ]

PollingOver == Judged \cup HandlerStep \cup Stopped

StepsLeft(w) ==
    StepsAfter[pc[w]] +
    (IF pc[w] \in PollingOver THEN 0 ELSE 2 * (MaxPolls - polls[w]))

AttemptsLeft(w) == StepsLeft(w) * MaxAttempts - tries[w]

(* What an execution can still do is a number, bounded from its start on,  *)
(* and it is nothing exactly when the execution has ended or is stuck.     *)
WithinBudget ==
    \A w \in Client :
        /\ AttemptsLeft(w) \in 0 .. (18 + 2 * MaxPolls) * MaxAttempts
        /\ pc[w] \in Stopped <=> AttemptsLeft(w) = 0

(* Every step of a run uses some of it up, and nothing gives any of it     *)
(* back: not a retry, a poll, a late call, a cancellation, or what KSeF    *)
(* and the other executions do.                                            *)
RunsUseUp ==
    [][\A w \in Client :
         /\ AttemptsLeft(w)' <= AttemptsLeft(w)
         /\ Run(w) => AttemptsLeft(w)' < AttemptsLeft(w)]_vars


(* A step less, of m attempts each, is less than what is left of a step.   *)
LEMMA LessWork ==
    ASSUME NEW a \in Int, NEW b \in Int, NEW m \in Nat, NEW t \in 0 .. m - 1, a < b
    PROVE  a * m < b * m - t
<1>1. (b - 1) * m = b * m - m
  OBVIOUS
<1>2. a * m <= (b - 1) * m
  <2>1. PICK k \in Nat : b - 1 = a + k
    <3>1. b - 1 - a \in Nat /\ b - 1 = a + (b - 1 - a)
      OBVIOUS
    <3> QED BY <3>1
  <2>2. (a + k) * m = a * m + k * m /\ k * m \in Nat /\ a * m \in Int
    OBVIOUS
  <2> QED BY <2>1, <2>2
<1>3. a * m \in Int /\ b * m \in Int
  OBVIOUS
<1> QED BY <1>1, <1>2, <1>3

LEMMA StepsBounded ==
    ASSUME TypeOK, NEW w \in Client
    PROVE  /\ StepsLeft(w) \in 0 .. 18 + 2 * MaxPolls
           /\ pc[w] \in Stopped <=> StepsLeft(w) = 0
<1>1. /\ MaxPolls \in Nat /\ polls[w] \in 0 .. MaxPolls /\ pc[w] \in Step
  BY WorkflowAssumption DEF TypeOK
<1>2. MaxPolls - polls[w] \in 0 .. MaxPolls
  BY <1>1
<1> QED
  BY <1>1, <1>2, LocalSteps
     DEF StepsLeft, StepsAfter, PollingOver, Judged, HandlerStep, Stopped, Ended, Step,
         ActivityStep, WriteStep

(* An execution that has ended has no attempt under way.                   *)
NoTriesAtEnd == \A w \in Client : pc[w] \in Stopped => tries[w] = 0

(* Step b comes after step a.                                              *)
Later(a, b) ==
    /\ a \in Step /\ b \in Step
    /\ StepsAfter[b] < StepsAfter[a]
    /\ a \in PollingOver => b \in PollingOver

LEMMA StepsFollow ==
    /\ Later("idle", "create_submission_record")
    /\ Later("create_submission_record", "audit_started")
    /\ Later("audit_started", "load_invoice_for_send")
    /\ \A a \in LocalStep : Later(a, AfterLocal[a])
    /\ Later("open_online_session", "mark_submission_started")
    /\ Later("mark_submission_started", "build_fa3_xml")
    /\ Later("send_invoice_online", "attach_invoice_reference_number")
    /\ Later("attach_invoice_reference_number", "close_online_session")
    /\ Later("close_online_session", "poll_check")
    /\ \A b \in {"get_invoice_status", "aborted"} : Later("poll_check", b)
    /\ Later("mark_submission_terminal", "audit_completed")
    /\ Later("audit_completed", "completed")
    /\ Later("mark_failed", "audit_failed")
    /\ Later("audit_failed", "failed")
    /\ \A a \in ActivityStep \ HandlerStep, b \in {"mark_failed", "failed"} : Later(a, b)
    /\ \A a \in ActivityStep : Later(a, "aborted")
    /\ \A a \in {"open_online_session", "send_invoice_online"} : Later(a, "stuck")
BY LocalSteps
   DEF Later, StepsAfter, PollingOver, Judged, Step, ActivityStep, WriteStep, HandlerStep,
       Stopped, Ended, AfterLocal

(* The next step of an execution has less to do after it.                  *)
LEMMA UsesUp ==
    ASSUME IInv, NEW w \in Client, Start(w) \/ Run(w)
    PROVE  \/ StepsLeft(w)' < StepsLeft(w) /\ tries'[w] = 0
           \/ StepsLeft(w)' = StepsLeft(w) /\ tries'[w] = tries[w] + 1
<1> DEFINE Less == StepsLeft(w)' < StepsLeft(w) /\ tries'[w] = 0
           More == StepsLeft(w)' = StepsLeft(w) /\ tries'[w] = tries[w] + 1
<1> SUFFICES Less \/ More
  OBVIOUS
<1>0. /\ MaxPolls \in Nat /\ polls \in [Client -> 0 .. MaxPolls]
      /\ pc \in [Client -> Step] /\ tries \in [Client -> 0 .. MaxAttempts - 1]
      /\ MaxAttempts \in Nat \ {0}
  BY WorkflowAssumption DEF IInv, TypeOK
<1>1. ASSUME NEW step, Later(pc[w], step), Goto(w, step), polls' = polls
      PROVE  Less
  <2>1. pc'[w] = step /\ tries'[w] = 0 /\ polls'[w] = polls[w]
    BY <1>0, <1>1 DEF Goto, Later
  <2>2. StepsAfter[step] \in Nat /\ StepsAfter[pc[w]] \in Nat
    BY <1>1, LocalSteps
       DEF Later, StepsAfter, Step, ActivityStep, WriteStep, HandlerStep, Stopped, Ended
  <2>3. MaxPolls - polls[w] \in Nat
    BY <1>0
  <2> QED BY <1>1, <2>1, <2>2, <2>3 DEF StepsLeft, Later
<1> HIDE DEF Less, More
<1>2. CASE Start(w)
  BY <1>1, <1>2, StepsFollow DEF Start
<1>3. CASE CreateSubmissionRecord(w)
  BY <1>1, <1>3, StepsFollow DEF CreateSubmissionRecord
<1>4. CASE AuditStarted(w)
  BY <1>1, <1>4, StepsFollow DEF AuditStarted
<1>5. CASE LocalActivity(w)
  BY <1>1, <1>5, StepsFollow DEF LocalActivity
<1>6. CASE OpenForWorkflow(w)
  BY <1>1, <1>6, StepsFollow DEF OpenForWorkflow
<1>7. CASE MarkSubmissionStarted(w)
  BY <1>1, <1>7, StepsFollow DEF MarkSubmissionStarted
<1>8. CASE SendInvoice(w)
  BY <1>1, <1>8, StepsFollow DEF SendInvoice
<1>9. CASE AttachInvoiceReference(w)
  BY <1>1, <1>9, StepsFollow DEF AttachInvoiceReference
<1>10. CASE CloseForWorkflow(w)
  BY <1>1, <1>10, StepsFollow DEF CloseForWorkflow
<1>11. CASE PollCheck(w)
  <2>1. PICK step \in {"aborted", "get_invoice_status"} : Goto(w, step)
    BY <1>11 DEF PollCheck
  <2> QED BY <1>1, <1>11, <2>1, StepsFollow DEF PollCheck
<1>12. CASE PollInvoiceStatus(w)
  <2>1. pc[w] = "get_invoice_status" /\ polls[w] < MaxPolls
    BY <1>12 DEF PollInvoiceStatus, IInv, StepInv
  <2>2. CASE Goto(w, "mark_submission_terminal") /\ polls' = polls
    <3>1. pc'[w] = "mark_submission_terminal" /\ tries'[w] = 0
      BY <1>0, <2>2 DEF Goto
    <3>2. StepsLeft(w)' = 4
      BY <3>1 DEF StepsLeft, StepsAfter, PollingOver, Judged, HandlerStep, Stopped, Ended
    <3>3. StepsLeft(w) = 4 + 2 * (MaxPolls - polls[w])
      BY <2>1 DEF StepsLeft, StepsAfter, PollingOver, Judged, HandlerStep, Stopped, Ended
    <3> QED BY <1>0, <2>1, <3>1, <3>2, <3>3 DEF Less
  <2>3. CASE Goto(w, "poll_check") /\ polls' = [polls EXCEPT ![w] = @ + 1]
    <3>1. pc'[w] = "poll_check" /\ tries'[w] = 0 /\ polls'[w] = polls[w] + 1
      BY <1>0, <2>3 DEF Goto
    <3>2. StepsLeft(w)' = 5 + 2 * (MaxPolls - (polls[w] + 1))
      BY <3>1 DEF StepsLeft, StepsAfter, PollingOver, Judged, HandlerStep, Stopped, Ended
    <3>3. StepsLeft(w) = 4 + 2 * (MaxPolls - polls[w])
      BY <2>1 DEF StepsLeft, StepsAfter, PollingOver, Judged, HandlerStep, Stopped, Ended
    <3>4. polls[w] \in Int /\ MaxPolls \in Int
      BY <1>0
    <3> HIDE DEF StepsLeft
    <3> QED BY <3>1, <3>2, <3>3, <3>4 DEF Less
  <2> QED BY <1>12, <2>2, <2>3 DEF PollInvoiceStatus
<1>13. CASE MarkSubmissionTerminal(w)
  BY <1>1, <1>13, StepsFollow DEF MarkSubmissionTerminal
<1>14. CASE AuditCompleted(w)
  BY <1>1, <1>14, StepsFollow DEF AuditCompleted
<1>15. CASE MarkSubmissionFailed(w)
  BY <1>1, <1>15, StepsFollow DEF MarkSubmissionFailed
<1>16. CASE AuditFailed(w)
  BY <1>1, <1>16, StepsFollow DEF AuditFailed
<1>17. ASSUME pc[w] \in ActivityStep
       PROVE  Later(pc[w], AfterError(w))
  BY <1>17, LocalSteps, StepsFollow DEF AfterError, ActivityStep, WriteStep
<1>18. CASE AttemptRefused(w)
  <2>1. pc[w] \in ActivityStep
    BY <1>18, LocalSteps DEF AttemptRefused, NonRetryableStep, ActivityStep
  <2> QED BY <1>1, <1>17, <1>18, <2>1 DEF AttemptRefused
<1>19. CASE AttemptFails(w) \/ AttemptTimesOut(w)
  <2>1. pc[w] \in ActivityStep /\ CountFailure(w) /\ polls' = polls
    BY <1>19 DEF AttemptFails, AttemptTimesOut, ActivityStep
  <2>2. CASE tries' = [tries EXCEPT ![w] = @ + 1] /\ pc' = pc
    <3>1. StepsLeft(w)' = StepsLeft(w)
      BY <2>1, <2>2 DEF StepsLeft
    <3> QED BY <1>0, <2>2, <3>1 DEF More
  <2>3. CASE tries' = [tries EXCEPT ![w] = 0] /\ pc' = [pc EXCEPT ![w] = AfterError(w)]
    <3>1. Later(pc[w], AfterError(w)) /\ AfterError(w) \in PollingOver
      BY <1>17, <2>1 DEF AfterError, PollingOver, HandlerStep, Stopped, Ended
    <3>2. pc'[w] = AfterError(w) /\ tries'[w] = 0 /\ polls'[w] = polls[w]
      BY <1>0, <2>1, <2>3
    <3>3. StepsAfter[AfterError(w)] \in Nat /\ StepsAfter[pc[w]] \in Nat
      BY <3>1, LocalSteps
         DEF Later, StepsAfter, Step, ActivityStep, WriteStep, HandlerStep, Stopped, Ended
    <3>4. MaxPolls - polls[w] \in Nat
      BY <1>0
    <3> HIDE DEF AfterError
    <3> QED BY <3>1, <3>2, <3>3, <3>4 DEF StepsLeft, Later, Less
  <2> QED BY <2>1, <2>2, <2>3 DEF CountFailure
<1>20. CASE AnswerWithoutReference(w)
  BY <1>1, <1>20, StepsFollow DEF AnswerWithoutReference
<1> QED
  BY <1>2, <1>3, <1>4, <1>5, <1>6, <1>7, <1>8, <1>9, <1>10, <1>11, <1>12, <1>13, <1>14,
     <1>15, <1>16, <1>18, <1>19, <1>20 DEF Run

(* What is left is a number, within what there was to start with.          *)
LEMMA BudgetBounded ==
    ASSUME TypeOK, NEW w \in Client, pc[w] \in Stopped => tries[w] = 0
    PROVE  /\ AttemptsLeft(w) \in 0 .. (18 + 2 * MaxPolls) * MaxAttempts
           /\ pc[w] \in Stopped <=> AttemptsLeft(w) = 0
<1> DEFINE most == 18 + 2 * MaxPolls
           steps == StepsLeft(w)
<1>1. /\ MaxAttempts \in Nat \ {0} /\ MaxPolls \in Nat
      /\ tries[w] \in 0 .. MaxAttempts - 1
  BY WorkflowAssumption DEF TypeOK
<1>2. most \in Nat /\ steps \in 0 .. most /\ (pc[w] \in Stopped <=> steps = 0)
  BY <1>1, StepsBounded
<1>3. AttemptsLeft(w) = steps * MaxAttempts - tries[w]
  BY DEF AttemptsLeft
<1> HIDE DEF most, steps
<1>4. steps * MaxAttempts \in Int /\ most * MaxAttempts \in Int
  BY <1>1, <1>2
<1>5. steps * MaxAttempts <= most * MaxAttempts
  <2>1. CASE steps = most BY <1>4, <2>1
  <2>2. CASE steps < most
    <3>1. steps * MaxAttempts < most * MaxAttempts - 0
      BY <1>1, <1>2, <2>2, LessWork
    <3> QED BY <1>4, <3>1
  <2> QED BY <1>2, <2>1, <2>2
<1>6. CASE steps = 0
  <2>1. steps * MaxAttempts = 0 /\ tries[w] = 0
    BY <1>1, <1>2, <1>6
  <2> QED BY <1>2, <1>3, <1>4, <1>5, <1>6, <2>1 DEF most
<1>7. CASE 0 < steps
  <2>1. 0 * MaxAttempts < steps * MaxAttempts - tries[w]
    BY <1>1, <1>2, <1>7, LessWork
  <2>2. 0 * MaxAttempts = 0
    BY <1>1
  <2> QED BY <1>1, <1>2, <1>3, <1>4, <1>5, <1>7, <2>1, <2>2 DEF most
<1> QED BY <1>2, <1>6, <1>7

LEMMA FreshEnds ==
    ASSUME IInv, NoTriesAtEnd, [Next]_vars
    PROVE  NoTriesAtEnd'
<1> SUFFICES ASSUME NEW w \in Client, pc'[w] \in Stopped PROVE tries'[w] = 0
  BY DEF NoTriesAtEnd
<1> USE DEF NoTriesAtEnd
<1>0. /\ pc \in [Client -> Step] /\ tries \in [Client -> 0 .. MaxAttempts - 1]
  BY DEF IInv, TypeOK
<1>1. CASE pc'[w] = pc[w] /\ tries'[w] = tries[w]
  BY <1>1
<1>2. ASSUME NEW v \in Client, AttemptFails(v) \/ AttemptTimesOut(v)
      PROVE  tries'[w] = 0
  <2>1. CountFailure(v) /\ pc[v] \in ActivityStep
    BY <1>2 DEF AttemptFails, AttemptTimesOut, ActivityStep
  <2>2. pc[v] \notin Stopped
    BY <2>1, LocalSteps DEF ActivityStep, WriteStep, Stopped, Ended
  <2> QED BY <1>0, <2>1, <2>2 DEF CountFailure
<1>3. ASSUME NEW v \in Client, Start(v) \/ Run(v), ~AttemptFails(v), ~AttemptTimesOut(v)
      PROVE  \E step : Goto(v, step)
  BY <1>3
     DEF Start, Run, CreateSubmissionRecord, AuditStarted, LocalActivity, OpenForWorkflow,
         MarkSubmissionStarted, SendInvoice, AnswerWithoutReference,
         AttachInvoiceReference, CloseForWorkflow, PollCheck, PollInvoiceStatus,
         MarkSubmissionTerminal, AuditCompleted,
         MarkSubmissionFailed, AuditFailed, AttemptRefused
<1>4. ASSUME NEW v \in Client, Start(v) \/ Run(v) PROVE tries'[w] = 0
  <2>1. CASE \E step : Goto(v, step)
    BY <1>0, <2>1 DEF Goto
  <2> QED BY <1>2, <1>3, <1>4, <2>1
<1>5. CASE ~ \E v \in Client : Start(v) \/ Run(v)
  BY <1>1, <1>5
     DEF Next, CancelSubmission, LateCall, Environment, flowVars, vars
<1> QED BY <1>4, <1>5

(* A step of one execution is none of another.                             *)
LEMMA OthersStay ==
    ASSUME TypeOK, NEW v \in Client, Start(v) \/ Run(v), NEW w \in Client, w # v
    PROVE  pc'[w] = pc[w] /\ tries'[w] = tries[w] /\ polls'[w] = polls[w]
<1>0. /\ pc \in [Client -> Step] /\ tries \in [Client -> 0 .. MaxAttempts - 1]
      /\ polls \in [Client -> 0 .. MaxPolls]
  BY DEF TypeOK
<1>1. ASSUME NEW step, Goto(v, step)
      PROVE  pc'[w] = pc[w] /\ tries'[w] = tries[w]
  BY <1>0, <1>1 DEF Goto
<1>2. CASE PollInvoiceStatus(v)
  <2>1. polls'[w] = polls[w]
    BY <1>0, <1>2 DEF PollInvoiceStatus
  <2>2. \E step : Goto(v, step)
    BY <1>2 DEF PollInvoiceStatus
  <2> QED BY <1>1, <2>1, <2>2
<1>3. CASE AttemptFails(v) \/ AttemptTimesOut(v)
  <2>1. CountFailure(v) /\ polls' = polls
    BY <1>3 DEF AttemptFails, AttemptTimesOut
  <2> QED BY <1>0, <2>1 DEF CountFailure
<1>4. CASE ~PollInvoiceStatus(v) /\ ~AttemptFails(v) /\ ~AttemptTimesOut(v)
  <2>1. (\E step : Goto(v, step)) /\ polls' = polls
    BY <1>4
       DEF Start, Run, CreateSubmissionRecord, AuditStarted, LocalActivity,
           OpenForWorkflow, MarkSubmissionStarted, SendInvoice, AnswerWithoutReference,
           AttachInvoiceReference, CloseForWorkflow, PollCheck, MarkSubmissionTerminal, AuditCompleted,
           MarkSubmissionFailed, AuditFailed, AttemptRefused
  <2> QED BY <1>1, <2>1
<1> QED BY <1>2, <1>3, <1>4

LEMMA BudgetSteps ==
    ASSUME IInv, NoTriesAtEnd, [Next]_vars,
           NEW w \in Client
    PROVE  /\ AttemptsLeft(w)' <= AttemptsLeft(w)
           /\ Run(w) => AttemptsLeft(w)' < AttemptsLeft(w)
<1>0. /\ MaxAttempts \in Nat /\ tries \in [Client -> 0 .. MaxAttempts - 1]
      /\ tries' \in [Client -> 0 .. MaxAttempts - 1]
      /\ StepsLeft(w) \in Int /\ StepsLeft(w)' \in Int
      /\ AttemptsLeft(w) \in Int
  <2>1. TypeOK /\ TypeOK'
    BY NextIInv DEF IInv
  <2>2. StepsLeft(w) \in Int
    BY <2>1, StepsBounded
  <2>3. StepsLeft(w)' \in Int
    <3>1. MaxPolls \in Nat /\ polls'[w] \in 0 .. MaxPolls /\ pc'[w] \in Step
      BY <2>1, WorkflowAssumption DEF TypeOK
    <3>2. MaxPolls - polls'[w] \in 0 .. MaxPolls
      BY <3>1
    <3>3. StepsAfter[pc'[w]] \in Int
      BY <3>1, LocalSteps
         DEF StepsAfter, Stopped, Ended, Step, ActivityStep, WriteStep, HandlerStep
    <3> QED BY <3>2, <3>3 DEF StepsLeft
  <2> QED BY <2>1, <2>2, <2>3, WorkflowAssumption DEF TypeOK, AttemptsLeft
<1>1. ASSUME Start(w) \/ Run(w) PROVE AttemptsLeft(w)' < AttemptsLeft(w)
  <2>1. CASE StepsLeft(w)' < StepsLeft(w) /\ tries'[w] = 0
    <3>1. StepsLeft(w)' * MaxAttempts < StepsLeft(w) * MaxAttempts - tries[w]
      BY <1>0, <2>1, LessWork
    <3> QED BY <1>0, <2>1, <3>1 DEF AttemptsLeft
  <2>2. CASE StepsLeft(w)' = StepsLeft(w) /\ tries'[w] = tries[w] + 1
    <3>1. StepsLeft(w) * MaxAttempts \in Int /\ tries[w] \in Int
      BY <1>0
    <3> QED BY <2>2, <3>1 DEF AttemptsLeft
  <2> QED BY <1>1, <2>1, <2>2, UsesUp
<1>2. CASE pc'[w] = pc[w] /\ tries'[w] = tries[w] /\ polls'[w] = polls[w]
  <2>1. AttemptsLeft(w)' = AttemptsLeft(w)
    BY <1>2 DEF AttemptsLeft, StepsLeft
  <2> QED BY <1>0, <1>1, <2>1
<1>3. ASSUME NEW v \in Client, v # w, Start(v) \/ Run(v)
      PROVE  pc'[w] = pc[w] /\ tries'[w] = tries[w] /\ polls'[w] = polls[w]
  BY <1>3, OthersStay DEF IInv
<1>4. CASE ~ \E v \in Client : Start(v) \/ Run(v)
  BY <1>2, <1>4 DEF Next, CancelSubmission, LateCall, Environment, flowVars, vars
<1> QED
  <2>1. CASE Start(w) \/ Run(w)
    <3>1. AttemptsLeft(w)' \in Int
      BY <1>0 DEF AttemptsLeft
    <3> QED BY <1>0, <1>1, <2>1, <3>1
  <2> QED BY <1>2, <1>3, <1>4, <2>1

LEMMA BudgetInductive ==
    Spec => [](IInv /\ NoTriesAtEnd)
<1>1. Init => NoTriesAtEnd
  BY DEF Init, NoTriesAtEnd
<1>2. IInv /\ NoTriesAtEnd /\ [Next]_vars => NoTriesAtEnd'
  BY FreshEnds
<1> QED BY <1>1, <1>2, Inductive, NextIInv, InitIInv, PTL DEF Spec

(* What an execution may still do never exceeds 18 steps and two for each  *)
(* poll, of MaxAttempts attempts each, and it is nothing exactly when the  *)
(* execution has ended, or is stuck for lack of a reference.               *)
THEOREM BudgetCorrect == Spec => []WithinBudget
<1>1. IInv /\ NoTriesAtEnd
        => WithinBudget
  BY BudgetBounded DEF IInv, WithinBudget, NoTriesAtEnd
<1> QED BY <1>1, BudgetInductive, PTL

(* An execution ends, or is stuck for lack of a reference, after a bounded *)
(* number of attempts, whatever else happens: each of its steps uses up    *)
(* some of its budget, and no step of anyone gives any of it back.  With   *)
(* the fairness of FairSpec this is why EveryRunEnds holds whatever        *)
(* MaxAttempts and MaxPolls are.                                           *)
THEOREM RunsAreBounded == Spec => RunsUseUp
<1> DEFINE Use == \A w \in Client :
                    /\ AttemptsLeft(w)' <= AttemptsLeft(w)
                    /\ Run(w) => AttemptsLeft(w)' < AttemptsLeft(w)
<1>1. IInv /\ NoTriesAtEnd /\ [Next]_vars => [Use]_vars
  BY BudgetSteps
<1> QED BY <1>1, BudgetInductive, PTL DEF Spec, RunsUseUp
=============================================================================
