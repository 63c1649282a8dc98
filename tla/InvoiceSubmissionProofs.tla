----------------------- MODULE InvoiceSubmissionProofs -----------------------
(***************************************************************************)
(* Theorems about InvoiceSubmission, for any number of requests, sessions, *)
(* documents and invoices.                                                 *)
(*                                                                         *)
(* The properties relate rows to KSeF, and rows are written by requests    *)
(* from what they got in earlier steps.  So IInv says of each request what *)
(* it may rely on at its next step although others have run meanwhile:     *)
(* RequestInv of what it was made for, SessionInv of the session it holds, *)
(* RowInv of the row and the document.  The same facts make the status     *)
(* requests implement InvoiceDelivery.                                     *)
(***************************************************************************)
EXTENDS InvoiceSubmission, TLAPS

RequestInv ==
    \A c \in Client :
        /\ pc[c] = "idle" => op[c] = "none"
        /\ op[c] \in {"none", "submit"} => target[c] = c
        /\ pc[c] \in {"save_row", "mark_failed"} => op[c] = "submit"
        /\ pc[c] \in {"send", "save_sent"} => op[c] \in {"submit", "resubmit"}

(* A session at hand for "persist" was opened by this very request, so no  *)
(* other one has written its row; all others have a row.                   *)
SessionInv ==
    /\ \A s \in SessionRef :
         /\ local[s] # "none" => session[s] # "unused"
         /\ local[s] = "closed" => session[s] = "closed"
    /\ \A c \in Client :
         /\ pc[c] = "persist" =>
              /\ held[c] \in SessionRef
              /\ session[held[c]] # "unused"
              /\ opener[held[c]] = c
              /\ local[held[c]] = "none"
         /\ pc[c] \in {"close_remote", "close_local", "poll_remote", "snapshot",
                       "save_row", "send", "save_sent"} =>
              /\ held[c] \in SessionRef
              /\ local[held[c]] # "none"
         /\ pc[c] = "close_local" => session[held[c]] = "closed"
         /\ pc[c] = "snapshot" =>
              /\ answer[c] \in {"processing", "closed", "failed"}
              /\ answer[c] = "closed" => session[held[c]] = "closed"

(* d was sent for row r, by request b in session s.                        *)
SentBy(d, r, b, s) ==
    SentFor(d, r) /\ docSender[d] = b /\ docSession[d] = s

RowInv ==
    \A c \in Client :
        /\ op[c] = "resubmit" => rowStatus[target[c]] # "none"
        /\ pc[c] \in {"send", "save_sent", "mark_failed"} =>
              rowStatus[target[c]] # "none"
        /\ pc[c] \in {"send", "save_sent"} /\ op[c] = "submit" =>
              rowSession[c] = held[c]
        /\ pc[c] \in {"poll_invoice", "store_status"} =>
              dref[c] \in DocRef /\ SentFor(dref[c], target[c])
        /\ pc[c] = "save_sent" =>
              \E d \in DocRef : SentBy(d, target[c], c, held[c]) /\ dref[c] \in {d, None}
        /\ pc[c] = "store_status" =>
              /\ answer[c] \in InvoiceStatus
              /\ answer[c] = "accepted" => doc[dref[c]] = "accepted"
              /\ answer[c] = "rejected" => doc[dref[c]] \in {"rejected", "duplicate"}
        /\ rowDoc[c] # None => SentFor(rowDoc[c], c)
        /\ rowStatus[c] = "sent" =>
              \E d \in DocRef : SentBy(d, c, c, rowSession[c]) /\ rowDoc[c] \in {d, None}

DocumentInv ==
    \A d \in DocRef :
        doc[d] # "unused" =>
            /\ docSender[d] \in Client
            /\ docSession[d] \in SessionRef
            /\ op[docSender[d]] \in {"submit", "resubmit"}
            /\ rowStatus[target[docSender[d]]] # "none"
            /\ local[docSession[d]] # "none"

IInv == TypeOK /\ RequestInv /\ SessionInv /\ RowInv /\ DocumentInv /\ VerdictRows

(* Expanded in every proof: the types, the frames and the helpers that name *)
(* one assignment.                                                          *)
USE NoneAssumption, SubmissionAssumption
USE DEF SentBy, IInv, TypeOK, GatewayTypeOK, gatewayVars, sessionVars, docVars, rowVars,
        requestVars, Goto, Hold

(***************************************************************************)
(* A request is made once, and rows are never taken away: a document stays *)
(* sent for the row it was sent for.                                       *)
(***************************************************************************)
Progress ==
    /\ \A c \in Client :
         /\ op[c] # "none" => op'[c] = op[c] /\ target'[c] = target[c]
         /\ rowStatus[c] # "none" => rowStatus'[c] # "none"
    /\ \A s \in SessionRef : local[s] # "none" => local'[s] # "none"

SentStays ==
    \A d \in DocRef, r \in Client :
        SentFor(d, r) => /\ SentFor(d, r)'
                         /\ docSender'[d] = docSender[d]
                         /\ docSession'[d] = docSession[d]

LEMMA DocumentsStay ==
    ASSUME IInv, Progress, UNCHANGED docVars
    PROVE  DocumentInv' /\ SentStays
  <1> USE DEF Progress, DocumentInv
  <1>1. \A d \in DocRef : doc[d] # "unused" =>
            /\ op'[docSender[d]] = op[docSender[d]]
            /\ target'[docSender[d]] = target[docSender[d]]
            /\ target[docSender[d]] \in Client
    BY DEF Operation
  <1>2. DocumentInv'
    BY <1>1
  <1>3. SentStays
    BY <1>1 DEF SentStays, SentFor
  <1> QED
    BY <1>2, <1>3

(***************************************************************************)
(* The steps of requests for a session: each keeps IInv.                   *)
(***************************************************************************)
LEMMA BeginOpenIInv ==
    ASSUME IInv, NEW c \in Client, BeginOpen(c),
           UNCHANGED <<target, dref, rowVars>>
    PROVE  IInv'
  <1> USE DEF BeginOpen, Request
  <1>1. Progress /\ UNCHANGED docVars
    BY DEF RequestInv, Progress
  <1>2. DocumentInv' /\ SentStays
    BY <1>1, DocumentsStay
  <1>3. TypeOK'
    BY DEF SessionStep, SubmissionStep, Operation
  <1>4. RequestInv'
    BY DEF RequestInv
  <1>5. SessionInv'
    BY DEF SessionInv
  <1>6. RowInv'
    BY <1>2 DEF RowInv, SentStays
  <1>7. VerdictRows'
    BY <1>2 DEF VerdictRows, SentStays
  <1> QED
    BY <1>2, <1>3, <1>4, <1>5, <1>6, <1>7

LEMMA FindSessionIInv ==
    ASSUME IInv, NEW c \in Client, FindSession(c),
           UNCHANGED <<target, dref, rowVars>>
    PROVE  IInv'
  <1> USE DEF FindSession, AfterSession
  <1>1. Progress /\ UNCHANGED docVars
    BY DEF RequestInv, Progress
  <1>2. DocumentInv' /\ SentStays
    BY <1>1, DocumentsStay
  <1>3. TypeOK'
    BY DEF SessionStep, SubmissionStep
  <1>4. RequestInv'
    BY DEF RequestInv
  <1>5. SessionInv'
    BY DEF SessionInv
  <1>6. RowInv'
    BY <1>2 DEF RowInv, SentStays
  <1>7. VerdictRows'
    BY <1>2 DEF VerdictRows, SentStays
  <1> QED
    BY <1>2, <1>3, <1>4, <1>5, <1>6, <1>7

LEMMA OpenRemoteIInv ==
    ASSUME IInv, NEW c \in Client, OpenRemote(c),
           UNCHANGED <<target, dref, rowVars>>
    PROVE  IInv'
  <1> USE DEF OpenRemote, OpenSession
  <1>1. Progress /\ UNCHANGED docVars
    BY DEF RequestInv, Progress
  <1>2. DocumentInv' /\ SentStays
    BY <1>1, DocumentsStay
  <1>3. TypeOK'
    BY DEF SessionStep, SubmissionStep, SessionState
  <1>4. RequestInv'
    BY DEF RequestInv
  <1>5. SessionInv'
    BY DEF SessionInv
  <1>6. RowInv'
    BY <1>2 DEF RowInv, SentStays
  <1>7. VerdictRows'
    BY <1>2 DEF VerdictRows, SentStays
  <1> QED
    BY <1>2, <1>3, <1>4, <1>5, <1>6, <1>7

LEMMA PersistOpenedIInv ==
    ASSUME IInv, NEW c \in Client, PersistOpened(c),
           UNCHANGED <<target, dref, rowVars>>
    PROVE  IInv'
  <1> USE DEF PersistOpened, AfterSession
  <1>1. Progress /\ UNCHANGED docVars
    BY DEF RequestInv, Progress
  <1>2. DocumentInv' /\ SentStays
    BY <1>1, DocumentsStay
  <1>3. TypeOK'
    BY DEF SessionStep, SubmissionStep, LocalStatus, SessionInv
  <1>4. RequestInv'
    BY DEF RequestInv
  <1>5. SessionInv'
    BY DEF SessionInv
  <1>6. RowInv'
    BY <1>2 DEF RowInv, SentStays
  <1>7. VerdictRows'
    BY <1>2 DEF VerdictRows, SentStays
  <1> QED
    BY <1>2, <1>3, <1>4, <1>5, <1>6, <1>7

LEMMA BeginCloseIInv ==
    ASSUME IInv, NEW c \in Client, NEW s \in SessionRef, BeginClose(c, s),
           UNCHANGED <<target, dref, rowVars>>
    PROVE  IInv'
  <1> USE DEF BeginClose, Request
  <1>1. Progress /\ UNCHANGED docVars
    BY DEF RequestInv, Progress
  <1>2. DocumentInv' /\ SentStays
    BY <1>1, DocumentsStay
  <1>3. TypeOK'
    BY DEF SessionStep, SubmissionStep, Operation
  <1>4. RequestInv'
    BY DEF RequestInv
  <1>5. SessionInv'
    BY DEF SessionInv
  <1>6. RowInv'
    BY <1>2 DEF RowInv, SentStays
  <1>7. VerdictRows'
    BY <1>2 DEF VerdictRows, SentStays
  <1> QED
    BY <1>2, <1>3, <1>4, <1>5, <1>6, <1>7

LEMMA CloseRemoteIInv ==
    ASSUME IInv, NEW c \in Client, CloseRemote(c),
           UNCHANGED <<target, dref, rowVars>>
    PROVE  IInv'
  <1> USE DEF CloseRemote, CloseSession
  <1>1. Progress /\ UNCHANGED docVars
    BY DEF RequestInv, Progress
  <1>2. DocumentInv' /\ SentStays
    BY <1>1, DocumentsStay
  <1>3. TypeOK'
    BY DEF SessionStep, SubmissionStep, SessionState
  <1>4. RequestInv'
    BY DEF RequestInv
  <1>5. SessionInv'
    BY DEF SessionInv
  <1>6. RowInv'
    BY <1>2 DEF RowInv, SentStays
  <1>7. VerdictRows'
    BY <1>2 DEF VerdictRows, SentStays
  <1> QED
    BY <1>2, <1>3, <1>4, <1>5, <1>6, <1>7

LEMMA CloseLocalIInv ==
    ASSUME IInv, NEW c \in Client, CloseLocal(c),
           UNCHANGED <<target, dref, rowVars>>
    PROVE  IInv'
  <1> USE DEF CloseLocal
  <1>1. Progress /\ UNCHANGED docVars
    BY DEF RequestInv, Progress
  <1>2. DocumentInv' /\ SentStays
    BY <1>1, DocumentsStay
  <1>3. TypeOK'
    BY DEF SessionStep, SubmissionStep, LocalStatus
  <1>4. RequestInv'
    BY DEF RequestInv
  <1>5. SessionInv'
    BY DEF SessionInv
  <1>6. RowInv'
    BY <1>2 DEF RowInv, SentStays
  <1>7. VerdictRows'
    BY <1>2 DEF VerdictRows, SentStays
  <1> QED
    BY <1>2, <1>3, <1>4, <1>5, <1>6, <1>7

LEMMA BeginPollSessionIInv ==
    ASSUME IInv, NEW c \in Client, NEW s \in SessionRef, BeginPollSession(c, s),
           UNCHANGED <<target, dref, rowVars>>
    PROVE  IInv'
  <1> USE DEF BeginPollSession, Request
  <1>1. Progress /\ UNCHANGED docVars
    BY DEF RequestInv, Progress
  <1>2. DocumentInv' /\ SentStays
    BY <1>1, DocumentsStay
  <1>3. TypeOK'
    BY DEF SessionStep, SubmissionStep, Operation
  <1>4. RequestInv'
    BY DEF RequestInv
  <1>5. SessionInv'
    BY DEF SessionInv
  <1>6. RowInv'
    BY <1>2 DEF RowInv, SentStays
  <1>7. VerdictRows'
    BY <1>2 DEF VerdictRows, SentStays
  <1> QED
    BY <1>2, <1>3, <1>4, <1>5, <1>6, <1>7

LEMMA PollRemoteIInv ==
    ASSUME IInv, NEW c \in Client, PollRemote(c),
           UNCHANGED <<target, dref, rowVars>>
    PROVE  IInv'
  <1> USE DEF PollRemote
  <1>1. Progress /\ UNCHANGED docVars
    BY DEF RequestInv, Progress
  <1>2. DocumentInv' /\ SentStays
    BY <1>1, DocumentsStay
  <1>3. TypeOK'
    BY DEF SessionStep, SubmissionStep, LocalStatus, MapSessionStatusCode
  <1>4. RequestInv'
    BY DEF RequestInv
  <1>5. /\ answer'[c] \in {"processing", "closed", "failed"}
        /\ answer'[c] = "closed" => session[held[c]] = "closed"
    <2>1. session[held[c]] \in {"open", "closed"}
      BY DEF SessionInv, SessionState
    <2>2. PICK code \in SessionCodes(held[c]) :
            answer' = [answer EXCEPT ![c] = MapSessionStatusCode(code)]
      OBVIOUS
    <2>3. None \notin {100, 200, 445}
      OBVIOUS
    <2> QED
      BY <2>1, <2>2, <2>3 DEF SessionCodes, MapSessionStatusCode
  <1>6. SessionInv'
    BY <1>5 DEF SessionInv
  <1>7. RowInv'
    BY <1>2 DEF RowInv, SentStays
  <1>8. VerdictRows'
    BY <1>2 DEF VerdictRows, SentStays
  <1> QED
    BY <1>2, <1>3, <1>4, <1>6, <1>7, <1>8

LEMMA StoreSnapshotIInv ==
    ASSUME IInv, NEW c \in Client, StoreSnapshot(c),
           UNCHANGED <<target, dref, rowVars>>
    PROVE  IInv'
  <1> USE DEF StoreSnapshot
  <1>1. Progress /\ UNCHANGED docVars
    BY DEF RequestInv, SessionInv, Progress
  <1>2. DocumentInv' /\ SentStays
    BY <1>1, DocumentsStay
  <1>3. TypeOK'
    BY DEF SessionStep, SubmissionStep, SessionInv, LocalStatus
  <1>4. RequestInv'
    BY DEF RequestInv
  <1>5. SessionInv'
    BY DEF SessionInv
  <1>6. RowInv'
    BY <1>2 DEF RowInv, SentStays
  <1>7. VerdictRows'
    BY <1>2 DEF VerdictRows, SentStays
  <1> QED
    BY <1>2, <1>3, <1>4, <1>5, <1>6, <1>7

LEMMA SessionStepFailsIInv ==
    ASSUME IInv, NEW c \in Client, SessionStepFails(c),
           UNCHANGED <<target, dref, rowVars>>
    PROVE  IInv'
  <1> USE DEF SessionStepFails, SessionStep
  <1>1. Progress /\ UNCHANGED docVars
    BY DEF RequestInv, Progress
  <1>2. DocumentInv' /\ SentStays
    BY <1>1, DocumentsStay
  <1>3. TypeOK'
    BY DEF SubmissionStep
  <1>4. RequestInv'
    BY DEF RequestInv
  <1>5. SessionInv'
    BY DEF SessionInv
  <1>6. RowInv'
    BY <1>2 DEF RowInv, SentStays
  <1>7. VerdictRows'
    BY <1>2 DEF VerdictRows, SentStays
  <1> QED
    BY <1>2, <1>3, <1>4, <1>5, <1>6, <1>7

LEMMA SessionAnswerLostIInv ==
    ASSUME IInv, NEW c \in Client, SessionAnswerLost(c),
           UNCHANGED <<target, dref, rowVars>>
    PROVE  IInv'
  <1> USE DEF SessionAnswerLost, OpenSession, CloseSession
  <1>1. Progress /\ UNCHANGED docVars
    BY DEF RequestInv, Progress
  <1>2. DocumentInv' /\ SentStays
    BY <1>1, DocumentsStay
  <1>3. TypeOK'
    BY DEF SessionStep, SubmissionStep, SessionState
  <1>4. RequestInv'
    BY DEF RequestInv
  <1>5. SessionInv'
    BY DEF SessionInv
  <1>6. RowInv'
    BY <1>2 DEF RowInv, SentStays
  <1>7. VerdictRows'
    BY <1>2 DEF VerdictRows, SentStays
  <1> QED
    BY <1>2, <1>3, <1>4, <1>5, <1>6, <1>7

(***************************************************************************)
(* The steps of requests for a submission.                                 *)
(***************************************************************************)
LEMMA BeginSubmitIInv ==
    ASSUME IInv, NEW c \in Client, BeginSubmit(c)
    PROVE  IInv'
  <1> USE DEF BeginSubmit, Request
  <1>1. Progress /\ UNCHANGED docVars
    BY DEF RequestInv, Progress
  <1>2. DocumentInv' /\ SentStays
    BY <1>1, DocumentsStay
  <1>3. TypeOK'
    BY DEF SessionStep, SubmissionStep, Operation
  <1>4. RequestInv'
    BY DEF RequestInv
  <1>5. SessionInv'
    BY DEF SessionInv
  <1>6. RowInv'
    BY <1>2 DEF RowInv, SentStays
  <1>7. VerdictRows'
    BY <1>2 DEF VerdictRows, SentStays
  <1> QED
    BY <1>2, <1>3, <1>4, <1>5, <1>6, <1>7

LEMMA BeginResubmitIInv ==
    ASSUME IInv, NEW c \in Client, NEW r \in Client, BeginResubmit(c, r)
    PROVE  IInv'
  <1> USE DEF BeginResubmit, Request
  <1>1. Progress /\ UNCHANGED docVars
    BY DEF RequestInv, Progress
  <1>2. DocumentInv' /\ SentStays
    BY <1>1, DocumentsStay
  <1>3. TypeOK'
    BY DEF SessionStep, SubmissionStep, Operation
  <1>4. RequestInv'
    BY DEF RequestInv
  <1>5. SessionInv'
    BY DEF SessionInv
  <1>6. RowInv'
    BY <1>2 DEF RowInv, SentStays
  <1>7. VerdictRows'
    BY <1>2 DEF VerdictRows, SentStays
  <1> QED
    BY <1>2, <1>3, <1>4, <1>5, <1>6, <1>7

LEMMA SaveSubmissionIInv ==
    ASSUME IInv, NEW c \in Client, SaveSubmission(c)
    PROVE  IInv'
  <1> USE DEF SaveSubmission, SetStatus
  <1>1. Progress /\ UNCHANGED docVars
    BY DEF RequestInv, Progress
  <1>2. DocumentInv' /\ SentStays
    BY <1>1, DocumentsStay
  <1>3. TypeOK'
    BY DEF SessionStep, SubmissionStep, RowStatus
  <1>4. RequestInv'
    BY DEF RequestInv
  <1>5. SessionInv'
    BY DEF SessionInv
  <1>6. RowInv'
    BY <1>2 DEF RequestInv, SessionInv, RowInv, SentStays
  <1>7. VerdictRows'
    BY <1>2 DEF VerdictRows, SentStays
  <1> QED
    BY <1>2, <1>3, <1>4, <1>5, <1>6, <1>7

(* What holds of the documents already sent when another one is sent.       *)
SentKept ==
    /\ doc'        \in [DocRef -> DocState]
    /\ docSession' \in [DocRef -> SessionRef \cup {None}]
    /\ docSender'  \in [DocRef -> Client \cup {None}]
    /\ docInvoice' \in [DocRef -> Invoice \cup {None}]
    /\ \A d \in DocRef, r \in Client : SentFor(d, r) =>
          /\ SentFor(d, r)'
          /\ doc'[d] = doc[d]
          /\ docSender'[d] = docSender[d]
          /\ docSession'[d] = docSession[d]

LEMMA ReceiveStays ==
    ASSUME IInv, NEW c \in Client, pc[c] = "send", NEW d \in DocRef, Receive(c, d),
           UNCHANGED <<op, local, target, rowVars>>
    PROVE  /\ SentKept /\ DocumentInv' /\ VerdictRows'
           /\ SentFor(d, target[c])' /\ docSender'[d] = c /\ docSession'[d] = held[c]
  <1> USE DEF Receive, ReceiveDoc
  <1>1. target[c] \in Client /\ InvoiceOf[target[c]] \in Invoice
    OBVIOUS
  <1>2. held[c] \in SessionRef /\ local[held[c]] # "none"
    BY DEF SessionInv
  <1>3. SentFor(d, target[c])' /\ docSender'[d] = c /\ docSession'[d] = held[c]
    BY <1>1 DEF SentFor
  <1>4. SentKept
    <2>1. /\ doc'        \in [DocRef -> DocState]
          /\ docSession' \in [DocRef -> SessionRef \cup {None}]
          /\ docSender'  \in [DocRef -> Client \cup {None}]
          /\ docInvoice' \in [DocRef -> Invoice \cup {None}]
      BY <1>1, <1>2 DEF DocState
    <2> QED
      BY <2>1 DEF SentKept, SentFor
  <1>5. DocumentInv'
    BY <1>2 DEF DocumentInv, RequestInv, RowInv
  <1>6. VerdictRows'
    BY <1>4 DEF VerdictRows, SentKept
  <1> QED
    BY <1>3, <1>4, <1>5, <1>6

LEMMA SendToKsefIInv ==
    ASSUME IInv, NEW c \in Client, SendToKsef(c)
    PROVE  IInv'
  <1>1. PICK d \in DocRef, ref \in DocRef \cup {None} :
          Receive(c, d) /\ ref \in {d, None} /\ dref' = [dref EXCEPT ![c] = ref]
    BY DEF SendToKsef
  <1>2. /\ pc[c] = "send" /\ pc' = [pc EXCEPT ![c] = "save_sent"]
        /\ UNCHANGED <<op, held, answer, local, target, rowVars, sessionVars>>
    BY DEF SendToKsef
  <1>3. /\ SentKept /\ DocumentInv' /\ VerdictRows'
        /\ SentFor(d, target[c])' /\ docSender'[d] = c /\ docSession'[d] = held[c]
    BY <1>1, <1>2, ReceiveStays
  <1>4. TypeOK'
    BY <1>1, <1>2, <1>3 DEF SentKept, SubmissionStep
  <1>5. RequestInv'
    BY <1>2 DEF RequestInv
  <1>6. SessionInv'
    BY <1>2 DEF SessionInv
  <1>7. RowInv'
    BY <1>1, <1>2, <1>3 DEF RowInv, SentKept
  <1> QED
    BY <1>3, <1>4, <1>5, <1>6, <1>7

(* A send is given up, whether or not KSeF took the document.              *)
LEMMA GivenUpIInv ==
    ASSUME IInv, NEW c \in Client, pc[c] = "send",
           (\E d \in DocRef : Receive(c, d)) \/ UNCHANGED docVars,
           NEW step \in {"mark_failed", "failed"}, pc' = [pc EXCEPT ![c] = step],
           step = "mark_failed" => op[c] = "submit",
           UNCHANGED <<op, held, answer, local, target, dref, rowVars, sessionVars>>
    PROVE  IInv'
  <1>1. SentKept /\ DocumentInv' /\ VerdictRows'
    <2>1. CASE UNCHANGED docVars
      <3>1. DocumentInv' /\ SentStays
        BY <2>1, DocumentsStay DEF Progress
      <3>2. SentKept
        BY <2>1, <3>1 DEF SentKept, SentStays
      <3> QED
        BY <2>1, <3>1, <3>2 DEF VerdictRows, SentKept
    <2>2. CASE \E d \in DocRef : Receive(c, d)
      BY <2>2, ReceiveStays
    <2> QED
      BY <2>1, <2>2
  <1>2. TypeOK'
    BY <1>1 DEF SentKept, SubmissionStep
  <1>3. RequestInv'
    BY DEF RequestInv
  <1>4. SessionInv'
    BY DEF SessionInv
  <1>5. RowInv'
    BY <1>1 DEF RowInv, SentKept
  <1> QED
    BY <1>1, <1>2, <1>3, <1>4, <1>5

LEMMA SendFailsIInv ==
    ASSUME IInv, NEW c \in Client, SendFails(c) \/ DiesAfterSend(c)
    PROVE  IInv'
  <1>1. CASE SendFails(c)
    BY <1>1, GivenUpIInv DEF SendFails
  <1>2. CASE DiesAfterSend(c)
    BY <1>2, GivenUpIInv DEF DiesAfterSend
  <1> QED
    BY <1>1, <1>2

LEMMA MarkSubmissionFailedIInv ==
    ASSUME IInv, NEW c \in Client, MarkSubmissionFailed(c)
    PROVE  IInv'
  <1> USE DEF MarkSubmissionFailed, SetStatus
  <1>1. Progress /\ UNCHANGED docVars
    BY DEF RequestInv, Progress
  <1>2. DocumentInv' /\ SentStays
    BY <1>1, DocumentsStay
  <1>3. TypeOK'
    BY DEF SessionStep, SubmissionStep, RowStatus
  <1>4. RequestInv'
    BY DEF RequestInv
  <1>5. SessionInv'
    BY DEF SessionInv
  <1>6. RowInv'
    BY <1>2 DEF RowInv, SentStays
  <1>7. VerdictRows'
    BY <1>2 DEF VerdictRows, SentStays
  <1> QED
    BY <1>2, <1>3, <1>4, <1>5, <1>6, <1>7

LEMMA UpdateAfterSendIInv ==
    ASSUME IInv, NEW c \in Client, UpdateAfterSend(c)
    PROVE  IInv'
  <1> USE DEF UpdateAfterSend, SetStatus
  <1>1. Progress /\ UNCHANGED docVars
    BY DEF RequestInv, Progress
  <1>2. DocumentInv' /\ SentStays
    BY <1>1, DocumentsStay
  <1>3. TypeOK'
    BY DEF SessionStep, SubmissionStep, RowStatus, RowInv
  <1>4. RequestInv'
    BY DEF RequestInv
  <1>5. SessionInv'
    BY DEF SessionInv
  <1>6. RowInv'
    BY <1>2 DEF RequestInv, RowInv, SentStays
  <1>7. VerdictRows'
    BY <1>2 DEF VerdictRows, SentStays
  <1> QED
    BY <1>2, <1>3, <1>4, <1>5, <1>6, <1>7

LEMMA BeginPollInvoiceIInv ==
    ASSUME IInv, NEW c \in Client, NEW r \in Client, BeginPollInvoice(c, r)
    PROVE  IInv'
  <1> USE DEF BeginPollInvoice, Request
  <1>1. Progress /\ UNCHANGED docVars
    BY DEF RequestInv, Progress
  <1>2. DocumentInv' /\ SentStays
    BY <1>1, DocumentsStay
  <1>3. TypeOK'
    BY DEF SessionStep, SubmissionStep, Operation
  <1>4. RequestInv'
    BY DEF RequestInv
  <1>5. SessionInv'
    BY DEF SessionInv
  <1>6. RowInv'
    BY <1>2 DEF RowInv, RequestInv, SentStays
  <1>7. VerdictRows'
    BY <1>2 DEF VerdictRows, SentStays
  <1> QED
    BY <1>2, <1>3, <1>4, <1>5, <1>6, <1>7

LEMMA PollInvoiceIInv ==
    ASSUME IInv, NEW c \in Client, PollInvoice(c)
    PROVE  IInv'
  <1> USE DEF PollInvoice
  <1>1. Progress /\ UNCHANGED docVars
    BY DEF RequestInv, Progress
  <1>2. DocumentInv' /\ SentStays
    BY <1>1, DocumentsStay
  <1>3. TypeOK'
    BY DEF SessionStep, SubmissionStep, InvoiceStatus, MapInvoiceStatusCode
  <1>4. RequestInv'
    BY DEF RequestInv
  <1>5. SessionInv'
    BY DEF SessionInv
  <1>6. /\ answer'[c] \in InvoiceStatus
        /\ answer'[c] = "accepted" => doc[dref[c]] = "accepted"
        /\ answer'[c] = "rejected" => doc[dref[c]] \in {"rejected", "duplicate"}
    <2>1. PICK code \in StatusCodes(dref[c]) :
            answer' = [answer EXCEPT ![c] = MapInvoiceStatusCode(code)]
      OBVIOUS
    <2>2. code \in {StatusCode(dref[c]), None, UnlistedCode}
      BY DEF StatusCodes
    <2>3. None \notin {200, 430, 440} /\ UnlistedCode \notin {200, 430, 440}
      BY DEF UnlistedCode
    <2> QED
      BY <2>1, <2>2, <2>3 DEF MapInvoiceStatusCode, StatusCode, InvoiceStatus
  <1>7. RowInv'
    BY <1>1, <1>2, <1>6 DEF RowInv, SentStays
  <1>8. VerdictRows'
    BY <1>2 DEF VerdictRows, SentStays
  <1> QED
    BY <1>2, <1>3, <1>4, <1>5, <1>7, <1>8

LEMMA StoreStatusIInv ==
    ASSUME IInv, NEW c \in Client, StoreStatus(c)
    PROVE  IInv'
  <1> USE DEF StoreStatus, SetStatus
  <1>1. Progress /\ UNCHANGED docVars
    BY DEF RequestInv, RowInv, InvoiceStatus, Progress
  <1>2. DocumentInv' /\ SentStays
    BY <1>1, DocumentsStay
  <1>3. TypeOK'
    BY DEF SessionStep, SubmissionStep, RowStatus, InvoiceStatus, RowInv
  <1>4. RequestInv'
    BY DEF RequestInv
  <1>5. SessionInv'
    BY DEF SessionInv
  <1>6. RowInv'
    BY <1>2 DEF RowInv, InvoiceStatus, SentStays
  <1>7. VerdictRows'
    BY <1>2 DEF VerdictRows, RowInv, SentStays
  <1> QED
    BY <1>2, <1>3, <1>4, <1>5, <1>6, <1>7

LEMMA SubmissionStepFailsIInv ==
    ASSUME IInv, NEW c \in Client, SubmissionStepFails(c)
    PROVE  IInv'
  <1> USE DEF SubmissionStepFails, SubmissionStep
  <1>1. Progress /\ UNCHANGED docVars
    BY DEF RequestInv, Progress
  <1>2. DocumentInv' /\ SentStays
    BY <1>1, DocumentsStay
  <1>3. TypeOK'
    BY DEF SessionStep
  <1>4. RequestInv'
    BY DEF RequestInv
  <1>5. SessionInv'
    BY DEF SessionInv
  <1>6. RowInv'
    BY <1>2 DEF RowInv, SentStays
  <1>7. VerdictRows'
    BY <1>2 DEF VerdictRows, SentStays
  <1> QED
    BY <1>2, <1>3, <1>4, <1>5, <1>6, <1>7

(***************************************************************************)
(* KSeF, and the theorems.                                                 *)
(***************************************************************************)
LEMMA GatewayIInv ==
    ASSUME IInv, GatewayStep, UNCHANGED <<requestVars, local, target, dref, rowVars>>
    PROVE  IInv'
  <1>1. ASSUME NEW d \in DocRef, JudgeDoc(d) PROVE IInv'
    <2> USE <1>1 DEF JudgeDoc
    <2>1. TypeOK'
      BY DEF DocState
    <2>2. RequestInv'
      BY DEF RequestInv
    <2>3. SessionInv'
      BY DEF SessionInv
    <2>4. RowInv'
      BY DEF RowInv, SentFor
    <2>5. DocumentInv'
      BY DEF DocumentInv
    <2>6. VerdictRows'
      BY DEF VerdictRows, SentFor
    <2> QED
      BY <2>1, <2>2, <2>3, <2>4, <2>5, <2>6
  <1>2. ASSUME NEW s \in SessionRef, ExpireSession(s) PROVE IInv'
    <2> USE <1>2 DEF ExpireSession, CloseSession
    <2>1. TypeOK'
      BY DEF SessionState
    <2>2. RequestInv'
      BY DEF RequestInv
    <2>3. SessionInv'
      BY DEF SessionInv
    <2>4. RowInv'
      BY DEF RowInv, SentFor
    <2>5. DocumentInv'
      BY DEF DocumentInv
    <2>6. VerdictRows'
      BY DEF VerdictRows, SentFor
    <2> QED
      BY <2>1, <2>2, <2>3, <2>4, <2>5, <2>6
  <1> QED
    BY <1>1, <1>2 DEF GatewayStep

LEMMA InitIInv == Init => IInv
  <1> SUFFICES ASSUME Init PROVE IInv
    OBVIOUS
  <1> USE DEF Init, SessionsInit, GatewayInit
  <1>1. TypeOK
    BY DEF SessionState, DocState, Operation, LocalStatus, RowStatus
  <1>2. RequestInv
    BY DEF RequestInv
  <1>3. SessionInv
    BY DEF SessionInv
  <1>4. RowInv
    BY DEF RowInv
  <1>5. DocumentInv
    BY DEF DocumentInv
  <1>6. VerdictRows
    BY DEF VerdictRows
  <1> QED
    BY <1>1, <1>2, <1>3, <1>4, <1>5, <1>6

LEMMA NextIInv == IInv /\ [Next]_vars => IInv'
  <1> SUFFICES ASSUME IInv, [Next]_vars PROVE IInv'
    OBVIOUS
  <1>1. ASSUME NEW c \in Client, SubmissionRequest(c) PROVE IInv'
    <2>1. CASE \E r \in Client : BeginResubmit(c, r) \/ BeginPollInvoice(c, r)
      BY <2>1, BeginResubmitIInv, BeginPollInvoiceIInv
    <2> QED
      BY <1>1, <2>1, BeginSubmitIInv, SaveSubmissionIInv, SendToKsefIInv, SendFailsIInv,
         MarkSubmissionFailedIInv, UpdateAfterSendIInv, PollInvoiceIInv, StoreStatusIInv,
         SubmissionStepFailsIInv
         DEF SubmissionRequest
  <1>2. ASSUME NEW c \in Client, SessionRequest(c), UNCHANGED <<target, dref, rowVars>>
        PROVE  IInv'
    <2>1. CASE \E s \in SessionRef : BeginClose(c, s) \/ BeginPollSession(c, s)
      BY <1>2, <2>1, BeginCloseIInv, BeginPollSessionIInv
    <2> QED
      BY <1>2, <2>1, BeginOpenIInv, FindSessionIInv, OpenRemoteIInv, PersistOpenedIInv,
         CloseRemoteIInv, CloseLocalIInv, PollRemoteIInv, StoreSnapshotIInv,
         SessionStepFailsIInv, SessionAnswerLostIInv
         DEF SessionRequest
  <1>3. CASE GatewayStep /\ UNCHANGED <<requestVars, local, target, dref, rowVars>>
    BY <1>3, GatewayIInv
  <1>4. CASE UNCHANGED vars
    BY <1>4 DEF vars, RequestInv, SessionInv, RowInv, DocumentInv, VerdictRows, SentFor
  <1> QED
    BY <1>1, <1>2, <1>3, <1>4 DEF Next

(* IInv holds in every reachable state.                                    *)
THEOREM Invariance == Spec => []IInv
  BY InitIInv, NextIInv, PTL DEF Spec

(* Every variable keeps its type.                                          *)
THEOREM TypeCorrect == Spec => []TypeOK
  <1>1. IInv => TypeOK
    BY DEF IInv
  <1> QED
    BY <1>1, Invariance, PTL

(* KSeF has no document without a submission row and a session row:        *)
(* invoice_service.py:156-184.                                             *)
THEOREM DocumentsHaveRows == Spec => []EveryDocumentHasRow
  <1>1. IInv => EveryDocumentHasRow
    BY DEF DocumentInv, EveryDocumentHasRow
  <1> QED
    BY <1>1, Invariance, PTL

(* A row names a copy of its invoice or nothing, and KSeF has the document *)
(* of every row that says "sent", from its own request and in its session, *)
(* also when the answer to the send named none:                            *)
(* invoice_service.py:206-218, 304-312.                                    *)
THEOREM SentRowsCorrect == Spec => []SentRowMatches
  <1>1. IInv => SentRowMatches
    BY DEF RowInv, SentRowMatches
  <1> QED
    BY <1>1, Invariance, PTL

(* Verdicts of rows were given by KSeF: status_service.py:126-153.         *)
THEOREM VerdictsCorrect == Spec => []VerdictRows
  <1>1. IInv => VerdictRows
    BY DEF IInv
  <1> QED
    BY <1>1, Invariance, PTL

(* Rows of closed sessions stand for closed sessions:                      *)
(* session_service.py:320-341, status_service.py:88-112.                   *)
THEOREM ClosedRowsCorrect == Spec => []ClosedRowIsClosed
  <1>1. IInv => ClosedRowIsClosed
    BY DEF SessionInv, ClosedRowIsClosed
  <1> QED
    BY <1>1, Invariance, PTL

(* A session row that stopped saying "open" never says so again:           *)
(* session_service.py:384-416, status_service.py:88-112.                   *)
THEOREM ReuseEnds == Spec => NeverReusableAgain
  <1> DEFINE P == \A s \in SessionRef :
                    local[s] \notin {"none", "open"} => local'[s] # "open"
  <1>1. IInv /\ [Next]_vars => [P]_<<local>>
    <2> SUFFICES ASSUME IInv, Next, local' # local PROVE P
      BY DEF vars
    <2>1. PICK c \in Client : PersistOpened(c) \/ CloseLocal(c) \/ StoreSnapshot(c)
      BY DEF Next, SubmissionRequest, BeginSubmit, BeginResubmit, BeginPollInvoice,
         SaveSubmission, SendToKsef, SendFails, DiesAfterSend, MarkSubmissionFailed,
         UpdateAfterSend, PollInvoice, StoreStatus, SubmissionStepFails,
         SessionRequest, BeginOpen, BeginClose, BeginPollSession, FindSession,
         OpenRemote, CloseRemote, PollRemote, SessionStepFails, SessionAnswerLost
    <2>2. CASE PersistOpened(c)
      BY <2>2 DEF PersistOpened, SessionInv
    <2>3. CASE CloseLocal(c)
      BY <2>3 DEF CloseLocal
    <2>4. CASE StoreSnapshot(c)
      BY <2>4 DEF StoreSnapshot, SessionInv
    <2> QED
      BY <2>1, <2>2, <2>3, <2>4
  <1> QED
    BY <1>1, Invariance, PTL DEF Spec, NeverReusableAgain

(* An accepted row becomes rejected only through a further copy:           *)
(* status_service.py:126-153, invoice_service.py:264.                      *)
THEOREM RejectedByCopy == Spec => RejectedOnlyByCopy
  <1> DEFINE Copies(r) == \E d, e \in DocRef : d # e /\ SentFor(d, r) /\ SentFor(e, r)
             P == \A r \in Client :
                    rowStatus[r] = "accepted" /\ rowStatus'[r] = "rejected" => Copies(r)
  <1>1. IInv /\ [Next]_vars => [P]_rowStatus
    <2> SUFFICES ASSUME IInv, Next, NEW r \in Client,
                        rowStatus[r] = "accepted", rowStatus'[r] = "rejected"
                 PROVE  Copies(r)
      BY DEF vars
    <2>1. PICK c \in Client : StoreStatus(c) /\ target[c] = r
      BY DEF Next, SubmissionRequest, BeginSubmit, BeginResubmit, BeginPollInvoice,
         SaveSubmission, SendToKsef, SendFails, DiesAfterSend, MarkSubmissionFailed,
         UpdateAfterSend, PollInvoice, StoreStatus, SubmissionStepFails, SetStatus
    <2>2. /\ SentFor(dref[c], r) /\ dref[c] \in DocRef
          /\ doc[dref[c]] \in {"rejected", "duplicate"}
      BY <2>1 DEF StoreStatus, SetStatus, RowInv
    <2>3. PICK d \in DocRef : SentFor(d, r) /\ doc[d] = "accepted"
      BY DEF VerdictRows
    <2> QED
      BY <2>2, <2>3
  <1> QED
    BY <1>1, Invariance, PTL DEF Spec, RejectedOnlyByCopy

-----------------------------------------------------------------------------
(***************************************************************************)
(* The requests implement InvoiceDelivery.  A request that has polled an   *)
(* invoice holds KSeF's verdict until it answers; no other one holds any.  *)
(***************************************************************************)
Working  == SessionStep \cup SubmissionStep
Verdicts == {"accepted", "rejected"}

AnswerInv ==
    \A c \in Client :
        answer[c] \in Verdicts => pc[c] \in {"store_status", "done", "failed"}

DocumentsCopyInvoices ==
    \A d \in DocRef : doc[d] # "unused" => docInvoice[d] \in Invoice

CallInv == AnswerInv /\ DocumentsCopyInvoices

(* The abstract variables of a state.                                      *)
AbsAccepted == InvoicesWith({"accepted"})
AbsRefused  == InvoicesWith({"rejected", "duplicate"})
AbsAsked    == [c \in Client |-> InvoiceOf[target[c]]]
AbsOutcome  == [c \in Client |-> OutcomeOf(c)]

(* The kinds of steps of request c, by what they do to its own variables.  *)
Begins(c) ==
    /\ pc[c] = "idle" /\ pc'[c] \in Working \ {"store_status"}
    /\ answer' = answer

GoesOn(c) ==
    /\ pc[c] \in Working \ {"store_status"} /\ pc'[c] \in Working
    /\ target' = target
    /\ \/ answer' = answer /\ pc'[c] # "store_status"
       \/ pc'[c] = "store_status"
       \/ answer'[c] \notin Verdicts

Ends(c) ==
    /\ pc[c] \in Working
    /\ \/ pc[c] # "store_status" /\ pc'[c] = "done"
       \/ pc'[c] = "failed"
    /\ answer' = answer /\ target' = target

StepOf(c) == SubmissionRequest(c) \/ (SessionRequest(c) /\ UNCHANGED target)

LEMMA RequestKinds ==
    ASSUME IInv, NEW c \in Client, StepOf(c)
    PROVE  /\ \A b \in Client \ {c} :
                pc'[b] = pc[b] /\ answer'[b] = answer[b] /\ target'[b] = target[b]
           /\ Begins(c) \/ GoesOn(c) \/ Ends(c) \/ StoreStatus(c)
  <1> DEFINE Kind == /\ \A b \in Client \ {c} :
                          /\ pc'[b] = pc[b] /\ answer'[b] = answer[b]
                          /\ target'[b] = target[b]
                     /\ Begins(c) \/ GoesOn(c) \/ Ends(c) \/ StoreStatus(c)
  <1> SUFFICES Kind
    OBVIOUS
  <1> USE DEF Begins, GoesOn, Ends, Working, SessionStep, SubmissionStep
  <1>1. CASE \/ BeginSubmit(c)
             \/ \E r \in Client : BeginResubmit(c, r) \/ BeginPollInvoice(c, r)
    BY <1>1 DEF BeginSubmit, BeginResubmit, BeginPollInvoice, Request
  <1>2. CASE UNCHANGED target /\ \/ BeginOpen(c)
                                 \/ \E s \in SessionRef : \/ BeginClose(c, s)
                                                          \/ BeginPollSession(c, s)
    BY <1>2 DEF BeginOpen, BeginClose, BeginPollSession, Request
  <1>3. CASE SaveSubmission(c) \/ SendToKsef(c)
    BY <1>3 DEF SaveSubmission, SendToKsef
  <1>4. CASE SendFails(c) \/ DiesAfterSend(c)
    BY <1>4 DEF SendFails, DiesAfterSend
  <1>5. CASE MarkSubmissionFailed(c) \/ UpdateAfterSend(c) \/ SubmissionStepFails(c)
    BY <1>5 DEF MarkSubmissionFailed, UpdateAfterSend, SubmissionStepFails
  <1>6. CASE PollInvoice(c)
    BY <1>6 DEF PollInvoice
  <1>7. CASE StoreStatus(c)
    BY <1>7 DEF StoreStatus
  <1>8. CASE UNCHANGED target /\ (FindSession(c) \/ PersistOpened(c))
    BY <1>8 DEF FindSession, PersistOpened, AfterSession
  <1>9. CASE UNCHANGED target /\ (OpenRemote(c) \/ CloseRemote(c) \/ CloseLocal(c))
    BY <1>9 DEF OpenRemote, CloseRemote, CloseLocal
  <1>10. CASE UNCHANGED target /\ PollRemote(c)
    <2>1. answer'[c] \notin Verdicts
      BY <1>10 DEF PollRemote, MapSessionStatusCode, Verdicts
    <2> QED
      BY <1>10, <2>1 DEF PollRemote
  <1>11. CASE /\ UNCHANGED target
              /\ StoreSnapshot(c) \/ SessionStepFails(c) \/ SessionAnswerLost(c)
    BY <1>11 DEF StoreSnapshot, SessionStepFails, SessionAnswerLost
  <1> HIDE DEF Kind
  <1> QED
    BY <1>1, <1>2, <1>3, <1>4, <1>5, <1>6, <1>7, <1>8, <1>9, <1>10, <1>11
       DEF StepOf, SubmissionRequest, SessionRequest

(* Every step of the system is one request's, or KSeF's.                   *)
LEMMA StepKinds ==
    ASSUME [Next]_vars
    PROVE  \/ \E c \in Client : StepOf(c)
           \/ GatewayStep /\ UNCHANGED <<pc, answer, target>>
           \/ UNCHANGED <<pc, answer, target, docVars>>
  BY DEF Next, vars, StepOf

LEMMA AnswerInvInductive ==
    ASSUME IInv, AnswerInv, [Next]_vars
    PROVE  AnswerInv'
  <1>1. ASSUME NEW c \in Client, StepOf(c) PROVE AnswerInv'
    <2> SUFFICES ASSUME NEW b \in Client, answer'[b] \in Verdicts
                 PROVE  pc'[b] \in {"store_status", "done", "failed"}
      BY DEF AnswerInv
    <2>1. CASE b # c
      BY <1>1, <2>1, RequestKinds DEF AnswerInv
    <2>2. CASE b = c /\ Begins(c)
      BY <2>2 DEF AnswerInv, Begins
    <2>3. CASE b = c /\ GoesOn(c)
      BY <2>3 DEF AnswerInv, GoesOn, Working, SessionStep, SubmissionStep
    <2>4. CASE b = c /\ (Ends(c) \/ StoreStatus(c))
      BY <2>4 DEF AnswerInv, Ends, StoreStatus
    <2> QED
      BY <1>1, <2>1, <2>2, <2>3, <2>4, RequestKinds
  <1>2. CASE UNCHANGED <<pc, answer>>
    BY <1>2 DEF AnswerInv
  <1> QED
    BY <1>1, <1>2, StepKinds

(* A step of a request begins it, answers it with what KSeF's verdicts     *)
(* support, or leaves it running.                                          *)
LEMMA OutcomeStep ==
    ASSUME IInv, AnswerInv, NEW c \in Client, StepOf(c)
    PROVE  /\ \A b \in Client \ {c} : OutcomeOf(b)' = OutcomeOf(b)
           /\ \A b \in Client \ {c} : target'[b] = target[b]
           /\ \/ OutcomeOf(c) = "idle" /\ OutcomeOf(c)' = "running"
              \/ /\ OutcomeOf(c) = "running" /\ OutcomeOf(c)' = "running"
                 /\ target' = target
              \/ /\ OutcomeOf(c) = "running" /\ target' = target
                 /\ OutcomeOf(c)' \in Delivery!Answer
                 /\ OutcomeOf(c)' = "delivered" => AbsAsked[c] \in AbsAccepted
                 /\ OutcomeOf(c)' = "refused"   => AbsAsked[c] \in AbsRefused
  <1>1. \A b \in Client \ {c} : OutcomeOf(b)' = OutcomeOf(b) /\ target'[b] = target[b]
    BY RequestKinds DEF OutcomeOf
  <1>2. CASE Begins(c)
    BY <1>1, <1>2 DEF Begins, OutcomeOf, Working, SessionStep, SubmissionStep
  <1>3. CASE GoesOn(c)
    BY <1>1, <1>3 DEF GoesOn, OutcomeOf, Working, SessionStep, SubmissionStep
  <1>4. CASE Ends(c)
    <2>1. OutcomeOf(c) = "running" /\ OutcomeOf(c)' = "unknown" /\ target' = target
      BY <1>4 DEF Ends, OutcomeOf, AnswerInv, Verdicts, Working, SessionStep, SubmissionStep
    <2> QED
      BY <1>1, <2>1 DEF Delivery!Answer
  <1>5. CASE StoreStatus(c)
    <2>1. /\ pc[c] = "store_status" /\ pc'[c] = "done"
          /\ answer' = answer /\ target' = target
      BY <1>5 DEF StoreStatus
    <2>2. /\ dref[c] \in DocRef /\ docInvoice[dref[c]] = AbsAsked[c]
          /\ answer[c] = "accepted" => doc[dref[c]] = "accepted"
          /\ answer[c] = "rejected" => doc[dref[c]] \in {"rejected", "duplicate"}
      BY <2>1 DEF RowInv, SentFor, AbsAsked
    <2>3. /\ OutcomeOf(c) = "running"
          /\ OutcomeOf(c)' = CASE answer[c] = "accepted" -> "delivered"
                               [] answer[c] = "rejected" -> "refused"
                               [] OTHER                  -> "unknown"
      BY <2>1 DEF OutcomeOf
    <2>4. /\ answer[c] = "accepted" => AbsAsked[c] \in AbsAccepted
          /\ answer[c] = "rejected" => AbsAsked[c] \in AbsRefused
      BY <2>2 DEF AbsAccepted, AbsRefused, InvoicesWith
    <2> HIDE DEF OutcomeOf, AbsAsked
    <2> QED
      BY <1>1, <2>1, <2>3, <2>4 DEF Delivery!Answer
  <1> QED
    BY <1>2, <1>3, <1>4, <1>5, RequestKinds

(* Documents change when a request sends one, or when KSeF judges one.     *)
Sends ==
    \E c \in Client, s \in SessionRef, i \in Invoice, d \in DocRef : ReceiveDoc(c, s, i, d)

LEMMA RequestDocuments ==
    ASSUME IInv, NEW c \in Client, StepOf(c)
    PROVE  Sends \/ UNCHANGED docVars
  <1>1. CASE pc[c] = "send" /\ \E d \in DocRef : Receive(c, d)
    <2>1. held[c] \in SessionRef /\ InvoiceOf[target[c]] \in Invoice
      BY <1>1 DEF SessionInv
    <2> QED
      BY <1>1, <2>1 DEF Receive, Sends
  <1>2. CASE UNCHANGED docVars
    BY <1>2
  <1> QED
    BY <1>1, <1>2
       DEF StepOf, SubmissionRequest, SessionRequest, BeginSubmit, BeginResubmit,
           BeginPollInvoice, SaveSubmission, SendToKsef, SendFails, DiesAfterSend,
           MarkSubmissionFailed, UpdateAfterSend, PollInvoice, StoreStatus,
           SubmissionStepFails, BeginOpen, BeginClose, BeginPollSession, FindSession,
           OpenRemote, PersistOpened, CloseRemote, CloseLocal, PollRemote, StoreSnapshot,
           SessionStepFails, SessionAnswerLost

LEMMA CallInvInductive == IInv /\ CallInv /\ [Next]_vars => CallInv'
  <1> SUFFICES ASSUME IInv, CallInv, [Next]_vars PROVE CallInv'
    OBVIOUS
  <1>1. ASSUME Sends PROVE DocumentsCopyInvoices'
    BY <1>1 DEF Sends, ReceiveDoc, CallInv, DocumentsCopyInvoices
  <1>2. ASSUME GatewayStep \/ UNCHANGED docVars PROVE DocumentsCopyInvoices'
    BY <1>2 DEF GatewayStep, JudgeDoc, ExpireSession, CallInv, DocumentsCopyInvoices
  <1>3. DocumentsCopyInvoices'
    BY <1>1, <1>2, RequestDocuments, StepKinds DEF CallInv
  <1> QED
    BY <1>3, AnswerInvInductive DEF CallInv

(* Between judgements the sets of judged invoices do not change.           *)
LEMMA InvoicesUnchanged ==
    ASSUME IInv, Sends \/ UNCHANGED docVars
    PROVE  AbsAccepted' = AbsAccepted /\ AbsRefused' = AbsRefused
  <1>1. CASE UNCHANGED docVars
    BY <1>1 DEF AbsAccepted, AbsRefused, InvoicesWith
  <1>2. ASSUME NEW w \in Client, NEW s \in SessionRef, NEW i \in Invoice,
               NEW d \in DocRef, ReceiveDoc(w, s, i, d)
        PROVE  AbsAccepted' = AbsAccepted /\ AbsRefused' = AbsRefused
    <2>1. \A e \in DocRef : e # d => doc'[e] = doc[e] /\ docInvoice'[e] = docInvoice[e]
      BY <1>2 DEF ReceiveDoc
    <2>2. doc[d] = "unused" /\ doc'[d] = "received"
      BY <1>2 DEF ReceiveDoc
    <2> QED
      BY <2>1, <2>2 DEF AbsAccepted, AbsRefused, InvoicesWith
  <1> QED
    BY <1>1, <1>2 DEF Sends

(* A judgement is a verdict on the document's invoice.                     *)
LEMMA JudgementIsVerdict ==
    ASSUME IInv, CallInv, NEW d \in DocRef, JudgeDoc(d), UNCHANGED <<AbsAsked, AbsOutcome>>
    PROVE  Delivery!Next
  <1> DEFINE i == docInvoice[d]
  <1>1. i \in Invoice
    BY DEF JudgeDoc, CallInv, DocumentsCopyInvoices
  <1>2. PICK verdict \in {"accepted", "rejected", "duplicate"} :
          /\ verdict = "accepted" => ~AcceptedCopy(d)
          /\ doc' = [doc EXCEPT ![d] = verdict]
    BY DEF JudgeDoc
  <1>3. /\ doc[d] = "received" /\ doc'[d] = verdict /\ docInvoice' = docInvoice
        /\ \A e \in DocRef : e # d => doc'[e] = doc[e]
    BY <1>2 DEF JudgeDoc
  <1>4. CASE verdict = "accepted"
    <2>1. AbsAccepted' = AbsAccepted \cup {i} /\ AbsRefused' = AbsRefused
      BY <1>3, <1>4 DEF AbsAccepted, AbsRefused, InvoicesWith
    <2>2. i \notin AbsAccepted
      BY <1>2, <1>4 DEF AbsAccepted, InvoicesWith, AcceptedCopy
    <2> QED
      BY <1>1, <2>1, <2>2
         DEF Delivery!Next, Delivery!Verdict, AbsAccepted, AbsRefused, AbsAsked, AbsOutcome
  <1>5. CASE verdict # "accepted"
    <2>1. AbsAccepted' = AbsAccepted
      BY <1>3, <1>5 DEF AbsAccepted, InvoicesWith
    <2>2. AbsRefused' = AbsRefused \cup {i}
      BY <1>2, <1>3, <1>5 DEF AbsRefused, InvoicesWith
    <2> QED
      BY <1>1, <2>1, <2>2
         DEF Delivery!Next, Delivery!Verdict, AbsAccepted, AbsRefused, AbsAsked, AbsOutcome
  <1> QED
    BY <1>4, <1>5

LEMMA StepRefines ==
    ASSUME IInv, CallInv, [Next]_vars
    PROVE  [Delivery!Next]_(Delivery!deliveryVars)
  <1>1. ASSUME NEW c \in Client, StepOf(c)
        PROVE  [Delivery!Next]_(Delivery!deliveryVars)
    <2>1. AbsAccepted' = AbsAccepted /\ AbsRefused' = AbsRefused
      BY <1>1, RequestDocuments, InvoicesUnchanged
    <2>2. AbsOutcome' = [AbsOutcome EXCEPT ![c] = OutcomeOf(c)']
      BY <1>1, OutcomeStep DEF AbsOutcome, CallInv
    <2>3. CASE OutcomeOf(c) = "idle" /\ OutcomeOf(c)' = "running"
      <3>1. target'[c] \in Client
        BY NextIInv
      <3>2. AbsAsked' = [AbsAsked EXCEPT ![c] = InvoiceOf[target'[c]]]
        BY <1>1, OutcomeStep DEF AbsAsked, CallInv
      <3>3. Delivery!Begin(c)
        BY <2>1, <2>2, <2>3, <3>1, <3>2
           DEF Delivery!Begin, AbsAccepted, AbsRefused, AbsAsked, AbsOutcome
      <3> QED
        BY <3>3 DEF Delivery!Next
    <2>4. CASE OutcomeOf(c)' = OutcomeOf(c) /\ target' = target
      <3>1. AbsOutcome' = AbsOutcome /\ AbsAsked' = AbsAsked
        BY <2>2, <2>4 DEF AbsOutcome, AbsAsked
      <3> QED
        BY <2>1, <3>1
           DEF Delivery!deliveryVars, AbsAccepted, AbsRefused, AbsAsked, AbsOutcome
    <2>5. CASE /\ OutcomeOf(c) = "running" /\ target' = target
               /\ OutcomeOf(c)' \in Delivery!Answer
               /\ OutcomeOf(c)' = "delivered" => AbsAsked[c] \in AbsAccepted
               /\ OutcomeOf(c)' = "refused"   => AbsAsked[c] \in AbsRefused
      <3>1. AbsAsked' = AbsAsked
        BY <2>5 DEF AbsAsked
      <3>2. Delivery!GiveAnswer(c)
        BY <2>1, <2>2, <2>5, <3>1
           DEF Delivery!GiveAnswer, AbsAccepted, AbsRefused, AbsAsked, AbsOutcome
      <3> QED
        BY <3>2 DEF Delivery!Next
    <2> QED
      BY <1>1, <2>3, <2>4, <2>5, OutcomeStep DEF CallInv
  <1>2. ASSUME UNCHANGED <<pc, answer, target>>
        PROVE  UNCHANGED <<AbsAsked, AbsOutcome>>
    BY <1>2 DEF AbsAsked, AbsOutcome, OutcomeOf
  <1>3. CASE UNCHANGED <<pc, answer, target, docVars>>
    BY <1>2, <1>3, InvoicesUnchanged
       DEF Delivery!deliveryVars, AbsAccepted, AbsRefused, AbsAsked, AbsOutcome
  <1>4. CASE GatewayStep /\ UNCHANGED <<pc, answer, target>>
    <2>1. CASE \E d \in DocRef : JudgeDoc(d)
      BY <1>2, <1>4, <2>1, JudgementIsVerdict
    <2>2. CASE \E s \in SessionRef : ExpireSession(s)
      BY <1>3, <1>4, <2>2 DEF ExpireSession
    <2> QED
      BY <1>4, <2>1, <2>2 DEF GatewayStep
  <1> QED
    BY <1>1, <1>3, <1>4, StepKinds

LEMMA InitRefines == Init => CallInv /\ Delivery!Init
  <1> SUFFICES ASSUME Init PROVE CallInv /\ Delivery!Init
    OBVIOUS
  <1> USE DEF Init, SessionsInit, GatewayInit
  <1>1. CallInv
    <2>1. \A c \in Client : answer[c] = None /\ pc[c] = "idle"
      OBVIOUS
    <2> QED
      BY <2>1 DEF CallInv, AnswerInv, DocumentsCopyInvoices, Verdicts, InvoiceStatus
  <1>2. AbsAccepted = {} /\ AbsRefused = {}
    BY DEF AbsAccepted, AbsRefused, InvoicesWith
  <1>3. AbsOutcome = [c \in Client |-> "idle"]
    BY DEF AbsOutcome, OutcomeOf
  <1>4. AbsAsked \in [Client -> Invoice]
    BY DEF AbsAsked
  <1> QED
    BY <1>1, <1>2, <1>3, <1>4
       DEF Delivery!Init, AbsAccepted, AbsRefused, AbsAsked, AbsOutcome

(* The requests of the services implement what InvoiceDelivery promises to *)
(* a caller: a status request reports no verdict that KSeF has not reached *)
(* on the invoice it asks about, whatever runs between its steps           *)
(* (status_service.py:126-158).                                            *)
THEOREM DeliveryImplemented == Spec => ImplementsDelivery
  BY InitRefines, InitIInv, NextIInv, CallInvInductive, StepRefines, PTL
     DEF Spec, ImplementsDelivery, Delivery!Spec
=============================================================================
