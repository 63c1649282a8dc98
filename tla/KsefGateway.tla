----------------------------- MODULE KsefGateway -----------------------------
(***************************************************************************)
(* KSeF, the national e-invoicing service, as the application sees it:     *)
(* interactive sessions and the documents sent in them.  The service is    *)
(* outside the repository; what is modelled is what the code calls and     *)
(* what _docs/ksef-2.0-open-api.json says of those calls:                  *)
(*   - POST /sessions/online opens a new session on every call;            *)
(*   - POST /sessions/online/{ref}/close and .../invoices are refused      *)
(*     (21180) unless the session is open;                                 *)
(*   - every accepted POST of an invoice gives it a new reference, and     *)
(*     the second copy of an invoice ends with code 440 (duplicate);       *)
(*   - an open session ends by itself at its validUntil.                   *)
(***************************************************************************)
EXTENDS Naturals

CONSTANTS
    SessionRef,     \* reference numbers KSeF may give to sessions
    DocRef,         \* reference numbers KSeF may give to received documents
    Client,         \* the callers: one workflow execution each
    Invoice,        \* invoices, as their content (what 440 compares)
    None            \* no value

ASSUME NoneAssumption ==
    None \notin SessionRef \cup DocRef \cup Client \cup Invoice \cup Nat

VARIABLES
    session,        \* session[s]: what became of session s
    opener,         \* opener[s]: the caller that opened s
    doc,            \* doc[d]: what became of document d
    docSession,     \* docSession[d]: the session d was sent in
    docSender,      \* docSender[d]: the caller that sent d
    docInvoice      \* docInvoice[d]: the invoice d is a copy of

gatewayVars == <<session, opener, doc, docSession, docSender, docInvoice>>
sessionVars == <<session, opener>>
docVars     == <<doc, docSession, docSender, docInvoice>>

SessionState == {"unused", "open", "closed"}
DocState     == {"unused", "received", "accepted", "rejected", "duplicate"}

GatewayTypeOK ==
    /\ session    \in [SessionRef -> SessionState]
    /\ opener     \in [SessionRef -> Client \cup {None}]
    /\ doc        \in [DocRef -> DocState]
    /\ docSession \in [DocRef -> SessionRef \cup {None}]
    /\ docSender  \in [DocRef -> Client \cup {None}]
    /\ docInvoice \in [DocRef -> Invoice \cup {None}]

GatewayInit ==
    /\ session    = [s \in SessionRef |-> "unused"]
    /\ opener     = [s \in SessionRef |-> None]
    /\ doc        = [d \in DocRef |-> "unused"]
    /\ docSession = [d \in DocRef |-> None]
    /\ docSender  = [d \in DocRef |-> None]
    /\ docInvoice = [d \in DocRef |-> None]

(* POST /sessions/online by caller c; s is the reference in the answer.    *)
OpenSession(c, s) ==
    /\ session[s] = "unused"
    /\ session' = [session EXCEPT ![s] = "open"]
    /\ opener'  = [opener  EXCEPT ![s] = c]

(* POST /sessions/online/{s}/close.                                        *)
CloseSession(s) ==
    /\ session[s] = "open"
    /\ session' = [session EXCEPT ![s] = "closed"]
    /\ UNCHANGED opener

(* POST /sessions/online/{s}/invoices: invoice i is taken in as document d.*)
ReceiveDoc(c, s, i, d) ==
    /\ session[s] = "open"
    /\ doc[d] = "unused"
    /\ doc'        = [doc        EXCEPT ![d] = "received"]
    /\ docSession' = [docSession EXCEPT ![d] = s]
    /\ docSender'  = [docSender  EXCEPT ![d] = c]
    /\ docInvoice' = [docInvoice EXCEPT ![d] = i]

(* Some copy of document d's invoice has been accepted.                    *)
AcceptedCopy(d) ==
    \E e \in DocRef : doc[e] = "accepted" /\ docInvoice[e] = docInvoice[d]

(* KSeF reaches its verdict on a document: a further copy of an invoice it *)
(* has accepted is never accepted again.                                   *)
JudgeDoc(d) ==
    /\ doc[d] = "received"
    /\ \E verdict \in {"accepted", "rejected", "duplicate"} :
         /\ verdict = "accepted"  => ~AcceptedCopy(d)
         /\ verdict = "duplicate" => AcceptedCopy(d)
         /\ doc' = [doc EXCEPT ![d] = verdict]
    /\ UNCHANGED <<docSession, docSender, docInvoice, sessionVars>>

(* A session reaches its validUntil.                                       *)
ExpireSession(s) ==
    /\ CloseSession(s)
    /\ UNCHANGED docVars

GatewayStep ==
    \/ \E d \in DocRef : JudgeDoc(d)
    \/ \E s \in SessionRef : ExpireSession(s)

(* The invoices of which a document is in one of these states.             *)
InvoicesWith(states) == {docInvoice[d] : d \in {e \in DocRef : doc[e] \in states}}

(* The status code that the contract has for document d, reduced to what   *)
(* the callers tell apart: 150 while it is processed, 200, 440, or 430 for *)
(* every other refusal.                                                    *)
StatusCode(d) ==
    CASE doc[d] = "accepted"  -> 200
      [] doc[d] = "rejected"  -> 430
      [] doc[d] = "duplicate" -> 440
      [] OTHER                -> 150

(* A code of a document in process that the contract does not list.        *)
UnlistedCode == 160

(* The codes that GET .../invoices/{d} may bring.  An empty 2xx body is an *)
(* answer too (base_client.py:235), and has no code.                       *)
StatusCodes(d) ==
    {StatusCode(d), None} \cup {c \in {UnlistedCode} : doc[d] = "received"}
=============================================================================
