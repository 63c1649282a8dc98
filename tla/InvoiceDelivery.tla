--------------------------- MODULE InvoiceDelivery ---------------------------
(***************************************************************************)
(* What the caller of an online submission, or of a status request, is     *)
(* promised, without rows, sessions, attempts or polling: KSeF reaches     *)
(* verdicts on invoices, and each call is about one invoice and gives one  *)
(* answer, which is never taken back and never claims a verdict that KSeF  *)
(* has not reached.                                                        *)
(***************************************************************************)
CONSTANTS Client, Invoice

VARIABLES
    accepted,       \* invoices KSeF has accepted
    refused,        \* invoices of which KSeF has refused some copy
    asked,          \* asked[w]: the invoice call w is about
    outcome         \* outcome[w]: the answer of call w

deliveryVars == <<accepted, refused, asked, outcome>>

(* "unknown" is an answer that makes no claim on what KSeF did.            *)
Answer  == {"delivered", "refused", "unknown"}
Outcome == {"idle", "running"} \cup Answer

Init ==
    /\ accepted = {}
    /\ refused  = {}
    /\ asked \in [Client -> Invoice]
    /\ outcome  = [w \in Client |-> "idle"]

Begin(w) ==
    /\ outcome[w] = "idle"
    /\ outcome' = [outcome EXCEPT ![w] = "running"]
    /\ \E i \in Invoice : asked' = [asked EXCEPT ![w] = i]
    /\ UNCHANGED <<accepted, refused>>

GiveAnswer(w) ==
    /\ outcome[w] = "running"
    /\ \E a \in Answer :
         /\ a = "delivered" => asked[w] \in accepted
         /\ a = "refused"   => asked[w] \in refused
         /\ outcome' = [outcome EXCEPT ![w] = a]
    /\ UNCHANGED <<accepted, refused, asked>>

Verdict(i) ==
    /\ \/ /\ i \notin accepted
          /\ accepted' = accepted \cup {i}
          /\ UNCHANGED refused
       \/ /\ refused' = refused \cup {i}
          /\ UNCHANGED accepted
    /\ UNCHANGED <<asked, outcome>>

Next ==
    \/ \E w \in Client : Begin(w) \/ GiveAnswer(w)
    \/ \E i \in Invoice : Verdict(i)

Spec == Init /\ [][Next]_deliveryVars
=============================================================================
