------------------------------ MODULE KsefClient ------------------------------
(***************************************************************************)
(* BaseHttpClient and KsefHttpClient: what a caller learns from a call.    *)
(*                                                                         *)
(* A reply is [kind, status, body, fields]: kind tells a response from a   *)
(* timeout and from another transport error; body is "empty", "invalid"    *)
(* (not JSON), "list" (JSON, but no object) or "object", which has fields. *)
(* A token of KSeF is an object itself.  Redirects are not among what KSeF *)
(* answers.                                                                *)
(***************************************************************************)
EXTENDS Integers, Sequences

CONSTANT None       \* what payload.get returns for a field that is missing

JsonCall ==
    {"get_challenge", "init_auth", "get_auth_status", "redeem_token",
     "refresh_token", "open_session", "send_invoice", "get_session_status",
     "get_invoice_status"}
NoContentCall == {"revoke_current_auth", "close_session"}
TextCall      == {"download_upo"}

NoFields     == << >>
Get(p, k)    == IF k \in DOMAIN p THEN p[k] ELSE None
GetNode(p, k) == IF k \in DOMAIN p THEN p[k] ELSE NoFields

(* KsefTransportError, and KsefApiError with the status in its details.    *)
TransportError  == [result |-> "transport_error"]
ApiError(reply) == [result |-> "api_error", status |-> reply.status]
Answer(x)       == [result |-> "answer", value |-> x]

(* Mutant: 400 is not taken for an error.                                  *)
RequestAbove400(reply, After) ==
    CASE reply.kind # "response" -> TransportError
      [] reply.kind = "response" /\ reply.status > 400 -> ApiError(reply)
      [] OTHER -> After

(* _request, for a response that is not an error goes on with After.       *)
Request(reply, After) ==
    CASE reply.kind # "response" -> TransportError
      [] reply.kind = "response" /\ reply.status >= 400 -> ApiError(reply)
      [] OTHER -> After

(* _parse_json_response: no content is an empty object.                    *)
ParseJson(reply, Normalized) ==
    IF reply.status = 204 \/ reply.body \in {"empty", "object"}
    THEN Answer(Normalized) ELSE ApiError(reply)

(* post_no_content, delete_no_content                                      *)
NoContent(reply) ==
    IF reply.status \in {200, 202, 204} THEN Answer(None) ELSE ApiError(reply)

-----------------------------------------------------------------------------
(***************************************************************************)
(* The normalisation of what comes back                                    *)
(***************************************************************************)

NormalizeChallenge(p) == [challenge |-> Get(p, "challenge")]

NormalizeAuthInit(p) ==
    [reference_number     |-> Get(p, "referenceNumber"),
     authentication_token |-> Get(GetNode(p, "authenticationToken"), "token")]

NormalizeAuthStatus(p) == [status_code |-> Get(GetNode(p, "status"), "code")]

NormalizeAuthTokens(p) ==
    [access_token  |-> Get(GetNode(p, "accessToken"), "token"),
     refresh_token |-> Get(GetNode(p, "refreshToken"), "token")]

(* KSeF returns an access token only; the refresh token stays.             *)
NormalizeRefresh(p, refresh_token) ==
    [NormalizeAuthTokens(p) EXCEPT !.refresh_token = refresh_token]

(* _normalize_open_session, _normalize_send_invoice                        *)
NormalizeReference(p) == [reference_number |-> Get(p, "referenceNumber")]

NormalizeSessionStatus(p) ==
    LET pages == Get(GetNode(p, "upo"), "pages") IN
    [status_code   |-> Get(GetNode(p, "status"), "code"),
     invoice_count |-> Get(p, "invoiceCount"),
     upo_available |-> pages # None /\ pages # << >>,
     upo_reference_number |->
        IF pages = None \/ pages = << >> THEN None
        ELSE Get(pages[1], "referenceNumber")]

NormalizeInvoiceStatus(p) ==
    [status_code |-> Get(GetNode(p, "status"), "code"),
     reference_number |-> Get(p, "referenceNumber")]

Normalize(call, p, refresh_token) ==
    CASE call = "get_challenge"      -> NormalizeChallenge(p)
      [] call = "init_auth"          -> NormalizeAuthInit(p)
      [] call = "get_auth_status"    -> NormalizeAuthStatus(p)
      [] call = "redeem_token"       -> NormalizeAuthTokens(p)
      [] call = "refresh_token"      -> NormalizeRefresh(p, refresh_token)
      [] call \in {"open_session", "send_invoice"} -> NormalizeReference(p)
      [] call = "get_session_status" -> NormalizeSessionStatus(p)
      [] call = "get_invoice_status" -> NormalizeInvoiceStatus(p)

(* The fields of a reply that is read as JSON.                             *)
Payload(reply) ==
    IF reply.status # 204 /\ reply.body = "object" THEN reply.fields
                                                   ELSE NoFields

(* A method of KsefHttpClient.                                             *)
Call(call, reply, refresh_token) ==
    Request(reply,
        CASE call \in JsonCall ->
               ParseJson(reply, Normalize(call, Payload(reply), refresh_token))
          [] call \in NoContentCall -> NoContent(reply)
          [] call \in TextCall      -> Answer([upo_content |-> reply.body]))

-----------------------------------------------------------------------------
(***************************************************************************)
(* What a caller may conclude                                              *)
(***************************************************************************)

(* An answer that is more than the absence of an error: a token, a         *)
(* reference or a status that only KSeF can have given.                    *)
IsEvidence(call, answer) ==
    CASE call \in {"open_session", "send_invoice"} -> answer.reference_number # None
      [] call = "init_auth"    -> answer.authentication_token # None
      [] call \in {"redeem_token", "refresh_token"} -> answer.access_token # None
      [] call \in {"get_auth_status", "get_session_status",
                   "get_invoice_status"} -> answer.status_code # None
      [] call = "get_challenge" -> answer.challenge # None
      [] OTHER -> TRUE

(* done tells whether KSeF carried the call out.  The caller can rely on   *)
(* an answer with evidence, and on an error that carries a status of KSeF: *)
(* 4xx says that nothing was done, 2xx that it was (but the answer could   *)
(* not be read).  Only transport errors, 5xx, and answers without evidence *)
(* leave it open.                                                          *)
OutcomeIsTrue(call, done, reply, refresh_token) ==
    LET outcome == Call(call, reply, refresh_token) IN
    /\ outcome.result = "answer" /\ IsEvidence(call, outcome.value) => done
    /\ outcome.result = "api_error" =>
         /\ outcome.status \in 400 .. 499 => ~done
         /\ outcome.status \in 200 .. 299 => done
    /\ outcome.result = "answer" /\ call = "refresh_token" =>
         outcome.value.refresh_token = refresh_token
=============================================================================
