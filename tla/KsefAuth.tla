------------------------------ MODULE KsefAuth ------------------------------
(***************************************************************************)
(* Authentication at KSeF, as the application sees it.  The service is     *)
(* outside the repository; what is modelled is what the code calls and     *)
(* what _docs/ksef-2.0-open-api.json says of those calls:                  *)
(*   - an operation begun by /auth/ksef-token or /auth/xades-signature     *)
(*     answers 100 until KSeF has judged it, then 200 or another code;     *)
(*   - the tokens of an operation can be fetched only once;                *)
(*   - a refresh token buys new access tokens until it is invalidated by   *)
(*     DELETE /auth/sessions/current; access tokens already issued go on   *)
(*     working until they expire.                                          *)
(* A login is one such operation and what follows from it; it stands for   *)
(* its own refresh token.                                                  *)
(***************************************************************************)

CONSTANTS
    Login,          \* authentication operations KSeF may begin
    Token,          \* access tokens KSeF may issue
    None            \* no value

ASSUME LoginAssumption == None \notin Login \cup Token

VARIABLES
    login,          \* login[l]: what became of operation l
    issued,         \* issued[t]: the login token t was issued for
    expired         \* access tokens past their validUntil

ksefVars == <<login, issued, expired>>

LoginState == {"unused", "pending", "ok", "refused", "redeemed", "revoked"}

KsefTypeOK ==
    /\ login   \in [Login -> LoginState]
    /\ issued  \in [Token -> Login \cup {None}]
    /\ expired \subseteq Token

KsefInit ==
    /\ login   = [l \in Login |-> "unused"]
    /\ issued  = [t \in Token |-> None]
    /\ expired = {}

(* POST /auth/ksef-token or /auth/xades-signature; l is the operation.     *)
BeginLogin(l) ==
    /\ login[l] = "unused"
    /\ login' = [login EXCEPT ![l] = "pending"]

(* KSeF reaches its verdict on an authentication operation.                *)
JudgeLogin(l) ==
    /\ login[l] = "pending"
    /\ \E verdict \in {"ok", "refused"} :
         login' = [login EXCEPT ![l] = verdict]
    /\ UNCHANGED <<issued, expired>>

(* The status code of GET /auth/{l}: 200 also once the tokens are fetched. *)
LoginCode(l) ==
    CASE login[l] = "pending" -> 100
      [] login[l] = "refused" -> 450
      [] OTHER                -> 200

IssueToken(l, t) ==
    /\ issued[t] = None
    /\ issued' = [issued EXCEPT ![t] = l]

(* POST /auth/token/redeem: access token t and the refresh token of l.     *)
Redeem(l, t) ==
    /\ login[l] = "ok"
    /\ login' = [login EXCEPT ![l] = "redeemed"]
    /\ IssueToken(l, t)

(* POST /auth/token/refresh with the refresh token of l.                   *)
Refresh(l, t) ==
    /\ login[l] = "redeemed"
    /\ IssueToken(l, t)
    /\ UNCHANGED login

(* DELETE /auth/sessions/current with the refresh token of l.              *)
Revoke(l) ==
    /\ login[l] = "redeemed"
    /\ login' = [login EXCEPT ![l] = "revoked"]

ExpireToken(t) ==
    /\ issued[t] # None /\ t \notin expired
    /\ expired' = expired \cup {t}
    /\ UNCHANGED <<login, issued>>

KsefStep ==
    \/ \E l \in Login : JudgeLogin(l)
    \/ \E t \in Token : ExpireToken(t)
=============================================================================
