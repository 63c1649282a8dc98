----------------------------- MODULE AuthContext -----------------------------
(***************************************************************************)
(* The workflows that authenticate (AuthenticateToMfWorkflow, and the      *)
(* ensure step of a submission) and refresh (RefreshAuthContextWorkflow),  *)
(* and the activities of AuthActivities they run on the stored             *)
(* authentication context of one company.                                  *)
(*                                                                         *)
(* An activity runs at least once: an attempt that fails is followed by    *)
(* another, and one that is given up at its start-to-close timeout, or     *)
(* whose worker is cut off, goes on beside its successor.                  *)
(***************************************************************************)
EXTENDS KsefAuth, Integers, FiniteSets

CONSTANTS
    Execution,
    MaxAttempts,        \* maximum_attempts of DEFAULT_ACTIVITY_RETRY_POLICY
    MaxStatusPolls,     \* MAX_STATUS_POLLS
    PollInterval,       \* POLL_INTERVAL_SECONDS
    Timeout,            \* MEDIUM_ACTIVITY_TIMEOUT
    MaxLate             \* bound of the model: given-up attempts under way

ASSUME ContextAssumption ==
    /\ MaxAttempts \in Nat \ {0} /\ MaxStatusPolls \in Nat
    /\ PollInterval \in Nat /\ Timeout \in Nat /\ MaxLate \in Nat

(* 40 polls, 3 seconds apart, within 2 minutes.                            *)
ASSUME TimeoutAssumption == MaxStatusPolls * PollInterval >= Timeout

Attempt == Execution \X (1 .. MaxAttempts)

VARIABLES
    ctx,            \* the stored context, NoContext if there is none
    stored,         \* the logins that have been stored in it
    lapsed,         \* logins whose refresh_token_valid_until has passed
    kind,           \* kind[w]: the activity execution w runs
    outcome,        \* outcome[w]: what became of w
    current,        \* current[w]: the number of its last attempt
    pc,             \* pc[a]: the next await of attempt a
    polls,          \* polls[a]: status polls so far
    held,           \* held[a]: the login whose refresh token a has at hand
    token           \* token[a]: the access token a has at hand

contextVars   == <<ctx, stored, lapsed>>
executionVars == <<kind, outcome, current>>
attemptVars   == <<pc, polls, held, token>>
vars          == <<ksefVars, contextVars, executionVars, attemptVars>>

Context   == [access : Token, refresh : Login]
NoContext == [access |-> None, refresh |-> None]

(* The error types that the retry policy or their own flag makes final.    *)
FinalError == {"AuthenticationFailed", "AuthenticationTimeout",
               "UnsupportedAuthMode", "AuthContextNotFound"}
Outcome == {"idle", "running", "completed", "attempts_exhausted"}
           \cup FinalError
Step == {"idle", "load", "init", "poll", "redeem", "create", "refresh",
         "update", "answered", "stopped"}

TypeOK ==
    /\ KsefTypeOK
    /\ ctx     \in Context \cup {NoContext}
    /\ stored  \subseteq Login
    /\ lapsed  \subseteq Login
    /\ kind    \in [Execution -> {"none", "ensure", "refresh"}]
    /\ outcome \in [Execution -> Outcome]
    /\ current \in [Execution -> 0 .. MaxAttempts]
    /\ pc      \in [Attempt -> Step]
    /\ polls   \in [Attempt -> 0 .. MaxStatusPolls]
    /\ held    \in [Attempt -> Login \cup {None}]
    /\ token   \in [Attempt -> Token \cup {None}]

Init ==
    /\ KsefInit
    /\ ctx     = NoContext
    /\ stored  = {}
    /\ lapsed  = {}
    /\ kind    = [w \in Execution |-> "none"]
    /\ outcome = [w \in Execution |-> "idle"]
    /\ current = [w \in Execution |-> 0]
    /\ pc      = [a \in Attempt |-> "idle"]
    /\ polls   = [a \in Attempt |-> 0]
    /\ held    = [a \in Attempt |-> None]
    /\ token   = [a \in Attempt |-> None]

(***************************************************************************)
(* The workflow and its attempts                                           *)
(***************************************************************************)

Running(w) == outcome[w] = "running"

(* The attempt whose answer the workflow waits for.                        *)
Awaited(a) == Running(a[1]) /\ current[a[1]] = a[2]

(* An attempt that has slept as long as its timeout has been given up.     *)
InTime(a) == Awaited(a) => polls[a] * PollInterval < Timeout

At(a, step) == pc[a] = step /\ InTime(a)

Goto(a, step) == pc' = [pc EXCEPT ![a] = step]

(* Mutant: one attempt more than there may be.                             *)
NextAttemptOffByOne(w, moved) ==
    /\ current[w] <= MaxAttempts
    /\ current' = [current EXCEPT ![w] = @ + 1]
    /\ pc' = [moved EXCEPT ![<<w, current[w] + 1>>] = "load"]
    /\ UNCHANGED outcome

(* The last attempt of w has come to nothing: the next one, if there is    *)
(* one; moved is pc after what this attempt did.                           *)
NextAttempt(w, moved) ==
    IF current[w] < MaxAttempts
    THEN /\ current' = [current EXCEPT ![w] = @ + 1]
         /\ pc' = [moved EXCEPT ![<<w, current[w] + 1>>] = "load"]
         /\ UNCHANGED outcome
    ELSE /\ outcome' = [outcome EXCEPT ![w] = "attempts_exhausted"]
         /\ pc' = moved
         /\ UNCHANGED current

(* Attempt a ends with an error that is retried, a crash of its worker     *)
(* included.                                                               *)
Fail(a) ==
    LET moved == [pc EXCEPT ![a] = "stopped"] IN
    IF Awaited(a) THEN NextAttempt(a[1], moved)
    ELSE pc' = moved /\ UNCHANGED <<outcome, current>>

(* Attempt a ends with outcome o, which is final if somebody waits for it. *)
End(a, step, o) ==
    /\ Goto(a, step)
    /\ outcome' = IF Awaited(a) THEN [outcome EXCEPT ![a[1]] = o] ELSE outcome
    /\ UNCHANGED current

Answer(a)     == End(a, "answered", "completed")
Refuse(a, e)  == End(a, "stopped", e)

(* A call goes through and attempt a goes on, or fails after it.           *)
Answered(a, step) ==
    \/ Goto(a, step) /\ UNCHANGED <<outcome, current>>
    \/ Fail(a)

Start(w, k) ==
    /\ outcome[w] = "idle"
    /\ kind'    = [kind EXCEPT ![w] = k]
    /\ outcome' = [outcome EXCEPT ![w] = "running"]
    /\ current' = [current EXCEPT ![w] = 1]
    /\ Goto(<<w, 1>>, "load")
    /\ UNCHANGED <<ksefVars, contextVars, polls, held, token>>

Active(a) == pc[a] \notin {"idle", "answered", "stopped"}

GivenUp == {a \in Attempt : Active(a) /\ ~Awaited(a)}

(* The attempt under way is given up; it goes on all the same.             *)
GiveUp(w) ==
    /\ Running(w) /\ Cardinality(GivenUp) < MaxLate
    /\ NextAttempt(w, pc)
    /\ UNCHANGED <<ksefVars, contextVars, kind, polls, held, token>>

AttemptFails(a) ==
    /\ Active(a) /\ InTime(a)
    /\ Fail(a)
    /\ UNCHANGED <<ksefVars, contextVars, kind, polls, held, token>>

(***************************************************************************)
(* ensure_auth_context and refresh_auth_context                            *)
(***************************************************************************)

(* "expired" stands for validUntil less REFRESH_SAFETY_WINDOW.             *)
HasValidAccessToken == ctx # NoContext /\ ctx.access \notin expired
CanRefresh          == ctx # NoContext /\ ctx.refresh \notin lapsed

(* Mutant: an attempt that cannot refresh at once logs in.                 *)
LoadContextOrLogin(a) ==
    /\ At(a, "load")
    /\ kind[a[1]] = "ensure" /\ ~HasValidAccessToken
    /\ Goto(a, "init")
    /\ UNCHANGED <<ksefVars, contextVars, kind, outcome, current, polls, held,
                   token>>

(* The context is loaded and the way to go chosen.  Only ensure answers    *)
(* with the access token that is stored; refresh always asks for another,  *)
(* and finds its context or ends.  KSeF's answer to a redeem requires a    *)
(* refresh token, so a context has one (RefreshTokenMissing is not raised).*)
LoadContext(a) ==
    /\ At(a, "load")
    /\ \/ /\ kind[a[1]] = "ensure" /\ HasValidAccessToken
          /\ Answer(a) /\ UNCHANGED held
       \/ /\ IF kind[a[1]] = "ensure" THEN CanRefresh /\ ~HasValidAccessToken
                                       ELSE ctx # NoContext
          /\ held' = [held EXCEPT ![a] = ctx.refresh]
          /\ Goto(a, "refresh") /\ UNCHANGED <<outcome, current>>
       \/ /\ kind[a[1]] = "ensure" /\ ~HasValidAccessToken /\ ~CanRefresh
          /\ Goto(a, "init") /\ UNCHANGED <<held, outcome, current>>
       \/ /\ kind[a[1]] = "refresh" /\ ctx = NoContext
          /\ Refuse(a, "AuthContextNotFound") /\ UNCHANGED held
    /\ UNCHANGED <<ksefVars, contextVars, kind, polls, token>>

(* Challenge, credentials and the call that begins the authentication.     *)
InitAuth(a, l) ==
    /\ At(a, "init")
    /\ BeginLogin(l)
    /\ held' = [held EXCEPT ![a] = l]
    /\ Answered(a, "poll")
    /\ UNCHANGED <<issued, expired, contextVars, kind, polls, token>>

UnsupportedAuthMode(a) ==
    /\ At(a, "init")
    /\ Refuse(a, "UnsupportedAuthMode")
    /\ UNCHANGED <<ksefVars, contextVars, kind, polls, held, token>>

(* Mutant: the loop ends one round early.                                  *)
PollOnceLess(a) ==
    /\ At(a, "poll")
    /\ polls[a] + 1 = MaxStatusPolls
    /\ Refuse(a, "AuthenticationTimeout")
    /\ UNCHANGED <<ksefVars, contextVars, kind, polls, held, token>>

(* One round of _wait_for_auth_terminal_status, its sleep included; the    *)
(* last one is the error at the end of the loop.                           *)
PollAuthStatus(a) ==
    /\ At(a, "poll")
    /\ \/ /\ polls[a] = MaxStatusPolls
          /\ Refuse(a, "AuthenticationTimeout")
          /\ UNCHANGED polls
       \/ /\ polls[a] < MaxStatusPolls
          /\ CASE LoginCode(held[a]) = 100 ->
                    /\ polls' = [polls EXCEPT ![a] = @ + 1]
                    /\ UNCHANGED <<pc, outcome, current>>
               [] LoginCode(held[a]) = 200 ->
                    /\ Goto(a, "redeem")
                    /\ UNCHANGED <<polls, outcome, current>>
               [] OTHER ->
                    /\ Refuse(a, "AuthenticationFailed")
                    /\ UNCHANGED polls
    /\ UNCHANGED <<ksefVars, contextVars, kind, held, token>>

RedeemAccessTokens(a, t) ==
    /\ At(a, "redeem")
    /\ Redeem(held[a], t)
    /\ token' = [token EXCEPT ![a] = t]
    /\ Answered(a, "create")
    /\ UNCHANGED <<expired, contextVars, kind, polls, held>>

(* Mutant: the attempt answers although the write has failed.              *)
CreateOrIgnore(a) ==
    /\ At(a, "create")
    /\ Answer(a)
    /\ UNCHANGED <<ksefVars, contextVars, kind, polls, held, token>>

(* Mutant: of a context that exists only the access token is replaced.     *)
CreateOrUpdate(a) ==
    /\ At(a, "create")
    /\ ctx' = IF ctx = NoContext THEN [access |-> token[a], refresh |-> held[a]]
              ELSE [ctx EXCEPT !.access = token[a]]
    /\ stored' = stored \cup {held[a]}
    /\ Answer(a)
    /\ UNCHANGED <<ksefVars, lapsed, kind, polls, held, token>>

(* The end of ensure_auth_context, or a failure after the write.           *)
CreateOrReplaceContext(a) ==
    /\ At(a, "create")
    /\ ctx'    = [access |-> token[a], refresh |-> held[a]]
    /\ stored' = stored \cup {held[a]}
    /\ Answer(a) \/ Fail(a)
    /\ UNCHANGED <<ksefVars, lapsed, kind, polls, held, token>>

RefreshAccessToken(a, t) ==
    /\ At(a, "refresh")
    /\ held[a] \notin lapsed
    /\ Refresh(held[a], t)
    /\ token' = [token EXCEPT ![a] = t]
    /\ Answered(a, "update")
    /\ UNCHANGED <<expired, contextVars, kind, polls, held>>

(* update_auth_context_tokens writes the access token of the context.      *)
UpdateContextTokens(a) ==
    /\ At(a, "update")
    /\ ctx' = [ctx EXCEPT !.access = token[a]]
    /\ Answer(a) \/ Fail(a)
    /\ UNCHANGED <<ksefVars, stored, lapsed, kind, polls, held, token>>

AttemptStep(a) ==
    \/ LoadContext(a)
    \/ \E l \in Login : InitAuth(a, l)
    \/ UnsupportedAuthMode(a)
    \/ PollAuthStatus(a)
    \/ \E t \in Token : RedeemAccessTokens(a, t)
    \/ CreateOrReplaceContext(a)
    \/ \E t \in Token : RefreshAccessToken(a, t)
    \/ UpdateContextTokens(a)
    \/ AttemptFails(a)

ExecutionStep(w) ==
    \/ GiveUp(w)
    \/ \E n \in 1 .. MaxAttempts : AttemptStep(<<w, n>>)

(* A login is revoked: by its owner at KSeF, or by AuthService.            *)
LoginRevoked(l) ==
    /\ Revoke(l)
    /\ UNCHANGED <<issued, expired, lapsed>>

(* A refresh token that has been stored reaches its validUntil.            *)
RefreshLapses(l) ==
    /\ l \in stored /\ l \notin lapsed
    /\ lapsed' = lapsed \cup {l}
    /\ UNCHANGED ksefVars

Outside ==
    \/ KsefStep /\ UNCHANGED lapsed
    \/ \E l \in Login : LoginRevoked(l) \/ RefreshLapses(l)

Next ==
    \/ \E w \in Execution, k \in {"ensure", "refresh"} : Start(w, k)
    \/ \E w \in Execution : ExecutionStep(w)
    \/ Outside /\ UNCHANGED <<ctx, stored, executionVars, attemptVars>>

Spec == Init /\ [][Next]_vars

(***************************************************************************)
(* Properties                                                              *)
(***************************************************************************)

(* KSeF hands out the tokens of a login once.  They are lost only with an  *)
(* attempt that stopped after it had redeemed them: whoever got an answer  *)
(* has them in the context.                                                *)
RedeemedIsStoredOrLost ==
    \A l \in Login : login[l] = "redeemed" /\ l \notin stored =>
        \E a \in Attempt : held[a] = l /\ pc[a] \in {"create", "stopped"}

(* The access token and the refresh token of a context are of one login.   *)
Coherent(x) == x = NoContext \/ issued[x.access] = x.refresh

(* They cease to be only by the update of an attempt that had refreshed    *)
(* another context than the one it updates.                                *)
MixedOnlyByLateUpdate ==
    [][Coherent(ctx) /\ ~Coherent(ctx)' =>
         \E a \in Attempt : pc[a] = "update" /\ held[a] # ctx.refresh]_vars

(* No execution ends with AuthenticationTimeout: the attempt that polls to *)
(* the end of its loop has been given up by then and another one begun.    *)
TimeoutErrorUnheard ==
    \A w \in Execution : outcome[w] # "AuthenticationTimeout"

(* The refresh token of the context is of a revoked login, and no attempt  *)
(* is past its load, unless to refresh this very token.                    *)
Trapped ==
    /\ ctx # NoContext /\ login[ctx.refresh] = "revoked"
    /\ ctx.refresh \notin lapsed
    /\ \A a \in Attempt : \/ pc[a] \in {"idle", "load", "answered", "stopped"}
                          \/ pc[a] = "refresh" /\ held[a] = ctx.refresh

(* ensure_auth_context never logs in while it believes it can refresh:     *)
(* such a context stays, whatever is started, until its refresh token      *)
(* lapses.                                                                 *)
RevokedContextStays ==
    [][Trapped /\ lapsed' = lapsed => Trapped' /\ ctx' = ctx]_vars
=============================================================================
