-------------------------- MODULE AuthContextProofs --------------------------
(***************************************************************************)
(* What holds of the stored authentication context for any number of       *)
(* executions, attempts, logins and access tokens, however many attempts   *)
(* that have been given up are still under way.                            *)
(***************************************************************************)
EXTENDS AuthContext, FiniteSetTheorems, TLAPS

USE LoginAssumption, ContextAssumption

(* An attempt not begun is idle, and an execution not begun has none.      *)
Flow ==
    /\ outcome \in [Execution -> Outcome]
    /\ current \in [Execution -> 0 .. MaxAttempts]
    /\ pc      \in [Attempt -> Step]
    /\ \A w \in Execution : outcome[w] = "idle" => current[w] = 0
    /\ \A a \in Attempt : a[2] > current[a[1]] => pc[a] = "idle"

(* An attempt has at hand what its next call needs: a login, and a token   *)
(* KSeF has issued for it.  A context is updated only where there is one.  *)
Hand(a) ==
    /\ pc[a] \in {"poll", "redeem", "refresh", "create", "update"} =>
         held[a] \in Login
    /\ pc[a] \in {"create", "update"} =>
         token[a] \in Token /\ issued[token[a]] = held[a]
    /\ pc[a] \in {"refresh", "update"} => ctx # NoContext

Hands == \A a \in Attempt : Hand(a)

IInv == TypeOK /\ Flow /\ Hands /\ RedeemedIsStoredOrLost

(* Attempt a is at step; another may have been begun.                      *)
Moves(a, step) ==
    /\ pc'[a] = step
    /\ \A b \in Attempt \ {a} :
         pc'[b] = pc[b] \/ (pc[b] = "idle" /\ pc'[b] = "load")

(* No execution but that of a has ended, and that with outcome o.          *)
Ends(a, o) ==
    \A w \in Execution : outcome'[w] = outcome[w] \/ (w = a[1] /\ outcome'[w] = o)

-----------------------------------------------------------------------------
LEMMA AttemptPairs ==
    ASSUME NEW a \in Attempt
    PROVE  /\ a[1] \in Execution /\ a[2] \in 1 .. MaxAttempts
           /\ a = <<a[1], a[2]>>
  BY DEF Attempt

LEMMA NextAttemptFlow ==
    ASSUME Flow, NEW w \in Execution, Running(w), NEW moved \in [Attempt -> Step],
           \A b \in Attempt : b[2] > current[b[1]] => moved[b] = "idle",
           NextAttempt(w, moved)
    PROVE  /\ Flow'
           /\ \A b \in Attempt :
                pc'[b] = moved[b] \/ (moved[b] = "idle" /\ pc'[b] = "load")
           /\ \A v \in Execution :
                outcome'[v] = outcome[v] \/ (v = w /\ outcome'[v] = "attempts_exhausted")
  <1>1. CASE current[w] < MaxAttempts
    <2>. DEFINE n == <<w, current[w] + 1>>
    <2>1. n \in Attempt /\ n[1] = w /\ n[2] = current[w] + 1
      BY <1>1 DEF Flow, Attempt
    <2>2. /\ current' = [current EXCEPT ![w] = @ + 1]
          /\ pc' = [moved EXCEPT ![n] = "load"] /\ outcome' = outcome
      BY <1>1 DEF NextAttempt
    <2>3. moved[n] = "idle"
      BY <2>1 DEF Flow
    <2>4. current' \in [Execution -> 0 .. MaxAttempts]
      BY <1>1, <2>2 DEF Flow
    <2>5. pc' \in [Attempt -> Step]
      BY <2>1, <2>2 DEF Step
    <2>6. ASSUME NEW b \in Attempt, b[2] > current'[b[1]] PROVE pc'[b] = "idle"
      <3>1. b[1] \in Execution /\ b[2] \in Int /\ current[b[1]] \in Int
        BY AttemptPairs DEF Flow
      <3>2. b[2] > current[b[1]] /\ b # n
        BY <2>1, <2>2, <2>6, <3>1 DEF Flow
      <3>. QED BY <2>2, <3>2
    <2>7. \A v \in Execution : outcome'[v] = "idle" => current'[v] = 0
      BY <2>2 DEF Flow, Running
    <2>. QED BY <2>1, <2>2, <2>3, <2>4, <2>5, <2>6, <2>7 DEF Flow
  <1>2. CASE ~(current[w] < MaxAttempts)
    <2>1. /\ outcome' = [outcome EXCEPT ![w] = "attempts_exhausted"]
          /\ pc' = moved /\ current' = current
      BY <1>2 DEF NextAttempt
    <2>. QED BY <2>1 DEF Flow, Outcome
  <1>. QED BY <1>1, <1>2

LEMMA GotoFlow ==
    ASSUME Flow, NEW a \in Attempt, pc[a] # "idle", NEW step \in Step,
           Goto(a, step), UNCHANGED <<outcome, current>>
    PROVE  Flow' /\ Moves(a, step)
  BY DEF Flow, Goto, Moves

LEMMA FailFlow ==
    ASSUME Flow, NEW a \in Attempt, pc[a] # "idle", Fail(a)
    PROVE  Flow' /\ Moves(a, "stopped") /\ Ends(a, "attempts_exhausted")
  <1>. DEFINE moved == [pc EXCEPT ![a] = "stopped"]
  <1>1. /\ moved \in [Attempt -> Step]
        /\ \A b \in Attempt : b[2] > current[b[1]] => moved[b] = "idle"
        /\ moved[a] = "stopped" /\ \A b \in Attempt \ {a} : moved[b] = pc[b]
    BY DEF Flow, Step
  <1>2. CASE Awaited(a)
    <2>1. Running(a[1]) /\ a[1] \in Execution /\ NextAttempt(a[1], moved)
      BY <1>2, AttemptPairs DEF Fail, Awaited
    <2>. HIDE DEF moved
    <2>2. /\ Flow'
          /\ \A b \in Attempt :
               pc'[b] = moved[b] \/ (moved[b] = "idle" /\ pc'[b] = "load")
          /\ \A v \in Execution : \/ outcome'[v] = outcome[v]
                                  \/ v = a[1] /\ outcome'[v] = "attempts_exhausted"
      BY <1>1, <2>1, NextAttemptFlow
    <2>. QED BY <1>1, <2>2 DEF Moves, Ends
  <1>3. CASE ~Awaited(a)
    <2>1. pc' = moved /\ outcome' = outcome /\ current' = current
      BY <1>3 DEF Fail
    <2>. QED BY <1>1, <2>1 DEF Flow, Moves, Ends
  <1>. QED BY <1>2, <1>3

LEMMA EndFlow ==
    ASSUME Flow, NEW a \in Attempt, pc[a] # "idle",
           NEW step \in {"answered", "stopped"},
           NEW o \in FinalError \cup {"completed"}, End(a, step, o)
    PROVE  /\ Flow' /\ Moves(a, step) /\ Ends(a, o)
           /\ ~Awaited(a) => outcome' = outcome
  <1>1. a[1] \in Execution
    BY AttemptPairs
  <1>2. outcome' \in [Execution -> Outcome]
    BY <1>1 DEF Flow, End, Outcome
  <1>3. \A w \in Execution : outcome'[w] = "idle" => outcome[w] = "idle"
    BY <1>1 DEF Flow, End, FinalError
  <1>4. pc' \in [Attempt -> Step] /\ Moves(a, step)
    BY DEF Flow, End, Goto, Step, Moves
  <1>5. \A b \in Attempt : b[2] > current'[b[1]] => pc'[b] = "idle"
    BY DEF Flow, End, Goto
  <1>6. Ends(a, o)
    BY <1>1 DEF Flow, End, Ends
  <1>. QED BY <1>2, <1>3, <1>4, <1>5, <1>6 DEF Flow, End

LEMMA AnsweredFlow ==
    ASSUME Flow, NEW a \in Attempt, pc[a] # "idle", NEW step \in Step,
           Answered(a, step)
    PROVE  /\ Flow' /\ Ends(a, "attempts_exhausted")
           /\ Moves(a, step) \/ Moves(a, "stopped")
  <1>1. CASE Goto(a, step) /\ UNCHANGED <<outcome, current>>
    BY <1>1, GotoFlow DEF Ends
  <1>2. CASE Fail(a)
    BY <1>2, FailFlow
  <1>. QED BY <1>1, <1>2 DEF Answered
-----------------------------------------------------------------------------
(* What the state that attempts share may become in a step of attempt a.   *)
Shared(a) ==
    /\ KsefTypeOK' /\ ctx' \in Context \cup {NoContext}
    /\ stored' \subseteq Login /\ lapsed' \subseteq Login
    /\ stored \subseteq stored'
    /\ ctx # NoContext => ctx' # NoContext
    /\ \A t \in Token : issued[t] # None => issued'[t] = issued[t]

Own(a) ==
    /\ polls' \in [Attempt -> 0 .. MaxStatusPolls]
    /\ held'  \in [Attempt -> Login \cup {None}]
    /\ token' \in [Attempt -> Token \cup {None}]
    /\ \A b \in Attempt \ {a} : held'[b] = held[b] /\ token'[b] = token[b]

LEMMA StepKeeps ==
    ASSUME IInv, NEW a \in Attempt, pc[a] # "stopped", NEW step, Flow',
           Moves(a, step), Shared(a), Own(a), kind' = kind,
           Hand(a)',
           \A l \in Login : login'[l] = "redeemed" =>
              \/ login[l] = "redeemed"
              \/ held'[a] = l /\ step \in {"create", "stopped"},
           pc[a] = "create" =>
              \/ step = "stopped" /\ held'[a] = held[a]
              \/ held[a] \in stored'
    PROVE  IInv'
  <1>0. TypeOK /\ Flow /\ Hands /\ RedeemedIsStoredOrLost
    BY DEF IInv
  <1>1. TypeOK'
    BY <1>0 DEF Shared, Own, Flow, TypeOK
  <1>2. ASSUME NEW b \in Attempt \ {a} PROVE Hand(b)'
    <2>1. Hand(b) /\ held'[b] = held[b] /\ token'[b] = token[b]
      BY <1>0 DEF Hands, Own
    <2>2. pc'[b] = pc[b] \/ pc'[b] = "load"
      BY DEF Moves
    <2>3. CASE pc'[b] = "load"
      BY <2>3 DEF Hand
    <2>4. CASE pc'[b] = pc[b]
      <3>1. pc[b] \in {"create", "update"} =>
              token[b] \in Token /\ issued'[token[b]] = held[b]
        BY <2>1, LoginAssumption DEF Hand, Shared
      <3>. QED BY <2>1, <2>4, <3>1 DEF Hand, Shared
    <2>. QED BY <2>2, <2>3, <2>4
  <1>3. ASSUME NEW l \in Login, login'[l] = "redeemed", l \notin stored'
        PROVE  \E b \in Attempt : held'[b] = l /\ pc'[b] \in {"create", "stopped"}
    <2>1. CASE held'[a] = l /\ step \in {"create", "stopped"}
      BY <2>1 DEF Moves
    <2>2. CASE login[l] = "redeemed"
      <3>1. l \notin stored
        BY <1>3 DEF Shared
      <3>2. PICK b \in Attempt : held[b] = l /\ pc[b] \in {"create", "stopped"}
        BY <1>0, <2>2, <3>1 DEF RedeemedIsStoredOrLost
      <3>3. CASE b = a
        BY <1>3, <3>2, <3>3 DEF Moves
      <3>4. CASE b # a
        BY <3>2, <3>4 DEF Moves, Own
      <3>. QED BY <3>3, <3>4
    <2>. QED BY <1>3, <2>1, <2>2
  <1>. QED BY <1>1, <1>2, <1>3 DEF IInv, Hands, RedeemedIsStoredOrLost

(* The same where only the attempt itself goes on.                         *)
LEMMA MoveKeeps ==
    ASSUME IInv, NEW a \in Attempt, pc[a] \notin {"stopped", "create"}, NEW step,
           Flow', Moves(a, step), Own(a),
           UNCHANGED <<ksefVars, contextVars, kind>>, Hand(a)'
    PROVE  IInv'
  <1>1. Shared(a)
    BY DEF IInv, TypeOK, Shared, ksefVars, contextVars, KsefTypeOK
  <1>2. login' = login
    BY DEF ksefVars
  <1>. QED BY <1>1, <1>2, StepKeeps

LEMMA SameHands ==
    ASSUME TypeOK, NEW a \in Attempt, UNCHANGED <<polls, held, token>>
    PROVE  Own(a)
  BY DEF TypeOK, Own

LEMMA AttemptFailsKeeps == ASSUME IInv, NEW a \in Attempt, AttemptFails(a) PROVE IInv'
  <1>1. TypeOK /\ Flow /\ pc[a] # "idle" /\ pc[a] # "stopped"
    BY DEF IInv, AttemptFails, Active
  <1>2. Flow' /\ Moves(a, "stopped")
    BY <1>1, FailFlow DEF AttemptFails
  <1>3. Own(a)
    BY <1>1, SameHands DEF AttemptFails
  <1>4. Hand(a)' /\ held' = held
    BY <1>2 DEF Hand, Moves, AttemptFails
  <1>5. Shared(a) /\ login' = login /\ kind' = kind
    BY <1>1 DEF AttemptFails, TypeOK, Shared, ksefVars, contextVars, KsefTypeOK
  <1>. QED BY <1>1, <1>2, <1>3, <1>4, <1>5, StepKeeps

LEMMA LoadKeeps == ASSUME IInv, NEW a \in Attempt, LoadContext(a) PROVE IInv'
  <1>1. TypeOK /\ Flow /\ pc[a] = "load"
    BY DEF IInv, LoadContext, At
  <1>2. UNCHANGED <<ksefVars, contextVars, kind>> /\ UNCHANGED <<polls, token>>
    BY DEF LoadContext
  <1>3. ASSUME Answer(a), held' = held PROVE IInv'
    <2>1. Flow' /\ Moves(a, "answered")
      BY <1>1, <1>3, EndFlow DEF Answer
    <2>2. Hand(a)'
      BY <2>1 DEF Hand, Moves
    <2>. QED BY <1>1, <1>2, <1>3, <2>1, <2>2, SameHands, MoveKeeps
  <1>4. ASSUME ctx # NoContext, held' = [held EXCEPT ![a] = ctx.refresh],
               Goto(a, "refresh"), UNCHANGED <<outcome, current>>
        PROVE  IInv'
    <2>1. Flow' /\ Moves(a, "refresh")
      BY <1>1, <1>4, GotoFlow DEF Step
    <2>2. ctx.refresh \in Login
      BY <1>1, <1>4 DEF TypeOK, Context
    <2>3. Own(a)
      BY <1>1, <1>2, <1>4, <2>2 DEF TypeOK, Own
    <2>4. Hand(a)'
      BY <1>1, <1>2, <1>4, <2>1, <2>2 DEF Hand, Moves, TypeOK, contextVars
    <2>. QED BY <1>1, <1>2, <2>1, <2>3, <2>4, MoveKeeps
  <1>5. ASSUME Goto(a, "init"), UNCHANGED <<held, outcome, current>> PROVE IInv'
    <2>1. Flow' /\ Moves(a, "init")
      BY <1>1, <1>5, GotoFlow DEF Step
    <2>2. Hand(a)'
      BY <2>1 DEF Hand, Moves
    <2>. QED BY <1>1, <1>2, <1>5, <2>1, <2>2, SameHands, MoveKeeps
  <1>6. ASSUME Refuse(a, "AuthContextNotFound"), held' = held PROVE IInv'
    <2>1. Flow' /\ Moves(a, "stopped")
      BY <1>1, <1>6, EndFlow DEF Refuse, FinalError
    <2>2. Hand(a)'
      BY <2>1 DEF Hand, Moves
    <2>. QED BY <1>1, <1>2, <1>6, <2>1, <2>2, SameHands, MoveKeeps
  <1>. QED BY <1>3, <1>4, <1>5, <1>6 DEF LoadContext, CanRefresh

LEMMA InitAuthKeeps ==
    ASSUME IInv, NEW a \in Attempt, NEW l \in Login, InitAuth(a, l)
    PROVE  IInv'
  <1>1. TypeOK /\ Flow /\ pc[a] = "init" /\ kind' = kind
    BY DEF IInv, InitAuth, At
  <1>2. PICK step \in {"poll", "stopped"} : Flow' /\ Moves(a, step)
    BY <1>1, AnsweredFlow DEF InitAuth, Step
  <1>3. held' = [held EXCEPT ![a] = l] /\ UNCHANGED <<polls, token>>
    BY DEF InitAuth
  <1>4. Own(a) /\ held'[a] = l
    BY <1>1, <1>3 DEF TypeOK, Own
  <1>5. Hand(a)'
    BY <1>2, <1>4 DEF Hand, Moves
  <1>6. /\ login' = [login EXCEPT ![l] = "pending"]
        /\ UNCHANGED <<issued, expired, contextVars>>
    BY DEF InitAuth, BeginLogin
  <1>7. Shared(a)
    BY <1>1, <1>6 DEF TypeOK, Shared, contextVars, KsefTypeOK, LoginState
  <1>8. \A k \in Login : login'[k] = "redeemed" => login[k] = "redeemed"
    BY <1>1, <1>6 DEF TypeOK, KsefTypeOK
  <1>. QED BY <1>1, <1>2, <1>4, <1>5, <1>7, <1>8, StepKeeps

LEMMA UnsupportedKeeps ==
    ASSUME IInv, NEW a \in Attempt, UnsupportedAuthMode(a) PROVE IInv'
  <1>1. TypeOK /\ Flow /\ pc[a] = "init"
    BY DEF IInv, UnsupportedAuthMode, At
  <1>2. Flow' /\ Moves(a, "stopped")
    BY <1>1, EndFlow DEF UnsupportedAuthMode, Refuse, FinalError
  <1>3. Hand(a)' /\ UNCHANGED <<ksefVars, contextVars, kind, polls, held, token>>
    BY <1>2 DEF Hand, Moves, UnsupportedAuthMode
  <1>. QED BY <1>1, <1>2, <1>3, SameHands, MoveKeeps

LEMMA PollKeeps == ASSUME IInv, NEW a \in Attempt, PollAuthStatus(a) PROVE IInv'
  <1>1. TypeOK /\ Flow /\ Hand(a) /\ pc[a] = "poll"
    BY DEF IInv, Hands, PollAuthStatus, At
  <1>2. UNCHANGED <<ksefVars, contextVars, kind>> /\ UNCHANGED <<held, token>>
    BY DEF PollAuthStatus
  <1>3. ASSUME NEW e \in FinalError, Refuse(a, e), polls' = polls PROVE IInv'
    <2>1. Flow' /\ Moves(a, "stopped")
      BY <1>1, <1>3, EndFlow DEF Refuse
    <2>2. Hand(a)'
      BY <2>1 DEF Hand, Moves
    <2>. QED BY <1>1, <1>2, <1>3, <2>1, <2>2, SameHands, MoveKeeps
  <1>4. ASSUME polls[a] < MaxStatusPolls, polls' = [polls EXCEPT ![a] = @ + 1],
               UNCHANGED <<pc, outcome, current>>
        PROVE  IInv'
    <2>1. Flow' /\ Moves(a, "poll")
      BY <1>1, <1>4 DEF Flow, Moves
    <2>2. Own(a)
      BY <1>1, <1>2, <1>4 DEF TypeOK, Own
    <2>3. Hand(a)'
      BY <1>1, <1>2, <2>1 DEF Hand, Moves
    <2>. QED BY <1>1, <1>2, <2>1, <2>2, <2>3, MoveKeeps
  <1>5. ASSUME Goto(a, "redeem"), UNCHANGED <<polls, outcome, current>> PROVE IInv'
    <2>1. Flow' /\ Moves(a, "redeem")
      BY <1>1, <1>5, GotoFlow DEF Step
    <2>2. Hand(a)'
      BY <1>1, <1>2, <2>1 DEF Hand, Moves
    <2>. QED BY <1>1, <1>2, <1>5, <2>1, <2>2, SameHands, MoveKeeps
  <1>6. \/ Refuse(a, "AuthenticationTimeout") /\ polls' = polls
        \/ Refuse(a, "AuthenticationFailed") /\ polls' = polls
        \/ /\ polls[a] < MaxStatusPolls /\ polls' = [polls EXCEPT ![a] = @ + 1]
           /\ UNCHANGED <<pc, outcome, current>>
        \/ Goto(a, "redeem") /\ UNCHANGED <<polls, outcome, current>>
    <2>1. CASE LoginCode(held[a]) = 100
      BY <2>1 DEF PollAuthStatus
    <2>2. CASE LoginCode(held[a]) = 200
      BY <2>2 DEF PollAuthStatus
    <2>3. CASE LoginCode(held[a]) # 100 /\ LoginCode(held[a]) # 200
      BY <2>3 DEF PollAuthStatus
    <2>. QED BY <2>1, <2>2, <2>3
  <1>. QED BY <1>3, <1>4, <1>5, <1>6 DEF FinalError

LEMMA RedeemKeeps ==
    ASSUME IInv, NEW a \in Attempt, NEW t \in Token, RedeemAccessTokens(a, t)
    PROVE  IInv'
  <1>1. TypeOK /\ Flow /\ Hand(a) /\ pc[a] = "redeem" /\ kind' = kind
    BY DEF IInv, Hands, RedeemAccessTokens, At
  <1>2. PICK step \in {"create", "stopped"} : Flow' /\ Moves(a, step)
    BY <1>1, AnsweredFlow DEF RedeemAccessTokens, Step
  <1>3. /\ token' = [token EXCEPT ![a] = t] /\ UNCHANGED <<polls, held>>
        /\ held[a] \in Login
    BY <1>1 DEF RedeemAccessTokens, Hand
  <1>4. Own(a) /\ token'[a] = t
    BY <1>1, <1>3 DEF TypeOK, Own
  <1>5. /\ login' = [login EXCEPT ![held[a]] = "redeemed"]
        /\ issued[t] = None /\ issued' = [issued EXCEPT ![t] = held[a]]
        /\ UNCHANGED <<expired, contextVars>>
    BY DEF RedeemAccessTokens, Redeem, IssueToken
  <1>6. Hand(a)'
    BY <1>1, <1>2, <1>3, <1>4, <1>5 DEF Hand, Moves, TypeOK, KsefTypeOK
  <1>7. Shared(a)
    BY <1>1, <1>3, <1>5 DEF TypeOK, Shared, contextVars, KsefTypeOK, LoginState
  <1>8. \A l \in Login : login'[l] = "redeemed" => login[l] = "redeemed" \/ held'[a] = l
    BY <1>1, <1>3, <1>5 DEF TypeOK, KsefTypeOK
  <1>. QED BY <1>1, <1>2, <1>4, <1>6, <1>7, <1>8, StepKeeps

LEMMA CreateKeeps ==
    ASSUME IInv, NEW a \in Attempt, CreateOrReplaceContext(a) PROVE IInv'
  <1>1. TypeOK /\ Flow /\ Hand(a) /\ pc[a] = "create" /\ kind' = kind
    BY DEF IInv, Hands, CreateOrReplaceContext, At
  <1>2. PICK step \in {"answered", "stopped"} : Flow' /\ Moves(a, step)
    <2>1. CASE Answer(a)
      BY <1>1, <2>1, EndFlow DEF Answer
    <2>2. CASE Fail(a)
      BY <1>1, <2>2, FailFlow
    <2>. QED BY <2>1, <2>2 DEF CreateOrReplaceContext
  <1>3. /\ ctx' = [access |-> token[a], refresh |-> held[a]]
        /\ stored' = stored \cup {held[a]}
        /\ UNCHANGED <<ksefVars, lapsed>> /\ UNCHANGED <<polls, held, token>>
        /\ held[a] \in Login /\ token[a] \in Token
    BY <1>1 DEF CreateOrReplaceContext, Hand
  <1>4. Own(a)
    BY <1>1, <1>3, SameHands
  <1>5. Hand(a)'
    BY <1>2 DEF Hand, Moves
  <1>6. ctx' # NoContext /\ ctx' \in Context
    <2>1. ctx'.refresh # None
      BY <1>3
    <2>. QED BY <1>3, <2>1 DEF NoContext, Context
  <1>7. Shared(a) /\ login' = login
    BY <1>1, <1>3, <1>6 DEF TypeOK, Shared, ksefVars, KsefTypeOK
  <1>8. held[a] \in stored'
    BY <1>3
  <1>. QED BY <1>1, <1>2, <1>4, <1>5, <1>7, <1>8, StepKeeps

LEMMA RefreshKeeps ==
    ASSUME IInv, NEW a \in Attempt, NEW t \in Token, RefreshAccessToken(a, t)
    PROVE  IInv'
  <1>1. TypeOK /\ Flow /\ Hand(a) /\ pc[a] = "refresh" /\ kind' = kind
    BY DEF IInv, Hands, RefreshAccessToken, At
  <1>2. PICK step \in {"update", "stopped"} : Flow' /\ Moves(a, step)
    BY <1>1, AnsweredFlow DEF RefreshAccessToken, Step
  <1>3. /\ token' = [token EXCEPT ![a] = t] /\ UNCHANGED <<polls, held>>
        /\ held[a] \in Login
    BY <1>1 DEF RefreshAccessToken, Hand
  <1>4. Own(a) /\ token'[a] = t
    BY <1>1, <1>3 DEF TypeOK, Own
  <1>5. /\ login' = login
        /\ issued[t] = None /\ issued' = [issued EXCEPT ![t] = held[a]]
        /\ UNCHANGED <<expired, contextVars>>
    BY DEF RefreshAccessToken, Refresh, IssueToken
  <1>6. Shared(a)
    BY <1>1, <1>3, <1>5 DEF TypeOK, Shared, contextVars, KsefTypeOK
  <1>7. ctx # NoContext
    BY <1>1 DEF Hand
  <1>8. Hand(a)'
    BY <1>1, <1>2, <1>3, <1>4, <1>5, <1>7
       DEF Hand, Moves, TypeOK, KsefTypeOK, contextVars
  <1>. QED BY <1>1, <1>2, <1>4, <1>5, <1>6, <1>8, StepKeeps

LEMMA UpdateKeeps ==
    ASSUME IInv, NEW a \in Attempt, UpdateContextTokens(a) PROVE IInv'
  <1>1. TypeOK /\ Flow /\ Hand(a) /\ pc[a] = "update" /\ kind' = kind
    BY DEF IInv, Hands, UpdateContextTokens, At
  <1>2. PICK step \in {"answered", "stopped"} : Flow' /\ Moves(a, step)
    <2>1. CASE Answer(a)
      BY <1>1, <2>1, EndFlow DEF Answer
    <2>2. CASE Fail(a)
      BY <1>1, <2>2, FailFlow
    <2>. QED BY <2>1, <2>2 DEF UpdateContextTokens
  <1>3. /\ ctx' = [ctx EXCEPT !.access = token[a]]
        /\ UNCHANGED <<ksefVars, stored, lapsed>> /\ UNCHANGED <<polls, held, token>>
        /\ token[a] \in Token /\ ctx # NoContext /\ ctx \in Context
    BY <1>1 DEF UpdateContextTokens, Hand, TypeOK
  <1>4. Own(a)
    BY <1>1, <1>3, SameHands
  <1>5. Hand(a)'
    BY <1>2 DEF Hand, Moves
  <1>6. ctx' # NoContext /\ ctx' \in Context
    <2>1. ctx'.refresh = ctx.refresh /\ ctx.refresh \in Login
      BY <1>3 DEF Context
    <2>. QED BY <1>3, <2>1 DEF NoContext, Context
  <1>7. Shared(a) /\ login' = login
    BY <1>1, <1>3, <1>6 DEF TypeOK, Shared, ksefVars, KsefTypeOK
  <1>. QED BY <1>1, <1>2, <1>4, <1>5, <1>7, StepKeeps

LEMMA AttemptStepKeeps == ASSUME IInv, NEW a \in Attempt, AttemptStep(a) PROVE IInv'
  BY AttemptFailsKeeps, LoadKeeps, InitAuthKeeps, UnsupportedKeeps, PollKeeps,
     RedeemKeeps, CreateKeeps, RefreshKeeps, UpdateKeeps DEF AttemptStep

(* Attempts may be begun, and nothing else happens to them.                *)
LEMMA BeginningKeeps ==
    ASSUME IInv, Flow',
           \A b \in Attempt : pc'[b] = pc[b] \/ (pc[b] = "idle" /\ pc'[b] = "load"),
           kind' \in [Execution -> {"none", "ensure", "refresh"}],
           UNCHANGED <<ksefVars, contextVars, polls, held, token>>
    PROVE  IInv'
  <1>0. TypeOK /\ Flow /\ Hands /\ RedeemedIsStoredOrLost
    BY DEF IInv
  <1>1. TypeOK'
    BY <1>0 DEF TypeOK, Flow, ksefVars, contextVars, KsefTypeOK
  <1>2. Hands'
    BY <1>0 DEF Hands, Hand, ksefVars, contextVars
  <1>3. RedeemedIsStoredOrLost'
    BY <1>0 DEF RedeemedIsStoredOrLost, ksefVars, contextVars
  <1>. QED BY <1>1, <1>2, <1>3 DEF IInv

LEMMA GiveUpKeeps == ASSUME IInv, NEW w \in Execution, GiveUp(w) PROVE IInv'
  <1>1. Flow /\ TypeOK
    BY DEF IInv
  <1>2. /\ Flow'
        /\ \A b \in Attempt : pc'[b] = pc[b] \/ (pc[b] = "idle" /\ pc'[b] = "load")
    BY <1>1, NextAttemptFlow DEF GiveUp, Flow
  <1>3. kind' \in [Execution -> {"none", "ensure", "refresh"}]
    BY <1>1 DEF GiveUp, TypeOK
  <1>. QED BY <1>2, <1>3, BeginningKeeps DEF GiveUp

LEMMA StartKeeps ==
    ASSUME IInv, NEW w \in Execution, NEW k \in {"ensure", "refresh"}, Start(w, k)
    PROVE  IInv'
  <1>1. Flow /\ TypeOK
    BY DEF IInv
  <1>. DEFINE n == <<w, 1>>
  <1>2. n \in Attempt /\ n[1] = w /\ n[2] = 1
    BY DEF Attempt
  <1>3. current[w] = 0 /\ pc[n] = "idle"
    BY <1>1, <1>2 DEF Start, Flow
  <1>4. /\ outcome' = [outcome EXCEPT ![w] = "running"]
        /\ current' = [current EXCEPT ![w] = 1]
        /\ pc' = [pc EXCEPT ![n] = "load"]
    BY DEF Start, Goto
  <1>5. \A b \in Attempt : b[2] > current'[b[1]] => pc'[b] = "idle"
    <2>. SUFFICES ASSUME NEW b \in Attempt, b[2] > current'[b[1]]
                  PROVE  pc'[b] = "idle"
      OBVIOUS
    <2>1. b[1] \in Execution /\ b[2] \in Int /\ current[b[1]] \in Int
      BY <1>1, AttemptPairs DEF Flow
    <2>2. b[2] > current[b[1]] /\ b # n
      BY <1>1, <1>2, <1>3, <1>4, <2>1 DEF Flow
    <2>. QED BY <1>1, <1>4, <2>2 DEF Flow
  <1>6. Flow'
    <2>1. current' \in [Execution -> 0 .. MaxAttempts]
      BY <1>1, <1>4 DEF Flow
    <2>2. pc' \in [Attempt -> Step] /\ outcome' \in [Execution -> Outcome]
      BY <1>1, <1>2, <1>4 DEF Flow, Step, Outcome
    <2>3. \A v \in Execution : outcome'[v] = "idle" => current'[v] = 0
      BY <1>1, <1>4 DEF Flow
    <2>. QED BY <1>5, <2>1, <2>2, <2>3 DEF Flow
  <1>7. \A b \in Attempt : pc'[b] = pc[b] \/ (pc[b] = "idle" /\ pc'[b] = "load")
    BY <1>1, <1>3, <1>4 DEF Flow
  <1>8. kind' \in [Execution -> {"none", "ensure", "refresh"}]
    BY <1>1 DEF Start, TypeOK
  <1>. QED BY <1>6, <1>7, <1>8, BeginningKeeps DEF Start

LEMMA OutsideKeeps ==
    ASSUME IInv, Outside, UNCHANGED <<ctx, stored, executionVars, attemptVars>>
    PROVE  IInv'
  <1>0. TypeOK /\ Flow /\ Hands /\ RedeemedIsStoredOrLost
    BY DEF IInv
  <1>1. /\ login' \in [Login -> LoginState] /\ issued' = issued
        /\ expired' \subseteq Token /\ lapsed' \subseteq Login
        /\ \A l \in Login : login'[l] = "redeemed" => login[l] = "redeemed"
    <2>0. KsefTypeOK
      BY <1>0 DEF TypeOK
    <2>1. ASSUME NEW l \in Login, JudgeLogin(l) PROVE
             /\ login' \in [Login -> LoginState] /\ UNCHANGED <<issued, expired>>
             /\ \A k \in Login : login'[k] = "redeemed" => login[k] = "redeemed"
      BY <2>0, <2>1 DEF JudgeLogin, KsefTypeOK, LoginState
    <2>2. ASSUME NEW t \in Token, ExpireToken(t) PROVE
             /\ UNCHANGED <<login, issued>> /\ expired' \subseteq Token
      BY <2>0, <2>2 DEF ExpireToken, KsefTypeOK
    <2>3. ASSUME NEW l \in Login, LoginRevoked(l) PROVE
             /\ login' \in [Login -> LoginState] /\ UNCHANGED <<issued, expired, lapsed>>
             /\ \A k \in Login : login'[k] = "redeemed" => login[k] = "redeemed"
      BY <2>0, <2>3 DEF LoginRevoked, Revoke, KsefTypeOK, LoginState
    <2>4. ASSUME NEW l \in Login, RefreshLapses(l) PROVE
             lapsed' \subseteq Login /\ UNCHANGED ksefVars
      BY <1>0, <2>4 DEF RefreshLapses, TypeOK
    <2>. QED BY <1>0, <2>0, <2>1, <2>2, <2>3, <2>4
             DEF Outside, KsefStep, KsefTypeOK, TypeOK, ksefVars
  <1>2. TypeOK'
    BY <1>0, <1>1 DEF TypeOK, KsefTypeOK, executionVars, attemptVars
  <1>3. Flow' /\ Hands' /\ RedeemedIsStoredOrLost'
    BY <1>0, <1>1 DEF Flow, Hands, Hand, RedeemedIsStoredOrLost, executionVars,
                      attemptVars
  <1>. QED BY <1>2, <1>3 DEF IInv

LEMMA ContextInit == Init => IInv
  <1>. SUFFICES ASSUME Init PROVE IInv
    OBVIOUS
  <1>1. KsefTypeOK /\ \A l \in Login : login[l] = "unused"
    BY DEF Init, KsefInit, KsefTypeOK, LoginState
  <1>2. TypeOK /\ Flow
    BY <1>1 DEF Init, TypeOK, Flow, Outcome, Step
  <1>3. Hands /\ RedeemedIsStoredOrLost
    BY <1>1 DEF Init, Hands, Hand, RedeemedIsStoredOrLost
  <1>. QED BY <1>2, <1>3 DEF IInv

LEMMA ContextStep == IInv /\ [Next]_vars => IInv'
  <1>. SUFFICES ASSUME IInv, [Next]_vars PROVE IInv'
    OBVIOUS
  <1>1. ASSUME NEW w \in Execution, ExecutionStep(w) PROVE IInv'
    <2>1. \A n \in 1 .. MaxAttempts : <<w, n>> \in Attempt
      BY DEF Attempt
    <2>. QED BY <1>1, <2>1, GiveUpKeeps, AttemptStepKeeps DEF ExecutionStep
  <1>2. CASE UNCHANGED vars
    BY <1>2 DEF IInv, vars, ksefVars, contextVars, executionVars, attemptVars,
                TypeOK, KsefTypeOK, Flow, Hands, Hand, RedeemedIsStoredOrLost
  <1>. QED BY <1>1, <1>2, StartKeeps, OutsideKeeps DEF Next

LEMMA ContextInvariant == Spec => []IInv
  BY ContextInit, ContextStep, PTL DEF Spec

(* Every state of the context and its attempts is of its type, for any     *)
(* number of executions, attempts, logins and tokens.                      *)
THEOREM ContextTypeCorrect == Spec => []TypeOK
  <1>1. IInv => TypeOK
    BY DEF IInv
  <1>. QED BY ContextInvariant, <1>1, PTL

(* ensure_auth_context: tokens that KSeF hands out once are lost only with *)
(* an attempt that stops between redeeming and storing them.               *)
THEOREM RedeemedIsKept == Spec => []RedeemedIsStoredOrLost
  <1>1. IInv => RedeemedIsStoredOrLost
    BY DEF IInv
  <1>. QED BY ContextInvariant, <1>1, PTL
-----------------------------------------------------------------------------
(* An attempt at its poll that has used up its polls has been given up.    *)
LEMMA PolledOutIsGivenUp ==
    ASSUME TypeOK, NEW a \in Attempt, InTime(a), polls[a] = MaxStatusPolls
    PROVE  ~Awaited(a)
  <1>. DEFINE slept == MaxStatusPolls * PollInterval
  <1>1. slept \in Int /\ Timeout \in Int /\ slept >= Timeout
    BY TimeoutAssumption
  <1>2. Awaited(a) => slept < Timeout
    BY DEF InTime
  <1>. HIDE DEF slept
  <1>. QED BY <1>1, <1>2

LEMMA UnheardStep ==
    ASSUME IInv, TimeoutErrorUnheard, [Next]_vars
    PROVE  TimeoutErrorUnheard'
  <1>0. TypeOK /\ Flow
    BY DEF IInv
  <1>1. ASSUME outcome' = outcome PROVE TimeoutErrorUnheard'
    BY <1>1 DEF TimeoutErrorUnheard
  <1>2. ASSUME NEW a \in Attempt, NEW o, o # "AuthenticationTimeout", Ends(a, o)
        PROVE  TimeoutErrorUnheard'
    BY <1>2 DEF TimeoutErrorUnheard, Ends
  <1>3. ASSUME NEW a \in Attempt, pc[a] # "idle", Fail(a)
        PROVE  TimeoutErrorUnheard'
    BY <1>0, <1>2, <1>3, FailFlow
  <1>4. ASSUME NEW a \in Attempt, pc[a] # "idle", NEW step \in Step, Answered(a, step)
        PROVE  TimeoutErrorUnheard'
    BY <1>0, <1>2, <1>4, AnsweredFlow
  <1>5. ASSUME NEW a \in Attempt, pc[a] # "idle", Answer(a)
        PROVE  TimeoutErrorUnheard'
    BY <1>0, <1>2, <1>5, EndFlow DEF Answer
  <1>6. ASSUME NEW a \in Attempt, pc[a] # "idle", NEW e \in FinalError,
               e # "AuthenticationTimeout", Refuse(a, e)
        PROVE  TimeoutErrorUnheard'
    BY <1>0, <1>2, <1>6, EndFlow DEF Refuse
  <1>7. ASSUME NEW a \in Attempt, LoadContext(a) PROVE TimeoutErrorUnheard'
    <2>1. pc[a] # "idle"
      BY <1>7 DEF LoadContext, At
    <2>2. "AuthContextNotFound" \in FinalError
      BY DEF FinalError
    <2>. QED BY <1>1, <1>5, <1>6, <1>7, <2>1, <2>2 DEF LoadContext
  <1>8. ASSUME NEW a \in Attempt, PollAuthStatus(a) PROVE TimeoutErrorUnheard'
    <2>1. pc[a] # "idle" /\ InTime(a)
      BY <1>8 DEF PollAuthStatus, At
    <2>2. \/ polls[a] = MaxStatusPolls /\ Refuse(a, "AuthenticationTimeout")
          \/ Refuse(a, "AuthenticationFailed")
          \/ outcome' = outcome
      <3>1. CASE LoginCode(held[a]) = 100
        BY <1>8, <3>1 DEF PollAuthStatus
      <3>2. CASE LoginCode(held[a]) = 200
        BY <1>8, <3>2 DEF PollAuthStatus
      <3>3. CASE LoginCode(held[a]) # 100 /\ LoginCode(held[a]) # 200
        BY <1>8, <3>3 DEF PollAuthStatus
      <3>. QED BY <3>1, <3>2, <3>3
    <2>3. CASE polls[a] = MaxStatusPolls /\ Refuse(a, "AuthenticationTimeout")
      <3>1. ~Awaited(a)
        BY <1>0, <2>1, <2>3, PolledOutIsGivenUp
      <3>. QED BY <1>1, <2>3, <3>1 DEF Refuse, End
    <2>. QED BY <1>1, <1>6, <2>1, <2>2, <2>3 DEF FinalError
  <1>9. ASSUME NEW a \in Attempt, AttemptStep(a) PROVE TimeoutErrorUnheard'
    <2>1. CASE \E l \in Login : InitAuth(a, l)
      BY <1>4, <2>1 DEF InitAuth, At, Step
    <2>2. CASE UnsupportedAuthMode(a)
      BY <1>6, <2>2 DEF UnsupportedAuthMode, At, FinalError
    <2>3. CASE \E t \in Token : RedeemAccessTokens(a, t)
      BY <1>4, <2>3 DEF RedeemAccessTokens, At, Step
    <2>4. CASE CreateOrReplaceContext(a)
      BY <1>3, <1>5, <2>4 DEF CreateOrReplaceContext, At
    <2>5. CASE \E t \in Token : RefreshAccessToken(a, t)
      BY <1>4, <2>5 DEF RefreshAccessToken, At, Step
    <2>6. CASE UpdateContextTokens(a)
      BY <1>3, <1>5, <2>6 DEF UpdateContextTokens, At
    <2>7. CASE AttemptFails(a)
      BY <1>3, <2>7 DEF AttemptFails, Active
    <2>. QED BY <1>7, <1>8, <1>9, <2>1, <2>2, <2>3, <2>4, <2>5, <2>6, <2>7
             DEF AttemptStep
  <1>10. ASSUME NEW w \in Execution, GiveUp(w) PROVE TimeoutErrorUnheard'
    <2>1. \A v \in Execution :
            outcome'[v] = outcome[v] \/ outcome'[v] = "attempts_exhausted"
      BY <1>0, <1>10, NextAttemptFlow DEF GiveUp, Flow
    <2>. QED BY <2>1 DEF TimeoutErrorUnheard
  <1>11. ASSUME NEW w \in Execution, NEW k \in {"ensure", "refresh"}, Start(w, k)
         PROVE  TimeoutErrorUnheard'
    BY <1>0, <1>11 DEF Start, TimeoutErrorUnheard, Flow
  <1>12. ASSUME NEW w \in Execution, ExecutionStep(w) PROVE TimeoutErrorUnheard'
    <2>1. \A n \in 1 .. MaxAttempts : <<w, n>> \in Attempt
      BY DEF Attempt
    <2>. QED BY <1>9, <1>10, <1>12, <2>1 DEF ExecutionStep
  <1>. QED BY <1>1, <1>11, <1>12 DEF Next, vars, executionVars

(* ensure_auth_context: the error at the end of its polling loop is never  *)
(* the outcome of a workflow, whatever the number of polls, their interval *)
(* and the timeout, as long as polling to the end takes the timeout.       *)
THEOREM TimeoutErrorIsUnheard == Spec => []TimeoutErrorUnheard
  <1>1. Init => TimeoutErrorUnheard
    BY DEF Init, TimeoutErrorUnheard
  <1>2. IInv /\ TimeoutErrorUnheard /\ [Next]_vars => TimeoutErrorUnheard'
    BY UnheardStep
  <1>. QED BY ContextInvariant, <1>1, <1>2, PTL DEF Spec

-----------------------------------------------------------------------------
(* Issued tokens stay issued, and only two calls write the context.        *)
LEMMA ContextWriters ==
    ASSUME IInv, [Next]_vars
    PROVE  /\ \A t \in Token : issued[t] # None => issued'[t] = issued[t]
           /\ \/ ctx' = ctx
              \/ \E a \in Attempt : CreateOrReplaceContext(a) \/ UpdateContextTokens(a)
  <1>. DEFINE Q == /\ \A t \in Token : issued[t] # None => issued'[t] = issued[t]
                   /\ \/ ctx' = ctx
                      \/ \E a \in Attempt :
                           CreateOrReplaceContext(a) \/ UpdateContextTokens(a)
  <1>0. KsefTypeOK
    BY DEF IInv, TypeOK
  <1>1. ASSUME UNCHANGED <<issued, ctx>> PROVE Q
    BY <1>1
  <1>2. ASSUME NEW a \in Attempt, AttemptStep(a) PROVE Q
    <2>1. CASE LoadContext(a) \/ UnsupportedAuthMode(a) \/ PollAuthStatus(a)
               \/ AttemptFails(a) \/ \E l \in Login : InitAuth(a, l)
      BY <1>1, <2>1 DEF LoadContext, UnsupportedAuthMode, PollAuthStatus,
                        AttemptFails, InitAuth, ksefVars, contextVars
    <2>2. CASE \E t \in Token : RedeemAccessTokens(a, t) \/ RefreshAccessToken(a, t)
      BY <1>0, <2>2 DEF RedeemAccessTokens, RefreshAccessToken, Redeem, Refresh,
                        IssueToken, KsefTypeOK, contextVars
    <2>3. CASE CreateOrReplaceContext(a) \/ UpdateContextTokens(a)
      BY <2>3 DEF CreateOrReplaceContext, UpdateContextTokens, ksefVars
    <2>. QED BY <1>2, <2>1, <2>2, <2>3 DEF AttemptStep
  <1>3. ASSUME NEW w \in Execution, ExecutionStep(w) PROVE Q
    <2>1. \A n \in 1 .. MaxAttempts : <<w, n>> \in Attempt
      BY DEF Attempt
    <2>2. CASE GiveUp(w)
      BY <1>1, <2>2 DEF GiveUp, ksefVars, contextVars
    <2>. HIDE DEF Q
    <2>. QED BY <1>2, <1>3, <2>1, <2>2 DEF ExecutionStep
  <1>4. ASSUME NEW w \in Execution, NEW k \in {"ensure", "refresh"}, Start(w, k)
        PROVE  Q
    BY <1>1, <1>4 DEF Start, ksefVars, contextVars
  <1>5. CASE Outside /\ UNCHANGED <<ctx, stored, executionVars, attemptVars>>
    BY <1>1, <1>5 DEF Outside, KsefStep, JudgeLogin, ExpireToken, LoginRevoked,
                      RefreshLapses, ksefVars
  <1>6. CASE UNCHANGED vars
    BY <1>1, <1>6 DEF vars, ksefVars, contextVars
  <1>7. \/ \E w \in Execution : ExecutionStep(w)
        \/ \E w \in Execution, k \in {"ensure", "refresh"} : Start(w, k)
        \/ Outside /\ UNCHANGED <<ctx, stored, executionVars, attemptVars>>
        \/ UNCHANGED vars
    BY DEF Next
  <1>. QED BY <1>3, <1>4, <1>5, <1>6, <1>7

LEMMA MixedStep ==
    ASSUME IInv, [Next]_vars, Coherent(ctx), ~Coherent(ctx)'
    PROVE  \E a \in Attempt : pc[a] = "update" /\ held[a] # ctx.refresh
  <1>0. TypeOK /\ Hands /\ ctx' # NoContext
    BY DEF IInv, Coherent
  <1>1. ASSUME ctx' = ctx PROVE FALSE
    <2>1. ctx # NoContext /\ ctx \in Context
      BY <1>0, <1>1 DEF TypeOK
    <2>2. issued[ctx.access] = ctx.refresh /\ issued[ctx.access] # None
      BY <2>1 DEF Coherent, Context
    <2>3. issued'[ctx.access] = ctx.refresh
      BY <2>1, <2>2, ContextWriters DEF Context
    <2>. QED BY <1>1, <2>3 DEF Coherent
  <1>2. ASSUME NEW a \in Attempt, CreateOrReplaceContext(a) PROVE FALSE
    <2>1. pc[a] = "create" /\ ctx' = [access |-> token[a], refresh |-> held[a]]
          /\ issued' = issued
      BY <1>2 DEF CreateOrReplaceContext, At, ksefVars
    <2>2. issued[token[a]] = held[a]
      BY <1>0, <2>1 DEF Hands, Hand
    <2>. QED BY <2>1, <2>2 DEF Coherent
  <1>3. ASSUME NEW a \in Attempt, UpdateContextTokens(a)
        PROVE  pc[a] = "update" /\ held[a] # ctx.refresh
    <2>1. pc[a] = "update" /\ ctx' = [ctx EXCEPT !.access = token[a]]
          /\ issued' = issued
      BY <1>3 DEF UpdateContextTokens, At, ksefVars
    <2>2. issued[token[a]] = held[a] /\ ctx \in Context
      BY <1>0, <2>1 DEF Hands, Hand, TypeOK
    <2>3. ctx'.access = token[a] /\ ctx'.refresh = ctx.refresh
      BY <2>1, <2>2 DEF Context
    <2>. QED BY <2>1, <2>2, <2>3 DEF Coherent
  <1>. QED BY <1>1, <1>2, <1>3, ContextWriters

(* refresh_auth_context and ensure_auth_context: the access token and the  *)
(* refresh token of a context stop being of one login only through an      *)
(* update that is late, however many executions refresh at once.           *)
THEOREM MixedByLateUpdateOnly == Spec => MixedOnlyByLateUpdate
  <1>1. IInv /\ [Next]_vars =>
          [Coherent(ctx) /\ ~Coherent(ctx)' =>
             \E a \in Attempt : pc[a] = "update" /\ held[a] # ctx.refresh]_vars
    BY MixedStep
  <1>. QED BY ContextInvariant, <1>1, PTL DEF Spec, MixedOnlyByLateUpdate

-----------------------------------------------------------------------------
LEMMA TrappedStep ==
    ASSUME IInv, [Next]_vars, Trapped, lapsed' = lapsed
    PROVE  Trapped' /\ ctx' = ctx
  <1>0. TypeOK /\ Flow /\ ctx # NoContext /\ ctx.refresh \in Login
    BY DEF IInv, Trapped, TypeOK, Context
  <1>. DEFINE Quiet(b) == \/ pc[b] \in {"idle", "load", "answered", "stopped"}
                          \/ pc[b] = "refresh" /\ held[b] = ctx.refresh
  <1>1. \A b \in Attempt : Quiet(b)
    BY DEF Trapped
  <1>2. ASSUME ctx' = ctx, login'[ctx.refresh] = login[ctx.refresh],
               \A b \in Attempt : Quiet(b)'
        PROVE  Trapped' /\ ctx' = ctx
    BY <1>2 DEF Trapped
  <1>3. ASSUME UNCHANGED <<ctx, login, held>>,
               \A b \in Attempt : pc'[b] = pc[b] \/ pc'[b] \in {"load", "answered", "stopped"}
        PROVE  Trapped' /\ ctx' = ctx
    BY <1>1, <1>2, <1>3
  <1>4. ASSUME NEW a \in Attempt, LoadContext(a) PROVE Trapped' /\ ctx' = ctx
    <2>1. pc[a] = "load" /\ UNCHANGED <<ctx, login>>
      BY <1>4 DEF LoadContext, At, ksefVars, contextVars
    <2>2. CASE Answer(a) /\ held' = held
      BY <1>0, <1>3, <2>1, <2>2 DEF Answer, End, Goto, Flow
    <2>3. CASE Refuse(a, "AuthContextNotFound") /\ held' = held
      BY <1>0, <1>3, <2>1, <2>3 DEF Refuse, End, Goto, Flow
    <2>4. CASE held' = [held EXCEPT ![a] = ctx.refresh] /\ Goto(a, "refresh")
      <3>1. \A b \in Attempt : Quiet(b)'
        BY <1>0, <1>1, <2>1, <2>4 DEF Goto, Flow, TypeOK
      <3>. QED BY <1>2, <2>1, <3>1
    <2>5. CASE ~CanRefresh
      BY <1>0, <2>5 DEF CanRefresh, Trapped
    <2>. QED BY <1>4, <2>2, <2>3, <2>4, <2>5 DEF LoadContext
  <1>5. ASSUME NEW a \in Attempt, AttemptFails(a) PROVE Trapped' /\ ctx' = ctx
    <2>1. Moves(a, "stopped")
      BY <1>0, <1>5, FailFlow DEF AttemptFails, Active
    <2>. QED BY <1>3, <1>5, <2>1 DEF Moves, AttemptFails, ksefVars, contextVars
  <1>6. ASSUME NEW a \in Attempt, AttemptStep(a) PROVE Trapped' /\ ctx' = ctx
    <2>1. pc[a] \notin {"init", "poll", "redeem", "create", "update"}
      BY <1>1
    <2>2. pc[a] = "refresh" => login[held[a]] # "redeemed"
      BY <1>1 DEF Trapped
    <2>. QED BY <1>4, <1>5, <1>6, <2>1, <2>2
             DEF AttemptStep, InitAuth, UnsupportedAuthMode, PollAuthStatus,
                 RedeemAccessTokens, CreateOrReplaceContext, RefreshAccessToken,
                 UpdateContextTokens, At, Refresh
  <1>7. ASSUME NEW w \in Execution, GiveUp(w) PROVE Trapped' /\ ctx' = ctx
    <2>1. \A b \in Attempt : pc'[b] = pc[b] \/ pc'[b] = "load"
      BY <1>0, <1>7, NextAttemptFlow DEF GiveUp, Flow
    <2>. QED BY <1>3, <1>7, <2>1 DEF GiveUp, ksefVars, contextVars
  <1>8. ASSUME NEW w \in Execution, ExecutionStep(w) PROVE Trapped' /\ ctx' = ctx
    <2>1. \A n \in 1 .. MaxAttempts : <<w, n>> \in Attempt
      BY DEF Attempt
    <2>. QED BY <1>6, <1>7, <1>8, <2>1 DEF ExecutionStep
  <1>9. ASSUME NEW w \in Execution, NEW k \in {"ensure", "refresh"}, Start(w, k)
        PROVE  Trapped' /\ ctx' = ctx
    BY <1>0, <1>3, <1>9 DEF Start, Goto, Flow, ksefVars, contextVars
  <1>10. ASSUME Outside, UNCHANGED <<ctx, stored, executionVars, attemptVars>>
         PROVE  Trapped' /\ ctx' = ctx
    <2>1. login'[ctx.refresh] = login[ctx.refresh]
      <3>1. login[ctx.refresh] = "revoked" /\ KsefTypeOK
        BY <1>0 DEF Trapped, TypeOK
      <3>. QED BY <1>0, <1>10, <3>1
           DEF Outside, KsefStep, JudgeLogin, ExpireToken, LoginRevoked, Revoke,
               RefreshLapses, KsefTypeOK, ksefVars
    <2>2. pc' = pc /\ held' = held
      BY <1>10 DEF attemptVars
    <2>3. \A b \in Attempt : Quiet(b)'
      BY <1>1, <1>10, <2>2
    <2>. QED BY <1>2, <1>10, <2>1, <2>3
  <1>11. CASE UNCHANGED vars
    BY <1>3, <1>11 DEF vars, ksefVars, contextVars, attemptVars
  <1>. QED BY <1>8, <1>9, <1>10, <1>11 DEF Next

(* ensure_auth_context: a context whose refresh token is of a revoked      *)
(* login stays as it is until the token lapses, whatever is started.       *)
THEOREM RevokedContextIsKept == Spec => RevokedContextStays
  <1>1. IInv /\ [Next]_vars =>
          [Trapped /\ lapsed' = lapsed => Trapped' /\ ctx' = ctx]_vars
    BY TrappedStep
  <1>. QED BY ContextInvariant, <1>1, PTL DEF Spec, RevokedContextStays

-----------------------------------------------------------------------------
(***************************************************************************)
(* How much an attempt does.  AttemptLeft bounds the steps that it can     *)
(* still take; those before it has begun count too.                        *)
(***************************************************************************)
AttemptLeft(a) ==
    CASE pc[a] = "idle"                  -> 6 + MaxStatusPolls
      [] pc[a] = "load"                  -> 5 + MaxStatusPolls
      [] pc[a] = "init"                  -> 4 + MaxStatusPolls
      [] pc[a] = "poll"                  -> 3 + (MaxStatusPolls - polls[a])
      [] pc[a] \in {"redeem", "refresh"} -> 2
      [] pc[a] \in {"create", "update"}  -> 1
      [] OTHER                           -> 0

(* An attempt has a bounded number of steps, and none when it has ended;   *)
(* each of its steps uses some of them up, and nobody gives any back.      *)
AttemptBounded ==
    \A a \in Attempt :
        /\ AttemptLeft(a) \in 0 .. 6 + MaxStatusPolls
        /\ AttemptLeft(a) = 0 <=> pc[a] \in {"answered", "stopped"}

AttemptsUseUp ==
    [][\A a \in Attempt :
         /\ AttemptLeft(a)' <= AttemptLeft(a)
         /\ AttemptStep(a) => AttemptLeft(a)' < AttemptLeft(a)]_vars

(* An attempt that has gone past the call that begins a login has at hand, *)
(* for good, the login it has begun there, if it has.                      *)
Past(a) == pc[a] \notin {"idle", "load", "init"}

Used     == {l \in Login : login[l] # "unused"}
Ensuring == {w \in Execution : kind[w] = "ensure"}

BegunInv ==
    /\ \A a \in Attempt : pc[a] = "init" => kind[a[1]] = "ensure"
    /\ \A l \in Used : \E a \in Attempt :
         held[a] = l /\ Past(a) /\ kind[a[1]] = "ensure"

(* Where attempt a goes, what becomes of its polls and of its login.       *)
Way(a, step) ==
    \/ /\ step = "stopped" /\ Past(a)' /\ pc[a] \notin {"idle", "answered", "stopped"}
       /\ polls' = polls
    \/ /\ pc[a] = "load" /\ step \in {"answered", "refresh", "init", "stopped"}
       /\ polls' = polls
    \/ pc[a] = "init" /\ step = "poll" /\ polls' = polls
    \/ /\ pc[a] = "poll" /\ step = "poll" /\ polls[a] < MaxStatusPolls
       /\ polls' = [polls EXCEPT ![a] = @ + 1]
    \/ pc[a] = "poll" /\ step = "redeem" /\ polls' = polls
    \/ pc[a] = "redeem" /\ step = "create" /\ polls' = polls
    \/ pc[a] = "refresh" /\ step = "update" /\ polls' = polls
    \/ pc[a] \in {"create", "update"} /\ step = "answered" /\ polls' = polls

(* Every step of an attempt is one of these.                               *)
LEMMA WayOf ==
    ASSUME IInv, NEW a \in Attempt, AttemptStep(a)
    PROVE  \E step \in Step : Moves(a, step) /\ Way(a, step)
  <1>. DEFINE Goal == \E step \in Step : Moves(a, step) /\ Way(a, step)
  <1>. SUFFICES Goal
    OBVIOUS
  <1>0. TypeOK /\ Flow
    BY DEF IInv
  <1>1. ASSUME NEW step \in Step, Moves(a, step), Way(a, step) PROVE Goal
    BY <1>1
  <1>2. ASSUME polls' = polls, pc[a] \notin {"idle", "answered", "stopped"},
               Moves(a, "stopped")
        PROVE  Goal
    <2>1. Past(a)'
      BY <1>2 DEF Moves, Past
    <2>. QED BY <1>2, <2>1 DEF Way, Step
  <1>. HIDE DEF Goal
  <1>3. CASE LoadContext(a)
    <2>1. pc[a] = "load" /\ polls' = polls
      BY <1>3 DEF LoadContext, At
    <2>2. CASE Answer(a)
      <3>1. Moves(a, "answered")
        BY <1>0, <2>1, <2>2, EndFlow DEF Answer
      <3>. QED BY <1>1, <2>1, <3>1 DEF Way, Step
    <2>3. CASE Refuse(a, "AuthContextNotFound")
      <3>1. Moves(a, "stopped")
        BY <1>0, <2>1, <2>3, EndFlow DEF Refuse, FinalError
      <3>. QED BY <1>2, <2>1, <3>1
    <2>4. ASSUME NEW step \in {"refresh", "init"},
                 Goto(a, step), UNCHANGED <<outcome, current>>
          PROVE  Goal
      <3>1. Moves(a, step)
        BY <1>0, <2>1, <2>4, GotoFlow DEF Step
      <3>. QED BY <1>1, <2>1, <3>1 DEF Way, Step
    <2>. QED BY <1>3, <2>2, <2>3, <2>4 DEF LoadContext
  <1>4. ASSUME NEW step \in Step, pc[a] \notin {"idle", "answered", "stopped"},
               Answered(a, step), polls' = polls, Way(a, step)
        PROVE  Goal
    <2>1. Moves(a, step) \/ Moves(a, "stopped")
      BY <1>0, <1>4, AnsweredFlow
    <2>. QED BY <1>1, <1>2, <1>4, <2>1
  <1>5. CASE \E l \in Login : InitAuth(a, l)
    <2>1. pc[a] = "init" /\ polls' = polls /\ Answered(a, "poll")
      BY <1>5 DEF InitAuth, At
    <2>. QED BY <1>4, <2>1 DEF Way, Step
  <1>6. CASE UnsupportedAuthMode(a)
    <2>1. pc[a] = "init" /\ polls' = polls /\ Moves(a, "stopped")
      BY <1>0, <1>6, EndFlow DEF UnsupportedAuthMode, At, Refuse, FinalError
    <2>. QED BY <1>2, <2>1
  <1>7. CASE PollAuthStatus(a)
    <2>1. pc[a] = "poll"
      BY <1>7 DEF PollAuthStatus, At
    <2>2. \/ \E e \in FinalError : Refuse(a, e) /\ polls' = polls
          \/ /\ polls[a] < MaxStatusPolls /\ polls' = [polls EXCEPT ![a] = @ + 1]
             /\ UNCHANGED <<pc, outcome, current>>
          \/ Goto(a, "redeem") /\ UNCHANGED <<polls, outcome, current>>
      <3>1. CASE LoginCode(held[a]) = 100
        BY <1>7, <3>1 DEF PollAuthStatus, FinalError
      <3>2. CASE LoginCode(held[a]) = 200
        BY <1>7, <3>2 DEF PollAuthStatus, FinalError
      <3>3. CASE LoginCode(held[a]) # 100 /\ LoginCode(held[a]) # 200
        BY <1>7, <3>3 DEF PollAuthStatus, FinalError
      <3>. QED BY <3>1, <3>2, <3>3
    <2>3. ASSUME NEW e \in FinalError, Refuse(a, e), polls' = polls PROVE Goal
      <3>1. Moves(a, "stopped")
        BY <1>0, <2>1, <2>3, EndFlow DEF Refuse
      <3>. QED BY <1>2, <2>1, <2>3, <3>1
    <2>4. CASE /\ polls[a] < MaxStatusPolls /\ polls' = [polls EXCEPT ![a] = @ + 1]
               /\ UNCHANGED <<pc, outcome, current>>
      <3>1. Moves(a, "poll")
        BY <2>1, <2>4 DEF Moves
      <3>. QED BY <1>1, <2>1, <2>4, <3>1 DEF Way, Step
    <2>5. CASE Goto(a, "redeem") /\ UNCHANGED <<polls, outcome, current>>
      <3>1. Moves(a, "redeem")
        BY <1>0, <2>1, <2>5, GotoFlow DEF Step
      <3>. QED BY <1>1, <2>1, <2>5, <3>1 DEF Way, Step
    <2>. QED BY <2>2, <2>3, <2>4, <2>5
  <1>8. CASE \E t \in Token : RedeemAccessTokens(a, t)
    <2>1. pc[a] = "redeem" /\ polls' = polls /\ Answered(a, "create")
      BY <1>8 DEF RedeemAccessTokens, At
    <2>. QED BY <1>4, <2>1 DEF Way, Step
  <1>9. CASE \E t \in Token : RefreshAccessToken(a, t)
    <2>1. pc[a] = "refresh" /\ polls' = polls /\ Answered(a, "update")
      BY <1>9 DEF RefreshAccessToken, At
    <2>. QED BY <1>4, <2>1 DEF Way, Step
  <1>10. CASE CreateOrReplaceContext(a) \/ UpdateContextTokens(a)
    <2>1. pc[a] \in {"create", "update"} /\ polls' = polls /\ (Answer(a) \/ Fail(a))
      BY <1>10 DEF CreateOrReplaceContext, UpdateContextTokens, At
    <2>2. CASE Answer(a)
      <3>1. Moves(a, "answered")
        BY <1>0, <2>1, <2>2, EndFlow DEF Answer
      <3>. QED BY <1>1, <2>1, <3>1 DEF Way, Step
    <2>3. CASE Fail(a)
      <3>1. Moves(a, "stopped")
        BY <1>0, <2>1, <2>3, FailFlow
      <3>. QED BY <1>2, <2>1, <3>1
    <2>. QED BY <2>1, <2>2, <2>3
  <1>11. CASE AttemptFails(a)
    <2>1. Moves(a, "stopped") /\ polls' = polls
      BY <1>0, <1>11, FailFlow DEF AttemptFails, Active
    <2>. QED BY <1>2, <1>11, <2>1 DEF AttemptFails, Active
  <1>. QED BY <1>3, <1>5, <1>6, <1>7, <1>8, <1>9, <1>10, <1>11 DEF AttemptStep

(* All other steps begin attempts at most.                                 *)
OnlyBegins ==
    /\ \A b \in Attempt : pc'[b] = pc[b] \/ (pc[b] = "idle" /\ pc'[b] = "load")
    /\ \A b \in Attempt : pc[b] # "idle" => kind'[b[1]] = kind[b[1]]
    /\ UNCHANGED <<polls, held>>
    /\ \A l \in Login : login[l] = "unused" => login'[l] = "unused"

LEMMA StepKinds ==
    ASSUME IInv, [Next]_vars
    PROVE  (\E a \in Attempt : AttemptStep(a)) \/ OnlyBegins
  <1>0. TypeOK /\ Flow /\ KsefTypeOK
    BY DEF IInv, TypeOK
  <1>1. ASSUME NEW w \in Execution, NEW k \in {"ensure", "refresh"}, Start(w, k)
        PROVE  OnlyBegins
    <2>1. current[w] = 0 /\ <<w, 1>> \in Attempt
      BY <1>0, <1>1 DEF Start, Flow, Attempt
    <2>2. \A b \in Attempt : b[1] = w => pc[b] = "idle"
      BY <1>0, <2>1, AttemptPairs DEF Flow
    <2>3. \A b \in Attempt : pc[b] # "idle" => kind'[b[1]] = kind[b[1]]
      BY <1>0, <1>1, <2>2, AttemptPairs DEF Start, TypeOK
    <2>4. \A b \in Attempt : pc'[b] = pc[b] \/ (pc[b] = "idle" /\ pc'[b] = "load")
      BY <1>0, <1>1, <2>1, <2>2 DEF Start, Goto, TypeOK
    <2>. QED BY <1>1, <2>3, <2>4 DEF Start, OnlyBegins, ksefVars
  <1>2. ASSUME NEW w \in Execution, GiveUp(w) PROVE OnlyBegins
    <2>1. \A b \in Attempt : pc'[b] = pc[b] \/ (pc[b] = "idle" /\ pc'[b] = "load")
      BY <1>0, <1>2, NextAttemptFlow DEF GiveUp, Flow
    <2>. QED BY <1>2, <2>1 DEF GiveUp, OnlyBegins, ksefVars
  <1>3. ASSUME NEW w \in Execution, ExecutionStep(w)
        PROVE  (\E a \in Attempt : AttemptStep(a)) \/ OnlyBegins
    <2>1. \A n \in 1 .. MaxAttempts : <<w, n>> \in Attempt
      BY DEF Attempt
    <2>. QED BY <1>2, <1>3, <2>1 DEF ExecutionStep
  <1>4. ASSUME Outside, UNCHANGED <<ctx, stored, executionVars, attemptVars>>
        PROVE  OnlyBegins
    <2>1. \A l \in Login : login[l] = "unused" => login'[l] = "unused"
      BY <1>0, <1>4 DEF Outside, KsefStep, JudgeLogin, ExpireToken, LoginRevoked,
                        Revoke, RefreshLapses, KsefTypeOK, ksefVars
    <2>. QED BY <1>4, <2>1 DEF OnlyBegins, executionVars, attemptVars
  <1>5. CASE UNCHANGED vars
    BY <1>5 DEF OnlyBegins, vars, ksefVars, executionVars, attemptVars
  <1>. QED BY <1>1, <1>3, <1>4, <1>5 DEF Next

(* What is left is a number, and nothing only at the end.                  *)
LEMMA AttemptLeftType ==
    ASSUME TypeOK
    PROVE  AttemptBounded
  <1>. SUFFICES ASSUME NEW a \in Attempt
                PROVE  /\ AttemptLeft(a) \in 0 .. 6 + MaxStatusPolls
                       /\ AttemptLeft(a) = 0 <=> pc[a] \in {"answered", "stopped"}
    BY DEF AttemptBounded
  <1>1. polls[a] \in 0 .. MaxStatusPolls /\ MaxStatusPolls \in Nat /\ pc[a] \in Step
    BY DEF TypeOK
  <1>2. MaxStatusPolls - polls[a] \in 0 .. MaxStatusPolls
    BY <1>1
  <1>. QED BY <1>1, <1>2 DEF AttemptLeft, Step

(* A step of an attempt uses up some of it; beginning it does, too.        *)
LEMMA WayUsesUp ==
    ASSUME TypeOK, NEW a \in Attempt, NEW step \in Step, Moves(a, step), Way(a, step)
    PROVE  /\ AttemptLeft(a)' < AttemptLeft(a)
           /\ \A b \in Attempt \ {a} : AttemptLeft(b)' <= AttemptLeft(b)
  <1>1. MaxStatusPolls \in Nat /\ polls \in [Attempt -> 0 .. MaxStatusPolls]
    BY DEF TypeOK
  <1>2. AttemptLeft(a)' < AttemptLeft(a)
    <2>1. polls[a] \in Nat /\ MaxStatusPolls - polls[a] \in Nat /\ pc'[a] = step
      BY <1>1 DEF Moves
    <2>2. CASE pc[a] = "poll" /\ step = "poll" /\ polls' = [polls EXCEPT ![a] = @ + 1]
      <3>1. polls'[a] = polls[a] + 1
        BY <1>1, <2>2
      <3>2. AttemptLeft(a)' = 3 + (MaxStatusPolls - (polls[a] + 1))
        BY <2>1, <2>2, <3>1 DEF AttemptLeft
      <3>3. AttemptLeft(a) = 3 + (MaxStatusPolls - polls[a])
        BY <2>2 DEF AttemptLeft
      <3>. QED BY <1>1, <2>1, <3>2, <3>3
    <2>3. CASE polls' = polls
      <3>1. CASE step = "stopped"
        <4>1. AttemptLeft(a)' = 0
          BY <2>1, <3>1 DEF AttemptLeft
        <4>2. AttemptLeft(a) \in Nat /\ AttemptLeft(a) # 0
          <5>1. pc[a] \notin {"answered", "stopped"}
            BY <2>3, <3>1 DEF Way
          <5>. QED BY <5>1, AttemptLeftType, <1>1 DEF AttemptBounded
        <4>. QED BY <4>1, <4>2
      <3>2. CASE step # "stopped"
        BY <1>1, <2>1, <2>3, <3>2 DEF Way, AttemptLeft
      <3>. QED BY <3>1, <3>2
    <2>. QED BY <2>2, <2>3 DEF Way
  <1>3. ASSUME NEW b \in Attempt, b # a PROVE AttemptLeft(b)' <= AttemptLeft(b)
    <2>1. polls'[b] = polls[b]
      BY <1>1, <1>3 DEF Way
    <2>2. CASE pc'[b] = pc[b]
      <3>1. AttemptLeft(b)' = AttemptLeft(b)
        BY <2>1, <2>2 DEF AttemptLeft
      <3>2. AttemptLeft(b) \in Int
        BY <1>1, AttemptLeftType DEF AttemptBounded
      <3>. QED BY <3>1, <3>2
    <2>3. CASE pc[b] = "idle" /\ pc'[b] = "load"
      BY <1>1, <2>3 DEF AttemptLeft
    <2>. QED BY <1>3, <2>2, <2>3 DEF Moves
  <1>. QED BY <1>2, <1>3

(* An attempt of ensure_auth_context or refresh_auth_context takes at most *)
(* 6 + MaxStatusPolls steps, given up or not, whatever the others, KSeF    *)
(* and the workflows do meanwhile.                                         *)
THEOREM AttemptsAreBounded == Spec => []AttemptBounded /\ AttemptsUseUp
  <1>. DEFINE Use == \A a \in Attempt :
                       /\ AttemptLeft(a)' <= AttemptLeft(a)
                       /\ AttemptStep(a) => AttemptLeft(a)' < AttemptLeft(a)
  <1>1. IInv => AttemptBounded
    BY AttemptLeftType DEF IInv
  <1>2. IInv /\ [Next]_vars => [Use]_vars
    <2>. SUFFICES ASSUME IInv, [Next]_vars, NEW a \in Attempt
                  PROVE  /\ AttemptLeft(a)' <= AttemptLeft(a)
                         /\ AttemptStep(a) => AttemptLeft(a)' < AttemptLeft(a)
      OBVIOUS
    <2>0. TypeOK /\ AttemptLeft(a) \in Int
      BY AttemptLeftType DEF IInv, AttemptBounded
    <2>1. ASSUME NEW b \in Attempt, AttemptStep(b)
          PROVE  /\ AttemptLeft(b)' < AttemptLeft(b)
                 /\ \A c \in Attempt \ {b} : AttemptLeft(c)' <= AttemptLeft(c)
      BY <2>0, <2>1, WayOf, WayUsesUp
    <2>2. CASE AttemptStep(a)
      <3>1. AttemptLeft(a)' \in Int
        <4>1. TypeOK'
          BY ContextStep DEF IInv
        <4>2. polls'[a] \in Int /\ MaxStatusPolls \in Int
          BY <4>1 DEF TypeOK
        <4>. QED BY <4>2 DEF AttemptLeft
      <3>. QED BY <2>0, <2>1, <2>2, <3>1
    <2>3. CASE ~AttemptStep(a) /\ \E b \in Attempt : AttemptStep(b)
      BY <2>1, <2>3
    <2>4. CASE OnlyBegins /\ ~AttemptStep(a)
      <3>1. polls' = polls
        BY <2>4 DEF OnlyBegins
      <3>2. CASE pc'[a] = pc[a]
        <4>1. AttemptLeft(a)' = AttemptLeft(a)
          BY <3>1, <3>2 DEF AttemptLeft
        <4>. QED BY <2>0, <2>4, <4>1
      <3>3. CASE pc[a] = "idle" /\ pc'[a] = "load"
        BY <2>4, <3>3 DEF AttemptLeft
      <3>. QED BY <2>4, <3>2, <3>3 DEF OnlyBegins
    <2>. QED BY <2>2, <2>3, <2>4, StepKinds
  <1>. QED BY <1>1, <1>2, ContextInvariant, PTL DEF Spec, AttemptsUseUp

-----------------------------------------------------------------------------
(* Logins are begun by attempts that then have them at hand.               *)
LEMMA LoginsOf ==
    ASSUME IInv, NEW a \in Attempt, AttemptStep(a)
    PROVE  /\ kind' = kind
           /\ \A b \in Attempt : Past(b) => held'[b] = held[b]
           /\ \A l \in Login : login[l] = "unused" =>
                login'[l] = "unused" \/ (pc[a] = "init" /\ held'[a] = l)
           /\ pc[a] = "load" /\ pc'[a] = "init" => kind[a[1]] = "ensure"
  <1>. DEFINE Logins == /\ \A b \in Attempt : Past(b) => held'[b] = held[b]
                        /\ \A l \in Login : login[l] = "unused" =>
                             login'[l] = "unused" \/ (pc[a] = "init" /\ held'[a] = l)
              Choice == pc[a] = "load" /\ pc'[a] = "init" => kind[a[1]] = "ensure"
  <1>0. KsefTypeOK /\ TypeOK /\ Flow /\ Hand(a)
    BY DEF IInv, TypeOK, Hands
  <1>1. kind' = kind
    BY DEF AttemptStep, LoadContext, InitAuth, UnsupportedAuthMode, PollAuthStatus,
           RedeemAccessTokens, CreateOrReplaceContext, RefreshAccessToken,
           UpdateContextTokens, AttemptFails
  <1>2. CASE LoadContext(a)
    <2>1. pc[a] = "load" /\ login' = login
      BY <1>2 DEF LoadContext, At, ksefVars
    <2>2. \A b \in Attempt : Past(b) => held'[b] = held[b]
      BY <1>0, <1>2, <2>1 DEF LoadContext, Past, TypeOK
    <2>3. Choice
      BY <1>0, <1>2 DEF LoadContext, Answer, Refuse, End, Goto, Flow
    <2>. QED BY <1>1, <2>1, <2>2, <2>3
  <1>3. ASSUME NEW l \in Login, InitAuth(a, l) PROVE Logins /\ Choice
    <2>1. pc[a] = "init" /\ held' = [held EXCEPT ![a] = l]
          /\ login' = [login EXCEPT ![l] = "pending"]
      BY <1>3 DEF InitAuth, At, BeginLogin
    <2>. QED BY <1>0, <2>1 DEF Past, TypeOK, KsefTypeOK
  <1>4. CASE UnsupportedAuthMode(a) \/ PollAuthStatus(a) \/ AttemptFails(a)
             \/ CreateOrReplaceContext(a) \/ UpdateContextTokens(a)
    <2>1. UNCHANGED <<login, held>>
      BY <1>4 DEF UnsupportedAuthMode, PollAuthStatus, AttemptFails,
                  CreateOrReplaceContext, UpdateContextTokens, ksefVars
    <2>2. Choice
      <3>1. CASE AttemptFails(a)
        <4>1. Moves(a, "stopped")
          BY <1>0, <3>1, FailFlow DEF AttemptFails, Active
        <4>. QED BY <4>1 DEF Moves
      <3>2. CASE pc[a] # "load"
        BY <3>2
      <3>. QED BY <1>4, <3>1, <3>2
               DEF UnsupportedAuthMode, PollAuthStatus, CreateOrReplaceContext,
                   UpdateContextTokens, At
    <2>. QED BY <1>1, <2>1, <2>2
  <1>5. ASSUME NEW t \in Token, RedeemAccessTokens(a, t) \/ RefreshAccessToken(a, t)
        PROVE  Logins /\ Choice
    <2>1. pc[a] \in {"redeem", "refresh"} /\ held' = held /\ held[a] \in Login
      BY <1>0, <1>5 DEF RedeemAccessTokens, RefreshAccessToken, At, Hand
    <2>2. login' = login \/ login' = [login EXCEPT ![held[a]] = "redeemed"]
      BY <1>5 DEF RedeemAccessTokens, RefreshAccessToken, Redeem, Refresh
    <2>3. login' = login \/ login[held[a]] = "ok"
      BY <1>5 DEF RedeemAccessTokens, RefreshAccessToken, Redeem, Refresh
    <2>. QED BY <1>0, <2>1, <2>2, <2>3 DEF KsefTypeOK
  <1>. QED BY <1>1, <1>2, <1>3, <1>4, <1>5 DEF AttemptStep

LEMMA BegunInvStep ==
    ASSUME IInv, BegunInv, [Next]_vars
    PROVE  BegunInv'
  <1>0. TypeOK /\ Flow /\ KsefTypeOK
    BY DEF IInv, TypeOK
  <1>1. ASSUME NEW a \in Attempt, AttemptStep(a) PROVE BegunInv'
    <2>1. PICK step \in Step : Moves(a, step) /\ Way(a, step)
      BY <1>1, WayOf
    <2>2. /\ kind' = kind
          /\ \A b \in Attempt : Past(b) => held'[b] = held[b]
          /\ \A l \in Login : login[l] = "unused" =>
               login'[l] = "unused" \/ (pc[a] = "init" /\ held'[a] = l)
          /\ pc[a] = "load" /\ pc'[a] = "init" => kind[a[1]] = "ensure"
      BY <1>1, LoginsOf
    <2>3. \A b \in Attempt : Past(b) => Past(b)'
      BY <2>1 DEF Moves, Way, Past
    <2>4. pc[a] = "init" => Past(a)'
      BY <2>1 DEF Moves, Way, Past
    <2>5. \A b \in Attempt : pc'[b] = "init" => kind'[b[1]] = "ensure"
      BY <2>1, <2>2 DEF BegunInv, Moves, Way
    <2>6. ASSUME NEW l \in Login, login'[l] # "unused"
          PROVE  \E b \in Attempt : held'[b] = l /\ Past(b)' /\ kind'[b[1]] = "ensure"
      <3>1. CASE login[l] # "unused"
        BY <2>2, <2>3, <3>1 DEF BegunInv, Used
      <3>2. CASE login[l] = "unused"
        BY <2>2, <2>4, <2>6, <3>2 DEF BegunInv
      <3>. QED BY <3>1, <3>2
    <2>. QED BY <2>5, <2>6 DEF BegunInv, Used
  <1>2. CASE OnlyBegins
    <2>1. \A b \in Attempt : Past(b) =>
            Past(b)' /\ held'[b] = held[b] /\ kind'[b[1]] = kind[b[1]]
      BY <1>2 DEF OnlyBegins, Past
    <2>2. \A b \in Attempt : pc'[b] = "init" => kind'[b[1]] = "ensure"
      BY <1>2 DEF OnlyBegins, BegunInv
    <2>3. ASSUME NEW l \in Login, login'[l] # "unused"
          PROVE  \E b \in Attempt : held'[b] = l /\ Past(b)' /\ kind'[b[1]] = "ensure"
      BY <1>2, <2>1, <2>3 DEF OnlyBegins, BegunInv, Used
    <2>. QED BY <2>2, <2>3 DEF BegunInv, Used
  <1>. QED BY <1>1, <1>2, StepKinds

(* However many executions run at once, and whichever of their attempts    *)
(* were given up and go on, KSeF never gets more logins than the retry     *)
(* policy has attempts for the executions that ensure a context; those     *)
(* that refresh one begin none (auth_activities.py, models/common.py:28).  *)
THEOREM LoginsLimited ==
    ASSUME IsFiniteSet(Execution)
    PROVE  Spec => [](Cardinality(Used) <= Cardinality(Ensuring) * MaxAttempts)
  <1>1. Init => BegunInv
    BY DEF Init, KsefInit, BegunInv, Used
  <1>2. BegunInv => Cardinality(Used) <= Cardinality(Ensuring) * MaxAttempts
    <2>. SUFFICES ASSUME BegunInv
                  PROVE  Cardinality(Used) <= Cardinality(Ensuring) * MaxAttempts
      OBVIOUS
    <2>. DEFINE By(l) == CHOOSE a \in Attempt :
                           held[a] = l /\ Past(a) /\ kind[a[1]] = "ensure"
                f == [l \in Used |-> By(l)]
                Those == Ensuring \X (1 .. MaxAttempts)
    <2>1. \A l \in Used : By(l) \in Attempt /\ held[By(l)] = l /\ kind[By(l)[1]] = "ensure"
      BY DEF BegunInv
    <2>2. \A l \in Used : By(l) \in Those
      BY <2>1, AttemptPairs DEF Ensuring
    <2>. HIDE DEF By
    <2>3. f \in Injection(Used, Those)
      BY <2>1, <2>2 DEF Injection, IsInjective
    <2>4. IsFiniteSet(Ensuring)
      BY FS_Subset DEF Ensuring
    <2>5. IsFiniteSet(1 .. MaxAttempts) /\ Cardinality(1 .. MaxAttempts) = MaxAttempts
      BY FS_Interval
    <2>6. /\ IsFiniteSet(Those)
          /\ Cardinality(Those) = Cardinality(Ensuring) * MaxAttempts
      BY <2>4, <2>5, FS_Product
    <2>. HIDE DEF f, Those
    <2>. QED BY <2>3, <2>6, FS_Injection
  <1>3. IInv /\ BegunInv /\ [Next]_vars => BegunInv'
    BY BegunInvStep
  <1>. QED BY <1>1, <1>2, <1>3, ContextInvariant, PTL DEF Spec
=============================================================================
