-------------------------- MODULE AuthServiceProofs --------------------------
(***************************************************************************)
(* What holds of a company's row of tokens for any number of concurrent    *)
(* requests, logins, access tokens and polls.                              *)
(***************************************************************************)
EXTENDS AuthService, TLAPS

USE LoginAssumption, AuthAssumption

(* A request has at hand what its next call needs, and what it is about to *)
(* save is an access token of the login it is saved with.                  *)
Hand(c) ==
    /\ pc[c] \in {"init", "poll", "redeem"} => op[c] = "redeem"
    /\ pc[c] \in {"revoke", "select_delete", "commit_delete"} => op[c] = "revoke"
    /\ pc[c] = "refresh" => op[c] = "refresh"
    /\ pc[c] \in {"select", "commit"} => op[c] \in {"redeem", "refresh"}
    /\ pc[c] \in {"poll", "redeem", "refresh", "revoke", "select", "commit"} =>
         held[c] \in Login
    /\ pc[c] \in {"select", "commit"} =>
         token[c] \in Token /\ issued[token[c]] = held[c]
    /\ pc[c] = "revoke" => found[c].refresh = held[c]
    /\ pc[c] \in {"select_delete", "commit_delete"} /\ found[c] # NoRow =>
         login[found[c].refresh] = "revoked"

(* Request c knows the refresh token of login l.                           *)
Uses(c, l) == held[c] = l \/ supplied[c] = l \/ found[c].refresh = l

(* Nobody knows a refresh token before its login has begun.                *)
Begun ==
    \A l \in Login : login[l] = "unused" =>
        row.refresh # l /\ \A c \in Request : ~Uses(c, l)

(* Until a redeem has saved it nobody else knows the refresh token it has  *)
(* at hand, and so nobody can revoke it.                                   *)
Private(c) ==
    op[c] = "redeem" /\ pc[c] \in {"poll", "redeem", "select", "commit"} =>
        /\ row.refresh # held[c]
        /\ \A d \in Request \ {c} : ~Uses(d, held[c])
        /\ pc[c] \in {"select", "commit"} => login[held[c]] = "redeemed"

IInv == /\ TypeOK /\ Begun
        /\ \A c \in Request : Hand(c) /\ Private(c)

-----------------------------------------------------------------------------
(* What a step of request c may do to KSeF, to the row and to itself.      *)
Calls(c) ==
    /\ \A t \in Token : issued[t] # None => issued'[t] = issued[t]
    /\ \A l \in Login :
         /\ login'[l] = "unused" => login[l] = "unused"
         /\ login[l] = "revoked" => login'[l] = "revoked"
         /\ login[l] = "redeemed" =>
              login'[l] = "redeemed" \/ (pc[c] = "revoke" /\ held[c] = l)

Writes(c) ==
    \/ row'.refresh = row.refresh
    \/ row'.refresh = None
    \/ row'.refresh = held[c] /\ pc[c] = "commit"

Learns(c) ==
    \A l \in Login : Uses(c, l)' =>
        \/ Uses(c, l)
        \/ row.refresh = l
        \/ \E d \in Request \ {c} : pc[d] = "done" /\ Uses(d, l)
        \/ login[l] = "unused" /\ login'[l] # "unused"

Alone(c) ==
    \A d \in Request \ {c} :
        /\ pc'[d] = pc[d] /\ op'[d] = op[d] /\ held'[d] = held[d]
        /\ token'[d] = token[d] /\ found'[d] = found[d]
        /\ supplied'[d] = supplied[d]

LEMMA RequestKeeps ==
    ASSUME IInv, NEW c \in Request, TypeOK', Calls(c), Writes(c), Learns(c),
           Alone(c), Hand(c)', Private(c)'
    PROVE  IInv'
  <1>0. TypeOK /\ Begun /\ \A d \in Request : Hand(d) /\ Private(d)
    BY DEF IInv
  <1>1. ASSUME NEW d \in Request \ {c} PROVE Hand(d)'
    <2>1. pc[d] \in {"select", "commit"} => issued'[token[d]] = held[d]
      BY <1>0 DEF Hand, Calls
    <2>2. pc[d] \in {"select_delete", "commit_delete"} /\ found[d] # NoRow =>
            login'[found[d].refresh] = "revoked"
      <3>1. found[d] # NoRow => found[d].refresh \in Login
        BY <1>0 DEF TypeOK, Row
      <3>. QED BY <1>0, <3>1 DEF Hand, Calls
    <2>3. Hand(d)
      BY <1>0
    <2>. QED BY <2>1, <2>2, <2>3 DEF Hand, Alone
  <1>2. ASSUME NEW d \in Request \ {c} PROVE Private(d)'
    <2>. SUFFICES ASSUME op[d] = "redeem",
                         pc[d] \in {"poll", "redeem", "select", "commit"}
                  PROVE  /\ row'.refresh # held[d]
                         /\ \A e \in Request \ {d} : ~Uses(e, held[d])'
                         /\ pc[d] \in {"select", "commit"} =>
                              login'[held[d]] = "redeemed"
      BY DEF Private, Alone, Uses
    <2>1. /\ held[d] \in Login /\ held[d] # None
          /\ row.refresh # held[d]
          /\ \A e \in Request \ {d} : ~Uses(e, held[d])
          /\ pc[d] \in {"select", "commit"} => login[held[d]] = "redeemed"
      BY <1>0 DEF Hand, Private
    <2>2. held[c] # held[d]
      BY <2>1 DEF Uses
    <2>3. row'.refresh # held[d]
      BY <2>1, <2>2 DEF Writes
    <2>4. login[held[d]] # "unused"
      BY <1>0, <2>1 DEF Begun, Uses
    <2>5. ~Uses(c, held[d])'
      <3>1. PICK l \in Login : l = held[d] /\ l = held'[d]
        BY <2>1 DEF Alone
      <3>2. ~Uses(c, l)'
        BY <2>1, <2>4, <3>1 DEF Learns
      <3>. QED BY <3>1, <3>2 DEF Uses
    <2>6. \A e \in Request \ {c, d} : ~Uses(e, held[d])'
      BY <2>1 DEF Alone, Uses
    <2>. QED BY <2>1, <2>2, <2>3, <2>5, <2>6 DEF Calls
  <1>3. ASSUME NEW l \in Login, login'[l] = "unused"
        PROVE  row'.refresh # l /\ \A d \in Request : ~Uses(d, l)'
    <2>1. login[l] = "unused" /\ l # None
      BY <1>3 DEF Calls
    <2>2. row.refresh # l /\ \A d \in Request : ~Uses(d, l)
      BY <1>0, <2>1 DEF Begun
    <2>3. row'.refresh # l
      BY <2>1, <2>2 DEF Writes, Uses
    <2>4. ~Uses(c, l)'
      BY <1>3, <2>2 DEF Learns
    <2>5. \A d \in Request \ {c} : ~Uses(d, l)'
      BY <2>2 DEF Alone, Uses
    <2>. QED BY <2>3, <2>4, <2>5
  <1>. QED BY <1>1, <1>2, <1>3 DEF IInv, Begun

(* A step that calls nobody and writes nothing.                            *)
LEMMA QuietKeeps ==
    ASSUME IInv, NEW c \in Request, TypeOK', UNCHANGED <<ksefVars, row>>,
           Alone(c), UNCHANGED <<held, supplied, found>>, Hand(c)', Private(c)'
    PROVE  IInv'
  <1>1. Calls(c) /\ Writes(c) /\ Learns(c)
    BY DEF Calls, Writes, Learns, Uses, ksefVars
  <1>. QED BY <1>1, RequestKeeps

LEMMA GotoAlone ==
    ASSUME TypeOK, NEW c \in Request, NEW step \in Step, Goto(c, step)
    PROVE  /\ pc' \in [Request -> Step] /\ pc'[c] = step
           /\ \A d \in Request \ {c} : pc'[d] = pc[d]
  BY DEF TypeOK, Goto

(* An error leaves nothing to do.                                          *)
LEMMA StepFailsKeeps == ASSUME IInv, NEW c \in Request, StepFails(c) PROVE IInv'
  <1>1. TypeOK /\ pc' \in [Request -> Step] /\ pc'[c] = "failed"
        /\ \A d \in Request \ {c} : pc'[d] = pc[d]
    BY GotoAlone DEF IInv, StepFails, Step
  <1>2. TypeOK'
    BY <1>1 DEF StepFails, TypeOK, KsefTypeOK, ksefVars
  <1>3. Alone(c) /\ Hand(c)' /\ Private(c)'
    BY <1>1 DEF StepFails, Alone, Hand, Private
  <1>. QED BY <1>2, <1>3, QuietKeeps DEF StepFails

LEMMA BeginKeeps ==
    ASSUME IInv, NEW c \in Request, NEW o \in Op, NEW l \in Login \cup {None},
           Begin(c, o, l)
    PROVE  IInv'
  <1>1. TypeOK /\ pc[c] = "idle" /\ FirstStep(o) \in {"init", "read"}
    BY DEF IInv, Begin, FirstStep
  <1>2. pc' \in [Request -> Step] /\ pc'[c] = FirstStep(o)
        /\ \A d \in Request \ {c} : pc'[d] = pc[d]
    BY <1>1, GotoAlone DEF Begin, Step
  <1>3. /\ op' = [op EXCEPT ![c] = o] /\ supplied' = [supplied EXCEPT ![c] = l]
        /\ UNCHANGED <<ksefVars, row, polls, found, held, token, loaded>>
    BY DEF Begin
  <1>4. TypeOK'
    BY <1>1, <1>2, <1>3 DEF TypeOK, KsefTypeOK, ksefVars
  <1>5. Alone(c) /\ Calls(c) /\ Writes(c)
    BY <1>1, <1>2, <1>3 DEF TypeOK, Alone, Calls, Writes, ksefVars
  <1>6. Learns(c)
    <2>1. l # None => \E d \in Request \ {c} : pc[d] = "done" /\ held[d] = l
      BY <1>1 DEF Begin, Known
    <2>. QED BY <1>1, <1>3, <2>1 DEF Learns, Uses, TypeOK
  <1>7. Hand(c)' /\ Private(c)'
    BY <1>1, <1>2, <1>3 DEF Hand, Private, FirstStep, TypeOK
  <1>. QED BY <1>4, <1>5, <1>6, <1>7, RequestKeeps

LEMMA InitializeKeeps ==
    ASSUME IInv, NEW c \in Request, NEW l \in Login, InitializeAuth(c, l)
    PROVE  IInv'
  <1>1. TypeOK /\ Begun /\ Hand(c) /\ pc[c] = "init" /\ op[c] = "redeem"
    BY DEF IInv, InitializeAuth, Hand
  <1>2. PICK step \in {"poll", "failed"} :
          pc' \in [Request -> Step] /\ pc'[c] = step
          /\ \A d \in Request \ {c} : pc'[d] = pc[d]
    BY <1>1, GotoAlone DEF InitializeAuth, Answered, Step
  <1>3. /\ login[l] = "unused" /\ login' = [login EXCEPT ![l] = "pending"]
        /\ held' = [held EXCEPT ![c] = l]
        /\ UNCHANGED <<issued, expired, row, op, polls, supplied, found, token,
                       loaded>>
    BY DEF InitializeAuth, BeginLogin
  <1>4. TypeOK'
    BY <1>1, <1>2, <1>3 DEF TypeOK, KsefTypeOK, LoginState
  <1>5. Alone(c) /\ Calls(c) /\ Writes(c) /\ Learns(c)
    BY <1>1, <1>2, <1>3 DEF TypeOK, KsefTypeOK, Alone, Calls, Writes, Learns, Uses
  <1>6. Hand(c)'
    BY <1>1, <1>2, <1>3 DEF TypeOK, Hand
  <1>7. Private(c)'
    <2>1. row.refresh # l /\ \A d \in Request : ~Uses(d, l)
      BY <1>1, <1>3 DEF Begun
    <2>2. held'[c] = l /\ pc'[c] \notin {"select", "commit"}
      BY <1>1, <1>2, <1>3 DEF TypeOK
    <2>3. \A d \in Request \ {c} : ~Uses(d, l)'
      BY <1>5, <2>1 DEF Alone, Uses
    <2>. QED BY <1>3, <2>1, <2>2, <2>3 DEF Private, Uses
  <1>. QED BY <1>4, <1>5, <1>6, <1>7, RequestKeeps

LEMMA PollKeeps == ASSUME IInv, NEW c \in Request, PollAuthStatus(c) PROVE IInv'
  <1>1. TypeOK /\ Hand(c) /\ Private(c) /\ pc[c] = "poll" /\ op[c] = "redeem"
    BY DEF IInv, PollAuthStatus, Hand
  <1>2. /\ UNCHANGED <<ksefVars, row, op, supplied, found, held, token, loaded>>
        /\ polls' \in [Request -> 0 .. MaxPolls]
    BY <1>1 DEF PollAuthStatus, TypeOK
  <1>3. \E step \in {"poll", "redeem", "failed"} : Goto(c, step)
    <2>1. CASE LoginCode(held[c]) = 200
      BY <2>1 DEF PollAuthStatus
    <2>2. CASE LoginCode(held[c]) = 100
      BY <2>2 DEF PollAuthStatus
    <2>3. CASE LoginCode(held[c]) # 200 /\ LoginCode(held[c]) # 100
      BY <2>3 DEF PollAuthStatus
    <2>. QED BY <2>1, <2>2, <2>3
  <1>4. PICK step \in {"poll", "redeem", "failed"} :
          pc' \in [Request -> Step] /\ pc'[c] = step
          /\ \A d \in Request \ {c} : pc'[d] = pc[d]
    BY <1>1, <1>3, GotoAlone DEF Step
  <1>5. TypeOK'
    BY <1>1, <1>2, <1>4 DEF TypeOK, KsefTypeOK, ksefVars
  <1>6. Alone(c) /\ Hand(c)' /\ Private(c)'
    BY <1>1, <1>2, <1>4 DEF Alone, Hand, Private, Uses
  <1>. QED BY <1>2, <1>5, <1>6, QuietKeeps

LEMMA RedeemKeeps ==
    ASSUME IInv, NEW c \in Request, NEW t \in Token, RedeemTokens(c, t)
    PROVE  IInv'
  <1>1. TypeOK /\ Hand(c) /\ Private(c) /\ pc[c] = "redeem" /\ op[c] = "redeem"
        /\ held[c] \in Login
    BY DEF IInv, RedeemTokens, Hand
  <1>2. PICK step \in {"select", "failed"} :
          pc' \in [Request -> Step] /\ pc'[c] = step
          /\ \A d \in Request \ {c} : pc'[d] = pc[d]
    BY <1>1, GotoAlone DEF RedeemTokens, Answered, Step
  <1>3. /\ login[held[c]] = "ok"
        /\ login' = [login EXCEPT ![held[c]] = "redeemed"]
        /\ issued[t] = None /\ issued' = [issued EXCEPT ![t] = held[c]]
        /\ token' = [token EXCEPT ![c] = t]
        /\ UNCHANGED <<expired, row, op, polls, supplied, found, held, loaded>>
    BY DEF RedeemTokens, Redeem, IssueToken
  <1>4. TypeOK'
    BY <1>1, <1>2, <1>3 DEF TypeOK, KsefTypeOK, LoginState
  <1>5. Alone(c) /\ Calls(c) /\ Writes(c) /\ Learns(c)
    BY <1>1, <1>2, <1>3 DEF TypeOK, KsefTypeOK, Alone, Calls, Writes, Learns, Uses
  <1>6. Hand(c)'
    BY <1>1, <1>2, <1>3 DEF TypeOK, KsefTypeOK, Hand
  <1>7. Private(c)'
    BY <1>1, <1>3 DEF TypeOK, KsefTypeOK, Private, Uses
  <1>. QED BY <1>4, <1>5, <1>6, <1>7, RequestKeeps

LEMMA ReadKeeps == ASSUME IInv, NEW c \in Request, GetByCompany(c) PROVE IInv'
  <1>1. TypeOK /\ pc[c] = "read"
    BY DEF IInv, GetByCompany
  <1>2. /\ found' = [found EXCEPT ![c] = row]
        /\ UNCHANGED <<ksefVars, row, op, polls, supplied, loaded>>
    BY DEF GetByCompany
  <1>3. Calls(c) /\ Writes(c)
    BY <1>2 DEF Calls, Writes, ksefVars
  <1>r. row = NoRow \/ (row # NoRow /\ row \in Row /\ row.refresh \in Login
                                    /\ row.access \in Token)
    BY <1>1 DEF TypeOK, Row
  <1>n. NoRow.refresh = None /\ NoRow.access = None
    BY DEF NoRow
  <1>4. ASSUME ReadForRefresh(c) PROVE IInv'
    <2>. DEFINE l == IF supplied[c] # None THEN supplied[c] ELSE row.refresh
    <2>1. /\ op[c] = "refresh" /\ held' = [held EXCEPT ![c] = l] /\ token' = token
          /\ Goto(c, IF l = None THEN "failed" ELSE "refresh")
      BY <1>4 DEF ReadForRefresh
    <2>2. l \in Login \cup {None}
      BY <1>1, <1>r, <1>n DEF TypeOK
    <2>3. /\ pc' \in [Request -> Step]
          /\ pc'[c] = IF l = None THEN "failed" ELSE "refresh"
          /\ \A d \in Request \ {c} : pc'[d] = pc[d]
      BY <1>1, <2>1, GotoAlone DEF Step
    <2>4. l # None => l = supplied[c] \/ l = row.refresh
      OBVIOUS
    <2>. HIDE DEF l
    <2>5. TypeOK'
      BY <1>1, <1>2, <2>1, <2>2, <2>3 DEF TypeOK, KsefTypeOK, ksefVars
    <2>6. Alone(c)
      BY <1>1, <1>2, <2>1, <2>3 DEF TypeOK, Alone
    <2>7. Learns(c)
      BY <1>1, <1>2, <2>1, <2>4 DEF Learns, Uses, TypeOK
    <2>8. Hand(c)' /\ Private(c)'
      BY <1>1, <1>2, <2>1, <2>2, <2>3 DEF Hand, Private, TypeOK
    <2>. QED BY <1>3, <2>5, <2>6, <2>7, <2>8, RequestKeeps
  <1>5. ASSUME ReadForRevoke(c) PROVE IInv'
    <2>1. /\ op[c] = "revoke" /\ held' = [held EXCEPT ![c] = row.refresh]
          /\ token' = token
          /\ Goto(c, IF row = NoRow THEN "select_delete" ELSE "revoke")
      BY <1>5 DEF ReadForRevoke
    <2>2. row.refresh \in Login \cup {None}
      BY <1>r, <1>n
    <2>3. /\ pc' \in [Request -> Step]
          /\ pc'[c] = IF row = NoRow THEN "select_delete" ELSE "revoke"
          /\ \A d \in Request \ {c} : pc'[d] = pc[d]
      BY <1>1, <2>1, GotoAlone DEF Step
    <2>5. TypeOK'
      BY <1>1, <1>2, <2>1, <2>2, <2>3 DEF TypeOK, KsefTypeOK, ksefVars
    <2>6. Alone(c)
      BY <1>1, <1>2, <2>1, <2>3 DEF TypeOK, Alone
    <2>7. Learns(c)
      BY <1>1, <1>2, <2>1 DEF Learns, Uses, TypeOK
    <2>8. Hand(c)'
      <3>1. found'[c] = row /\ held'[c] = row.refresh /\ op'[c] = "revoke"
        BY <1>1, <1>2, <2>1 DEF TypeOK
      <3>. QED BY <1>r, <2>3, <3>1 DEF Hand
    <2>9. Private(c)'
      BY <1>2, <2>1 DEF Private
    <2>. QED BY <1>3, <2>5, <2>6, <2>7, <2>8, <2>9, RequestKeeps
  <1>6. ASSUME ReadForUse(c) PROVE IInv'
    <2>1. /\ op[c] = "use" /\ token' = [token EXCEPT ![c] = row.access]
          /\ held' = held /\ Goto(c, IF row = NoRow THEN "failed" ELSE "done")
      BY <1>6 DEF ReadForUse
    <2>2. row.access \in Token \cup {None}
      BY <1>r, <1>n
    <2>3. /\ pc' \in [Request -> Step] /\ pc'[c] \in {"failed", "done"}
          /\ \A d \in Request \ {c} : pc'[d] = pc[d]
      BY <1>1, <2>1, GotoAlone DEF Step
    <2>5. TypeOK'
      BY <1>1, <1>2, <2>1, <2>2, <2>3 DEF TypeOK, KsefTypeOK, ksefVars
    <2>6. Alone(c)
      BY <1>1, <1>2, <2>1, <2>3 DEF TypeOK, Alone
    <2>7. Learns(c)
      BY <1>1, <1>2, <2>1 DEF Learns, Uses, TypeOK
    <2>8. Hand(c)' /\ Private(c)'
      BY <2>3 DEF Hand, Private
    <2>. QED BY <1>3, <2>5, <2>6, <2>7, <2>8, RequestKeeps
  <1>. QED BY <1>4, <1>5, <1>6 DEF GetByCompany

LEMMA RefreshKeeps ==
    ASSUME IInv, NEW c \in Request, NEW t \in Token, RefreshToken(c, t)
    PROVE  IInv'
  <1>1. TypeOK /\ Hand(c) /\ pc[c] = "refresh" /\ op[c] = "refresh"
        /\ held[c] \in Login
    BY DEF IInv, RefreshToken, Hand
  <1>2. PICK step \in {"select", "failed"} :
          pc' \in [Request -> Step] /\ pc'[c] = step
          /\ \A d \in Request \ {c} : pc'[d] = pc[d]
    BY <1>1, GotoAlone DEF RefreshToken, Answered, Step
  <1>3. /\ login' = login
        /\ issued[t] = None /\ issued' = [issued EXCEPT ![t] = held[c]]
        /\ token' = [token EXCEPT ![c] = t]
        /\ UNCHANGED <<expired, row, op, polls, supplied, found, held, loaded>>
    BY DEF RefreshToken, Refresh, IssueToken
  <1>4. TypeOK'
    BY <1>1, <1>2, <1>3 DEF TypeOK, KsefTypeOK
  <1>5. Alone(c) /\ Calls(c) /\ Writes(c) /\ Learns(c)
    BY <1>1, <1>2, <1>3 DEF TypeOK, KsefTypeOK, Alone, Calls, Writes, Learns, Uses
  <1>6. Hand(c)' /\ Private(c)'
    BY <1>1, <1>2, <1>3 DEF TypeOK, KsefTypeOK, Hand, Private
  <1>. QED BY <1>4, <1>5, <1>6, RequestKeeps

LEMMA RevokeKeeps == ASSUME IInv, NEW c \in Request, RevokeCurrentAuth(c) PROVE IInv'
  <1>1. TypeOK /\ Hand(c) /\ pc[c] = "revoke" /\ op[c] = "revoke"
        /\ held[c] \in Login /\ found[c].refresh = held[c]
    BY DEF IInv, RevokeCurrentAuth, Hand
  <1>2. PICK step \in {"select_delete", "failed"} :
          pc' \in [Request -> Step] /\ pc'[c] = step
          /\ \A d \in Request \ {c} : pc'[d] = pc[d]
    BY <1>1, GotoAlone DEF RevokeCurrentAuth, Answered, Step
  <1>3. /\ login[held[c]] = "redeemed"
        /\ login' = [login EXCEPT ![held[c]] = "revoked"]
        /\ UNCHANGED <<issued, expired, row, op, polls, supplied, found, held,
                       token, loaded>>
    BY DEF RevokeCurrentAuth, Revoke
  <1>4. TypeOK'
    BY <1>1, <1>2, <1>3 DEF TypeOK, KsefTypeOK, LoginState
  <1>5. Alone(c) /\ Calls(c) /\ Writes(c) /\ Learns(c)
    BY <1>1, <1>2, <1>3 DEF TypeOK, KsefTypeOK, Alone, Calls, Writes, Learns, Uses
  <1>6. Hand(c)' /\ Private(c)'
    BY <1>1, <1>2, <1>3 DEF TypeOK, KsefTypeOK, Hand, Private
  <1>. QED BY <1>4, <1>5, <1>6, RequestKeeps

LEMMA SelectKeeps == ASSUME IInv, NEW c \in Request, SelectForSave(c) PROVE IInv'
  <1>1. TypeOK /\ Hand(c) /\ Private(c) /\ pc[c] = "select"
    BY DEF IInv, SelectForSave
  <1>2. pc' \in [Request -> Step] /\ pc'[c] = "commit"
        /\ \A d \in Request \ {c} : pc'[d] = pc[d]
    BY <1>1, GotoAlone DEF SelectForSave, Step
  <1>3. /\ loaded' = [loaded EXCEPT ![c] = row]
        /\ UNCHANGED <<ksefVars, row, op, polls, supplied, found, held, token>>
    BY DEF SelectForSave
  <1>4. TypeOK'
    BY <1>1, <1>2, <1>3 DEF TypeOK, KsefTypeOK, ksefVars
  <1>5. Alone(c) /\ Hand(c)' /\ Private(c)'
    BY <1>1, <1>2, <1>3 DEF Alone, Hand, Private, Uses, ksefVars
  <1>. QED BY <1>3, <1>4, <1>5, QuietKeeps

(* What a commit of save leaves in the row.                                *)
LEMMA SavedRow ==
    ASSUME IInv, NEW c \in Request, pc[c] = "commit", Insert(c) \/ Update(c)
    PROVE  /\ row' \in Row /\ row' # NoRow
           /\ row'.access = token[c]
           /\ row'.refresh = row.refresh \/ row'.refresh = held[c]
           /\ loaded[c] \in {NoRow, row} => row'.refresh = held[c]
  <1>1. /\ TypeOK /\ token[c] \in Token /\ held[c] \in Login
    BY DEF IInv, Hand
  <1>2. Until(c) \in Login \cup {None}
    BY <1>1 DEF Until, TypeOK, Row, NoRow
  <1>3. CASE Insert(c)
    <2>1. row' = [id |-> c, access |-> token[c], refresh |-> held[c],
                  until |-> Until(c)]
      BY <1>3 DEF Insert
    <2>2. row'.id = c /\ NoRow.id = None
      BY <2>1 DEF NoRow
    <2>. QED BY <1>1, <1>2, <2>1, <2>2 DEF Row
  <1>4. CASE Update(c)
    <2>1. loaded[c] # NoRow /\ loaded[c] \in Row /\ row.id = loaded[c].id
      BY <1>1, <1>4 DEF Update, TypeOK
    <2>2. row.id \in Request /\ row # NoRow /\ row \in Row
      BY <1>1, <2>1 DEF TypeOK, Row, NoRow
    <2>3. /\ row' = [row EXCEPT
                !.access  = token[c],
                !.refresh = IF held[c]  = loaded[c].refresh THEN @ ELSE held[c],
                !.until   = IF Until(c) = loaded[c].until   THEN @ ELSE Until(c)]
      BY <1>4 DEF Update
    <2>4. row' \in Row /\ row'.id = row.id /\ row'.access = token[c]
          /\ row'.refresh = IF held[c] = loaded[c].refresh THEN row.refresh
                                                           ELSE held[c]
      BY <1>1, <1>2, <2>2, <2>3 DEF Row
    <2>5. row' # NoRow
      BY <2>2, <2>4 DEF NoRow
    <2>. QED BY <2>1, <2>4, <2>5
  <1>. QED BY <1>3, <1>4

LEMMA CommitSaveKeeps == ASSUME IInv, NEW c \in Request, CommitSave(c) PROVE IInv'
  <1>1. TypeOK /\ pc[c] = "commit"
    BY DEF IInv, CommitSave
  <1>2. PICK step \in {"reload", "failed"} :
          pc' \in [Request -> Step] /\ pc'[c] = step
          /\ \A d \in Request \ {c} : pc'[d] = pc[d]
    BY <1>1, GotoAlone DEF CommitSave, Answered, Step
  <1>3. UNCHANGED <<ksefVars, op, polls, supplied, found, held, token, loaded>>
    BY DEF CommitSave
  <1>4. row' \in Row \cup {NoRow} /\ Writes(c)
    BY <1>1, SavedRow DEF CommitSave, Writes, TypeOK
  <1>5. TypeOK'
    BY <1>1, <1>2, <1>3, <1>4 DEF TypeOK, KsefTypeOK, ksefVars
  <1>6. Alone(c) /\ Calls(c) /\ Learns(c) /\ Hand(c)' /\ Private(c)'
    BY <1>2, <1>3 DEF Alone, Calls, Learns, Uses, Hand, Private, ksefVars
  <1>. QED BY <1>4, <1>5, <1>6, RequestKeeps

LEMMA ReloadKeeps == ASSUME IInv, NEW c \in Request, ReloadSaved(c) PROVE IInv'
  <1>1. TypeOK
    BY DEF IInv
  <1>2. PICK step \in {"done", "failed"} :
          pc' \in [Request -> Step] /\ pc'[c] = step
          /\ \A d \in Request \ {c} : pc'[d] = pc[d]
    BY <1>1, GotoAlone DEF ReloadSaved, Step
  <1>3. UNCHANGED <<ksefVars, row, op, polls, supplied, found, held, token, loaded>>
    BY DEF ReloadSaved
  <1>4. TypeOK'
    BY <1>1, <1>2, <1>3 DEF TypeOK, KsefTypeOK, ksefVars
  <1>5. Alone(c) /\ Hand(c)' /\ Private(c)'
    BY <1>2, <1>3 DEF Alone, Hand, Private
  <1>. QED BY <1>3, <1>4, <1>5, QuietKeeps

LEMMA SelectDeleteKeeps ==
    ASSUME IInv, NEW c \in Request, SelectForDelete(c) PROVE IInv'
  <1>1. TypeOK /\ Hand(c) /\ pc[c] = "select_delete" /\ op[c] = "revoke"
    BY DEF IInv, SelectForDelete, Hand
  <1>2. PICK step \in {"done", "commit_delete"} :
          pc' \in [Request -> Step] /\ pc'[c] = step
          /\ \A d \in Request \ {c} : pc'[d] = pc[d]
    BY <1>1, GotoAlone DEF SelectForDelete, Step
  <1>3. /\ loaded' = [loaded EXCEPT ![c] = row]
        /\ UNCHANGED <<ksefVars, row, op, polls, supplied, found, held, token>>
    BY DEF SelectForDelete
  <1>4. TypeOK'
    BY <1>1, <1>2, <1>3 DEF TypeOK, KsefTypeOK, ksefVars
  <1>5. Alone(c) /\ Hand(c)' /\ Private(c)'
    BY <1>1, <1>2, <1>3 DEF Alone, Hand, Private, ksefVars
  <1>. QED BY <1>3, <1>4, <1>5, QuietKeeps

LEMMA CommitDeleteKeeps ==
    ASSUME IInv, NEW c \in Request, CommitDelete(c) PROVE IInv'
  <1>1. TypeOK
    BY DEF IInv
  <1>2. PICK step \in {"done", "failed"} :
          pc' \in [Request -> Step] /\ pc'[c] = step
          /\ \A d \in Request \ {c} : pc'[d] = pc[d]
    BY <1>1, GotoAlone DEF CommitDelete, Answered, Step
  <1>3. /\ row' \in {row, NoRow}
        /\ UNCHANGED <<ksefVars, op, polls, supplied, found, held, token, loaded>>
    BY DEF CommitDelete
  <1>4. TypeOK'
    BY <1>1, <1>2, <1>3 DEF TypeOK, KsefTypeOK, ksefVars
  <1>5. Alone(c) /\ Calls(c) /\ Learns(c) /\ Writes(c) /\ Hand(c)' /\ Private(c)'
    BY <1>2, <1>3 DEF Alone, Calls, Learns, Writes, Uses, Hand, Private, NoRow,
                      ksefVars
  <1>. QED BY <1>4, <1>5, RequestKeeps

(* Steps of KSeF: a verdict, or the end of an access token.                *)
LEMMA KsefKeeps ==
    ASSUME IInv, KsefStep, UNCHANGED <<rowVars, requestVars>>
    PROVE  IInv'
  <1>0. TypeOK /\ Begun /\ \A c \in Request : Hand(c) /\ Private(c)
    BY DEF IInv
  <1>1. /\ KsefTypeOK' /\ issued' = issued
        /\ \A l \in Login : /\ login'[l] = "unused" => login[l] = "unused"
                            /\ login[l] = "revoked" => login'[l] = "revoked"
                            /\ login[l] = "redeemed" => login'[l] = "redeemed"
    <2>0. KsefTypeOK
      BY <1>0 DEF TypeOK
    <2>1. CASE \E l \in Login : JudgeLogin(l)
      BY <2>0, <2>1 DEF JudgeLogin, KsefTypeOK, LoginState
    <2>2. CASE \E t \in Token : ExpireToken(t)
      BY <2>0, <2>2 DEF ExpireToken, KsefTypeOK
    <2>. QED BY <2>1, <2>2 DEF KsefStep
  <1>2. TypeOK'
    BY <1>0, <1>1 DEF TypeOK, rowVars, requestVars
  <1>3. ASSUME NEW c \in Request PROVE Hand(c)' /\ Private(c)'
    <2>1. Hand(c) /\ Private(c) /\ (found[c] # NoRow => found[c].refresh \in Login)
      BY <1>0 DEF TypeOK, Row
    <2>2. Hand(c)'
      BY <1>1, <2>1 DEF Hand, rowVars, requestVars
    <2>3. Private(c)'
      BY <1>1, <2>1 DEF Hand, Private, Uses, rowVars, requestVars
    <2>. QED BY <2>2, <2>3
  <1>4. Begun'
    BY <1>0, <1>1 DEF Begun, Uses, rowVars, requestVars
  <1>. QED BY <1>2, <1>3, <1>4 DEF IInv

LEMMA AuthInit == Init => IInv
  <1>. SUFFICES ASSUME Init PROVE IInv
    OBVIOUS
  <1>1. TypeOK
    BY DEF Init, TypeOK, KsefInit, KsefTypeOK, LoginState, Step
  <1>2. Begun
    BY DEF Init, Begun, Uses, NoRow
  <1>3. \A c \in Request : Hand(c) /\ Private(c)
    BY DEF Init, Hand, Private
  <1>. QED BY <1>1, <1>2, <1>3 DEF IInv

LEMMA AuthStep == IInv /\ [Next]_vars => IInv'
  <1>. SUFFICES ASSUME IInv, [Next]_vars PROVE IInv'
    OBVIOUS
  <1>1. ASSUME NEW c \in Request, RequestStep(c) PROVE IInv'
    BY <1>1, InitializeKeeps, PollKeeps, RedeemKeeps, ReadKeeps, RefreshKeeps,
       RevokeKeeps, SelectKeeps, CommitSaveKeeps, ReloadKeeps, SelectDeleteKeeps,
       CommitDeleteKeeps, StepFailsKeeps DEF RequestStep
  <1>2. CASE UNCHANGED vars
    BY <1>2 DEF IInv, vars, ksefVars, rowVars, requestVars, TypeOK, KsefTypeOK,
                Begun, Hand, Private, Uses
  <1>. QED BY <1>1, <1>2, BeginKeeps, KsefKeeps DEF Next

LEMMA AuthInvariant == Spec => []IInv
  BY AuthInit, AuthStep, PTL DEF Spec

(* Every state of the row and of the requests is of its type, for any      *)
(* number of requests, logins, tokens and polls.                           *)
THEOREM AuthTypeCorrect == Spec => []TypeOK
  <1>1. IInv => TypeOK
    BY DEF IInv
  <1>. QED BY AuthInvariant, <1>1, PTL

-----------------------------------------------------------------------------
(* The commit of a save, and one of a delete that finds its row.           *)
SaveOf(c) ==
    /\ pc[c] = "commit" /\ pc'[c] # "commit" /\ issued' = issued
    /\ Insert(c) \/ Update(c)

DeleteOf(c) ==
    /\ pc[c] = "commit_delete" /\ pc'[c] # "commit_delete" /\ issued' = issued
    /\ row' = NoRow /\ loaded[c].id = row.id

(* Issued tokens stay issued, and only two commits write the row.          *)
LEMMA RowWriters ==
    ASSUME IInv, [Next]_vars
    PROVE  /\ \A t \in Token : issued[t] # None => issued'[t] = issued[t]
           /\ \/ row' = row
              \/ \E c \in Request : SaveOf(c)
              \/ \E c \in Request : DeleteOf(c)
  <1>. DEFINE Q == /\ \A t \in Token : issued[t] # None => issued'[t] = issued[t]
                   /\ \/ row' = row
                      \/ \E c \in Request : SaveOf(c)
                      \/ \E c \in Request : DeleteOf(c)
  <1>t. TypeOK
    BY DEF IInv
  <1>0. KsefTypeOK
    BY DEF IInv, TypeOK
  <1>1. ASSUME UNCHANGED <<issued, row>> PROVE Q
    BY <1>1
  <1>2. ASSUME NEW c \in Request, RequestStep(c) PROVE Q
    <2>1. CASE PollAuthStatus(c) \/ GetByCompany(c) \/ RevokeCurrentAuth(c)
               \/ SelectForSave(c) \/ ReloadSaved(c) \/ SelectForDelete(c)
               \/ StepFails(c) \/ \E l \in Login : InitializeAuth(c, l)
      BY <1>1, <2>1 DEF PollAuthStatus, GetByCompany, RevokeCurrentAuth,
                        SelectForSave, ReloadSaved, SelectForDelete, StepFails,
                        InitializeAuth, ksefVars
    <2>2. CASE \E t \in Token : RedeemTokens(c, t) \/ RefreshToken(c, t)
      BY <1>0, <2>2 DEF RedeemTokens, RefreshToken, Redeem, Refresh, IssueToken,
                        KsefTypeOK
    <2>3. CASE CommitSave(c)
      <3>1. pc'[c] # "commit"
        BY <1>t, <2>3, GotoAlone DEF CommitSave, Answered, Step
      <3>. QED BY <1>1, <2>3, <3>1 DEF CommitSave, SaveOf, ksefVars
    <2>4. CASE CommitDelete(c)
      <3>1. pc'[c] # "commit_delete"
        BY <1>t, <2>4, GotoAlone DEF CommitDelete, Answered, Step
      <3>. QED BY <1>1, <2>4, <3>1 DEF CommitDelete, DeleteOf, ksefVars
    <2>. QED BY <1>2, <2>1, <2>2, <2>3, <2>4 DEF RequestStep
  <1>3. ASSUME NEW c \in Request, NEW o \in Op, NEW l \in Login \cup {None},
               Begin(c, o, l)
        PROVE  Q
    BY <1>1, <1>3 DEF Begin, ksefVars
  <1>4. CASE KsefStep /\ UNCHANGED <<rowVars, requestVars>>
    BY <1>1, <1>4 DEF KsefStep, JudgeLogin, ExpireToken, rowVars
  <1>5. CASE UNCHANGED vars
    BY <1>1, <1>5 DEF vars, ksefVars, rowVars
  <1>6. \/ \E c \in Request : RequestStep(c)
        \/ \E c \in Request, o \in Op, l \in Login \cup {None} : Begin(c, o, l)
        \/ KsefStep /\ UNCHANGED <<rowVars, requestVars>>
        \/ UNCHANGED vars
    BY DEF Next
  <1>. QED BY <1>2, <1>3, <1>4, <1>5, <1>6

LEMMA MixedStep ==
    ASSUME IInv, [Next]_vars, Coherent(row), ~Coherent(row)'
    PROVE  \E c \in Request : LostUpdate(c)
  <1>0. TypeOK /\ row' # NoRow /\ \A c \in Request : Hand(c)
    BY DEF IInv, Coherent
  <1>1. ASSUME row' = row PROVE FALSE
    <2>1. row # NoRow /\ row \in Row
      BY <1>0, <1>1 DEF TypeOK
    <2>2. row.access \in Token /\ issued[row.access] = row.refresh
          /\ issued[row.access] # None
      BY <2>1 DEF Coherent, Row
    <2>3. issued'[row.access] = row.refresh
      BY <2>2, RowWriters
    <2>. QED BY <1>1, <2>3 DEF Coherent
  <1>2. ASSUME NEW c \in Request, SaveOf(c) PROVE LostUpdate(c)
    <2>0. /\ pc[c] = "commit" /\ pc'[c] # "commit" /\ issued' = issued
          /\ Insert(c) \/ Update(c)
      BY <1>2 DEF SaveOf
    <2>1. row'.access = token[c]
      BY <2>0, SavedRow
    <2>2. ASSUME loaded[c] \in {NoRow, row} PROVE FALSE
      <3>1. row'.refresh = held[c]
        BY <2>0, <2>2, SavedRow
      <3>2. issued[token[c]] = held[c]
        BY <1>0, <2>0 DEF Hand
      <3>. QED BY <2>0, <2>1, <3>1, <3>2 DEF Coherent
    <2>. QED BY <2>0, <2>1, <2>2 DEF LostUpdate
  <1>3. ~ \E c \in Request : DeleteOf(c)
    BY <1>0 DEF DeleteOf
  <1>. QED BY <1>1, <1>2, <1>3, RowWriters

(* AuthService.refresh and redeem: the access token and the refresh token  *)
(* of the row stop being of one login only through a lost update.          *)
THEOREM MixedByLostUpdateOnly == Spec => MixedOnlyByLostUpdate
  <1>1. IInv /\ [Next]_vars =>
          [Coherent(row) /\ ~Coherent(row)' =>
             \E c \in Request : LostUpdate(c)]_vars
    BY MixedStep
  <1>. QED BY AuthInvariant, <1>1, PTL DEF Spec, MixedOnlyByLostUpdate

LEMMA RevokedStep ==
    ASSUME IInv, [Next]_vars, row'.refresh # row.refresh, row'.refresh # None
    PROVE  \/ login[row'.refresh] = "redeemed"
           \/ \E c \in Request : /\ pc[c] = "commit" /\ op[c] = "refresh"
                                 /\ held[c] = row'.refresh
  <1>1. row' # row /\ row' # NoRow
    BY DEF NoRow
  <1>2. PICK c \in Request : pc[c] = "commit" /\ (Insert(c) \/ Update(c))
    BY <1>1, RowWriters DEF SaveOf, DeleteOf
  <1>3. row'.refresh = held[c]
    BY <1>2, SavedRow
  <1>4. Hand(c) /\ Private(c)
    BY DEF IInv
  <1>5. op[c] \in {"redeem", "refresh"}
    BY <1>2, <1>4 DEF Hand
  <1>6. op[c] = "redeem" => login[held[c]] = "redeemed"
    BY <1>2, <1>4 DEF Private
  <1>. QED BY <1>2, <1>3, <1>5, <1>6

(* A revoked login comes into the row only by a refresh: what a redeem     *)
(* saves nobody has been able to revoke, however late it saves it.         *)
THEOREM RevokedByRefreshOnly == Spec => RevokedOnlyByRefresh
  <1>1. IInv /\ [Next]_vars =>
          [row'.refresh # row.refresh /\ row'.refresh # None
             => login[row'.refresh] = "redeemed"
                \/ \E c \in Request : /\ pc[c] = "commit" /\ op[c] = "refresh"
                                      /\ held[c] = row'.refresh]_vars
    BY RevokedStep
  <1>. QED BY AuthInvariant, <1>1, PTL DEF Spec, RevokedOnlyByRefresh

LEMMA ForgottenStep ==
    ASSUME IInv, [Next]_vars, row # NoRow, row' = NoRow,
           login[row.refresh] = "redeemed"
    PROVE  \E c \in Request : DeletesUnread(c)
  <1>1. ~ \E c \in Request : SaveOf(c)
    BY SavedRow DEF SaveOf
  <1>2. PICK c \in Request : DeleteOf(c)
    BY <1>1, RowWriters
  <1>p. pc[c] = "commit_delete" /\ pc'[c] # "commit_delete"
        /\ loaded[c].id = row.id
    BY <1>2 DEF DeleteOf
  <1>3. Hand(c) /\ TypeOK
    BY DEF IInv
  <1>4. row.refresh # None
    BY <1>3 DEF TypeOK, Row
  <1>5. CASE found[c] = NoRow
    BY <1>p, <1>4, <1>5 DEF NoRow, DeletesUnread
  <1>6. CASE found[c] # NoRow
    <2>1. login[found[c].refresh] = "revoked"
      BY <1>p, <1>3, <1>6 DEF Hand
    <2>. QED BY <1>p, <2>1 DEF DeletesUnread
  <1>. QED BY <1>5, <1>6

(* AuthService.revoke: tokens that still work are forgotten only when the  *)
(* row that is deleted is not the one that was read and revoked.           *)
THEOREM LiveLoginIsForgottenByOverlap == Spec => LiveLoginForgottenOnlyByOverlap
  <1>1. IInv /\ [Next]_vars =>
          [row # NoRow /\ row' = NoRow /\ login[row.refresh] = "redeemed"
             => \E c \in Request : DeletesUnread(c)]_vars
    BY ForgottenStep
  <1>. QED BY AuthInvariant, <1>1, PTL DEF Spec, LiveLoginForgottenOnlyByOverlap
=============================================================================
