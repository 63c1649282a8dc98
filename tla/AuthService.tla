----------------------------- MODULE AuthService -----------------------------
(***************************************************************************)
(* AuthService and token_repository: the one row of tokens of a company    *)
(* and environment, under concurrent requests to log in (redeem), refresh, *)
(* revoke and use it.                                                      *)
(*                                                                         *)
(* Every await is a step.  A request may end with an error at any step,    *)
(* and a call to KSeF or a commit may have its effect all the same.        *)
(***************************************************************************)
EXTENDS KsefAuth, Integers

CONSTANTS
    Request,
    MaxPolls        \* ksef_auth_poll_attempts

ASSUME AuthAssumption == None \notin Request /\ MaxPolls \in Nat

VARIABLES
    row,            \* the row of ksef_tokens, NoRow if there is none
    op,             \* op[c]: what request c was made for
    pc,             \* pc[c]: its next await
    polls,          \* polls[c]: status polls so far
    supplied,       \* supplied[c]: the refresh token given by the caller
    found,          \* found[c]: the row as get_by_company returned it
    held,           \* held[c]: the login whose refresh token c has at hand
    token,          \* token[c]: the access token c has at hand
    loaded          \* loaded[c]: the row as save or delete_by_company read it

rowVars     == <<row>>
requestVars == <<op, pc, polls, supplied, found, held, token, loaded>>
vars        == <<ksefVars, rowVars, requestVars>>

(* A row: the request that inserted it stands for its primary key.  The    *)
(* expiry of the access token is a column that changes with it; "until" is *)
(* the login whose refresh_token_expires_at the row has.  KSeF's answer to *)
(* a redeem requires a refresh token, so the column, nullable in the       *)
(* table, is never null, and revoke never falls back to the access token.  *)
Row == [id : Request, access : Token, refresh : Login,
        until : Login \cup {None}]
NoRow == [id |-> None, access |-> None, refresh |-> None, until |-> None]

Op   == {"redeem", "refresh", "revoke", "use"}
Step == {"idle", "init", "poll", "redeem", "read", "refresh", "revoke",
         "select", "commit", "reload", "select_delete", "commit_delete",
         "done", "failed"}

Ended(c) == pc[c] \in {"done", "failed"}

TypeOK ==
    /\ KsefTypeOK
    /\ row      \in Row \cup {NoRow}
    /\ op       \in [Request -> Op \cup {"none"}]
    /\ pc       \in [Request -> Step]
    /\ polls    \in [Request -> 0 .. MaxPolls]
    /\ supplied \in [Request -> Login \cup {None}]
    /\ found    \in [Request -> Row \cup {NoRow}]
    /\ held     \in [Request -> Login \cup {None}]
    /\ token    \in [Request -> Token \cup {None}]
    /\ loaded   \in [Request -> Row \cup {NoRow}]

Init ==
    /\ KsefInit
    /\ row      = NoRow
    /\ op       = [c \in Request |-> "none"]
    /\ pc       = [c \in Request |-> "idle"]
    /\ polls    = [c \in Request |-> 0]
    /\ supplied = [c \in Request |-> None]
    /\ found    = [c \in Request |-> NoRow]
    /\ held     = [c \in Request |-> None]
    /\ token    = [c \in Request |-> None]
    /\ loaded   = [c \in Request |-> NoRow]

Goto(c, step) == pc' = [pc EXCEPT ![c] = step]

(* The answer of a call that has had its effect arrives, or is lost.       *)
Answered(c, step) == Goto(c, step) \/ Goto(c, "failed")

FirstStep(o) == IF o = "redeem" THEN "init" ELSE "read"

(* The callers know a refresh token from the answer to a redeem or refresh.*)
Known(l) == \E c \in Request : /\ op[c] \in {"redeem", "refresh"}
                               /\ pc[c] = "done" /\ held[c] = l

(* A request is made; a refresh may come with a token of the caller's.     *)
Begin(c, o, l) ==
    /\ pc[c] = "idle"
    /\ l # None => o = "refresh" /\ Known(l)
    /\ op'       = [op EXCEPT ![c] = o]
    /\ supplied' = [supplied EXCEPT ![c] = l]
    /\ Goto(c, FirstStep(o))
    /\ UNCHANGED <<ksefVars, row, polls, found, held, token, loaded>>

(***************************************************************************)
(* redeem                                                                  *)
(***************************************************************************)

(* _initialize_token_auth, _initialize_xades_auth: a challenge is fetched, *)
(* which changes nothing, and answered.                                    *)
InitializeAuth(c, l) ==
    /\ pc[c] = "init"
    /\ BeginLogin(l)
    /\ held' = [held EXCEPT ![c] = l]
    /\ Answered(c, "poll")
    /\ UNCHANGED <<issued, expired, row, op, polls, supplied, found, token,
                   loaded>>

(* Mutant: the loop takes one round too many.                              *)
PollOnceMore(c) ==
    /\ pc[c] = "poll" /\ LoginCode(held[c]) = 100
    /\ polls[c] <= MaxPolls
    /\ polls' = [polls EXCEPT ![c] = @ + 1]
    /\ UNCHANGED <<ksefVars, row, op, pc, supplied, found, held, token, loaded>>

(* One round of _wait_for_authentication_success, the end of its loop      *)
(* included.                                                               *)
PollAuthStatus(c) ==
    /\ pc[c] = "poll"
    /\ \/ polls[c] = MaxPolls /\ Goto(c, "failed") /\ UNCHANGED polls
       \/ /\ polls[c] < MaxPolls
          /\ polls' = [polls EXCEPT ![c] = @ + 1]
          /\ CASE LoginCode(held[c]) = 200 -> Goto(c, "redeem")
               [] LoginCode(held[c]) = 100 -> Goto(c, "poll")
               [] OTHER                    -> Goto(c, "failed")
    /\ UNCHANGED <<ksefVars, row, op, supplied, found, held, token, loaded>>

RedeemTokens(c, t) ==
    /\ pc[c] = "redeem"
    /\ Redeem(held[c], t)
    /\ token' = [token EXCEPT ![c] = t]
    /\ Answered(c, "select")
    /\ UNCHANGED <<expired, row, op, polls, supplied, found, held, loaded>>

(***************************************************************************)
(* refresh, revoke, get_valid_access_token                                 *)
(***************************************************************************)

(* get_by_company: what the request goes on with.                          *)
ReadForRefresh(c) ==
    LET l == IF supplied[c] # None THEN supplied[c] ELSE row.refresh IN
    /\ op[c] = "refresh"
    /\ held' = [held EXCEPT ![c] = l]
    /\ Goto(c, IF l = None THEN "failed" ELSE "refresh")
    /\ UNCHANGED token

ReadForRevoke(c) ==
    /\ op[c] = "revoke"
    /\ held' = [held EXCEPT ![c] = row.refresh]
    /\ Goto(c, IF row = NoRow THEN "select_delete" ELSE "revoke")
    /\ UNCHANGED token

(* The services that send and poll take the token without more ado: the    *)
(* attributes in which SessionService looks for its expiry are not those   *)
(* of AuthTokens.                                                          *)
ReadForUse(c) ==
    /\ op[c] = "use"
    /\ token' = [token EXCEPT ![c] = row.access]
    /\ Goto(c, IF row = NoRow THEN "failed" ELSE "done")
    /\ UNCHANGED held

GetByCompany(c) ==
    /\ pc[c] = "read"
    /\ found' = [found EXCEPT ![c] = row]
    /\ ReadForRefresh(c) \/ ReadForRevoke(c) \/ ReadForUse(c)
    /\ UNCHANGED <<ksefVars, row, op, polls, supplied, loaded>>

RefreshToken(c, t) ==
    /\ pc[c] = "refresh"
    /\ Refresh(held[c], t)
    /\ token' = [token EXCEPT ![c] = t]
    /\ Answered(c, "select")
    /\ UNCHANGED <<expired, row, op, polls, supplied, found, held, loaded>>

(* Mutant: the row is deleted whether or not KSeF has revoked the login.   *)
RevokeLocally(c) ==
    /\ pc[c] = "revoke"
    /\ Goto(c, "select_delete")
    /\ UNCHANGED <<ksefVars, row, op, polls, supplied, found, held, token,
                   loaded>>

(* revoke_current_auth with the refresh token that was read.               *)
RevokeCurrentAuth(c) ==
    /\ pc[c] = "revoke"
    /\ Revoke(held[c])
    /\ Answered(c, "select_delete")
    /\ UNCHANGED <<issued, expired, row, op, polls, supplied, found, held,
                   token, loaded>>

(***************************************************************************)
(* TokenRepository.save and delete_by_company                              *)
(***************************************************************************)

(* save: select the row, to update it or to insert one.                    *)
SelectForSave(c) ==
    /\ pc[c] = "select"
    /\ loaded' = [loaded EXCEPT ![c] = row]
    /\ Goto(c, "commit")
    /\ UNCHANGED <<ksefVars, row, op, polls, supplied, found, held, token>>

(* refresh keeps the expiry that its own read found in the row; an         *)
(* expiry always comes with a redeem.                                      *)
Until(c) == IF op[c] = "redeem" THEN held[c] ELSE found[c].until

Insert(c) ==
    /\ loaded[c] = NoRow /\ row = NoRow
    /\ row' = [id |-> c, access |-> token[c], refresh |-> held[c],
               until |-> Until(c)]

(* Mutant: only the access token is updated.                               *)
UpdateAccessOnly(c) ==
    /\ loaded[c] # NoRow /\ row.id = loaded[c].id
    /\ row' = [row EXCEPT !.access = token[c]]

(* UPDATE ... WHERE id = ...: the columns that differ from those loaded.   *)
Update(c) ==
    /\ loaded[c] # NoRow /\ row.id = loaded[c].id
    /\ row' = [row EXCEPT
         !.access  = token[c],
         !.refresh = IF held[c]  = loaded[c].refresh THEN @ ELSE held[c],
         !.until   = IF Until(c) = loaded[c].until   THEN @ ELSE Until(c)]

CanWrite(c) == IF loaded[c] = NoRow THEN row = NoRow ELSE row.id = loaded[c].id

(* Mutant: a commit whose answer is lost is made again.                    *)
CommitSaveAgain(c) ==
    /\ pc[c] = "commit"
    /\ Insert(c) \/ Update(c)
    /\ Goto(c, "reload") \/ Goto(c, "commit")
    /\ UNCHANGED <<ksefVars, op, polls, supplied, found, held, token, loaded>>

(* The commit of save.  It fails when the row to be updated is gone, and   *)
(* when another request has inserted one (the unique constraint).          *)
CommitSave(c) ==
    /\ pc[c] = "commit"
    /\ \/ (Insert(c) \/ Update(c)) /\ Answered(c, "reload")
       \/ ~CanWrite(c) /\ Goto(c, "failed") /\ UNCHANGED row
    /\ UNCHANGED <<ksefVars, op, polls, supplied, found, held, token, loaded>>

SavedId(c) == IF loaded[c] = NoRow THEN c ELSE loaded[c].id

(* db.refresh reads the row again, by its key; then the request answers.   *)
ReloadSaved(c) ==
    /\ pc[c] = "reload"
    /\ Goto(c, IF row.id = SavedId(c) THEN "done" ELSE "failed")
    /\ UNCHANGED <<ksefVars, row, op, polls, supplied, found, held, token,
                   loaded>>

SelectForDelete(c) ==
    /\ pc[c] = "select_delete"
    /\ loaded' = [loaded EXCEPT ![c] = row]
    /\ Goto(c, IF row = NoRow THEN "done" ELSE "commit_delete")
    /\ UNCHANGED <<ksefVars, row, op, polls, supplied, found, held, token>>

(* DELETE ... WHERE id = ...; it may find nothing to delete.               *)
CommitDelete(c) ==
    /\ pc[c] = "commit_delete"
    /\ row' = IF row.id = loaded[c].id THEN NoRow ELSE row
    /\ Answered(c, "done")
    /\ UNCHANGED <<ksefVars, op, polls, supplied, found, held, token, loaded>>

(* An error without an effect: KSeF refuses or cannot be reached, the      *)
(* database fails, the process dies.                                       *)
StepFails(c) ==
    /\ pc[c] # "idle" /\ ~Ended(c)
    /\ Goto(c, "failed")
    /\ UNCHANGED <<ksefVars, row, op, polls, supplied, found, held, token,
                   loaded>>

RequestStep(c) ==
    \/ \E l \in Login : InitializeAuth(c, l)
    \/ PollAuthStatus(c)
    \/ \E t \in Token : RedeemTokens(c, t)
    \/ GetByCompany(c)
    \/ \E t \in Token : RefreshToken(c, t)
    \/ RevokeCurrentAuth(c)
    \/ SelectForSave(c)
    \/ CommitSave(c)
    \/ ReloadSaved(c)
    \/ SelectForDelete(c)
    \/ CommitDelete(c)
    \/ StepFails(c)

Next ==
    \/ \E c \in Request, o \in Op, l \in Login \cup {None} : Begin(c, o, l)
    \/ \E c \in Request : RequestStep(c)
    \/ KsefStep /\ UNCHANGED <<rowVars, requestVars>>

Spec == Init /\ [][Next]_vars

(***************************************************************************)
(* Properties                                                              *)
(***************************************************************************)

(* The access token and the refresh token of a row are of one login.       *)
Coherent(r) == r = NoRow \/ issued[r.access] = r.refresh

(* The row comes to mix the tokens of two logins only by a lost update:    *)
(* the request that commits computed its columns from a row that has been  *)
(* changed since it was loaded (save writes only what differs from that).  *)
LostUpdate(c) ==
    /\ pc[c] = "commit" /\ pc'[c] # "commit" /\ row'.access = token[c]
    /\ loaded[c] # NoRow /\ loaded[c] # row

MixedOnlyByLostUpdate ==
    [][Coherent(row) /\ ~Coherent(row)' => \E c \in Request : LostUpdate(c)]_vars

(* A revoked login comes into the row only by a refresh that KSeF had      *)
(* answered before the login was revoked: a redeem never stores one,       *)
(* however long its save is delayed.                                       *)
RevokedOnlyByRefresh ==
    [][row'.refresh # row.refresh /\ row'.refresh # None
         => login[row'.refresh] = "redeemed"
            \/ \E c \in Request : /\ pc[c] = "commit" /\ op[c] = "refresh"
                                  /\ held[c] = row'.refresh]_vars

(* The tokens of a login that still works at KSeF are forgotten only when  *)
(* the revoke that deletes the row first read other tokens there, or none. *)
DeletesUnread(c) ==
    /\ pc[c] = "commit_delete" /\ pc'[c] # "commit_delete"
    /\ loaded[c].id = row.id /\ found[c].refresh # row.refresh

LiveLoginForgottenOnlyByOverlap ==
    [][row # NoRow /\ row' = NoRow /\ login[row.refresh] = "redeemed"
         => \E c \in Request : DeletesUnread(c)]_vars
=============================================================================
