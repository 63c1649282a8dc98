---------------------------- MODULE LocalSessions ----------------------------
(***************************************************************************)
(* The session rows of one company, beside the sessions they stand for at  *)
(* KSeF: SessionService, the session half of StatusService, and            *)
(* _load_or_open_session of InvoiceService, which has the same shape.      *)
(*                                                                         *)
(* A client is one request.  Its awaits are its steps: other requests run  *)
(* between any two of them, and it may fail or die at any of them.  A call *)
(* to KSeF that fails may have had its effect.                             *)
(***************************************************************************)
EXTENDS KsefGateway

VARIABLES
    pc,         \* the next await of each request
    op,         \* what the request was made for
    held,       \* the session reference it works with
    answer,     \* the status it computed from KSeF's answer
    local       \* status of each session's row, "none" if there is no row

requestVars == <<pc, op, held, answer>>

(* KsefSessionStatus, as far as code writes it.                            *)
LocalStatus == {"none", "open", "processing", "closed", "failed"}

SessionStep == {"find", "open", "persist", "close_remote", "close_local",
                "poll_remote", "snapshot"}

SessionsInit ==
    /\ GatewayInit
    /\ pc     = [c \in Client |-> "idle"]
    /\ op     = [c \in Client |-> "none"]
    /\ held   = [c \in Client |-> None]
    /\ answer = [c \in Client |-> None]
    /\ local  = [s \in SessionRef |-> "none"]

Goto(c, step) == pc' = [pc EXCEPT ![c] = step]

Hold(c, s) == held' = [held EXCEPT ![c] = s]

(* A new request.                                                          *)
Request(c, what, step) ==
    /\ pc[c] = "idle"
    /\ op' = [op EXCEPT ![c] = what]
    /\ Goto(c, step)

(* Mutant: a submission is sent before its row is saved.                   *)
AfterSessionUnsaved(c) == IF op[c] \in {"submit", "resubmit"} THEN "send" ELSE "done"

(* What the session is wanted for: see InvoiceSubmission.                  *)
AfterSession(c) ==
    CASE op[c] = "submit"   -> "save_row"
      [] op[c] = "resubmit" -> "send"
      [] OTHER              -> "done"

(***************************************************************************)
(* Opening, with and without a look for a row to reuse.                    *)
(***************************************************************************)
BeginOpen(c) ==
    /\ \E reuse \in BOOLEAN : Request(c, "open", IF reuse THEN "find" ELSE "open")
    /\ UNCHANGED <<held, answer, local, gatewayVars>>

(* A row that says "open" is reused; the code takes the newest, the model  *)
(* any of them.  get_or_open looks twice before it opens: a first look     *)
(* without a result changes nothing and is no step.                        *)
FindSession(c) ==
    /\ pc[c] = "find"
    /\ \/ \E s \in SessionRef :
            /\ local[s] = "open"
            /\ Hold(c, s)
            /\ Goto(c, AfterSession(c))
       \/ /\ \A s \in SessionRef : local[s] # "open"
          /\ Goto(c, "open")
          /\ UNCHANGED held
    /\ UNCHANGED <<op, answer, local, gatewayVars>>

OpenRemote(c) ==
    /\ pc[c] = "open"
    /\ \E s \in SessionRef : OpenSession(c, s) /\ Hold(c, s)
    /\ Goto(c, "persist")
    /\ UNCHANGED <<op, answer, local, docVars>>

PersistOpened(c) ==
    /\ pc[c] = "persist"
    /\ local' = [local EXCEPT ![held[c]] = "open"]
    /\ Goto(c, AfterSession(c))
    /\ UNCHANGED <<op, held, answer, gatewayVars>>

(***************************************************************************)
(* Closing: first at KSeF, then the row.                                   *)
(***************************************************************************)
BeginClose(c, s) ==
    /\ local[s] # "none"
    /\ Request(c, "close", "close_remote")
    /\ Hold(c, s)
    /\ UNCHANGED <<answer, local, gatewayVars>>

(* Mutant: a refused close counts as done.                                 *)
CloseRemoteUnchecked(c) ==
    /\ pc[c] = "close_remote"
    /\ CloseSession(held[c]) \/ UNCHANGED sessionVars
    /\ Goto(c, "close_local")
    /\ UNCHANGED <<op, held, answer, local, docVars>>

CloseRemote(c) ==
    /\ pc[c] = "close_remote"
    /\ CloseSession(held[c])
    /\ Goto(c, "close_local")
    /\ UNCHANGED <<op, held, answer, local, docVars>>

CloseLocal(c) ==
    /\ pc[c] = "close_local"
    /\ local' = [local EXCEPT ![held[c]] = "closed"]
    /\ Goto(c, "done")
    /\ UNCHANGED <<op, held, answer, gatewayVars>>

(***************************************************************************)
(* Polling: an answer is computed from the code and stored later.          *)
(***************************************************************************)
BeginPollSession(c, s) ==
    /\ local[s] # "none"
    /\ Request(c, "poll_session", "poll_remote")
    /\ Hold(c, s)
    /\ UNCHANGED <<answer, local, gatewayVars>>

(* GET /sessions/{s}: 100 while it is open; then 170, until its documents  *)
(* are done (200), or it was ended for an error (445).  An empty answer    *)
(* has no code.                                                            *)
SessionCodes(s) ==
    {None} \cup (IF session[s] = "open" THEN {100} ELSE {170, 200, 445})

(* Mutant: 100 read as the API names it, an open session.                  *)
MapSessionStatusCodeOpen(code) ==
    CASE code = 200  -> "closed"
      [] code = 100  -> "open"
      [] code = 445  -> "failed"
      [] OTHER       -> "processing"

MapSessionStatusCode(code) ==
    CASE code = 200  -> "closed"
      [] code = 100  -> "processing"
      [] code = 445  -> "failed"
      [] OTHER       -> "processing"

PollRemote(c) ==
    /\ pc[c] = "poll_remote"
    /\ \E code \in SessionCodes(held[c]) :
         answer' = [answer EXCEPT ![c] = MapSessionStatusCode(code)]
    /\ Goto(c, "snapshot")
    /\ UNCHANGED <<op, held, local, gatewayVars>>

StoreSnapshot(c) ==
    /\ pc[c] = "snapshot"
    /\ local' = [local EXCEPT ![held[c]] = answer[c]]
    /\ Goto(c, "done")
    /\ UNCHANGED <<op, held, answer, gatewayVars>>

(***************************************************************************)
(* Failures.                                                               *)
(***************************************************************************)

(* The step raises, or the process dies before it.                         *)
SessionStepFails(c) ==
    /\ pc[c] \in SessionStep
    /\ Goto(c, "failed")
    /\ UNCHANGED <<op, held, answer, local, gatewayVars>>

(* KSeF acts, and the request does not get the answer.                     *)
SessionAnswerLost(c) ==
    /\ \/ pc[c] = "open" /\ \E s \in SessionRef : OpenSession(c, s)
       \/ pc[c] = "close_remote" /\ CloseSession(held[c])
    /\ Goto(c, "failed")
    /\ UNCHANGED <<op, held, answer, local, docVars>>

SessionRequest(c) ==
    \/ BeginOpen(c)
    \/ \E s \in SessionRef : BeginClose(c, s) \/ BeginPollSession(c, s)
    \/ FindSession(c)
    \/ OpenRemote(c)
    \/ PersistOpened(c)
    \/ CloseRemote(c)
    \/ CloseLocal(c)
    \/ PollRemote(c)
    \/ StoreSnapshot(c)
    \/ SessionStepFails(c)
    \/ SessionAnswerLost(c)

(***************************************************************************)
(* Properties.                                                             *)
(***************************************************************************)

(* A row that says "closed" stands for a session that KSeF has closed,     *)
(* although answers of polls are stored after the row may have changed,    *)
(* and a close may be refused or lose its answer (lines 320-341 of         *)
(* SessionService, 88-112 of StatusService).                               *)
ClosedRowIsClosed ==
    \A s \in SessionRef : local[s] = "closed" => session[s] = "closed"

(* A session is handed out for reuse only between the write of its row and *)
(* the first close or poll that is stored: a row that stopped saying       *)
(* "open" never says so again, in whatever order requests store answers.   *)
NeverReusableAgain ==
    [][\A s \in SessionRef :
         local[s] \notin {"none", "open"} => local'[s] # "open"]_<<local>>
=============================================================================
