----------------------------- MODULE RetryService -----------------------------
(***************************************************************************)
(* RetryService: repeated passes over submissions and sessions that resend *)
(* failed submissions, poll statuses, and move rows that took too long or  *)
(* failed too often to the dead letter.                                    *)
(*                                                                         *)
(* A pass decides on records as they were when its list was read.  Several *)
(* workers (a scheduled sync and API calls for single rows) may run passes *)
(* at once, and a pass may stop anywhere: its process dies, or an error    *)
(* outside the try block of an item ends it.                               *)
(***************************************************************************)
EXTENDS Integers, FiniteSets

CONSTANTS
    Worker, Submission, Session,
    RetryLimit,         \* ksef_submission_retry_limit
    PollLimit,          \* ksef_session_poll_retry_limit
    ListLimit,          \* limit= of the lists, 100 by default
    Base, MaxDelay,     \* ..._base_seconds, ksef_max_retry_delay_seconds
    Timeout,            \* ksef_submission_timeout_seconds, ksef_session_...
    MaxTime,            \* bound of the model: the clock stops there
    MaxFaults,          \* bound of the model: crashes and failing writes
    None

ASSUME RetryAssumption ==
    /\ RetryLimit \in Nat \ {0} /\ PollLimit \in Nat \ {0}
    /\ ListLimit \in Nat
    /\ Base \in Nat \ {0} /\ MaxDelay \in Nat \ {0}
    /\ Timeout \in Nat /\ MaxTime \in Nat /\ MaxFaults \in Nat
    /\ Submission \cap Session = {}

Row == Submission \cup Session

(* What is retried: a submission is resent and polled, a session polled.   *)
Task == [op : {"retry"}, row : Submission] \cup [op : {"poll"}, row : Row]

(* local_status, as far as the passes tell it apart: not sent yet (no      *)
(* reference number), known to KSeF, terminal by KSeF's answer (accepted   *)
(* or rejected, closed or failed), or given up.                            *)
Status   == {"unsent", "sent", "final", "dead_letter"}
Terminal == {"final", "dead_letter"}

VARIABLES
    now,        \* the clock
    status,     \* local_status of each row
    count,      \* retry_count or poll_retry_count of each task
    due,        \* next_retry_at or next_poll_at of each task, 0 for NULL
    pc,         \* where each worker is in its pass
    todo,       \* records of the worker's list not yet processed
    cur,        \* the record being processed
    more,       \* the pass is a sync_pending that still has retries to list
    sends,      \* resubmissions of each submission that reached KSeF
    faults      \* crashes and failed writes so far

rowVars    == <<status, count, due, sends>>
workerVars == <<pc, todo, cur, more>>
vars       == <<now, rowVars, workerVars, faults>>

Record == [task : Task, status : Status, count : Nat, due : Nat]

Step == {"idle", "list_sessions", "list_invoices", "list_retries", "items",
         "count", "call", "log_success", "log_failure",
         "mark_dead_letter", "log_dead_letter"}

TypeOK ==
    /\ now    \in 0 .. MaxTime
    /\ status \in [Row -> Status]
    /\ count  \in [Task -> Nat]
    /\ due    \in [Task -> Nat]
    /\ pc     \in [Worker -> Step]
    /\ todo   \in [Worker -> SUBSET Record]
    /\ cur    \in [Worker -> Record \cup {None}]
    /\ more   \in [Worker -> BOOLEAN]
    /\ sends  \in [Submission -> Nat]
    /\ faults \in 0 .. MaxFaults

Init ==
    /\ now = 0
    /\ status \in [Row -> {"unsent", "sent"}]
    /\ \A s \in Session : status[s] = "sent"
    /\ count  = [t \in Task |-> 0]
    /\ due    = [t \in Task |-> 0]
    /\ pc     = [w \in Worker |-> "idle"]
    /\ todo   = [w \in Worker |-> {}]
    /\ cur    = [w \in Worker |-> None]
    /\ more   = [w \in Worker |-> FALSE]
    /\ sends  = [s \in Submission |-> 0]
    /\ faults = 0

(***************************************************************************)
(* The decisions on a record.                                              *)
(***************************************************************************)
Limit(t) == IF t.row \in Session THEN PollLimit ELSE RetryLimit

(* Strictly after the deadline; every row was created at time 0.           *)
TimedOut == now > Timeout

HasReference(r) == r.task.op = "retry" \/ r.status # "unsent"

Considered(r) == r.status \notin Terminal /\ HasReference(r)

(* Mutants: the limit, and the due time, are not looked at.                *)
ShouldRetryUnlimited(r) == r.due <= now
ShouldRetryAnyTime(r)   == r.count < Limit(r.task)

ShouldRetry(r) == r.count < Limit(r.task) /\ r.due <= now

(* Capped exponential backoff.                                             *)
Delay(n) ==
    LET raw == Base * 2 ^ (IF n > 0 THEN n - 1 ELSE 0)
    IN  IF raw < MaxDelay THEN raw ELSE MaxDelay

(* The delays are numbers of seconds: they are for all values of the       *)
(* constants, but "^" has no theory in the provers.                        *)
ASSUME DelayAssumption == \A n \in 1 .. RetryLimit + PollLimit : Delay(n) \in Nat

(***************************************************************************)
(* A pass: the lists it reads.                                             *)
(***************************************************************************)
Read(t) == [task |-> t, status |-> status[t.row], count |-> count[t], due |-> due[t]]

(* What a list may hold: at most ListLimit of the rows.  Which of them the *)
(* repository chooses, and in which order, is not in this repository; here *)
(* it may be any, since those that must not be processed are skipped item  *)
(* by item.                                                                *)
Lists(op, rows) ==
    {{Read([op |-> op, row |-> s]) : s \in S} :
        S \in {T \in SUBSET rows : IsFiniteSet(T) /\ Cardinality(T) <= ListLimit}}

Goto(w, step) == pc' = [pc EXCEPT ![w] = step]

(* poll_pending_statuses, or sync_pending, which retries afterwards.       *)
BeginPolls(w, sync) ==
    /\ pc[w] = "idle"
    /\ Goto(w, "list_sessions")
    /\ more' = [more EXCEPT ![w] = sync]
    /\ UNCHANGED <<now, rowVars, todo, cur, faults>>

(* retry_failed_submissions.                                               *)
BeginRetries(w) ==
    /\ pc[w] = "idle"
    /\ Goto(w, "list_retries")
    /\ UNCHANGED <<now, rowVars, todo, cur, more, faults>>

(* retry_submission, poll_session, poll_invoice.                           *)
BeginOne(w, t) ==
    /\ pc[w] = "idle"
    /\ todo' = [todo EXCEPT ![w] = {Read(t)}]
    /\ Goto(w, "items")
    /\ UNCHANGED <<now, rowVars, cur, more, faults>>

ListSessions(w) ==
    /\ pc[w] = "list_sessions"
    /\ \E list \in Lists("poll", Session) : todo' = [todo EXCEPT ![w] = list]
    /\ Goto(w, "list_invoices")
    /\ UNCHANGED <<now, rowVars, cur, more, faults>>

ListInvoices(w) ==
    /\ pc[w] = "list_invoices"
    /\ \E list \in Lists("poll", Submission) :
         todo' = [todo EXCEPT ![w] = @ \cup list]
    /\ Goto(w, "items")
    /\ UNCHANGED <<now, rowVars, cur, more, faults>>

ListRetries(w) ==
    /\ pc[w] = "list_retries"
    /\ \E list \in Lists("retry", Submission) : todo' = [todo EXCEPT ![w] = list]
    /\ Goto(w, "items")
    /\ UNCHANGED <<now, rowVars, cur, more, faults>>

PassEnds(w) ==
    /\ pc[w] = "items"
    /\ todo[w] = {}
    /\ Goto(w, IF more[w] THEN "list_retries" ELSE "idle")
    /\ more' = [more EXCEPT ![w] = FALSE]
    /\ UNCHANGED <<now, rowVars, todo, cur, faults>>

(***************************************************************************)
(* One item.                                                               *)
(***************************************************************************)

(* The next record of the list; sessions come before invoices.             *)
IsNext(w, r) ==
    /\ r \in todo[w]
    /\ r.task.row \in Submission => \A q \in todo[w] : q.task.row \in Submission

(* Mutant: the limit is looked at before the deadline.                     *)
NextItemLimitFirst(w, r) ==
    /\ pc[w] = "items"
    /\ IsNext(w, r)
    /\ todo' = [todo EXCEPT ![w] = @ \ {r}]
    /\ \/ /\ Considered(r)
          /\ ShouldRetry(r)
          /\ cur' = [cur EXCEPT ![w] = r]
          /\ Goto(w, IF TimedOut THEN "mark_dead_letter" ELSE "count")
       \/ /\ ~Considered(r) \/ ~ShouldRetry(r)
          /\ UNCHANGED <<cur, pc>>
    /\ UNCHANGED <<now, rowVars, more, faults>>

NextItem(w, r) ==
    /\ pc[w] = "items"
    /\ IsNext(w, r)
    /\ todo' = [todo EXCEPT ![w] = @ \ {r}]
    /\ \/ /\ Considered(r)
          /\ TimedOut
          /\ cur' = [cur EXCEPT ![w] = r]
          /\ Goto(w, "mark_dead_letter")
       \/ /\ Considered(r)
          /\ ~TimedOut
          /\ ShouldRetry(r)
          /\ cur' = [cur EXCEPT ![w] = r]
          /\ Goto(w, "count")
       \/ /\ ~Considered(r) \/ (~TimedOut /\ ~ShouldRetry(r))    \* skipped
          /\ UNCHANGED <<cur, pc>>
    /\ UNCHANGED <<now, rowVars, more, faults>>

ItemEnds(w) ==
    /\ cur' = [cur EXCEPT ![w] = None]
    /\ Goto(w, "items")

(* update_retry_state, update_poll_state, update_status_poll_state: the    *)
(* next count is the record's, not the row's, plus one.                    *)
CountAttempt(w) ==
    /\ pc[w] = "count"
    /\ LET t == cur[w].task
           n == cur[w].count + 1
       IN  /\ count' = [count EXCEPT ![t] = n]
           /\ due'   = [due   EXCEPT ![t] = now + Delay(n)]
    /\ Goto(w, "call")
    /\ UNCHANGED <<now, status, sends, todo, cur, more, faults>>

(* Mutant: a failed resubmission is repeated within the attempt.           *)
ResubmitRepeating(w) ==
    /\ pc[w] = "call"
    /\ cur[w].task.op = "retry"
    /\ LET s == cur[w].task.row IN
         /\ sends' = [sends EXCEPT ![s] = @ + 1]
         /\ \/ status' = [status EXCEPT ![s] = "sent"] /\ Goto(w, "log_success")
            \/ UNCHANGED <<status, pc>>
    /\ UNCHANGED <<now, count, due, todo, cur, more, faults>>

(* resubmit_invoice sends the document again.  It may fail after KSeF got  *)
(* the document, or before.                                                *)
Resubmit(w) ==
    /\ pc[w] = "call"
    /\ cur[w].task.op = "retry"
    /\ LET s == cur[w].task.row IN
         \/ /\ sends'  = [sends  EXCEPT ![s] = @ + 1]
            /\ status' = [status EXCEPT ![s] = "sent"]
            /\ Goto(w, "log_success")
         \/ /\ sends' = [sends EXCEPT ![s] = @ + 1]
            /\ Goto(w, "log_failure")
            /\ UNCHANGED status
    /\ UNCHANGED <<now, count, due, todo, cur, more, faults>>

(* poll_session_status, poll_invoice_status: the row gets KSeF's answer.   *)
Poll(w) ==
    /\ pc[w] = "call"
    /\ cur[w].task.op = "poll"
    /\ \/ status' = [status EXCEPT ![cur[w].task.row] = "final"]
       \/ UNCHANGED status
    /\ Goto(w, "log_success")
    /\ UNCHANGED <<now, count, due, sends, todo, cur, more, faults>>

CallFails(w) ==
    /\ pc[w] = "call"
    /\ Goto(w, "log_failure")
    /\ UNCHANGED <<now, rowVars, todo, cur, more, faults>>

LogSuccess(w) ==
    /\ pc[w] = "log_success"
    /\ ItemEnds(w)
    /\ UNCHANGED <<now, rowVars, todo, more, faults>>

(* The writes of the try block: an error of the counting or of the audit   *)
(* of a success is handled like a failed call.                             *)
WriteFails(w) ==
    /\ pc[w] \in {"count", "log_success"}
    /\ faults < MaxFaults
    /\ faults' = faults + 1
    /\ Goto(w, "log_failure")
    /\ UNCHANGED <<now, rowVars, todo, cur, more>>

(* Mutant: the limit is reached one attempt too early.                     *)
LogFailureEarly(w) ==
    /\ pc[w] = "log_failure"
    /\ IF cur[w].count + 2 >= Limit(cur[w].task)
       THEN Goto(w, "mark_dead_letter") /\ UNCHANGED cur
       ELSE ItemEnds(w)
    /\ UNCHANGED <<now, rowVars, todo, more, faults>>

LogFailure(w) ==
    /\ pc[w] = "log_failure"
    /\ \/ /\ cur[w].count + 1 >= Limit(cur[w].task)
          /\ Goto(w, "mark_dead_letter")
          /\ UNCHANGED cur
       \/ /\ cur[w].count + 1 < Limit(cur[w].task)
          /\ ItemEnds(w)
    /\ UNCHANGED <<now, rowVars, todo, more, faults>>

(* Mutant: another spelling of the status.                                 *)
MarkDeadLettered(w) ==
    /\ pc[w] = "mark_dead_letter"
    /\ status' = [status EXCEPT ![cur[w].task.row] = "dead_lettered"]
    /\ Goto(w, "log_dead_letter")
    /\ UNCHANGED <<now, count, due, sends, todo, cur, more, faults>>

MarkDeadLetter(w) ==
    /\ pc[w] = "mark_dead_letter"
    /\ status' = [status EXCEPT ![cur[w].task.row] = "dead_letter"]
    /\ Goto(w, "log_dead_letter")
    /\ UNCHANGED <<now, count, due, sends, todo, cur, more, faults>>

LogDeadLetter(w) ==
    /\ pc[w] = "log_dead_letter"
    /\ ItemEnds(w)
    /\ UNCHANGED <<now, rowVars, todo, more, faults>>

(* The process dies, or a list, an audit of a failure, a dead-letter mark  *)
(* or its audit raises: nothing catches that, and the pass is over.        *)
PassAborts(w) ==
    /\ pc[w] # "idle"
    /\ faults < MaxFaults
    /\ faults' = faults + 1
    /\ Goto(w, "idle")
    /\ todo' = [todo EXCEPT ![w] = {}]
    /\ cur'  = [cur  EXCEPT ![w] = None]
    /\ more' = [more EXCEPT ![w] = FALSE]
    /\ UNCHANGED <<now, rowVars>>

Tick ==
    /\ now < MaxTime
    /\ now' = now + 1
    /\ UNCHANGED <<rowVars, workerVars, faults>>

(***************************************************************************)
(* The next-state relation.                                                *)
(***************************************************************************)
Begin(w) ==
    \/ \E sync \in BOOLEAN : BeginPolls(w, sync)
    \/ BeginRetries(w)
    \/ \E t \in Task : BeginOne(w, t)

Continue(w) ==
    \/ ListSessions(w)
    \/ ListInvoices(w)
    \/ ListRetries(w)
    \/ \E r \in todo[w] : NextItem(w, r)
    \/ CountAttempt(w)
    \/ Resubmit(w)
    \/ Poll(w)
    \/ CallFails(w)
    \/ LogSuccess(w)
    \/ LogFailure(w)
    \/ MarkDeadLetter(w)
    \/ LogDeadLetter(w)
    \/ PassEnds(w)

Next ==
    \/ \E w \in Worker : Begin(w) \/ Continue(w) \/ WriteFails(w) \/ PassAborts(w)
    \/ Tick

Spec == Init /\ [][Next]_vars

(* A pass that has begun goes on.  Nothing is assumed about who begins one *)
(* (the repository has no scheduler), nor about the clock.                 *)
FairSpec ==
    /\ Spec
    /\ \A w \in Worker : WF_vars(Continue(w))

(***************************************************************************)
(* Properties.                                                             *)
(***************************************************************************)

(* No stored counter exceeds its limit, although workers write it from     *)
(* records that may be stale and a crash may lose an attempt (lines 246,   *)
(* 362 and 475, guarded by lines 617-657).                                 *)
CountsWithinLimit == \A t \in Task : count[t] <= Limit(t)

(* With one worker, KSeF gets at most one document per counted attempt,    *)
(* hence at most RetryLimit of them: the count is stored before the call   *)
(* (lines 246-258), so a crash loses an attempt and never adds one.        *)
SendsAreCounted ==
    \A s \in Submission : sends[s] <= count[[op |-> "retry", row |-> s]]

(* With one worker, attempts keep their distance: a counter changes only   *)
(* when the delay computed at its last change is over (lines 625-629,      *)
(* 703-715), whatever passes ran or stopped in between.                    *)
BackoffRespected ==
    [][\A t \in Task : count'[t] # count[t] => due[t] <= now]_vars

(* With one worker, a row is given up only past its deadline, or after     *)
(* Limit attempts of one of its tasks, of which the last may have failed   *)
(* in storing its own count (lines 225-235, 281-308, 391-418, 507-535).    *)
DeadLetterJustified ==
    \A r \in Row : status[r] = "dead_letter" =>
        \/ TimedOut
        \/ \E t \in Task : t.row = r /\ count[t] >= Limit(t) - 1

(* An overdue row that a pass has in its list ends, unless a fault comes   *)
(* between: also one that is not due, and one whose counter reached its    *)
(* limit in an attempt that a crash cut short, since the deadline is       *)
(* looked at before limit and due time (lines 225-243, 338-355, 452-469).  *)
OverdueRowEnds ==
    \A w \in Worker, s \in Row, n \in 0 .. MaxFaults :
        (/\ faults = n /\ TimedOut
         /\ \E r \in todo[w] : r.task.row = s /\ Considered(r))
            ~> (status[s] \in Terminal \/ faults > n)

(* TERMINAL_INVOICE_STATUSES and TERMINAL_SESSION_STATUSES (lines 42-54):  *)
(* a row never leaves a terminal status for another one.                   *)
TerminalIsTerminal ==
    [][\A r \in Row : status[r] \in Terminal => status'[r] = status[r]]_vars
=============================================================================
