-------------------------- MODULE RetryServiceProofs --------------------------
(***************************************************************************)
(* Theorems about RetryService.                                            *)
(*                                                                         *)
(* For any number of workers, IInv: while an item is processed, the record *)
(* it is processed from is at hand, and an attempt is only counted from a  *)
(* record whose count is below the limit.  So counters respect their       *)
(* limits although they are written from stale records.  A pass is         *)
(* bounded by the rows when it begins, whatever the others do.             *)
(***************************************************************************)
EXTENDS RetryService, FiniteSetTheorems, TLAPS

ItemStep == {"count", "call", "log_success", "log_failure",
             "mark_dead_letter", "log_dead_letter"}

ItemInv ==
    \A w \in Worker :
        /\ pc[w] \in ItemStep => cur[w] \in Record
        /\ pc[w] = "count" => cur[w].count < Limit(cur[w].task)

IInv == TypeOK /\ ItemInv /\ CountsWithinLimit

(***************************************************************************)
(* Lemmas on records and tasks.                                            *)
(***************************************************************************)

(* What is read of a task is a record of it.                               *)
LEMMA ReadRecord ==
    ASSUME TypeOK, NEW t \in Task
    PROVE  /\ Read(t) \in Record
           /\ Read(t).task = t /\ Read(t).count = count[t] /\ Read(t).due = due[t]
  <1>1. t.row \in Row
    BY DEF Task, Row
  <1> QED
    BY <1>1 DEF TypeOK, Read, Record

(* Limits are positive numbers.                                            *)
LEMMA LimitNat == \A t \in Task : Limit(t) \in 1 .. RetryLimit + PollLimit
  BY RetryAssumption DEF Limit

(* The tasks a pass lists.                                                 *)
LEMMA ListedTasks ==
    /\ \A s \in Row : [op |-> "poll", row |-> s] \in Task
    /\ \A s \in Submission : [op |-> "retry", row |-> s] \in Task
  BY DEF Task, Row

(* A list holds what was read of some of the rows.                         *)
LEMMA ListOf ==
    ASSUME NEW op, NEW rows, NEW list \in Lists(op, rows), NEW r \in list
    PROVE  \E s \in rows : r = Read([op |-> op, row |-> s])
  BY DEF Lists

LEMMA InitIInv == Init => IInv
  <1> SUFFICES ASSUME Init PROVE IInv
    OBVIOUS
  <1> USE RetryAssumption DEF Init
  <1>1. TypeOK
    <2>1. status \in [Row -> Status]
      BY DEF Status
    <2> QED
      BY <2>1 DEF TypeOK, Step
  <1>2. ItemInv
    BY DEF ItemInv, ItemStep
  <1>3. CountsWithinLimit
    BY LimitNat DEF CountsWithinLimit
  <1> QED
    BY <1>1, <1>2, <1>3 DEF IInv

(***************************************************************************)
(* The passes: lists and the choice of an item.                            *)
(***************************************************************************)
LEMMA BeginIInv ==
    ASSUME IInv, NEW w \in Worker, Begin(w)
    PROVE  IInv'
  <1> USE RetryAssumption DEF IInv, TypeOK, ItemInv, ItemStep, Step, Goto
  <1>1. ASSUME NEW sync \in BOOLEAN, BeginPolls(w, sync) PROVE IInv'
    BY <1>1 DEF BeginPolls, rowVars, CountsWithinLimit, Limit
  <1>2. CASE BeginRetries(w)
    BY <1>2 DEF BeginRetries, rowVars, CountsWithinLimit, Limit
  <1>3. ASSUME NEW t \in Task, BeginOne(w, t) PROVE IInv'
    <2>1. Read(t) \in Record
      BY ReadRecord
    <2> QED
      BY <1>3, <2>1 DEF BeginOne, rowVars, CountsWithinLimit, Limit
  <1> QED
    BY <1>1, <1>2, <1>3 DEF Begin

LEMMA ListsIInv ==
    ASSUME IInv, NEW w \in Worker, ListSessions(w) \/ ListInvoices(w) \/ ListRetries(w)
    PROVE  IInv'
  <1>1. ASSUME NEW rows \in {Session, Submission}, NEW list \in Lists("poll", rows)
        PROVE  list \subseteq Record
    <2> SUFFICES ASSUME NEW r \in list PROVE r \in Record
      OBVIOUS
    <2>1. PICK s \in rows : r = Read([op |-> "poll", row |-> s])
      BY ListOf
    <2>2. [op |-> "poll", row |-> s] \in Task
      BY ListedTasks DEF Row
    <2> QED
      BY <2>1, <2>2, ReadRecord DEF IInv
  <1>2. ASSUME NEW list \in Lists("retry", Submission)
        PROVE  list \subseteq Record
    <2> SUFFICES ASSUME NEW r \in list PROVE r \in Record
      OBVIOUS
    <2>1. PICK s \in Submission : r = Read([op |-> "retry", row |-> s])
      BY ListOf
    <2>2. [op |-> "retry", row |-> s] \in Task
      BY ListedTasks
    <2> QED
      BY <2>1, <2>2, ReadRecord DEF IInv
  <1>3. CASE ListSessions(w)
    BY <1>1, <1>3 DEF ListSessions, IInv, TypeOK, ItemInv, ItemStep, Step,
       Goto, rowVars, CountsWithinLimit, Limit
  <1>4. CASE ListInvoices(w)
    BY <1>1, <1>4 DEF ListInvoices, IInv, TypeOK, ItemInv, ItemStep, Step,
       Goto, rowVars, CountsWithinLimit, Limit
  <1>5. CASE ListRetries(w)
    BY <1>2, <1>5 DEF ListRetries, IInv, TypeOK, ItemInv, ItemStep, Step,
       Goto, rowVars, CountsWithinLimit, Limit
  <1> QED
    BY <1>3, <1>4, <1>5

LEMMA NextItemIInv ==
    ASSUME IInv, NEW w \in Worker, NEW r \in todo[w], NextItem(w, r)
    PROVE  IInv'
  <1>1. r \in Record
    BY DEF IInv, TypeOK
  <1>2. UNCHANGED <<now, rowVars, more, faults>>
    BY DEF NextItem
  <1>3. todo' \in [Worker -> SUBSET Record]
    BY DEF NextItem, IInv, TypeOK
  <1> USE DEF NextItem, IInv, TypeOK, ItemInv, ItemStep, Step, Goto, rowVars,
              CountsWithinLimit, Limit, ShouldRetry
  <1>4. CASE cur' = [cur EXCEPT ![w] = r] /\ pc' = [pc EXCEPT ![w] = "mark_dead_letter"]
    BY <1>1, <1>2, <1>3, <1>4
  <1>5. CASE /\ cur' = [cur EXCEPT ![w] = r] /\ pc' = [pc EXCEPT ![w] = "count"]
             /\ ShouldRetry(r)
    BY <1>1, <1>2, <1>3, <1>5
  <1>6. CASE UNCHANGED <<cur, pc>>
    BY <1>1, <1>2, <1>3, <1>6
  <1> QED
    BY <1>4, <1>5, <1>6

(***************************************************************************)
(* The processing of an item.                                              *)
(***************************************************************************)
LEMMA CountAttemptIInv ==
    ASSUME IInv, NEW w \in Worker, CountAttempt(w)
    PROVE  IInv'
  <1> DEFINE t == cur[w].task
             n == cur[w].count + 1
  <1>1. cur[w] \in Record /\ cur[w].count < Limit(t)
    BY DEF CountAttempt, IInv, ItemInv, ItemStep
  <1>2. t \in Task /\ cur[w].count \in Nat
    BY <1>1 DEF Record
  <1>3. Limit(t) \in 1 .. RetryLimit + PollLimit
    BY <1>2, LimitNat
  <1>4. n \in 1 .. RetryLimit + PollLimit /\ n <= Limit(t)
    BY <1>1, <1>2, <1>3, RetryAssumption
  <1>5. now + Delay(n) \in Nat
    BY <1>4, DelayAssumption, RetryAssumption DEF IInv, TypeOK
  <1>6. count' = [count EXCEPT ![t] = n] /\ due' = [due EXCEPT ![t] = now + Delay(n)]
    BY DEF CountAttempt
  <1>7. count' \in [Task -> Nat] /\ due' \in [Task -> Nat]
    BY <1>2, <1>4, <1>5, <1>6, RetryAssumption DEF IInv, TypeOK
  <1>8. CountsWithinLimit'
    BY <1>2, <1>4, <1>6 DEF IInv, TypeOK, CountsWithinLimit, Limit
  <1>9. UNCHANGED <<now, status, sends, todo, cur, more, faults>>
        /\ pc' = [pc EXCEPT ![w] = "call"]
    BY DEF CountAttempt, Goto
  <1>10. TypeOK'
    BY <1>7, <1>9 DEF IInv, TypeOK, Step
  <1>11. ItemInv'
    BY <1>1, <1>9 DEF IInv, TypeOK, ItemInv, ItemStep, Limit
  <1> QED
    BY <1>8, <1>10, <1>11 DEF IInv

(* The steps of an item that leave the counters and the due times alone.   *)
ItemAction(w) ==
    \/ Resubmit(w) \/ Poll(w) \/ CallFails(w) \/ LogSuccess(w) \/ WriteFails(w)
    \/ LogFailure(w) \/ MarkDeadLetter(w) \/ LogDeadLetter(w)

LEMMA ItemActionIInv ==
    ASSUME IInv, NEW w \in Worker, ItemAction(w)
    PROVE  IInv'
  <1>1. pc[w] \in ItemStep
    BY DEF ItemAction, Resubmit, Poll, CallFails, LogSuccess, WriteFails, LogFailure,
       MarkDeadLetter, LogDeadLetter, ItemStep
  <1>2. cur[w] \in Record
    BY <1>1 DEF IInv, ItemInv
  <1>3. cur[w].task.row \in Row /\ (cur[w].task.op = "retry" => cur[w].task.row \in Submission)
    BY <1>2 DEF Record, Task, Row
  <1> USE <1>2, <1>3, RetryAssumption DEF IInv, TypeOK, ItemInv, ItemStep, Step, Goto,
          ItemEnds, rowVars, CountsWithinLimit, Limit, Status
  <1>4. CASE Resubmit(w)
    BY <1>4 DEF Resubmit
  <1>5. CASE Poll(w)
    BY <1>5 DEF Poll
  <1>6. CASE CallFails(w)
    BY <1>6 DEF CallFails
  <1>7. CASE LogSuccess(w)
    BY <1>7 DEF LogSuccess
  <1>8. CASE WriteFails(w)
    BY <1>8 DEF WriteFails
  <1>9. CASE LogFailure(w)
    BY <1>9 DEF LogFailure
  <1>10. CASE MarkDeadLetter(w)
    BY <1>10 DEF MarkDeadLetter
  <1>11. CASE LogDeadLetter(w)
    BY <1>11 DEF LogDeadLetter
  <1> QED
    BY <1>4, <1>5, <1>6, <1>7, <1>8, <1>9, <1>10, <1>11 DEF ItemAction

LEMMA PassIInv ==
    ASSUME IInv, NEW w \in Worker, PassEnds(w) \/ PassAborts(w)
    PROVE  IInv'
  <1> USE RetryAssumption DEF IInv, TypeOK, ItemInv, ItemStep, Step, Goto, rowVars,
          CountsWithinLimit, Limit
  <1>1. CASE PassEnds(w)
    BY <1>1 DEF PassEnds
  <1>2. CASE PassAborts(w)
    BY <1>2 DEF PassAborts
  <1> QED
    BY <1>1, <1>2

LEMMA TickIInv == ASSUME IInv, Tick PROVE IInv'
  BY RetryAssumption DEF IInv, TypeOK, ItemInv, Tick, rowVars, workerVars,
     CountsWithinLimit, Limit

LEMMA NextIInv == IInv /\ [Next]_vars => IInv'
  <1> SUFFICES ASSUME IInv, [Next]_vars PROVE IInv'
    OBVIOUS
  <1>1. CASE UNCHANGED vars
    BY <1>1 DEF vars, rowVars, workerVars, IInv, TypeOK, ItemInv, CountsWithinLimit, Limit
  <1>2. CASE Tick
    BY <1>2, TickIInv
  <1>3. ASSUME NEW w \in Worker, Begin(w) \/ Continue(w) \/ WriteFails(w) \/ PassAborts(w)
        PROVE  IInv'
    BY <1>3, BeginIInv, ListsIInv, NextItemIInv, CountAttemptIInv, ItemActionIInv, PassIInv
       DEF Continue, ItemAction
  <1> QED
    BY <1>1, <1>2, <1>3 DEF Next

LEMMA Inductive == Spec => []IInv
  BY InitIInv, NextIInv, PTL DEF Spec

(* Every variable keeps its type, for any number of workers, rows and      *)
(* faults.                                                                 *)
THEOREM TypeCorrect == Spec => []TypeOK
  <1>1. IInv => TypeOK
    BY DEF IInv
  <1> QED
    BY <1>1, Inductive, PTL

(* No counter exceeds its limit (lines 617-657), for any number of workers *)
(* whose records may be stale.                                             *)
THEOREM LimitsCorrect == Spec => []CountsWithinLimit
  <1>1. IInv => CountsWithinLimit
    BY DEF IInv
  <1> QED
    BY <1>1, Inductive, PTL

(***************************************************************************)
(* One worker.  The records of its list are then the rows themselves, so   *)
(* every counter only grows and every attempt starts from its due time.    *)
(***************************************************************************)
OneWorker == \A v, w \in Worker : v = w

ListFresh ==
    \A w \in Worker :
        /\ \A r \in todo[w] : r.count = count[r.task] /\ r.due = due[r.task]
        /\ \A q, r \in todo[w] : q.task = r.task => q = r
        /\ pc[w] = "list_invoices" => \A r \in todo[w] : r.task.row \in Session
        /\ pc[w] \in ItemStep => \A r \in todo[w] : r.task # cur[w].task

AttemptInv ==
    \A w \in Worker :
        LET t == cur[w].task IN
        /\ pc[w] = "count" => count[t] = cur[w].count /\ due[t] <= now
        /\ pc[w] = "call" /\ t.op = "retry" => sends[t.row] < count[t]
        /\ pc[w] \in {"call", "log_success", "log_failure"} => count[t] >= cur[w].count
        /\ pc[w] = "mark_dead_letter" => TimedOut \/ count[t] >= Limit(t) - 1

OneIInv ==
    IInv /\ ListFresh /\ AttemptInv /\ SendsAreCounted /\ DeadLetterJustified

LEMMA InitOneIInv == Init => OneIInv
  <1> SUFFICES ASSUME Init PROVE OneIInv
    OBVIOUS
  <1>1. ListFresh /\ AttemptInv
    BY DEF Init, ListFresh, AttemptInv, ItemStep
  <1>2. SendsAreCounted
    <2> SUFFICES ASSUME NEW s \in Submission
                 PROVE  sends[s] <= count[[op |-> "retry", row |-> s]]
      BY DEF SendsAreCounted
    <2>1. sends[s] = 0
      BY DEF Init
    <2>2. count[[op |-> "retry", row |-> s]] = 0
      BY ListedTasks DEF Init
    <2> QED
      BY <2>1, <2>2
  <1>3. DeadLetterJustified
    BY DEF Init, DeadLetterJustified
  <1> QED
    BY <1>1, <1>2, <1>3, InitIInv DEF OneIInv

(* The parts of the invariant that speak of rows only.                     *)
LEMMA RowsKept ==
    ASSUME OneIInv, UNCHANGED <<status, count, sends>>, now' = now
    PROVE  SendsAreCounted' /\ DeadLetterJustified'
  BY DEF OneIInv, SendsAreCounted, DeadLetterJustified, TimedOut, Limit

LEMMA BeginOneIInv ==
    ASSUME OneWorker, OneIInv, NEW w \in Worker, Begin(w)
    PROVE  ListFresh' /\ AttemptInv'
  <1> USE DEF OneWorker, OneIInv, ListFresh, AttemptInv, ItemStep, Goto, rowVars
  <1>1. IInv /\ TypeOK
    BY DEF IInv
  <1>2. ASSUME NEW sync \in BOOLEAN, BeginPolls(w, sync)
        PROVE  ListFresh' /\ AttemptInv'
    BY <1>1, <1>2 DEF BeginPolls, TypeOK
  <1>3. CASE BeginRetries(w)
    BY <1>1, <1>3 DEF BeginRetries, TypeOK
  <1>4. ASSUME NEW t \in Task, BeginOne(w, t)
        PROVE  ListFresh' /\ AttemptInv'
    BY <1>1, <1>4, ReadRecord DEF BeginOne, TypeOK
  <1> QED
    BY <1>2, <1>3, <1>4 DEF Begin

(* A new list: one record per task, as it is now.                          *)
LEMMA FreshList ==
    ASSUME OneWorker, OneIInv, NEW w \in Worker, NEW L,
           \A r \in L : \E t \in Task : r = Read(t),
           todo' = [todo EXCEPT ![w] = L],
           UNCHANGED <<now, count, due, sends>>,
           pc'[w] \in {"items", "list_invoices"},
           pc'[w] = "list_invoices" => \A r \in L : r.task.row \in Session
    PROVE  ListFresh' /\ AttemptInv'
  <1>1. TypeOK
    BY DEF OneIInv, IInv
  <1>2. \A r \in L : r.count = count[r.task] /\ r.due = due[r.task]
    BY <1>1, ReadRecord
  <1>3. \A q, r \in L : q.task = r.task => q = r
    BY <1>1, ReadRecord
  <1>4. todo'[w] = L
    BY <1>1 DEF TypeOK
  <1> QED
    BY <1>2, <1>3, <1>4 DEF OneWorker, ListFresh, AttemptInv, ItemStep

LEMMA ListsFresh ==
    ASSUME OneWorker, OneIInv, NEW w \in Worker,
           ListSessions(w) \/ ListInvoices(w) \/ ListRetries(w)
    PROVE  ListFresh' /\ AttemptInv'
  <1>1. TypeOK
    BY DEF OneIInv, IInv
  <1>2. ASSUME NEW rows \in {Session, Submission}, NEW list \in Lists("poll", rows),
               NEW r \in list
        PROVE  /\ \E t \in Task : r = Read(t)
               /\ r.task.row \in rows /\ r.count = count[r.task] /\ r.due = due[r.task]
               /\ r = Read(r.task)
    <2>1. PICK s \in rows : r = Read([op |-> "poll", row |-> s])
      BY ListOf
    <2>2. [op |-> "poll", row |-> s] \in Task
      BY ListedTasks DEF Row
    <2>3. r.task = [op |-> "poll", row |-> s]
      BY <1>1, <2>1, <2>2, ReadRecord
    <2>4. r.count = count[r.task] /\ r.due = due[r.task] /\ r = Read(r.task)
      BY <1>1, <2>1, <2>2, <2>3, ReadRecord
    <2> QED
      BY <2>1, <2>2, <2>3, <2>4
  <1>3. ASSUME NEW list \in Lists("retry", Submission), NEW r \in list
        PROVE  \E t \in Task : r = Read(t)
    <2>1. PICK s \in Submission : r = Read([op |-> "retry", row |-> s])
      BY <1>3, ListOf
    <2> QED
      BY <2>1, ListedTasks
  <1>4. CASE ListSessions(w)
    <2>1. PICK list \in Lists("poll", Session) : todo' = [todo EXCEPT ![w] = list]
      BY <1>4 DEF ListSessions
    <2>2. pc'[w] = "list_invoices" /\ UNCHANGED <<now, count, due, sends>>
      BY <1>1, <1>4 DEF ListSessions, Goto, TypeOK, rowVars
    <2>3. \A r \in list : (\E t \in Task : r = Read(t)) /\ r.task.row \in Session
      BY <1>2
    <2> QED
      BY <2>1, <2>2, <2>3, FreshList
  <1>5. CASE ListInvoices(w)
    <2>1. PICK list \in Lists("poll", Submission) : todo' = [todo EXCEPT ![w] = @ \cup list]
      BY <1>5 DEF ListInvoices
    <2>2. pc'[w] = "items" /\ pc[w] = "list_invoices" /\ UNCHANGED <<now, count, due, sends>>
      BY <1>1, <1>5 DEF ListInvoices, Goto, TypeOK, rowVars
    <2>3. \A r \in todo[w] : r.task.row \notin Submission
      BY <2>2, RetryAssumption DEF OneIInv, ListFresh
    <2>4. \A q, r \in list : q.task = r.task => q = r
      BY <1>2
    <2>5. \A q, r \in todo[w] : q.task = r.task => q = r
      BY DEF OneIInv, ListFresh
    <2>6. todo'[w] = todo[w] \cup list
      BY <1>1, <2>1 DEF TypeOK
    <2>7. \A r \in todo'[w] : r.count = count[r.task] /\ r.due = due[r.task]
      BY <1>2, <2>6 DEF OneIInv, ListFresh
    <2>8. \A q, r \in todo'[w] : q.task = r.task => q = r
      BY <1>2, <2>3, <2>4, <2>5, <2>6
    <2> QED
      BY <2>1, <2>2, <2>7, <2>8 DEF OneWorker, ListFresh, AttemptInv, ItemStep
  <1>6. CASE ListRetries(w)
    <2>1. PICK list \in Lists("retry", Submission) : todo' = [todo EXCEPT ![w] = list]
      BY <1>6 DEF ListRetries
    <2>2. pc'[w] = "items" /\ UNCHANGED <<now, count, due, sends>>
      BY <1>1, <1>6 DEF ListRetries, Goto, TypeOK, rowVars
    <2> QED
      BY <1>3, <2>1, <2>2, FreshList
  <1> QED
    BY <1>4, <1>5, <1>6

LEMMA NextItemFresh ==
    ASSUME OneWorker, OneIInv, NEW w \in Worker, NEW r \in todo[w], NextItem(w, r)
    PROVE  ListFresh' /\ AttemptInv'
  <1>1. r \in Record /\ TypeOK
    BY DEF OneIInv, IInv, TypeOK
  <1>2. UNCHANGED <<now, status, count, due, sends, more, faults>>
    BY DEF NextItem, rowVars
  <1>3. todo' = [todo EXCEPT ![w] = @ \ {r}] /\ pc[w] = "items"
    BY DEF NextItem
  <1>4. todo'[w] = todo[w] \ {r}
    BY <1>1, <1>3 DEF TypeOK
  <1>5. r.count = count[r.task] /\ r.due = due[r.task]
    BY DEF OneIInv, ListFresh
  <1>6. \A q \in todo'[w] : q.task # r.task
    BY <1>4 DEF OneIInv, ListFresh
  <1> USE <1>1, <1>2, <1>4, <1>5, <1>6 DEF OneWorker, OneIInv, ListFresh, AttemptInv, ItemStep
  <1>7. CASE TimedOut /\ cur' = [cur EXCEPT ![w] = r] /\ Goto(w, "mark_dead_letter")
    BY <1>7 DEF TypeOK, Goto, TimedOut
  <1>8. CASE ShouldRetry(r) /\ cur' = [cur EXCEPT ![w] = r] /\ Goto(w, "count")
    BY <1>8 DEF TypeOK, Goto, ShouldRetry
  <1>9. CASE UNCHANGED <<cur, pc>>
    BY <1>3, <1>9
  <1> QED
    BY <1>7, <1>8, <1>9 DEF NextItem

LEMMA CountAttemptFresh ==
    ASSUME OneWorker, OneIInv, NEW w \in Worker, CountAttempt(w)
    PROVE  ListFresh' /\ AttemptInv' /\ SendsAreCounted' /\ DeadLetterJustified'
  <1> DEFINE t == cur[w].task
             n == cur[w].count + 1
  <1>1. TypeOK /\ cur[w] \in Record
    BY DEF CountAttempt, OneIInv, IInv, ItemInv, ItemStep
  <1>2. t \in Task /\ cur[w].count \in Nat /\ count[t] = cur[w].count
    BY <1>1 DEF Record, CountAttempt, OneIInv, AttemptInv
  <1>3. \A s \in Task : /\ s # t => count'[s] = count[s] /\ due'[s] = due[s]
                        /\ s = t => count'[s] = n
    BY <1>1, <1>2 DEF CountAttempt, TypeOK
  <1>4. pc[w] = "count" /\ pc' = [pc EXCEPT ![w] = "call"]
        /\ UNCHANGED <<now, status, sends, todo, cur>>
    BY DEF CountAttempt, Goto
  <1>5. \A r \in todo[w] : r \in Record /\ r.task \in Task /\ r.task # t
    BY <1>1, <1>4 DEF TypeOK, Record, OneIInv, ListFresh, ItemStep
  <1>6. ListFresh'
    BY <1>1, <1>3, <1>4, <1>5 DEF OneWorker, OneIInv, ListFresh, TypeOK
  <1>7. SendsAreCounted'
    <2> SUFFICES ASSUME NEW s \in Submission
                 PROVE  sends'[s] <= count'[[op |-> "retry", row |-> s]]
      BY DEF SendsAreCounted
    <2> DEFINE k == [op |-> "retry", row |-> s]
    <2>1. k \in Task /\ sends[s] <= count[k] /\ sends'[s] = sends[s]
      BY <1>4, ListedTasks DEF OneIInv, SendsAreCounted
    <2>2. sends[s] \in Nat /\ count[k] \in Nat
      BY <1>1, <2>1 DEF TypeOK
    <2> HIDE DEF k
    <2>3. count'[k] >= count[k]
      BY <1>2, <1>3, <2>1, <2>2
    <2>4. count'[k] \in Nat
      BY <1>2, <1>3, <2>1, <2>2
    <2> QED
      BY <2>1, <2>2, <2>3, <2>4 DEF k
  <1>8. t.op = "retry" => t.row \in Submission /\ t = [op |-> "retry", row |-> t.row]
    BY <1>2 DEF Task
  <1>9. t.op = "retry" => sends'[t.row] < count'[t]
    BY <1>1, <1>2, <1>3, <1>4, <1>8 DEF OneIInv, SendsAreCounted, TypeOK
  <1>10. AttemptInv'
    BY <1>1, <1>2, <1>3, <1>4, <1>9 DEF OneWorker, AttemptInv, TypeOK
  <1>11. \A s \in Task : count'[s] >= count[s]
    BY <1>1, <1>2, <1>3 DEF TypeOK
  <1>12. DeadLetterJustified'
    BY <1>1, <1>2, <1>3, <1>4, <1>11, LimitNat
       DEF OneIInv, DeadLetterJustified, TypeOK, TimedOut, Limit
  <1> QED
    BY <1>6, <1>7, <1>10, <1>12

LEMMA ItemActionFresh ==
    ASSUME OneWorker, OneIInv, NEW w \in Worker, ItemAction(w)
    PROVE  ListFresh' /\ AttemptInv' /\ SendsAreCounted' /\ DeadLetterJustified'
  <1> DEFINE t == cur[w].task
  <1>1. TypeOK /\ pc[w] \in ItemStep
    BY DEF ItemAction, Resubmit, Poll, CallFails, LogSuccess, WriteFails, LogFailure,
       MarkDeadLetter, LogDeadLetter, ItemStep, OneIInv, IInv
  <1>2. cur[w] \in Record /\ t \in Task /\ cur[w].count \in Nat
    BY <1>1 DEF OneIInv, IInv, ItemInv, Record
  <1>3. t.row \in Row
        /\ (t.op = "retry" => t.row \in Submission /\ t = [op |-> "retry", row |-> t.row])
    BY <1>2 DEF Task, Row
  <1>4. UNCHANGED <<now, count, due, todo>>
    BY DEF ItemAction, Resubmit, Poll, CallFails, LogSuccess, WriteFails, LogFailure,
       MarkDeadLetter, LogDeadLetter, rowVars
  <1>5. pc'[w] \in ItemStep \cup {"items"} /\ (pc'[w] \in ItemStep => cur'[w] = cur[w])
    BY <1>1 DEF ItemAction, Resubmit, Poll, CallFails, LogSuccess, WriteFails, LogFailure,
       MarkDeadLetter, LogDeadLetter, ItemStep, Goto, ItemEnds, TypeOK, rowVars
  <1>6. ListFresh'
    BY <1>1, <1>4, <1>5 DEF OneWorker, OneIInv, ListFresh, ItemStep
  <1>7. AttemptInv'
    <2>1. pc'[w] \notin {"count", "call"}
      BY <1>1 DEF ItemAction, Resubmit, Poll, CallFails, LogSuccess, WriteFails, LogFailure,
         MarkDeadLetter, LogDeadLetter, ItemStep, Goto, ItemEnds, TypeOK
    <2>2. pc'[w] \in {"log_success", "log_failure"} =>
            pc[w] \in {"count", "call", "log_success"} /\ count[t] >= cur[w].count
      BY <1>1, <1>2 DEF ItemAction, Resubmit, Poll, CallFails, LogSuccess, WriteFails,
         LogFailure, MarkDeadLetter, LogDeadLetter, ItemStep, Goto, ItemEnds, TypeOK,
         OneIInv, AttemptInv
    <2>3. pc'[w] = "mark_dead_letter" => count[t] >= cur[w].count /\ cur[w].count + 1 >= Limit(t)
      BY <1>1, <1>2 DEF ItemAction, Resubmit, Poll, CallFails, LogSuccess, WriteFails,
         LogFailure, MarkDeadLetter, LogDeadLetter, ItemStep, Goto, ItemEnds, TypeOK,
         OneIInv, AttemptInv
    <2>4. count[t] \in Nat /\ Limit(t) \in Nat
      BY <1>1, <1>2, LimitNat DEF TypeOK
    <2> QED
      BY <1>2, <1>4, <1>5, <2>1, <2>2, <2>3, <2>4
         DEF OneWorker, AttemptInv, TimedOut, Limit, ItemStep
  <1>8. SendsAreCounted'
    <2>1. CASE Resubmit(w)
      <3>1. t.op = "retry" /\ sends[t.row] < count[t]
        BY <2>1 DEF Resubmit, OneIInv, AttemptInv
      <3>2. sends' = [sends EXCEPT ![t.row] = @ + 1]
        BY <2>1 DEF Resubmit
      <3> SUFFICES ASSUME NEW s \in Submission
                   PROVE  sends'[s] <= count'[[op |-> "retry", row |-> s]]
        BY DEF SendsAreCounted
      <3> DEFINE k == [op |-> "retry", row |-> s]
      <3>3. k \in Task /\ sends[s] <= count[k] /\ count'[k] = count[k]
        BY <1>4, ListedTasks DEF OneIInv, SendsAreCounted
      <3>4. sends[s] \in Nat /\ count[k] \in Nat
        BY <1>1, <3>3 DEF TypeOK
      <3>5. s = t.row => k = t
        BY <1>3, <3>1
      <3> HIDE DEF k, t
      <3>6. sends'[s] <= count[k]
        BY <1>1, <3>1, <3>2, <3>3, <3>4, <3>5 DEF TypeOK
      <3> QED
        BY <3>3, <3>6 DEF k
    <2>2. CASE ~Resubmit(w)
      <3>1. UNCHANGED sends
        BY <2>2 DEF ItemAction, Poll, CallFails, LogSuccess, WriteFails, LogFailure,
           MarkDeadLetter, LogDeadLetter, rowVars
      <3> QED
        BY <1>4, <3>1 DEF OneIInv, SendsAreCounted
    <2> QED
      BY <2>1, <2>2
  <1>9. DeadLetterJustified'
    <2>1. \A r \in Row : status'[r] = "dead_letter" =>
            status[r] = "dead_letter" \/ (r = t.row /\ pc[w] = "mark_dead_letter")
      BY <1>1, <1>3 DEF ItemAction, Resubmit, Poll, CallFails, LogSuccess, WriteFails,
         LogFailure, MarkDeadLetter, LogDeadLetter, TypeOK, rowVars
    <2>2. pc[w] = "mark_dead_letter" => TimedOut \/ count[t] >= Limit(t) - 1
      BY DEF OneIInv, AttemptInv
    <2> QED
      BY <1>2, <1>4, <2>1, <2>2 DEF OneIInv, DeadLetterJustified, TimedOut, Limit
  <1> QED
    BY <1>6, <1>7, <1>8, <1>9

LEMMA PassFresh ==
    ASSUME OneWorker, OneIInv, NEW w \in Worker, PassEnds(w) \/ PassAborts(w)
    PROVE  ListFresh' /\ AttemptInv'
  <1> USE DEF OneWorker, OneIInv, IInv, TypeOK, ListFresh, AttemptInv, ItemStep, Goto, rowVars
  <1>1. CASE PassEnds(w)
    BY <1>1 DEF PassEnds
  <1>2. CASE PassAborts(w)
    BY <1>2 DEF PassAborts
  <1> QED
    BY <1>1, <1>2

LEMMA TickFresh ==
    ASSUME OneIInv, Tick
    PROVE  ListFresh' /\ AttemptInv' /\ SendsAreCounted' /\ DeadLetterJustified'
  <1>1. UNCHANGED <<status, count, due, sends, pc, todo, cur>> /\ now' = now + 1
    BY DEF Tick, rowVars, workerVars
  <1>2. TypeOK /\ now \in Nat /\ Timeout \in Nat
    BY RetryAssumption DEF OneIInv, IInv, TypeOK
  <1>3. TimedOut => TimedOut'
    BY <1>1, <1>2 DEF TimedOut
  <1>4. ListFresh' /\ SendsAreCounted'
    BY <1>1 DEF OneIInv, ListFresh, SendsAreCounted
  <1>5. DeadLetterJustified'
    BY <1>1, <1>3 DEF OneIInv, DeadLetterJustified, Limit
  <1>6. \A w \in Worker : pc[w] = "count" => due[cur[w].task] \in Nat
    BY <1>2 DEF OneIInv, IInv, ItemInv, ItemStep, TypeOK, Record
  <1>7. AttemptInv'
    BY <1>1, <1>2, <1>3, <1>6 DEF OneIInv, AttemptInv, Limit
  <1> QED
    BY <1>4, <1>5, <1>7

LEMMA NextOneIInv ==
    ASSUME OneWorker
    PROVE  OneIInv /\ [Next]_vars => OneIInv'
  <1> SUFFICES ASSUME OneIInv, [Next]_vars PROVE OneIInv'
    OBVIOUS
  <1>1. IInv'
    BY NextIInv DEF OneIInv
  <1>2. CASE UNCHANGED vars
    BY <1>1, <1>2 DEF vars, rowVars, workerVars, OneIInv, ListFresh, AttemptInv,
       SendsAreCounted, DeadLetterJustified, TimedOut, Limit
  <1>3. CASE Tick
    BY <1>1, <1>3, TickFresh DEF OneIInv
  <1>4. ASSUME NEW w \in Worker, Begin(w) \/ Continue(w) \/ WriteFails(w) \/ PassAborts(w)
        PROVE  OneIInv'
    <2>1. CASE CountAttempt(w)
      BY <1>1, <2>1, CountAttemptFresh DEF OneIInv
    <2>2. CASE ItemAction(w)
      BY <1>1, <2>2, ItemActionFresh DEF OneIInv
    <2>3. CASE Begin(w)
      <3>1. UNCHANGED <<status, count, sends, now>>
        BY <2>3 DEF Begin, BeginPolls, BeginRetries, BeginOne, rowVars
      <3> QED
        BY <1>1, <2>3, <3>1, BeginOneIInv, RowsKept DEF OneIInv
    <2>4. CASE ListSessions(w) \/ ListInvoices(w) \/ ListRetries(w)
      <3>1. UNCHANGED <<status, count, sends, now>>
        BY <2>4 DEF ListSessions, ListInvoices, ListRetries, rowVars
      <3> QED
        BY <1>1, <2>4, <3>1, ListsFresh, RowsKept DEF OneIInv
    <2>5. ASSUME NEW r \in todo[w], NextItem(w, r)
          PROVE  OneIInv'
      <3>1. UNCHANGED <<status, count, sends, now>>
        BY <2>5 DEF NextItem, rowVars
      <3> QED
        BY <1>1, <2>5, <3>1, NextItemFresh, RowsKept DEF OneIInv
    <2>6. CASE PassEnds(w) \/ PassAborts(w)
      <3>1. UNCHANGED <<status, count, sends, now>>
        BY <2>6 DEF PassEnds, PassAborts, rowVars
      <3> QED
        BY <1>1, <2>6, <3>1, PassFresh, RowsKept DEF OneIInv
    <2> QED
      BY <1>4, <2>1, <2>2, <2>3, <2>4, <2>5, <2>6 DEF Continue, ItemAction
  <1> QED
    BY <1>2, <1>3, <1>4 DEF Next

LEMMA OneInductive ==
    ASSUME OneWorker
    PROVE  Spec => []OneIInv
  BY InitOneIInv, NextOneIInv, PTL DEF Spec

(* With one worker, KSeF never gets more copies of a submission than there *)
(* are counted attempts (lines 246-258), for any number of crashes.        *)
THEOREM SendsCorrect ==
    ASSUME OneWorker
    PROVE  Spec => []SendsAreCounted
  <1>1. OneIInv => SendsAreCounted
    BY DEF OneIInv
  <1> QED
    BY <1>1, OneInductive, PTL

(* With one worker, no row is given up before its deadline unless all, or  *)
(* all but one, of the allowed attempts of a task were counted.            *)
THEOREM DeadLetterCorrect ==
    ASSUME OneWorker
    PROVE  Spec => []DeadLetterJustified
  <1>1. OneIInv => DeadLetterJustified
    BY DEF OneIInv
  <1> QED
    BY <1>1, OneInductive, PTL

(* With one worker, attempts keep the distance of the backoff.             *)
THEOREM BackoffCorrect ==
    ASSUME OneWorker
    PROVE  Spec => BackoffRespected
  <1>1. OneIInv /\ [Next]_vars =>
          [\A t \in Task : count'[t] # count[t] => due[t] <= now]_vars
    <2> SUFFICES ASSUME OneIInv, [Next]_vars, NEW t \in Task, count'[t] # count[t]
                 PROVE  due[t] <= now
      OBVIOUS
    <2>1. PICK w \in Worker : CountAttempt(w)
      BY DEF Next, Begin, Continue, BeginPolls, BeginRetries, BeginOne, ListSessions,
         ListInvoices, ListRetries, NextItem, Resubmit, Poll, CallFails, LogSuccess,
         WriteFails, LogFailure, MarkDeadLetter, LogDeadLetter, PassEnds, PassAborts,
         Tick, vars, rowVars
    <2>2. t = cur[w].task
      BY <2>1 DEF CountAttempt, OneIInv, IInv, TypeOK
    <2> QED
      BY <2>1, <2>2 DEF CountAttempt, OneIInv, AttemptInv
  <1> QED
    BY <1>1, OneInductive, PTL DEF Spec, BackoffRespected

(* With one worker, KSeF never gets more than RetryLimit copies of a       *)
(* submission from RetryService, whatever crashes (lines 246-258).         *)
THEOREM SendsLimited ==
    ASSUME OneWorker
    PROVE  Spec => [](\A s \in Submission : sends[s] <= RetryLimit)
  <1>1. OneIInv => \A s \in Submission : sends[s] <= RetryLimit
    <2> SUFFICES ASSUME OneIInv, NEW s \in Submission PROVE sends[s] <= RetryLimit
      OBVIOUS
    <2> DEFINE t == [op |-> "retry", row |-> s]
    <2>1. t \in Task /\ Limit(t) = RetryLimit
      BY ListedTasks, RetryAssumption DEF Limit
    <2>2. sends[s] <= count[t] /\ count[t] <= Limit(t)
      BY <2>1 DEF OneIInv, IInv, SendsAreCounted, CountsWithinLimit
    <2>3. sends[s] \in Nat /\ count[t] \in Nat /\ RetryLimit \in Nat
      BY <2>1, RetryAssumption DEF OneIInv, IInv, TypeOK
    <2> QED
      BY <2>1, <2>2, <2>3
  <1> QED
    BY <1>1, OneInductive, PTL

-----------------------------------------------------------------------------
(***************************************************************************)
(* How long a pass can still take, for any number of workers.  An item     *)
(* takes at most 7 steps, its own choice included; each list still to be   *)
(* read holds at most ListLimit records.                                   *)
(***************************************************************************)
Polls   == 2 * ListLimit
Retries == ListLimit

ItemLeft(w) ==
    CASE pc[w] = "count"            -> 6
      [] pc[w] = "call"             -> 5
      [] pc[w] = "log_success"      -> 4
      [] pc[w] = "log_failure"      -> 3
      [] pc[w] = "mark_dead_letter" -> 2
      [] pc[w] = "log_dead_letter"  -> 1
      [] OTHER                      -> 0

ListsLeft(w) ==
    CASE pc[w] = "list_sessions" -> 2 + 7 * Polls
      [] pc[w] = "list_invoices" -> 1 + 7 * Retries
      [] pc[w] = "list_retries"  -> 1 + 7 * Retries
      [] OTHER                   -> 0

PassLeft(w) ==
    IF pc[w] = "idle" THEN 0
    ELSE 1 + 7 * Cardinality(todo[w]) + ItemLeft(w) + ListsLeft(w)
           + (IF more[w] THEN 2 + 7 * Retries ELSE 0)

(* A pass has a bounded number of steps before it, none of them when it is *)
(* over; every step of it, failed writes and aborts included, uses some of *)
(* them up, and no other worker, and no change of the rows, adds any.      *)
PassesUseUp ==
    [][\A w \in Worker :
         /\ pc[w] # "idle" => PassLeft(w)' <= PassLeft(w)
         /\ Continue(w) \/ WriteFails(w) \/ PassAborts(w) =>
              PassLeft(w)' < PassLeft(w)]_vars

PassBounded ==
    \A w \in Worker :
        /\ PassLeft(w) \in 0 .. 5 + 7 * (1 + Polls + Retries)
        /\ pc[w] = "idle" <=> PassLeft(w) = 0

ListInv ==
    \A w \in Worker : IsFiniteSet(todo[w]) /\ (pc[w] = "idle" => todo[w] = {})

LEMMA LimitsNat == Polls \in Nat /\ Retries \in Nat /\ Polls = 2 * Retries
  BY RetryAssumption DEF Polls, Retries

(* A list is finite and no longer than the limit.                          *)
LEMMA ListSize ==
    ASSUME NEW op, NEW rows, NEW list \in Lists(op, rows)
    PROVE  IsFiniteSet(list) /\ Cardinality(list) \in Nat /\ Cardinality(list) <= Retries
  <1>1. PICK S \in SUBSET rows :
          /\ IsFiniteSet(S) /\ Cardinality(S) <= ListLimit
          /\ list = {Read([op |-> op, row |-> s]) : s \in S}
    BY DEF Lists
  <1> DEFINE f == [s \in S |-> Read([op |-> op, row |-> s])]
  <1>2. f \in Surjection(S, list)
    BY <1>1 DEF Surjection
  <1>3. IsFiniteSet(list) /\ Cardinality(list) <= Cardinality(S)
    BY <1>1, <1>2, FS_Surjection
  <1>4. Cardinality(list) \in Nat /\ Cardinality(S) \in Nat /\ ListLimit \in Nat
    BY <1>1, <1>3, FS_CardinalityType, RetryAssumption
  <1> QED
    BY <1>1, <1>3, <1>4 DEF Retries

(* A step of a pass leaves less of it.                                     *)
LEMMA PassStep ==
    ASSUME TypeOK, ListInv, NEW w \in Worker,
           Continue(w) \/ WriteFails(w) \/ PassAborts(w)
    PROVE  /\ PassLeft(w)' < PassLeft(w)
           /\ IsFiniteSet(todo'[w]) /\ (pc'[w] = "idle" => todo'[w] = {})
  <1> DEFINE k  == Cardinality(todo[w])
             k2 == Cardinality(todo'[w])
             Less == PassLeft(w)' < PassLeft(w)
             Listed == IsFiniteSet(todo'[w]) /\ (pc'[w] = "idle" => todo'[w] = {})
  <1>0. /\ pc \in [Worker -> Step] /\ more \in [Worker -> BOOLEAN]
        /\ todo \in [Worker -> SUBSET Record] /\ IsFiniteSet(todo[w])
    BY DEF TypeOK, ListInv
  <1>1. k \in Nat /\ Polls \in Nat /\ Retries \in Nat
    BY <1>0, LimitsNat, FS_CardinalityType
  <1>2. PassLeft(w) = IF pc[w] = "idle" THEN 0
                      ELSE 1 + 7 * k + ItemLeft(w) + ListsLeft(w)
                             + (IF more[w] THEN 2 + 7 * Retries ELSE 0)
    BY DEF PassLeft
  <1>3. PassLeft(w)' = IF pc'[w] = "idle" THEN 0
                       ELSE 1 + 7 * k2 + ItemLeft(w)' + ListsLeft(w)'
                              + (IF more'[w] THEN 2 + 7 * Retries ELSE 0)
    BY DEF PassLeft, Retries
  <1>4. ListsLeft(w)' = CASE pc'[w] = "list_sessions" -> 2 + 7 * Polls
                          [] pc'[w] = "list_invoices" -> 1 + 7 * Retries
                          [] pc'[w] = "list_retries"  -> 1 + 7 * Retries
                          [] OTHER                   -> 0
    BY DEF ListsLeft, Polls, Retries
  <1>5. CASE ListSessions(w)
    <2>1. PICK list \in Lists("poll", Session) : todo' = [todo EXCEPT ![w] = list]
      BY <1>5 DEF ListSessions
    <2>2. todo'[w] = list /\ pc[w] = "list_sessions" /\ pc'[w] = "list_invoices" /\ more' = more
      BY <1>0, <1>5, <2>1 DEF ListSessions, Goto
    <2>3. IsFiniteSet(todo'[w]) /\ k2 \in Nat /\ k2 <= Retries
      BY <2>2, ListSize
    <2> HIDE DEF k, k2, Polls, Retries
    <2> QED
      BY <1>1, <1>2, <1>3, <1>4, <2>2, <2>3, LimitsNat DEF ItemLeft, ListsLeft
  <1>6. CASE ListInvoices(w)
    <2>1. PICK list \in Lists("poll", Submission) : todo' = [todo EXCEPT ![w] = @ \cup list]
      BY <1>6 DEF ListInvoices
    <2>2. /\ todo'[w] = todo[w] \cup list /\ pc[w] = "list_invoices"
          /\ pc'[w] = "items" /\ more' = more
      BY <1>0, <1>6, <2>1 DEF ListInvoices, Goto
    <2>3. /\ IsFiniteSet(list) /\ Cardinality(list) \in Nat
          /\ Cardinality(list) <= Retries
      BY ListSize
    <2>4. /\ IsFiniteSet(todo[w] \cup list)
          /\ Cardinality(todo[w] \cup list) <= k + Cardinality(list)
      <3>1. IsFiniteSet(todo[w] \cap list) /\ Cardinality(todo[w] \cap list) \in Nat
        BY <1>0, FS_Subset, FS_CardinalityType
      <3>2. /\ IsFiniteSet(todo[w] \cup list)
            /\ Cardinality(todo[w] \cup list)
                 = k + Cardinality(list) - Cardinality(todo[w] \cap list)
        BY <1>0, <2>3, FS_Union
      <3> HIDE DEF k
      <3> QED
        BY <1>1, <2>3, <3>1, <3>2
    <2>5. k2 \in Nat
      BY <2>2, <2>4, FS_CardinalityType
    <2>6. IsFiniteSet(todo'[w]) /\ k2 <= k + Retries
      BY <1>1, <2>2, <2>3, <2>4, <2>5
    <2> HIDE DEF k, k2, Polls, Retries
    <2> QED
      BY <1>1, <1>2, <1>3, <1>4, <2>2, <2>5, <2>6 DEF ItemLeft, ListsLeft
  <1>7. CASE ListRetries(w)
    <2>1. PICK list \in Lists("retry", Submission) : todo' = [todo EXCEPT ![w] = list]
      BY <1>7 DEF ListRetries
    <2>2. todo'[w] = list /\ pc[w] = "list_retries" /\ pc'[w] = "items" /\ more' = more
      BY <1>0, <1>7, <2>1 DEF ListRetries, Goto
    <2>3. IsFiniteSet(todo'[w]) /\ k2 \in Nat /\ k2 <= Retries
      BY <2>2, ListSize
    <2> HIDE DEF k, k2, Polls, Retries
    <2> QED
      BY <1>1, <1>2, <1>3, <1>4, <2>2, <2>3 DEF ItemLeft, ListsLeft
  <1>8. ASSUME NEW r \in todo[w], NextItem(w, r) PROVE Less /\ Listed
    <2>1. todo'[w] = todo[w] \ {r} /\ more' = more /\ pc[w] = "items"
      BY <1>0, <1>8 DEF NextItem
    <2>2. pc'[w] \in {"items", "count", "mark_dead_letter"}
      BY <1>0, <1>8 DEF NextItem, Goto
    <2>3. IsFiniteSet(todo'[w]) /\ k2 = k - 1
      BY <1>0, <2>1, FS_RemoveElement
    <2> HIDE DEF k, k2, Polls, Retries
    <2> QED
      BY <1>1, <1>2, <1>3, <1>4, <2>1, <2>2, <2>3 DEF ItemLeft, ListsLeft
  <1>9. CASE /\ todo' = todo /\ more' = more /\ pc[w] # "idle" /\ pc'[w] # "idle"
             /\ ListsLeft(w)' = 0 /\ ListsLeft(w) = 0 /\ ItemLeft(w)' < ItemLeft(w)
             /\ ItemLeft(w)' \in Nat /\ ItemLeft(w) \in Nat
    <2>1. k2 = k
      BY <1>9
    <2> HIDE DEF k, k2, Polls, Retries
    <2> QED
      BY <1>0, <1>1, <1>2, <1>3, <1>9, <2>1
  <1>10. CASE \/ CountAttempt(w) \/ Resubmit(w) \/ Poll(w) \/ CallFails(w)
              \/ MarkDeadLetter(w) \/ WriteFails(w)
    BY <1>0, <1>9, <1>10
       DEF CountAttempt, Resubmit, Poll, CallFails, MarkDeadLetter, WriteFails, Goto,
           ItemLeft, ListsLeft
  <1>11. CASE LogSuccess(w) \/ LogFailure(w) \/ LogDeadLetter(w)
    BY <1>0, <1>9, <1>11
       DEF LogSuccess, LogFailure, LogDeadLetter, ItemEnds, Goto, ItemLeft, ListsLeft
  <1>12. CASE PassEnds(w)
    <2>1. /\ todo' = todo /\ todo[w] = {} /\ pc[w] = "items" /\ more'[w] = FALSE
          /\ pc'[w] = IF more[w] THEN "list_retries" ELSE "idle"
      BY <1>0, <1>12 DEF PassEnds, Goto
    <2>2. k2 = k
      BY <2>1
    <2> HIDE DEF k, k2, Polls, Retries
    <2> QED
      BY <1>0, <1>1, <1>2, <1>3, <1>4, <2>1, <2>2 DEF ItemLeft, ListsLeft
  <1>13. CASE PassAborts(w)
    <2>1. pc[w] # "idle" /\ pc'[w] = "idle" /\ todo'[w] = {}
      BY <1>0, <1>13 DEF PassAborts, Goto
    <2>2. ItemLeft(w) \in Nat /\ ListsLeft(w) \in Nat
      BY <1>1 DEF ItemLeft, ListsLeft
    <2> HIDE DEF k, k2, Polls, Retries
    <2> QED
      BY <1>1, <1>2, <1>3, <2>1, <2>2, FS_EmptySet
  <1> QED
    BY <1>5, <1>6, <1>7, <1>8, <1>10, <1>11, <1>12, <1>13 DEF Continue

LEMMA PassBegins ==
    ASSUME TypeOK, ListInv, NEW w \in Worker, Begin(w)
    PROVE  /\ PassLeft(w)' \in 1 .. 5 + 7 * (1 + Polls + Retries)
           /\ pc[w] = "idle" /\ pc'[w] # "idle" /\ IsFiniteSet(todo'[w])
  <1>0. /\ pc \in [Worker -> Step] /\ more \in [Worker -> BOOLEAN]
        /\ todo \in [Worker -> SUBSET Record] /\ IsFiniteSet(todo[w])
        /\ Polls \in Nat /\ Retries \in Nat /\ Retries <= Polls
    BY LimitsNat DEF TypeOK, ListInv
  <1>1. PassLeft(w)' = IF pc'[w] = "idle" THEN 0
                       ELSE 1 + 7 * Cardinality(todo'[w]) + ItemLeft(w)' + ListsLeft(w)'
                              + (IF more'[w] THEN 2 + 7 * Retries ELSE 0)
    BY DEF PassLeft, Retries
  <1>2. ListsLeft(w)' = CASE pc'[w] = "list_sessions" -> 2 + 7 * Polls
                          [] pc'[w] = "list_invoices" -> 1 + 7 * Retries
                          [] pc'[w] = "list_retries"  -> 1 + 7 * Retries
                          [] OTHER                   -> 0
    BY DEF ListsLeft, Polls, Retries
  <1>3. pc[w] = "idle" /\ todo[w] = {}
    BY DEF Begin, BeginPolls, BeginRetries, BeginOne, ListInv
  <1>4. CASE BeginRetries(w) \/ \E sync \in BOOLEAN : BeginPolls(w, sync)
    <2>1. /\ pc'[w] \in {"list_sessions", "list_retries"}
          /\ todo'[w] = {} /\ more'[w] \in BOOLEAN
      BY <1>0, <1>3, <1>4 DEF BeginRetries, BeginPolls, Goto
    <2>2. Cardinality(todo'[w]) = 0 /\ IsFiniteSet(todo'[w])
      BY <2>1, FS_EmptySet
    <2>3. ItemLeft(w)' = 0
      BY <2>1 DEF ItemLeft
    <2>4. ListsLeft(w)' \in {2 + 7 * Polls, 1 + 7 * Retries}
      BY <1>2, <2>1
    <2>5. PassLeft(w)' = 1 + ListsLeft(w)' + (IF more'[w] THEN 2 + 7 * Retries ELSE 0)
      BY <1>0, <1>1, <2>1, <2>2, <2>3, <2>4
    <2> QED
      BY <1>0, <1>3, <2>1, <2>2, <2>4, <2>5
  <1>5. ASSUME NEW t \in Task, BeginOne(w, t)
        PROVE  /\ PassLeft(w)' \in 1 .. 5 + 7 * (1 + Polls + Retries)
               /\ pc'[w] # "idle" /\ IsFiniteSet(todo'[w])
    <2>1. pc'[w] = "items" /\ todo'[w] = {Read(t)} /\ more'[w] \in BOOLEAN
      BY <1>0, <1>5 DEF BeginOne, Goto
    <2>2. Cardinality(todo'[w]) = 1 /\ IsFiniteSet(todo'[w])
      BY <2>1, FS_Singleton
    <2> QED
      BY <1>0, <1>1, <1>2, <2>1, <2>2 DEF ItemLeft
  <1> QED
    BY <1>3, <1>4, <1>5 DEF Begin

(* The other workers, and the clock, leave a pass as it is.                *)
LEMMA PassUntouched ==
    ASSUME TypeOK, [Next]_vars, NEW w \in Worker,
           ~Begin(w), ~Continue(w), ~WriteFails(w), ~PassAborts(w)
    PROVE  /\ pc'[w] = pc[w] /\ todo'[w] = todo[w] /\ more'[w] = more[w]
           /\ PassLeft(w)' = PassLeft(w)
  <1>1. pc'[w] = pc[w] /\ todo'[w] = todo[w] /\ more'[w] = more[w]
    <2>0. /\ pc \in [Worker -> Step] /\ more \in [Worker -> BOOLEAN]
          /\ todo \in [Worker -> SUBSET Record]
      BY DEF TypeOK
    <2>1. CASE Tick \/ UNCHANGED vars
      BY <2>1 DEF Tick, vars, workerVars
    <2>2. ASSUME NEW v \in Worker, v # w, Begin(v)
          PROVE  pc'[w] = pc[w] /\ todo'[w] = todo[w] /\ more'[w] = more[w]
      BY <2>0, <2>2 DEF Begin, BeginPolls, BeginRetries, BeginOne, Goto
    <2>3. ASSUME NEW v \in Worker, v # w, Continue(v)
          PROVE  pc'[w] = pc[w] /\ todo'[w] = todo[w] /\ more'[w] = more[w]
      BY <2>0, <2>3
         DEF Continue, ListSessions, ListInvoices, ListRetries, NextItem, CountAttempt,
             Resubmit, Poll, CallFails, LogSuccess, LogFailure, MarkDeadLetter,
             LogDeadLetter, PassEnds, ItemEnds, Goto
    <2>4. ASSUME NEW v \in Worker, v # w, WriteFails(v) \/ PassAborts(v)
          PROVE  pc'[w] = pc[w] /\ todo'[w] = todo[w] /\ more'[w] = more[w]
      BY <2>0, <2>4 DEF WriteFails, PassAborts, Goto
    <2> QED
      BY <2>1, <2>2, <2>3, <2>4 DEF Next
  <1> QED
    BY <1>1 DEF PassLeft, ItemLeft, ListsLeft, Polls, Retries

LEMMA PassBoundedInductive ==
    Spec => [](TypeOK /\ ListInv /\ PassBounded)
  <1>1. Init => ListInv /\ PassBounded
    <2>1. Polls \in Nat /\ Retries \in Nat
      BY LimitsNat
    <2> QED
      BY <2>1, FS_EmptySet DEF Init, ListInv, PassBounded, PassLeft
  <1>2. TypeOK /\ ListInv /\ PassBounded /\ [Next]_vars => ListInv' /\ PassBounded'
    <2> SUFFICES ASSUME TypeOK, ListInv, PassBounded, [Next]_vars, NEW w \in Worker
                 PROVE  /\ IsFiniteSet(todo'[w]) /\ (pc'[w] = "idle" => todo'[w] = {})
                        /\ PassLeft(w)' \in 0 .. 5 + 7 * (1 + Polls + Retries)
                        /\ pc'[w] = "idle" <=> PassLeft(w)' = 0
      BY DEF ListInv, PassBounded, Polls, Retries
    <2>0. Polls \in Nat /\ Retries \in Nat
      BY LimitsNat
    <2>1. CASE Begin(w)
      BY <2>0, <2>1, PassBegins
    <2>2. CASE Continue(w) \/ WriteFails(w) \/ PassAborts(w)
      <3>1. /\ PassLeft(w)' < PassLeft(w) /\ IsFiniteSet(todo'[w])
            /\ pc'[w] = "idle" => todo'[w] = {}
        BY <2>2, PassStep
      <3>2. PassLeft(w)' \in Nat /\ (pc'[w] = "idle" <=> PassLeft(w)' = 0)
        <4>1. Cardinality(todo'[w]) \in Nat
          BY <3>1, FS_CardinalityType
        <4>2. ItemLeft(w)' \in Nat
          BY DEF ItemLeft
        <4>3. ListsLeft(w)' \in Nat /\ Retries' \in Nat
          BY <2>0 DEF ListsLeft, Polls, Retries
        <4> QED
          BY <4>1, <4>2, <4>3 DEF PassLeft
      <3> QED
        BY <2>0, <3>1, <3>2 DEF PassBounded
    <2>3. CASE ~Begin(w) /\ ~Continue(w) /\ ~WriteFails(w) /\ ~PassAborts(w)
      BY <2>3, PassUntouched DEF ListInv, PassBounded
    <2> QED
      BY <2>1, <2>2, <2>3
  <1> QED
    BY <1>1, <1>2, TypeCorrect, PTL DEF Spec

(* For any number of workers, a pass of RetryService ends after a number   *)
(* of steps that the limit of its lists bounds, however many rows there    *)
(* are: each of its steps, also one that fails, leaves less of it, and     *)
(* nothing that other passes do, or that happens to the rows, leaves more  *)
(* (lines 92-172).                                                         *)
THEOREM PassesAreBounded ==
    Spec => []PassBounded /\ PassesUseUp
  <1> DEFINE Use == \A w \in Worker :
                      /\ pc[w] # "idle" => PassLeft(w)' <= PassLeft(w)
                      /\ Continue(w) \/ WriteFails(w) \/ PassAborts(w) =>
                           PassLeft(w)' < PassLeft(w)
  <1>1. TypeOK /\ ListInv /\ PassBounded /\ PassBounded' /\ [Next]_vars => [Use]_vars
    <2> SUFFICES ASSUME TypeOK, ListInv, PassBounded, PassBounded', [Next]_vars,
                        NEW w \in Worker
                 PROVE  /\ pc[w] # "idle" => PassLeft(w)' <= PassLeft(w)
                        /\ Continue(w) \/ WriteFails(w) \/ PassAborts(w) =>
                             PassLeft(w)' < PassLeft(w)
      OBVIOUS
    <2>1. PassLeft(w) \in Int /\ PassLeft(w)' \in Int
      BY DEF PassBounded
    <2>2. CASE Begin(w)
      BY <2>2, PassBegins, PassStep DEF Continue
    <2>3. CASE Continue(w) \/ WriteFails(w) \/ PassAborts(w)
      BY <2>1, <2>3, PassStep
    <2>4. CASE ~Begin(w) /\ ~Continue(w) /\ ~WriteFails(w) /\ ~PassAborts(w)
      BY <2>1, <2>4, PassUntouched
    <2> QED
      BY <2>2, <2>3, <2>4
  <1> QED
    BY <1>1, PassBoundedInductive, PTL DEF Spec, PassesUseUp
=============================================================================
