------------------------ MODULE ReconcilePendingProofs ------------------------
(***************************************************************************)
(* Proofs about the reconciliation run beside any number of submission     *)
(* executions.                                                             *)
(*                                                                         *)
(* The list is stale when it is used, and marks that were given up may     *)
(* come late.  Both are harmless for "accepted", as a verdict an execution *)
(* has taken stays: an item that says "accepted" says so for ever.         *)
(***************************************************************************)
EXTENDS ReconcilePending, SendInvoiceOnlineProofs

(* What is still to be written: by the list, by the current mark, late.    *)
Current == IF rpc = "mark" THEN {item} ELSE {}
Known   == batch \cup Current \cup lateMarks

RunInv ==
    /\ rpc \in {"load", "items", "mark", "completed", "aborted"}
    /\ rtries \in 0 .. MaxAttempts - 1
    /\ Known \subseteq Item
    /\ rpc # "mark" => item = None
    /\ reconciled \in [Client -> ReconciledStatus \cup {None}]
    /\ \A it \in Current \cup lateMarks : it.status \in ReconciledStatus

(* An item, or a reconciled row, that says "accepted" has KSeF's verdict.  *)
ItemsInv ==
    /\ \A it \in Known : it.status = "accepted" => final[it.submission] = "accepted"
    /\ \A w \in Client : reconciled[w] = "accepted" => final[w] = "accepted"

(* The submissions of the list are different and not reconciled, nor is a  *)
(* mark of them under way.                                                 *)
ListInv ==
    /\ \A it, jt \in batch : it.submission = jt.submission => it = jt
    /\ \A it \in batch : reconciled[it.submission] = None
    /\ \A it \in batch, jt \in Current \cup lateMarks : it.submission # jt.submission
    /\ rpc = "load" => batch = {} /\ lateMarks = {} /\ \A w \in Client : reconciled[w] = None
    /\ rpc \in {"completed", "aborted"} => batch = {}

Reconciled == {w \in Client : reconciled[w] # None}
Counted    == {w \in Reconciled : rpc = "mark" => w # item.submission}

(* The counters against the list and the reconciled rows.                  *)
CountInv ==
    /\ scanned \in Nat /\ updated \in Nat /\ rfailed \in Nat
    /\ scanned <= Cardinality(Client)
    /\ rpc = "load" => updated = 0 /\ rfailed = 0
    /\ IsFiniteSet(batch)
    /\ updated + rfailed + Cardinality(batch) + Cardinality(Current) <= scanned
    /\ updated <= Cardinality(Counted)
    /\ rfailed = 0 =>
         /\ updated = Cardinality(Counted)
         /\ \A it \in lateMarks \ Current : it.submission \in Reconciled

RInv == IInv /\ RunInv /\ ItemsInv /\ ListInv

-----------------------------------------------------------------------------

(* An execution takes its verdict once.                                    *)
LEMMA VerdictStays ==
    ASSUME IInv, [Next]_vars, NEW w \in Client, final[w] # None
    PROVE  final'[w] = final[w]
<1>0. final \in [Client -> FinalStatus \cup {None}]
  BY DEF IInv, TypeOK
<1>1. ASSUME NEW v \in Client, PollInvoiceStatus(v) PROVE final'[w] = final[w]
  <2>1. final[v] = None
    BY <1>1 DEF PollInvoiceStatus, IInv, StepInv, NotJudged
  <2> QED BY <1>0, <1>1, <2>1 DEF PollInvoiceStatus
<1>2. CASE UNCHANGED final BY <1>2
<1> QED
  BY <1>1, <1>2
     DEF Next, Run, vars, flowVars, Start, CreateSubmissionRecord, AuditStarted,
         LocalActivity, OpenForWorkflow, MarkSubmissionStarted, SendInvoice,
         AnswerWithoutReference, AttachInvoiceReference, CloseForWorkflow, PollCheck,
         MarkSubmissionTerminal,
         AuditCompleted, MarkSubmissionFailed, AuditFailed, AttemptFails, AttemptRefused,
         AttemptTimesOut, CancelSubmission, LateCall, Environment

(* A mark leaves the invariant of the executions alone: it writes          *)
(* "accepted" only where the verdict is.                                   *)
LEMMA MarkKeepsIInv ==
    ASSUME IInv, NEW it \in Item, MarkReconciled(it), it.status \in ReconciledStatus,
           it.status = "accepted" => final[it.submission] = "accepted"
    PROVE  IInv'
<1> USE DEF MarkReconciled, gatewayVars, flowVars, rowVars, Item, ReconciledStatus
<1>1. TypeOK'
  BY DEF IInv, TypeOK, GatewayTypeOK, RowStatus, FinalStatus
<1>2. \A w \in Client : StepInv(w)'
  BY DEF IInv, StepInv
<1>3. \A w \in Client : ReferenceInv(w)'
  BY DEF IInv, TypeOK, ReferenceInv
<1>4. \A d \in DocRef : DocumentInv(d)'
  BY DEF IInv, DocumentInv
<1>5. \A c \in late' : LateInv(c)'
  BY DEF IInv, LateInv
<1> QED BY <1>1, <1>2, <1>3, <1>4, <1>5 DEF IInv

LEMMA InitRInv == RInit => RInv
<1> SUFFICES ASSUME RInit PROVE RInv OBVIOUS
<1>1. IInv BY InitIInv DEF RInit
<1>2. RunInv /\ ItemsInv /\ ListInv
  BY WorkflowAssumption, NoneAssumption
     DEF RInit, RunInv, ItemsInv, ListInv, Known, Current, ReconciledStatus, FinalStatus
<1> QED BY <1>1, <1>2 DEF RInv

LEMMA NextRInv == RInv /\ [RNext]_allVars => RInv'
<1> SUFFICES ASSUME RInv, [RNext]_allVars PROVE RInv' OBVIOUS
<1>0. IInv /\ RunInv /\ ItemsInv /\ ListInv BY DEF RInv
<1>a. /\ final \in [Client -> FinalStatus \cup {None}] /\ rowStatus \in [Client -> RowStatus]
      /\ None \notin FinalStatus /\ None \notin ReconciledStatus
      /\ MaxAttempts \in Nat /\ MaxAttempts >= 1
      /\ \A w \in Client : rowStatus[w] = "accepted" => final[w] = "accepted"
  BY <1>0, WorkflowAssumption DEF IInv, TypeOK, ReferenceInv, FinalStatus, ReconciledStatus
<1>1. CASE [Next]_vars /\ UNCHANGED reconcileVars
  <2>1. IInv' BY <1>0, <1>1, NextIInv
  <2>2. \A w \in Client : final[w] = "accepted" => final'[w] = "accepted"
    BY <1>0, <1>1, <1>a, VerdictStays DEF FinalStatus
  <2>3. RunInv' /\ ListInv'
    BY <1>0, <1>1 DEF RunInv, ListInv, Known, Current, reconcileVars
  <2>4. ItemsInv'
    BY <1>0, <1>1, <2>2 DEF RunInv, ItemsInv, Known, Current, Item, reconcileVars
  <2> QED BY <2>1, <2>3, <2>4 DEF RInv
<1>2. ASSUME UNCHANGED vars PROVE IInv' /\ final' = final
  BY <1>0, <1>2, NextIInv DEF vars, flowVars
<1> USE DEF RInv, RunInv, ItemsInv, ListInv, Known, Current
<1>3. CASE LoadPending
  <2>1. PICK S \in SUBSET Pending :
          batch' = {[submission |-> w, status |-> rowStatus[w]] : w \in S}
    BY <1>3 DEF LoadPending
  <2>2. IInv' /\ final' = final BY <1>2, <1>3 DEF LoadPending
  <2>3. \A w \in S : w \in Client /\ reconciled[w] = None
    BY DEF Pending
  <2>4. /\ batch' \subseteq Item
        /\ \A it \in batch' : /\ it.submission \in S
                              /\ it = [submission |-> it.submission,
                                       status |-> rowStatus[it.submission]]
    BY <1>a, <2>1, <2>3 DEF Item
  <2>5. /\ rpc = "load" /\ rpc' = "items" /\ rtries' = 0 /\ item' = item
        /\ reconciled' = reconciled /\ lateMarks' = lateMarks
    BY <1>3 DEF LoadPending
  <2>6. RunInv'
    BY <1>0, <1>a, <2>4, <2>5
  <2>7. ItemsInv'
    BY <1>0, <1>a, <2>2, <2>3, <2>4, <2>5
  <2>8. ListInv'
    BY <1>0, <2>3, <2>4, <2>5
  <2> QED BY <2>2, <2>6, <2>7, <2>8
<1>4. ASSUME NEW it \in batch, NextItem(it) PROVE RInv'
  <2>1. IInv' /\ final' = final BY <1>2, <1>4 DEF NextItem
  <2>2. /\ rpc = "items" /\ batch' = batch \ {it} /\ rtries' = rtries
        /\ reconciled' = reconciled /\ lateMarks' = lateMarks
        /\ \/ it.status \in ReconciledStatus /\ rpc' = "mark" /\ item' = it
           \/ rpc' = rpc /\ item' = item
    BY <1>4 DEF NextItem
  <2>3. RunInv' BY <1>0, <2>2
  <2>4. ItemsInv' BY <1>0, <2>1, <2>2
  <2>5. ListInv' BY <1>0, <2>2
  <2> QED BY <2>1, <2>3, <2>4, <2>5
<1>5. CASE MarkItem
  <2>1. /\ rpc = "mark" /\ rpc' = "items" /\ rtries' = 0 /\ item' = None
        /\ batch' = batch /\ lateMarks' = lateMarks
        /\ item \in Item /\ item.status \in ReconciledStatus
        /\ item.status = "accepted" => final[item.submission] = "accepted"
        /\ reconciled' = [reconciled EXCEPT ![item.submission] = item.status]
        /\ final' = final
    BY <1>0, <1>5 DEF MarkItem, MarkReconciled, flowVars
  <2>2. IInv' BY <1>0, <1>5, <2>1, MarkKeepsIInv DEF MarkItem
  <2>3. RunInv' BY <1>0, <1>a, <2>1 DEF Item
  <2>4. ItemsInv' BY <1>0, <2>1 DEF Item
  <2>5. ListInv' BY <1>0, <2>1 DEF Item
  <2> QED BY <2>2, <2>3, <2>4, <2>5
<1>6. CASE ReconcileAttemptFails \/ MarkTimesOut
  <2>1. IInv' /\ final' = final
    BY <1>2, <1>6 DEF ReconcileAttemptFails, MarkTimesOut, CountReconcileFailure
  <2>2. /\ batch' = batch /\ reconciled' = reconciled
        /\ rpc \in {"load", "mark"}
        /\ \/ lateMarks' = lateMarks
           \/ rpc = "mark" /\ lateMarks' = lateMarks \cup {item}
        /\ \/ rtries + 1 < MaxAttempts /\ rtries' = rtries + 1 /\ rpc' = rpc /\ item' = item
           \/ rtries' = 0 /\ item' = None /\ rpc = "load" /\ rpc' = "aborted"
           \/ rtries' = 0 /\ item' = None /\ rpc = "mark" /\ rpc' = "items"
    <3>1. CASE ReconcileAttemptFails
      BY <3>1 DEF ReconcileAttemptFails, CountReconcileFailure
    <3>2. CASE MarkTimesOut
      BY <3>2 DEF MarkTimesOut, CountReconcileFailure
    <3> HIDE DEF RInv, RunInv, ItemsInv, ListInv, Known, Current
    <3> QED BY <1>6, <3>1, <3>2
  <2>3. RunInv' BY <1>0, <1>a, <2>2
  <2>4. ItemsInv' BY <1>0, <2>1, <2>2
  <2>5. ListInv' BY <1>0, <2>2
  <2> QED BY <2>1, <2>3, <2>4, <2>5
<1>7. ASSUME NEW it \in lateMarks, LateMark(it) PROVE RInv'
  <2>1. /\ rpc' = rpc /\ rtries' = rtries /\ item' = item
        /\ batch' = batch /\ lateMarks' = lateMarks \ {it}
        /\ it \in Item /\ it.status \in ReconciledStatus
        /\ it.status = "accepted" => final[it.submission] = "accepted"
        /\ reconciled' = [reconciled EXCEPT ![it.submission] = it.status]
        /\ final' = final /\ rpc # "load"
    BY <1>0, <1>7 DEF LateMark, MarkReconciled, flowVars
  <2>2. IInv' BY <1>0, <1>7, <2>1, MarkKeepsIInv DEF LateMark
  <2>3. RunInv' BY <1>0, <1>a, <2>1 DEF Item
  <2>4. ItemsInv' BY <1>0, <2>1 DEF Item
  <2>5. ListInv' BY <1>0, <2>1 DEF Item
  <2> QED BY <2>2, <2>3, <2>4, <2>5
<1>8. CASE ReconcileCompleted
  <2>1. IInv' /\ final' = final BY <1>2, <1>8 DEF ReconcileCompleted
  <2>2. /\ rpc = "items" /\ rpc' = "completed" /\ batch = {}
        /\ UNCHANGED <<rtries, batch, item, reconciled, lateMarks>>
    BY <1>8 DEF ReconcileCompleted
  <2> QED BY <1>0, <2>1, <2>2
<1> QED
  BY <1>1, <1>3, <1>4, <1>5, <1>6, <1>7, <1>8 DEF RNext, Reconcile, allVars

LEMMA ReconcileInductive == RSpec => []RInv
BY InitRInv, NextRInv, PTL DEF RSpec

(* A row is reconciled as accepted only when KSeF accepted the document it *)
(* names, although the list is stale when it is used and marks come late.  *)
THEOREM ReconciledCorrect == RSpec => []ReconciledAcceptedIsAccepted
<1>1. RInv => ReconciledAcceptedIsAccepted
  <2> SUFFICES ASSUME RInv PROVE ReconciledAcceptedIsAccepted OBVIOUS
  <2>1. AcceptedRowIsAccepted BY IInvImplies DEF RInv
  <2>2. \A w \in Client : reconciled[w] = "accepted" =>
            rowDoc[w] # None /\ doc[rowDoc[w]] = "accepted"
    BY WorkflowAssumption DEF RInv, ItemsInv, IInv, ReferenceInv, FinalStatus
  <2> QED BY <2>1, <2>2 DEF ReconciledAcceptedIsAccepted
<1> QED BY <1>1, ReconcileInductive, PTL

-----------------------------------------------------------------------------
(***************************************************************************)
(* The counters, for any finite number of executions.                      *)
(***************************************************************************)

LEMMA CurrentCounts ==
    /\ rpc = "mark" => Cardinality(Current) = 1
    /\ rpc # "mark" => Cardinality(Current) = 0
BY FS_EmptySet, FS_Singleton DEF Current

LEMMA FiniteRows ==
    ASSUME IsFiniteSet(Client)
    PROVE  /\ IsFiniteSet(Reconciled) /\ IsFiniteSet(Counted)
           /\ Cardinality(Reconciled) \in Nat /\ Cardinality(Counted) \in Nat
           /\ Cardinality(Counted) <= Cardinality(Reconciled)
<1>1. Reconciled \subseteq Client /\ Counted \subseteq Reconciled
  BY DEF Reconciled, Counted
<1>2. IsFiniteSet(Reconciled) /\ IsFiniteSet(Counted)
  BY <1>1, FS_Subset
<1> QED BY <1>1, <1>2, FS_Subset, FS_CardinalityType

LEMMA InitCountInv ==
    ASSUME IsFiniteSet(Client), RInit
    PROVE  CountInv
<1>1. /\ rpc = "load" /\ batch = {} /\ scanned = 0 /\ updated = 0 /\ rfailed = 0
      /\ lateMarks = {} /\ Counted = {}
  BY DEF RInit, Counted, Reconciled
<1>2. /\ Cardinality({}) = 0 /\ IsFiniteSet({}) /\ Cardinality(Client) \in Nat
  BY FS_EmptySet, FS_CardinalityType
<1> QED BY <1>1, <1>2, CurrentCounts DEF CountInv

(* The loaded list is no longer than the number of rows it was loaded from.*)
LEMMA ListLength ==
    ASSUME NEW S, IsFiniteSet(S)
    PROVE  LET T == {[submission |-> w, status |-> rowStatus[w]] : w \in S}
           IN  IsFiniteSet(T) /\ Cardinality(T) <= Cardinality(S)
<1> DEFINE T == {[submission |-> w, status |-> rowStatus[w]] : w \in S}
           f == [w \in S |-> [submission |-> w, status |-> rowStatus[w]]]
<1>1. f \in Surjection(S, T)
  BY DEF Surjection
<1> HIDE DEF f
<1> QED BY <1>1, FS_Surjection

LEMMA NextCountInv ==
    ASSUME IsFiniteSet(Client), RInv, CountInv, [RNext]_allVars
    PROVE  CountInv'
<1>0. /\ scanned \in Nat /\ updated \in Nat /\ rfailed \in Nat
      /\ IsFiniteSet(batch) /\ Cardinality(batch) \in Nat
      /\ Cardinality(Client) \in Nat
  BY FS_CardinalityType DEF CountInv
<1>1. /\ IsFiniteSet(Counted) /\ Cardinality(Counted) \in Nat
      /\ IsFiniteSet(Counted') /\ Cardinality(Counted') \in Nat
      /\ \A T : T \subseteq Counted' => Cardinality(T) <= Cardinality(Counted')
  <2>1. IsFiniteSet(Counted) /\ Cardinality(Counted) \in Nat
    BY FiniteRows
  <2>2. Counted' \subseteq Client BY DEF Counted, Reconciled
  <2>3. IsFiniteSet(Counted') BY <2>2, FS_Subset
  <2> QED BY <2>1, <2>3, FS_Subset, FS_CardinalityType
<1>2. /\ rpc = "mark"  => Cardinality(Current)  = 1
      /\ rpc # "mark"  => Cardinality(Current)  = 0
      /\ rpc' = "mark" => Cardinality(Current') = 1
      /\ rpc' # "mark" => Cardinality(Current') = 0
  BY FS_EmptySet, FS_Singleton DEF Current
<1>3. CASE UNCHANGED reconcileVars
  BY <1>3 DEF CountInv, Counted, Reconciled, Current, reconcileVars
<1>4. CASE LoadPending
  <2>1. PICK S \in SUBSET Pending :
          /\ batch' = {[submission |-> w, status |-> rowStatus[w]] : w \in S}
          /\ scanned' = Cardinality(S)
    BY <1>4 DEF LoadPending
  <2>2. /\ IsFiniteSet(S) /\ Cardinality(S) \in Nat
        /\ Cardinality(S) <= Cardinality(Client)
    BY FS_Subset, FS_CardinalityType DEF Pending
  <2>3. /\ IsFiniteSet(batch') /\ Cardinality(batch') \in Nat
        /\ Cardinality(batch') <= Cardinality(S)
    BY <2>1, <2>2, ListLength, FS_CardinalityType
  <2>4. /\ rpc' = "items" /\ updated' = 0 /\ rfailed' = 0 /\ lateMarks' = {}
        /\ Counted' = {}
    BY <1>4 DEF LoadPending, CountInv, RInv, ListInv, Counted, Reconciled
  <2> QED BY <1>2, <2>1, <2>2, <2>3, <2>4, FS_EmptySet DEF CountInv
<1>5. ASSUME NEW it \in batch, NextItem(it) PROVE CountInv'
  <2>1. /\ rpc = "items" /\ rpc' \in {"items", "mark"} /\ batch' = batch \ {it}
        /\ rpc' = "mark" => item' = it
        /\ UNCHANGED <<scanned, updated, rfailed, reconciled, lateMarks>>
    BY <1>5 DEF NextItem
  <2>2. /\ IsFiniteSet(batch') /\ Cardinality(batch') = Cardinality(batch) - 1
    BY <1>0, <2>1, FS_RemoveElement
  <2>3. reconciled[it.submission] = None
    BY DEF RInv, ListInv
  <2>4. Counted' = Counted /\ Reconciled' = Reconciled
    BY <2>1, <2>3 DEF Counted, Reconciled
  <2>5. Current = {} BY <2>1 DEF Current
  <2>6. rfailed' = 0 => \A jt \in lateMarks' \ Current' : jt.submission \in Reconciled'
    BY <2>1, <2>4, <2>5 DEF CountInv
  <2> QED BY <1>0, <1>2, <2>1, <2>2, <2>4, <2>6 DEF CountInv
<1>6. CASE MarkItem
  <2>1. /\ rpc = "mark" /\ rpc' = "items" /\ updated' = updated + 1
        /\ item \in Item /\ item.status \in ReconciledStatus
        /\ reconciled' = [reconciled EXCEPT ![item.submission] = item.status]
        /\ UNCHANGED <<batch, scanned, rfailed, lateMarks>>
    BY <1>6 DEF MarkItem, MarkReconciled, RInv, RunInv, Known, Current
  <2>2. reconciled \in [Client -> ReconciledStatus \cup {None}] /\ None \notin ReconciledStatus
    BY WorkflowAssumption DEF RInv, RunInv, ReconciledStatus, FinalStatus
  <2>3. /\ Reconciled' = Reconciled \cup {item.submission}
        /\ Counted' = Counted \cup {item.submission}
        /\ item.submission \notin Counted
    BY <2>1, <2>2 DEF Counted, Reconciled, Item
  <2>4. Cardinality(Counted') = Cardinality(Counted) + 1
    BY <1>1, <2>3, FS_AddElement
  <2>5. rfailed' = 0 => \A jt \in lateMarks' \ Current' : jt.submission \in Reconciled'
    BY <2>1, <2>3 DEF CountInv, Current
  <2> QED BY <1>0, <1>1, <1>2, <2>1, <2>4, <2>5 DEF CountInv
<1>7. CASE ReconcileAttemptFails \/ MarkTimesOut
  <2>1. /\ rpc \in {"load", "mark"}
        /\ \/ lateMarks' = lateMarks
           \/ rpc = "mark" /\ lateMarks' = lateMarks \cup {item}
        /\ \/ rpc' = rpc /\ item' = item /\ rfailed' = rfailed
           \/ rpc = "load" /\ rpc' = "aborted" /\ rfailed' = rfailed
           \/ rpc = "mark" /\ rpc' = "items" /\ rfailed' = rfailed + 1
        /\ UNCHANGED <<batch, scanned, updated, reconciled>>
    <3>1. CASE ReconcileAttemptFails
      BY <3>1 DEF ReconcileAttemptFails, CountReconcileFailure
    <3>2. CASE MarkTimesOut
      BY <3>2 DEF MarkTimesOut, CountReconcileFailure
    <3> QED BY <1>7, <3>1, <3>2
  <2>2. CASE rpc' = rpc /\ item' = item /\ rfailed' = rfailed
    <3>1. Counted' = Counted /\ Reconciled' = Reconciled /\ Current' = Current
      BY <2>1, <2>2 DEF Counted, Reconciled, Current
    <3>2. \A jt \in lateMarks' \ Current' : jt \in lateMarks \ Current
      BY <2>1, <3>1 DEF Current
    <3> QED BY <2>1, <2>2, <3>1, <3>2 DEF CountInv
  <2>3. CASE rpc = "load" /\ rpc' = "aborted" /\ rfailed' = rfailed
    <3>1. /\ Counted' = Counted /\ Reconciled' = Reconciled /\ Current' = {} /\ Current = {}
          /\ lateMarks' = lateMarks
      BY <2>1, <2>3 DEF Counted, Reconciled, Current
    <3> QED BY <2>1, <2>3, <3>1 DEF CountInv
  <2>4. CASE rpc = "mark" /\ rpc' = "items" /\ rfailed' = rfailed + 1
    <3>1. Cardinality(Counted) <= Cardinality(Counted')
      <4>1. Counted \subseteq Counted' BY <2>1, <2>4 DEF Counted, Reconciled
      <4> QED BY <1>1, <4>1
    <3> QED BY <1>0, <1>1, <1>2, <2>1, <2>4, <3>1 DEF CountInv
  <2> QED BY <2>1, <2>2, <2>3, <2>4
<1>8. ASSUME NEW it \in lateMarks, LateMark(it) PROVE CountInv'
  <2>1. /\ it \in Item /\ it.status \in ReconciledStatus /\ rpc # "load"
        /\ reconciled' = [reconciled EXCEPT ![it.submission] = it.status]
        /\ lateMarks' = lateMarks \ {it}
        /\ UNCHANGED <<rpc, batch, item, scanned, updated, rfailed>>
    BY <1>8 DEF LateMark, MarkReconciled, RInv, RunInv, ListInv, Known
  <2>2. reconciled \in [Client -> ReconciledStatus \cup {None}] /\ None \notin ReconciledStatus
    BY WorkflowAssumption DEF RInv, RunInv, ReconciledStatus, FinalStatus
  <2>3. Reconciled' = Reconciled \cup {it.submission}
    BY <2>1, <2>2 DEF Reconciled, Item
  <2>4. Counted \subseteq Counted' /\ Current' = Current
    BY <2>1, <2>3 DEF Counted, Current
  <2>5. Cardinality(Counted) <= Cardinality(Counted')
    BY <1>1, <2>4
  <2>6. ASSUME rfailed = 0 PROVE Counted' = Counted
    <3>1. CASE it \in Current
      BY <2>1, <2>3, <3>1 DEF Counted, Current
    <3>2. CASE it \notin Current
      BY <2>1, <2>3, <2>6, <3>2 DEF Counted, CountInv
    <3> QED BY <3>1, <3>2
  <2>7. rfailed' = 0 => \A jt \in lateMarks' \ Current' : jt.submission \in Reconciled'
    BY <2>1, <2>3, <2>4 DEF CountInv
  <2> QED BY <1>0, <1>1, <2>1, <2>4, <2>5, <2>6, <2>7 DEF CountInv
<1>9. CASE ReconcileCompleted
  <2>1. /\ rpc = "items" /\ rpc' = "completed"
        /\ UNCHANGED <<batch, item, scanned, updated, rfailed, reconciled, lateMarks>>
    BY <1>9 DEF ReconcileCompleted
  <2>2. Counted' = Counted /\ Reconciled' = Reconciled /\ Current' = Current
    BY <2>1 DEF Counted, Reconciled, Current
  <2> QED BY <2>1, <2>2 DEF CountInv
<1> QED
  BY <1>3, <1>4, <1>5, <1>6, <1>7, <1>8, <1>9 DEF RNext, Reconcile, allVars

LEMMA CountInductive ==
    ASSUME IsFiniteSet(Client)
    PROVE  RSpec => [](RInv /\ CountInv)
<1>1. RInit => RInv /\ CountInv
  BY InitRInv, InitCountInv
<1>2. (RInv /\ CountInv) /\ [RNext]_allVars => (RInv /\ CountInv)'
  BY NextRInv, NextCountInv
<1> QED BY <1>1, <1>2, PTL DEF RSpec

(* Every reachable state of a reconciliation run and of the executions it  *)
(* runs beside is well typed.                                              *)
THEOREM ReconcileTypeCorrect ==
    ASSUME IsFiniteSet(Client)
    PROVE  RSpec => []RTypeOK
<1>1. RInv /\ CountInv => RTypeOK
  <2> SUFFICES ASSUME RInv, CountInv PROVE RTypeOK OBVIOUS
  <2>1. /\ Cardinality(batch) \in Nat /\ Cardinality(Current) \in Nat
        /\ Cardinality(Client) \in Nat
    BY CurrentCounts, FS_CardinalityType DEF CountInv
  <2>2. {scanned, updated, rfailed} \subseteq 0 .. Cardinality(Client)
    BY <2>1 DEF CountInv
  <2>3. /\ TypeOK /\ batch \subseteq Item /\ lateMarks \subseteq Item
        /\ item \in Item \cup {None}
        /\ rpc \in {"load", "items", "mark", "completed", "aborted"}
        /\ rtries \in 0 .. MaxAttempts - 1
        /\ reconciled \in [Client -> ReconciledStatus \cup {None}]
    BY DEF RInv, IInv, RunInv, Known, Current
  <2> QED BY <2>2, <2>3 DEF RTypeOK
<1> QED BY <1>1, CountInductive, PTL

(* The counters a run reports add up, whichever marks were retried, given  *)
(* up or came late.                                                        *)
THEOREM CountsCorrect ==
    ASSUME IsFiniteSet(Client)
    PROVE  RSpec => []ReconcileCounts
<1>1. RInv /\ CountInv => ReconcileCounts
  <2> SUFFICES ASSUME RInv, CountInv PROVE ReconcileCounts OBVIOUS
  <2>1. /\ Cardinality(batch) \in Nat /\ Cardinality(Current) \in Nat
    BY CurrentCounts, FS_CardinalityType DEF CountInv
  <2>2. updated + rfailed <= scanned
    BY <2>1 DEF CountInv
  <2>3. updated <= Cardinality(Reconciled)
    BY FiniteRows DEF CountInv
  <2>4. rpc = "completed" => Counted = Reconciled
    BY DEF Counted
  <2> QED BY <2>2, <2>3, <2>4 DEF ReconcileCounts, CountInv, Reconciled
<1> QED BY <1>1, CountInductive, PTL

-----------------------------------------------------------------------------
(***************************************************************************)
(* What the executions promise survives the run beside them.  A step of    *)
(* both is a step of the executions, or writes one status in one row.      *)
(***************************************************************************)

AllButStatus == <<gatewayVars, flowVars, rowSession, rowDoc, audit, late>>

LEMMA StepKinds ==
    ASSUME RInv, [RNext]_allVars
    PROVE  [Next]_vars \/ UNCHANGED AllButStatus
<1>1. CASE Reconcile
  <2>1. ASSUME NEW it, MarkReconciled(it) PROVE UNCHANGED AllButStatus
    BY <2>1 DEF MarkReconciled, AllButStatus
  <2>2. CASE UNCHANGED vars
    BY <2>2
  <2>3. CASE MarkItem
    BY <2>1, <2>3 DEF MarkItem
  <2>4. ASSUME NEW it \in lateMarks, LateMark(it) PROVE UNCHANGED AllButStatus
    BY <2>1, <2>4 DEF LateMark
  <2> QED
    BY <1>1, <2>2, <2>3, <2>4
       DEF Reconcile, LoadPending, NextItem, ReconcileAttemptFails, MarkTimesOut,
           CountReconcileFailure, ReconcileCompleted
<1> QED BY <1>1 DEF RNext, allVars

(* Beside a reconciliation run too, the references of a row belong         *)
(* together.                                                               *)
THEOREM RowsSurviveReconciliation == RSpec => []RowReferencesMatch
BY IInvImplies, ReconcileInductive, PTL DEF RInv

(* An execution beside a reconciliation run polls only when its sessions   *)
(* are closed.                                                             *)
THEOREM PollingSurvivesReconciliation == RSpec => []NoOpenSessionWhenPolling
BY IInvImplies, ReconcileInductive, PTL DEF RInv

(* Beside a reconciliation run too, an execution or its row says           *)
(* "accepted" only of an accepted document, and the final status is KSeF's *)
(* verdict if the answer has the shape of the contract, although the run   *)
(* writes "accepted" in rows as well.                                      *)
THEOREM VerdictSurvivesReconciliation == RSpec => []FinalStatusIsVerdict
BY IInvImplies, ReconcileInductive, PTL DEF RInv

(* The audit trail is not touched by a run that changes statuses.          *)
THEOREM AuditSurvivesReconciliation == RSpec => []AuditTrail
<1>1. TypeOK /\ AuditInv => AuditTrail
  BY AuditInvImplies
<1>2. RInv /\ AuditInv /\ [RNext]_allVars => AuditInv'
  <2> SUFFICES ASSUME RInv, AuditInv, [RNext]_allVars PROVE AuditInv'
    OBVIOUS
  <2>1. CASE [Next]_vars
    BY <2>1, AuditInvInductive DEF RInv, IInv
  <2>2. CASE UNCHANGED AllButStatus
    BY <2>2 DEF AllButStatus, flowVars, AuditInv, AuditEventInv, LateAuditInv
  <2> QED BY <2>1, <2>2, StepKinds
<1>3. RInit => AuditInv
  BY AuditInvInductive DEF RInit
<1>4. RInv => TypeOK
  BY DEF RInv, IInv
<1> QED BY <1>1, <1>2, <1>3, <1>4, ReconcileInductive, PTL DEF RSpec

(* Nor are the attempts of the executions.                                 *)
THEOREM AttemptsSurviveReconciliation == RSpec => []AtMostMaxAttempts
<1>1. TypeOK /\ AttemptInv => AtMostMaxAttempts
  BY AttemptInvImplies
<1>2. RInv /\ RInv' /\ AttemptInv /\ [RNext]_allVars => AttemptInv'
  <2> SUFFICES ASSUME RInv, RInv', AttemptInv, [RNext]_allVars PROVE AttemptInv'
    OBVIOUS
  <2>1. CASE [Next]_vars
    BY <2>1, AttemptInvInductive DEF RInv, IInv
  <2>2. CASE UNCHANGED AllButStatus
    BY <2>2 DEF AllButStatus, gatewayVars, flowVars, AttemptInv, OpenedBy, SentBy,
       LateOpen, LateSend, OpenAttempts, SendAttempts
  <2> QED BY <2>1, <2>2, StepKinds
<1>3. RInit => AttemptInv
  BY AttemptInvInductive DEF RInit
<1>4. RInv => TypeOK
  BY DEF RInv, IInv
<1> QED BY <1>1, <1>2, <1>3, <1>4, ReconcileInductive, PTL DEF RSpec

(* The callers of the executions get what InvoiceDelivery promises,        *)
(* whatever a reconciliation run writes in the rows meanwhile.             *)
THEOREM DeliverySurvivesReconciliation == RSpec => ImplementsDelivery
<1>1. RInv /\ [RNext]_allVars => [Delivery!Next]_(Delivery!deliveryVars)
  <2> SUFFICES ASSUME RInv, [RNext]_allVars
               PROVE  [Delivery!Next]_(Delivery!deliveryVars)
    OBVIOUS
  <2>1. CASE [Next]_vars
    BY <2>1, StepRefines DEF RInv
  <2>2. CASE UNCHANGED AllButStatus
    <3>1. \A v \in Client : OutcomeOf(v)' = OutcomeOf(v)
      BY <2>2 DEF AllButStatus, flowVars, OutcomeOf
    <3>2. AbsAccepted' = AbsAccepted /\ AbsRefused' = AbsRefused
      BY <2>2 DEF AllButStatus, gatewayVars, AbsAccepted, AbsRefused, InvoicesWith
    <3> QED
      BY <3>1, <3>2 DEF Delivery!deliveryVars, AbsAccepted, AbsRefused, AbsOutcome
  <2> QED BY <2>1, <2>2, StepKinds
<1>2. RInit => Delivery!Init
  BY InitAbstract DEF RInit
<1> QED
  BY <1>1, <1>2, ReconcileInductive, PTL DEF RSpec, ImplementsDelivery, Delivery!Spec

(* And the executions end, or are stuck, after as many attempts as without *)
(* it.                                                                     *)
THEOREM RunsStayBounded == RSpec => RunsUseUp
<1> DEFINE Use == \A w \in Client :
                    /\ AttemptsLeft(w)' <= AttemptsLeft(w)
                    /\ Run(w) => AttemptsLeft(w)' < AttemptsLeft(w)
<1>1. RInit => NoTriesAtEnd
  BY DEF RInit, Init, NoTriesAtEnd
<1>2. RInv /\ NoTriesAtEnd /\ [RNext]_allVars => NoTriesAtEnd' /\ [Use]_vars
  <2> SUFFICES ASSUME RInv, NoTriesAtEnd, [RNext]_allVars
               PROVE  NoTriesAtEnd' /\ Use
    OBVIOUS
  <2>1. CASE [Next]_vars
    BY <2>1, FreshEnds, BudgetSteps DEF RInv
  <2>2. CASE UNCHANGED AllButStatus /\ ~[Next]_vars
    <3>1. NoTriesAtEnd' /\ \A w \in Client : AttemptsLeft(w)' = AttemptsLeft(w)
      BY <2>2 DEF AllButStatus, flowVars, NoTriesAtEnd, AttemptsLeft, StepsLeft
    <3>2. \A w \in Client : ~Run(w)
      BY <2>2 DEF Next
    <3>3. \A w \in Client : AttemptsLeft(w) \in Int
      BY BudgetBounded DEF RInv, IInv, NoTriesAtEnd
    <3> QED BY <3>1, <3>2, <3>3
  <2> QED BY <2>1, <2>2, StepKinds
<1> QED BY <1>1, <1>2, ReconcileInductive, PTL DEF RSpec, RunsUseUp
=============================================================================
