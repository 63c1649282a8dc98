-------------------------- MODULE ReconcilePending --------------------------
(***************************************************************************)
(* ReconcilePendingSubmissionsWorkflow beside the submission executions:   *)
(* one run loads a list of pending rows and then, row by row, marks those  *)
(* that were final when the list was loaded.  Rows change under it: the    *)
(* list is not read again.                                                 *)
(***************************************************************************)
EXTENDS SendInvoiceOnline

CONSTANT Limit      \* ReconcilePendingInput.limit

ASSUME LimitAssumption == Limit \in Nat

VARIABLES
    rpc,            \* step of the reconciliation run
    rtries,         \* failed attempts of its current activity
    batch,          \* items of the loaded list not yet visited
    item,           \* the item being marked
    scanned, updated, rfailed,      \* the counters of the result
    reconciled,     \* the final_status each row was reconciled with
    lateMarks       \* marks of given-up attempts still on their way

reconcileVars ==
    <<rpc, rtries, batch, item, scanned, updated, rfailed, reconciled, lateMarks>>
allVars == <<vars, reconcileVars>>

ReconciledStatus == {"accepted", "failed"}
Item == [submission : Client, status : RowStatus]

RTypeOK ==
    /\ TypeOK
    /\ rpc \in {"load", "items", "mark", "completed", "aborted"}
    /\ rtries \in 0 .. MaxAttempts - 1
    /\ batch \subseteq Item
    /\ item \in Item \cup {None}
    /\ {scanned, updated, rfailed} \subseteq 0 .. Cardinality(Client)
    /\ reconciled \in [Client -> ReconciledStatus \cup {None}]
    /\ lateMarks \subseteq Item

RInit ==
    /\ Init
    /\ rpc = "load"
    /\ rtries = 0
    /\ batch = {}
    /\ item = None
    /\ scanned = 0 /\ updated = 0 /\ rfailed = 0
    /\ reconciled = [w \in Client |-> None]
    /\ lateMarks = {}

Pending == {w \in Client : rowStatus[w] # "none" /\ reconciled[w] = None}

(* load_pending_submissions_for_reconciliation: some of the pending rows,  *)
(* as they are now.                                                        *)
LoadPending ==
    /\ rpc = "load"
    /\ \E S \in SUBSET Pending :
         /\ Cardinality(S) <= Limit
         /\ batch'   = {[submission |-> w, status |-> rowStatus[w]] : w \in S}
         /\ scanned' = Cardinality(S)
    /\ rpc' = "items"
    /\ rtries' = 0
    /\ UNCHANGED <<vars, item, updated, rfailed, reconciled, lateMarks>>

(* The next item of the list: one that was not final is passed over.       *)
NextItem(it) ==
    /\ rpc = "items"
    /\ it \in batch
    /\ batch' = batch \ {it}
    /\ IF it.status \in ReconciledStatus
       THEN rpc' = "mark" /\ item' = it
       ELSE UNCHANGED <<rpc, item>>
    /\ UNCHANGED <<vars, rtries, scanned, updated, rfailed, reconciled, lateMarks>>

(* Mutant: the status written is not the item's.                           *)
MarkReconciledAccepted(it) ==
    /\ rowStatus'  = [rowStatus  EXCEPT ![it.submission] = "accepted"]
    /\ reconciled' = [reconciled EXCEPT ![it.submission] = "accepted"]
    /\ UNCHANGED <<gatewayVars, flowVars, rowSession, rowDoc, audit, late>>

(* mark_submission_reconciled writes the status the item had.              *)
MarkReconciled(it) ==
    /\ rowStatus'  = [rowStatus  EXCEPT ![it.submission] = it.status]
    /\ reconciled' = [reconciled EXCEPT ![it.submission] = it.status]
    /\ UNCHANGED <<gatewayVars, flowVars, rowSession, rowDoc, audit, late>>

(* Mutant: a mark is not counted.                                          *)
MarkItemUncounted ==
    /\ rpc = "mark"
    /\ MarkReconciled(item)
    /\ item' = None
    /\ rpc' = "items"
    /\ rtries' = 0
    /\ UNCHANGED <<batch, scanned, updated, rfailed, lateMarks>>

MarkItem ==
    /\ rpc = "mark"
    /\ MarkReconciled(item)
    /\ updated' = updated + 1
    /\ item' = None
    /\ rpc' = "items"
    /\ rtries' = 0
    /\ UNCHANGED <<batch, scanned, rfailed, lateMarks>>

(* Mutant: one attempt too many.                                           *)
ReconcileFailureOffByOne ==
    /\ rpc \in {"load", "mark"}
    /\ \/ /\ rtries < MaxAttempts
          /\ rtries' = rtries + 1
          /\ UNCHANGED <<rpc, item, rfailed>>
       \/ /\ rtries = MaxAttempts
          /\ rtries' = 0
          /\ item' = None
          /\ \/ rpc = "load" /\ rpc' = "aborted" /\ UNCHANGED rfailed
             \/ rpc = "mark" /\ rpc' = "items" /\ rfailed' = rfailed + 1
    /\ UNCHANGED <<vars, batch, scanned, updated, reconciled>>

(* A failed attempt; after the last one the load's error ends the run, and *)
(* a mark's is counted and swallowed.                                      *)
CountReconcileFailure ==
    /\ rpc \in {"load", "mark"}
    /\ \/ /\ rtries + 1 < MaxAttempts
          /\ rtries' = rtries + 1
          /\ UNCHANGED <<rpc, item, rfailed>>
       \/ /\ rtries + 1 = MaxAttempts
          /\ rtries' = 0
          /\ item' = None
          /\ \/ rpc = "load" /\ rpc' = "aborted" /\ UNCHANGED rfailed
             \/ rpc = "mark" /\ rpc' = "items" /\ rfailed' = rfailed + 1
    /\ UNCHANGED <<vars, batch, scanned, updated, reconciled>>

ReconcileAttemptFails ==
    /\ CountReconcileFailure
    /\ UNCHANGED lateMarks

MarkTimesOut ==
    /\ rpc = "mark"
    /\ lateMarks' = lateMarks \cup {item}
    /\ CountReconcileFailure

LateMark(it) ==
    /\ it \in lateMarks
    /\ lateMarks' = lateMarks \ {it}
    /\ MarkReconciled(it)
    /\ UNCHANGED <<rpc, rtries, batch, item, scanned, updated, rfailed>>

ReconcileCompleted ==
    /\ rpc = "items"
    /\ batch = {}
    /\ rpc' = "completed"
    /\ UNCHANGED <<vars, rtries, batch, item, scanned, updated, rfailed,
                   reconciled, lateMarks>>

Reconcile ==
    \/ LoadPending
    \/ \E it \in batch : NextItem(it)
    \/ MarkItem
    \/ ReconcileAttemptFails
    \/ MarkTimesOut
    \/ \E it \in lateMarks : LateMark(it)
    \/ ReconcileCompleted

RNext ==
    \/ Next /\ UNCHANGED reconcileVars
    \/ Reconcile

RSpec == RInit /\ [][RNext]_allVars

(***************************************************************************)
(* Properties.                                                             *)
(***************************************************************************)

(* A row is reconciled as accepted only if the document it names is        *)
(* accepted by KSeF, although the list may be stale when it is used, and   *)
(* so is every row that says "accepted".                                   *)
ReconciledAcceptedIsAccepted ==
    /\ AcceptedRowIsAccepted
    /\ \A w \in Client :
         reconciled[w] = "accepted" => rowDoc[w] # None /\ doc[rowDoc[w]] = "accepted"

(* The result of a completed run adds up: every counted update is a row    *)
(* that is reconciled, every final item of the list is counted once, and   *)
(* only rows that were reconciled or counted as failed were final.         *)
ReconcileCounts ==
    /\ updated + rfailed <= scanned
    /\ updated <= Cardinality({w \in Client : reconciled[w] # None})
    /\ rpc = "completed" /\ rfailed = 0 =>
         updated = Cardinality({w \in Client : reconciled[w] # None})

(* The class's docstring: rows are marked as reconciled "if they are       *)
(* obviously terminal in local state".  A row that becomes reconciled has  *)
(* at that moment the status it is reconciled with.                        *)
ReconciledLocalState ==
    [][\A w \in Client :
         reconciled'[w] # reconciled[w] => reconciled'[w] = rowStatus[w]]_allVars
=============================================================================
