------------------------------- MODULE AuditLog -------------------------------
(***************************************************************************)
(* AuditService and audit_log_repository: entries written, deleted and     *)
(* listed.                                                                 *)
(*                                                                         *)
(* A writer is the database session of a request, which the audit log      *)
(* shares with the code that calls it and that has changes of its own in   *)
(* it.  Old entries are deleted by a maintenance job with a session of its *)
(* own, and somebody lists the log page by page.  What a session has       *)
(* flushed is seen by others once it commits.                              *)
(***************************************************************************)
EXTENDS Integers, FiniteSets

CONSTANTS
    Writer,
    Event,
    None,
    PageSize,       \* limit of the listing
    Filters,        \* bound of the model: the filters to list with
    Times,          \* bound of the model: the event times callers give
    MaxLag,         \* bound of the model: entries between two clock reads
    MaxTime         \* bound of the model: the clock

(* created_from and created_to.  The filters that compare a column for     *)
(* equality pick the same entries at any time: the log is of those they    *)
(* pick.                                                                   *)
Filter == [from : {None} \cup 0 .. MaxTime, to : {None} \cup 0 .. MaxTime]

Entry == [time : 0 .. MaxTime, created : 0 .. MaxTime]

ASSUME AuditAssumption ==
    /\ None \notin Event /\ None \notin Int /\ None \notin Entry
    /\ PageSize \in Nat \ {0} /\ MaxTime \in Nat /\ Filters \subseteq Filter
    /\ Times \subseteq 0 .. MaxTime
    /\ MaxLag \in Nat

VARIABLES
    now,
    log,            \* the entries everybody sees
    entry,          \* entry[e]: what was written of event e
    work,           \* work[w]: the change w's caller made in its session
    own,            \* own[w]: entries w has written
    pending,        \* pending[w]: those it has flushed and not committed
    asked,          \* asked[w]: a commit was asked for, or not to be declined
    selected,       \* old entries about to be deleted
    cutoff,         \* the older_than they were selected with
    reader          \* the one who lists

writerVars == <<work, own, pending, asked>>
jobVars    == <<selected, cutoff>>
vars       == <<now, log, entry, writerVars, jobVars, reader>>

(* A method of each kind: log_event, which alone takes a time for the      *)
(* event; those that hand the commit flag on (log_session_event,           *)
(* log_invoice_event, log_status_event); and those that do not.            *)
Method == {"log_event", "log_session_event", "log_auth_event"}

(* log_auth_event, log_security_event and log_webhook_received leave the   *)
(* flag out, and create commits by default.                                *)
AlwaysCommits == {"log_auth_event"}

Reader == [step : {"idle", "paging", "done"}, filter : Filter, offset : Nat,
           seen : SUBSET Event, atStart : SUBSET Event, gone : SUBSET Event,
           horizon : 0 .. MaxTime]

TypeOK ==
    /\ now      \in 0 .. MaxTime
    /\ log      \subseteq Event
    /\ entry    \in [Event -> Entry \cup {None}]
    /\ work     \in [Writer -> {"none", "pending", "committed"}]
    /\ own      \in [Writer -> SUBSET Event]
    /\ pending  \in [Writer -> SUBSET Event]
    /\ asked    \in [Writer -> BOOLEAN]
    /\ selected \subseteq Event
    /\ cutoff   \in 0 .. MaxTime
    /\ reader   \in Reader

Init ==
    /\ now      = 0
    /\ log      = {}
    /\ entry    = [e \in Event |-> None]
    /\ work     = [w \in Writer |-> "none"]
    /\ own      = [w \in Writer |-> {}]
    /\ pending  = [w \in Writer |-> {}]
    /\ asked    = [w \in Writer |-> FALSE]
    /\ selected = {}
    /\ cutoff   = 0
    /\ reader   = [step |-> "idle", filter |-> [from |-> None, to |-> None],
                   offset |-> 0, seen |-> {}, atStart |-> {}, gone |-> {},
                   horizon |-> 0]

(***************************************************************************)
(* Writing                                                                 *)
(***************************************************************************)

(* A commit makes everything in the session visible, not only what the log *)
(* has put there.                                                          *)
CommitSession(w, entries) ==
    /\ log'     = log \cup entries
    /\ pending' = [pending EXCEPT ![w] = {}]
    /\ work'    = [work EXCEPT ![w] = IF @ = "pending" THEN "committed" ELSE @]

(* The caller changes something in its session.                            *)
CallerWrites(w) ==
    /\ work[w] = "none"
    /\ work' = [work EXCEPT ![w] = "pending"]
    /\ UNCHANGED <<now, log, entry, own, pending, asked, jobVars, reader>>

(* Mutant: create commits whatever it is asked for.                        *)
CreateAndCommit(w, e, commit) == CommitSession(w, pending[w] \cup {e})

(* create: add, then commit or flush.                                      *)
Create(w, e, commit) ==
    \/ commit /\ CommitSession(w, pending[w] \cup {e})
    \/ /\ ~commit
       /\ pending' = [pending EXCEPT ![w] = @ \cup {e}]
       /\ UNCHANGED <<log, work>>

(* The clock is read for event_time, when none is given, before the entry  *)
(* is flushed, and for created_at when it is; others may write in between. *)
(* Only log_event is given an event_time.  No two entries are created at   *)
(* the same time.                                                          *)
Log(w, e, method, time, commit) ==
    /\ entry[e] = None /\ now < MaxTime
    /\ time \in now - MaxLag .. now \/ (method = "log_event" /\ time \in Times)
    /\ entry' = [entry EXCEPT ![e] = [time |-> time, created |-> now]]
    /\ now'   = now + 1
    /\ own'   = [own EXCEPT ![w] = @ \cup {e}]
    /\ asked' = [asked EXCEPT ![w] = @ \/ commit \/ method \in AlwaysCommits]
    /\ Create(w, e, commit \/ method \in AlwaysCommits)
    /\ UNCHANGED <<jobVars, reader>>

(* The caller commits what it has begun.                                   *)
Commit(w) ==
    /\ work[w] = "pending" \/ pending[w] # {}
    /\ CommitSession(w, pending[w])
    /\ asked' = [asked EXCEPT ![w] = TRUE]
    /\ UNCHANGED <<now, entry, own, jobVars, reader>>

(* A rollback: the caller's, or that of create when its write fails, which *)
(* undoes the caller's change as well.  The caller may make it again.      *)
Rollback(w) ==
    /\ work[w] = "pending" \/ pending[w] # {}
    /\ pending' = [pending EXCEPT ![w] = {}]
    /\ work'    = [work EXCEPT ![w] = IF @ = "pending" THEN "none" ELSE @]
    /\ UNCHANGED <<now, log, entry, own, asked, jobVars, reader>>

(***************************************************************************)
(* delete_older_than                                                       *)
(***************************************************************************)

Old(older_than) == {e \in log : entry[e].created < older_than}

SelectOld(older_than) ==
    /\ selected = {} /\ Old(older_than) # {}
    /\ selected' = Old(older_than)
    /\ cutoff'   = older_than
    /\ UNCHANGED <<now, log, entry, writerVars, reader>>

(* The commit, of delete_older_than or of the job, or a rollback.  The     *)
(* reader remembers what has been deleted on its way.                      *)
DeleteSelected ==
    /\ selected # {}
    /\ selected' = {} /\ cutoff' = 0
    /\ \/ UNCHANGED <<log, reader>>
       \/ /\ log' = log \ selected
          /\ reader' =
               IF reader.step # "paging" THEN reader
               ELSE [reader EXCEPT !.gone = @ \cup selected,
                                   !.horizon = IF cutoff > @ THEN cutoff ELSE @]
    /\ UNCHANGED <<now, entry, writerVars>>

(***************************************************************************)
(* list_events                                                             *)
(***************************************************************************)

(* _apply_filters                                                          *)
Matches(e, filter) ==
    /\ filter.from # None => entry[e].created >= filter.from
    /\ filter.to # None   => entry[e].created <= filter.to

(* Mutant: the oldest entries come first.                                  *)
BeforeAscending(d, e) ==
    \/ entry[d].time < entry[e].time
    \/ entry[d].time = entry[e].time /\ entry[d].created < entry[e].created

(* ORDER BY event_time DESC, created_at DESC                               *)
Before(d, e) ==
    \/ entry[d].time > entry[e].time
    \/ entry[d].time = entry[e].time /\ entry[d].created > entry[e].created

ListEvents(filter, limit, offset) ==
    LET found   == {e \in log : Matches(e, filter)}
        rank(e) == Cardinality({d \in found : Before(d, e)})
    IN {e \in found : rank(e) \in offset .. offset + limit - 1}

StartPaging(filter) ==
    /\ reader.step = "idle" /\ log # {}
    /\ reader' = [reader EXCEPT !.step = "paging", !.filter = filter,
                                !.atStart = {e \in log : Matches(e, filter)}]
    /\ UNCHANGED <<now, log, entry, writerVars, jobVars>>

(* The next page; one that is not full is the last.                        *)
ReadPage ==
    LET page == ListEvents(reader.filter, PageSize, reader.offset) IN
    /\ reader.step = "paging"
    /\ reader' = [reader EXCEPT !.offset = @ + PageSize,
                                !.seen = @ \cup page,
                                !.step = IF Cardinality(page) < PageSize
                                         THEN "done" ELSE @]
    /\ UNCHANGED <<now, log, entry, writerVars, jobVars>>

Next ==
    \/ \E w \in Writer : CallerWrites(w) \/ Commit(w) \/ Rollback(w)
    \/ \E w \in Writer, e \in Event, method \in Method,
          time \in 0 .. MaxTime, commit \in BOOLEAN :
         Log(w, e, method, time, commit)
    \/ \E older_than \in 0 .. MaxTime : SelectOld(older_than)
    \/ DeleteSelected
    \/ \E filter \in Filters : StartPaging(filter)
    \/ ReadPage

Spec == Init /\ [][Next]_vars

(***************************************************************************)
(* Properties                                                              *)
(***************************************************************************)

(* A caller that leaves commits to itself (commit=False, and no method     *)
(* that commits all the same) and never commits leaves nothing behind:     *)
(* none of its entries, nor the change they tell of.                       *)
NothingWithoutCommit ==
    \A w \in Writer : ~asked[w] =>
        own[w] \cap log = {} /\ work[w] # "committed"

(* Somebody who reads the log page by page misses an entry that was there  *)
(* from the beginning to the end only if the entry was itself due for      *)
(* deletion, or another one was deleted that is older and yet listed       *)
(* before it, which takes an event_time of the caller's, or two entries    *)
(* whose clock reads, for event_time and for created_at, overlap.          *)
PagingMissesOnlyBackdated ==
    reader.step = "done" =>
        \A e \in (reader.atStart \cap log) \ reader.seen :
            \/ entry[e].created < reader.horizon
            \/ \E d \in reader.gone : /\ entry[d].time > entry[e].time
                                      /\ entry[d].created < entry[e].created
=============================================================================
