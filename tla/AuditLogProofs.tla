---------------------------- MODULE AuditLogProofs ----------------------------
(***************************************************************************)
(* What the audit log promises to the code that writes to it and to those  *)
(* who list it, for any number of sessions, entries and pages.             *)
(***************************************************************************)
EXTENDS AuditLog, FiniteSetTheorems, TLAPS

USE AuditAssumption

(* Entries belong to the session that wrote them; what is flushed is among *)
(* them; what everybody sees has been written.                             *)
Owned ==
    /\ \A w \in Writer : pending[w] \subseteq own[w]
    /\ \A w \in Writer : \A e \in own[w] : entry[e] # None
    /\ \A v, w \in Writer : v # w => own[v] \cap own[w] = {}
    /\ \A e \in log : entry[e] # None

Writes == TypeOK /\ Owned /\ NothingWithoutCommit

-----------------------------------------------------------------------------
LEMMA TypeInit == Init => TypeOK
  BY DEF Init, TypeOK, Reader, Filter

LEMMA CommitSessionType ==
    ASSUME TypeOK, NEW w \in Writer, NEW entries \in SUBSET Event,
           CommitSession(w, entries)
    PROVE  /\ log' \in SUBSET Event
           /\ pending' \in [Writer -> SUBSET Event]
           /\ work' \in [Writer -> {"none", "pending", "committed"}]
  BY DEF TypeOK, CommitSession

LEMMA LogType ==
    ASSUME TypeOK, NEW w \in Writer, NEW e \in Event, NEW method \in Method,
           NEW time \in 0 .. MaxTime, NEW commit \in BOOLEAN,
           Log(w, e, method, time, commit)
    PROVE  TypeOK'
  <1>1. now' \in 0 .. MaxTime
    BY DEF TypeOK, Log
  <1>2. entry' \in [Event -> Entry \cup {None}]
    <2>1. [time |-> IF time = None THEN now ELSE time, created |-> now] \in Entry
      BY DEF TypeOK, Entry
    <2>. QED BY <2>1 DEF TypeOK, Log
  <1>3. /\ log' \in SUBSET Event
        /\ pending' \in [Writer -> SUBSET Event]
        /\ work' \in [Writer -> {"none", "pending", "committed"}]
    <2>1. pending[w] \cup {e} \in SUBSET Event
      BY DEF TypeOK
    <2>2. CASE CommitSession(w, pending[w] \cup {e})
      BY <2>1, <2>2, CommitSessionType
    <2>3. CASE pending' = [pending EXCEPT ![w] = @ \cup {e}] /\ UNCHANGED <<log, work>>
      BY <2>3 DEF TypeOK
    <2>. QED BY <2>2, <2>3 DEF Log, Create
  <1>4. own' \in [Writer -> SUBSET Event]
    BY DEF TypeOK, Log
  <1>5. asked' \in [Writer -> BOOLEAN]
    <2>1. (asked[w] \/ commit \/ method \in AlwaysCommits) \in BOOLEAN
      OBVIOUS
    <2>. QED BY <2>1, Zenon DEF TypeOK, Log
  <1>. QED BY <1>1, <1>2, <1>3, <1>4, <1>5 DEF TypeOK, Log, jobVars

LEMMA DeleteType == ASSUME TypeOK, DeleteSelected PROVE TypeOK'
  <1>1. reader' \in Reader
    <2>1. reader.gone \cup selected \in SUBSET Event
      BY DEF TypeOK, Reader
    <2>2. (IF cutoff > reader.horizon THEN cutoff ELSE reader.horizon)
            \in 0 .. MaxTime
      BY DEF TypeOK, Reader
    <2>3. CASE reader' = reader
      BY <2>3 DEF TypeOK
    <2>4. CASE reader' = [reader EXCEPT !.gone = @ \cup selected,
                                        !.horizon = IF cutoff > @ THEN cutoff ELSE @]
      BY <2>1, <2>2, <2>4 DEF TypeOK, Reader
    <2>. QED BY <2>3, <2>4 DEF DeleteSelected
  <1>2. log' \in SUBSET Event /\ selected' \in SUBSET Event /\ cutoff' \in 0 .. MaxTime
    BY DEF DeleteSelected, TypeOK
  <1>. QED BY <1>1, <1>2 DEF DeleteSelected, TypeOK, writerVars

LEMMA ReadType == ASSUME TypeOK, ReadPage PROVE TypeOK'
  <1>1. reader' \in Reader
    <2>. DEFINE page == ListEvents(reader.filter, PageSize, reader.offset)
    <2>1. page \subseteq Event
      BY DEF ListEvents, TypeOK
    <2>. HIDE DEF page
    <2>2. reader.offset + PageSize \in Nat /\ reader.seen \cup page \in SUBSET Event
      BY <2>1 DEF TypeOK, Reader
    <2>3. reader' = [reader EXCEPT !.offset = @ + PageSize,
                                   !.seen = @ \cup page,
                                   !.step = IF Cardinality(page) < PageSize
                                            THEN "done" ELSE @]
      BY DEF ReadPage, page
    <2>. QED BY <2>2, <2>3 DEF TypeOK, Reader
  <1>. QED BY <1>1 DEF ReadPage, TypeOK, writerVars, jobVars

LEMMA TypeStep == TypeOK /\ [Next]_vars => TypeOK'
  <1>. SUFFICES ASSUME TypeOK, [Next]_vars PROVE TypeOK'
    OBVIOUS
  <1>1. ASSUME NEW w \in Writer, CallerWrites(w) PROVE TypeOK'
    BY <1>1 DEF CallerWrites, TypeOK, jobVars
  <1>2. ASSUME NEW w \in Writer, Commit(w) PROVE TypeOK'
    <2>1. pending[w] \in SUBSET Event
      BY DEF TypeOK
    <2>2. /\ log' \in SUBSET Event
          /\ pending' \in [Writer -> SUBSET Event]
          /\ work' \in [Writer -> {"none", "pending", "committed"}]
      BY <1>2, <2>1, CommitSessionType DEF Commit
    <2>3. asked' \in [Writer -> BOOLEAN]
      BY <1>2 DEF Commit, TypeOK
    <2>. QED BY <1>2, <2>2, <2>3 DEF Commit, TypeOK, jobVars
  <1>3. ASSUME NEW w \in Writer, Rollback(w) PROVE TypeOK'
    BY <1>3 DEF Rollback, TypeOK, jobVars
  <1>4. ASSUME NEW w \in Writer, NEW e \in Event, NEW method \in Method,
               NEW time \in 0 .. MaxTime, NEW commit \in BOOLEAN,
               Log(w, e, method, time, commit)
        PROVE  TypeOK'
    BY <1>4, LogType
  <1>5. ASSUME NEW older_than \in 0 .. MaxTime, SelectOld(older_than)
        PROVE  TypeOK'
    BY <1>5 DEF SelectOld, Old, TypeOK, writerVars
  <1>6. CASE DeleteSelected
    BY <1>6, DeleteType
  <1>7. ASSUME NEW filter \in Filters, StartPaging(filter) PROVE TypeOK'
    <2>1. reader' \in Reader
      BY <1>7 DEF StartPaging, TypeOK, Reader
    <2>. QED BY <1>7, <2>1 DEF StartPaging, TypeOK, writerVars, jobVars
  <1>8. CASE ReadPage
    BY <1>8, ReadType
  <1>9. CASE UNCHANGED vars
    BY <1>9 DEF vars, writerVars, jobVars, TypeOK
  <1>. QED BY <1>1, <1>2, <1>3, <1>4, <1>5, <1>6, <1>7, <1>8, <1>9 DEF Next

(* Every state of the audit log is of its type, whatever the constants.    *)
THEOREM TypeCorrect == Spec => []TypeOK
  BY TypeInit, TypeStep, PTL DEF Spec

-----------------------------------------------------------------------------
LEMMA WritesInit == Init => Writes
  BY TypeInit DEF Init, Writes, Owned, NothingWithoutCommit

LEMMA LogWrites ==
    ASSUME Writes, NEW w \in Writer, NEW e \in Event, NEW method \in Method,
           NEW time \in 0 .. MaxTime, NEW commit \in BOOLEAN,
           Log(w, e, method, time, commit)
    PROVE  Owned' /\ NothingWithoutCommit'
  <1>. DEFINE commits == commit \/ method \in AlwaysCommits
  <1>0. TypeOK /\ Owned /\ NothingWithoutCommit
    BY DEF Writes
  <1>1. entry[e] = None /\ e \notin log /\ \A v \in Writer : e \notin own[v]
    BY <1>0 DEF Log, Owned
  <1>2. /\ own'[w] = own[w] \cup {e}
        /\ \A v \in Writer \ {w} : own'[v] = own[v]
    BY <1>0 DEF Log, TypeOK
  <1>3. /\ entry'[e] # None
        /\ \A d \in Event \ {e} : entry'[d] = entry[d]
    <2>1. [time |-> IF time = None THEN now ELSE time, created |-> now] \in Entry
      BY <1>0 DEF TypeOK, Entry
    <2>. QED BY <1>0, <2>1 DEF Log, TypeOK
  <1>4. /\ pending'[w] \subseteq pending[w] \cup {e}
        /\ \A v \in Writer \ {w} : pending'[v] = pending[v]
    BY <1>0 DEF Log, Create, CommitSession, TypeOK
  <1>5. log' \subseteq log \cup pending[w] \cup {e}
    BY DEF Log, Create, CommitSession
  <1>6. ~asked'[w] => ~asked[w] /\ log' = log /\ work' = work
    BY <1>0 DEF Log, Create, CommitSession, TypeOK
  <1>7. \A v \in Writer \ {w} : asked'[v] = asked[v] /\ work'[v] = work[v]
    BY <1>0 DEF Log, Create, CommitSession, TypeOK
  <1>8. Owned'
    <2>1. \A v \in Writer : pending'[v] \subseteq own'[v]
      BY <1>0, <1>2, <1>4 DEF Owned
    <2>2. \A v \in Writer : \A d \in own'[v] : entry'[d] # None
      BY <1>0, <1>2, <1>3 DEF Owned, TypeOK
    <2>3. \A u, v \in Writer : u # v => own'[u] \cap own'[v] = {}
      BY <1>0, <1>1, <1>2 DEF Owned
    <2>4. \A d \in log' : entry'[d] # None
      BY <1>0, <1>3, <1>5 DEF Owned, TypeOK
    <2>. QED BY <2>1, <2>2, <2>3, <2>4 DEF Owned
  <1>9. ASSUME NEW v \in Writer, ~asked'[v]
        PROVE  own'[v] \cap log' = {} /\ work'[v] # "committed"
    <2>1. CASE v = w
      BY <1>0, <1>1, <1>2, <1>6, <1>9, <2>1 DEF NothingWithoutCommit
    <2>2. CASE v # w
      <3>1. ~asked[v] /\ own'[v] = own[v] /\ work'[v] = work[v]
        BY <1>2, <1>7, <1>9, <2>2
      <3>2. own[v] \cap log = {} /\ work[v] # "committed"
        BY <1>0, <3>1 DEF NothingWithoutCommit
      <3>3. own[v] \cap pending[w] = {} /\ e \notin own[v]
        BY <1>0, <1>1, <2>2 DEF Owned
      <3>. QED BY <1>5, <3>1, <3>2, <3>3
    <2>. QED BY <2>1, <2>2
  <1>. QED BY <1>8, <1>9 DEF NothingWithoutCommit

LEMMA CommitWrites ==
    ASSUME Writes, NEW w \in Writer, Commit(w)
    PROVE  Owned' /\ NothingWithoutCommit'
  <1>0. TypeOK /\ Owned /\ NothingWithoutCommit
    BY DEF Writes
  <1>1. /\ own' = own /\ entry' = entry /\ log' = log \cup pending[w]
        /\ pending'[w] = {} /\ asked'[w]
        /\ \A v \in Writer \ {w} : /\ pending'[v] = pending[v]
                                   /\ asked'[v] = asked[v] /\ work'[v] = work[v]
    BY <1>0 DEF Commit, CommitSession, TypeOK
  <1>2. Owned'
    BY <1>0, <1>1 DEF Owned
  <1>3. ASSUME NEW v \in Writer, ~asked'[v]
        PROVE  own'[v] \cap log' = {} /\ work'[v] # "committed"
    <2>1. v # w
      BY <1>1, <1>3
    <2>2. own[v] \cap pending[w] = {}
      BY <1>0, <2>1 DEF Owned
    <2>3. own[v] \cap log = {} /\ work[v] # "committed" /\ work'[v] = work[v]
      BY <1>0, <1>1, <1>3, <2>1 DEF NothingWithoutCommit
    <2>. QED BY <1>1, <2>2, <2>3
  <1>. QED BY <1>2, <1>3 DEF NothingWithoutCommit

LEMMA WritesStep == Writes /\ [Next]_vars => Writes'
  <1>. SUFFICES ASSUME Writes, [Next]_vars PROVE Owned' /\ NothingWithoutCommit'
    BY TypeStep DEF Writes
  <1>0. TypeOK /\ Owned /\ NothingWithoutCommit
    BY DEF Writes
  <1>1. ASSUME NEW w \in Writer, CallerWrites(w)
        PROVE  Owned' /\ NothingWithoutCommit'
    BY <1>0, <1>1 DEF CallerWrites, Owned, NothingWithoutCommit, TypeOK
  <1>2. ASSUME NEW w \in Writer, Rollback(w)
        PROVE  Owned' /\ NothingWithoutCommit'
    BY <1>0, <1>2 DEF Rollback, Owned, NothingWithoutCommit, TypeOK
  <1>3. CASE DeleteSelected
    BY <1>0, <1>3 DEF DeleteSelected, writerVars, Owned, NothingWithoutCommit
  <1>4. ASSUME UNCHANGED <<log, entry, writerVars>>
        PROVE  Owned' /\ NothingWithoutCommit'
    BY <1>0, <1>4 DEF writerVars, Owned, NothingWithoutCommit
  <1>5. ASSUME NEW older_than \in 0 .. MaxTime, SelectOld(older_than)
        PROVE  UNCHANGED <<log, entry, writerVars>>
    BY <1>5 DEF SelectOld
  <1>6. ASSUME NEW filter \in Filters, StartPaging(filter)
        PROVE  UNCHANGED <<log, entry, writerVars>>
    BY <1>6 DEF StartPaging
  <1>7. ReadPage => UNCHANGED <<log, entry, writerVars>>
    BY DEF ReadPage
  <1>8. UNCHANGED vars => UNCHANGED <<log, entry, writerVars>>
    BY DEF vars
  <1>. QED BY <1>1, <1>2, <1>3, <1>4, <1>5, <1>6, <1>7, <1>8,
              LogWrites, CommitWrites DEF Next

(* AuditService: a caller that keeps the commit to itself and never makes  *)
(* it leaves nothing behind, whatever other sessions do.                   *)
THEOREM NothingIsLeftWithoutCommit == Spec => []NothingWithoutCommit
  <1>1. Writes => NothingWithoutCommit
    BY DEF Writes
  <1>. QED BY WritesInit, WritesStep, <1>1, PTL DEF Spec
-----------------------------------------------------------------------------
(***************************************************************************)
(* Pages                                                                   *)
(***************************************************************************)

(* F is ordered by a time and by a number no two elements share, ahead are *)
(* the elements before each, and page holds those of rank k to k + n - 1.  *)
Ordered(F, T, C, ahead) ==
    /\ IsFiniteSet(F)
    /\ T \in [F -> Int] /\ C \in [F -> Int]
    /\ \A d, e \in F : C[d] = C[e] => d = e
    /\ ahead \in [F -> SUBSET F]
    /\ \A d, e \in F : d \in ahead[e] <=>
          T[d] > T[e] \/ (T[d] = T[e] /\ C[d] > C[e])

IsPage(page, F, ahead, k, n) ==
    /\ page \in SUBSET F
    /\ \A d \in F : d \in page <=> Cardinality(ahead[d]) \in k .. k + n - 1

(* The ranks before some element are all taken: a page of them is full.    *)
LEMMA PageIsFull ==
    ASSUME NEW F, NEW T, NEW C, NEW ahead, Ordered(F, T, C, ahead),
           NEW x \in F, NEW k \in Nat, NEW n \in Nat \ {0},
           Cardinality(ahead[x]) >= k + n,
           NEW page, IsPage(page, F, ahead, k, n)
    PROVE  Cardinality(page) >= n
  <1>. USE DEF Ordered, IsPage
  <1>. DEFINE rank == [d \in F |-> Cardinality(ahead[d])]
  <1>1. \A d \in F : IsFiniteSet(ahead[d]) /\ rank[d] \in Nat
    BY FS_Subset, FS_CardinalityType
  <1>2. \A d \in F, e \in F : d \in ahead[e] => rank[d] < rank[e]
    <2>. SUFFICES ASSUME NEW d \in F, NEW e \in F, d \in ahead[e]
                  PROVE  rank[d] < rank[e]
      OBVIOUS
    <2>1. ahead[d] \subseteq ahead[e] /\ d \notin ahead[d]
      OBVIOUS
    <2>2. ahead[d] # ahead[e]
      BY <2>1
    <2>3. /\ Cardinality(ahead[d]) <= Cardinality(ahead[e])
          /\ Cardinality(ahead[d]) # Cardinality(ahead[e])
      BY <1>1, <2>1, <2>2, FS_Subset
    <2>. QED BY <1>1, <2>3
  <1>3. \A d, e \in F : d # e => d \in ahead[e] \/ e \in ahead[d]
    <2>. SUFFICES ASSUME NEW d \in F, NEW e \in F, d # e
                  PROVE  d \in ahead[e] \/ e \in ahead[d]
      OBVIOUS
    <2>1. /\ T[d] \in Int /\ T[e] \in Int /\ C[d] \in Int /\ C[e] \in Int
          /\ C[d] # C[e]
      OBVIOUS
    <2>. QED BY <2>1
  <1>4. \A d, e \in F : rank[d] = rank[e] => d = e
    <2>. SUFFICES ASSUME NEW d \in F, NEW e \in F, rank[d] = rank[e], d # e
                  PROVE  FALSE
      OBVIOUS
    <2>1. rank[d] < rank[e] \/ rank[e] < rank[d]
      BY <1>2, <1>3
    <2>. HIDE DEF rank
    <2>. QED BY <1>1, <2>1
  <1>. DEFINE A == ahead[x]
             m == Cardinality(A)
             f == [d \in A |-> rank[d]]
  <1>5. /\ A \in SUBSET F /\ IsFiniteSet(A) /\ m \in Nat
        /\ k + n <= m
    BY <1>1
  <1>6. \A d \in A : rank[d] \in 0 .. m - 1
    <2>. SUFFICES ASSUME NEW d \in A PROVE rank[d] \in 0 .. m - 1
      OBVIOUS
    <2>1. rank[d] < rank[x] /\ rank[d] \in Nat /\ rank[x] = m
      BY <1>1, <1>2
    <2>. HIDE DEF rank, m
    <2>. QED BY <1>5, <2>1
  <1>a. \A d \in F : d \in page <=> rank[d] \in k .. k + n - 1
    OBVIOUS
  <1>. HIDE DEF rank, m, A
  <1>7. f \in Injection(A, 0 .. m - 1)
    BY <1>4, <1>5, <1>6 DEF Injection, IsInjective
  <1>8. IsFiniteSet(0 .. m - 1) /\ Cardinality(0 .. m - 1) = m
    BY <1>5, FS_Interval
  <1>9. f \in Surjection(A, 0 .. m - 1)
    BY <1>7, <1>8, FS_Injection DEF m
  <1>. DEFINE g == [d \in page |-> rank[d]]
  <1>10. g \in Surjection(page, k .. k + n - 1)
    <2>1. g \in [page -> k .. k + n - 1]
      BY <1>a
    <2>2. ASSUME NEW j \in k .. k + n - 1 PROVE \E d \in page : g[d] = j
      <3>1. j \in 0 .. m - 1
        BY <1>5
      <3>2. PICK d \in A : f[d] = j
        BY <1>9, <3>1 DEF Surjection
      <3>3. d \in page
        BY <1>5, <1>a, <3>2
      <3>. QED BY <3>2, <3>3
    <2>. QED BY <2>1, <2>2 DEF Surjection
  <1>11. IsFiniteSet(page)
    BY FS_Subset
  <1>12. Cardinality(k .. k + n - 1) = n
    BY FS_Interval
  <1>13. n <= Cardinality(page)
    BY <1>10, <1>11, <1>12, FS_Surjection
  <1>14. Cardinality(page) \in Nat
    BY <1>11, FS_CardinalityType
  <1>. QED BY <1>13, <1>14
Found    == {e \in log : Matches(e, reader.filter)}
Ahead(e) == {d \in Found : Before(d, e)}
Rank(e)  == Cardinality(Ahead(e))

(* Neither e nor what was deleted gives a reason to miss e.                *)
Safe(e) ==
    /\ ~(entry[e].created < reader.horizon)
    /\ ~ \E d \in reader.gone : /\ entry[d].time > entry[e].time
                                /\ entry[d].created < entry[e].created

(* Entries are numbered by their creation; a session's flushed entries are *)
(* seen by nobody; what is about to be deleted is as old as was asked.     *)
History ==
    /\ IsFiniteSet(log) /\ \A w \in Writer : IsFiniteSet(pending[w])
    /\ \A e \in Event : entry[e] # None => entry[e].created < now
    /\ \A d, e \in Event :
         /\ entry[d] # None /\ entry[e] # None
         /\ entry[d].created = entry[e].created
         => d = e
    /\ \A w \in Writer : pending[w] \cap (log \cup reader.atStart) = {}
    /\ \A e \in selected : entry[e] # None /\ entry[e].created < cutoff

(* Who has read up to an offset has seen every safe entry ranked below it. *)
Reading ==
    /\ reader.step = "idle" => reader.offset = 0
    /\ \A e \in reader.atStart : entry[e] # None /\ Matches(e, reader.filter)
    /\ \A d \in reader.gone : entry[d] # None
    /\ reader.step = "paging" =>
         \A e \in (reader.atStart \cap log) \ reader.seen :
            Safe(e) => Rank(e) >= reader.offset
    /\ PagingMissesOnlyBackdated

Listing == Writes /\ History /\ Reading

LEMMA ListingInit == Init => Listing
  <1>1. Init => History
    BY FS_EmptySet DEF Init, History
  <1>2. Init => Reading
    BY DEF Init, Reading, PagingMissesOnlyBackdated
  <1>. QED BY <1>1, <1>2, WritesInit DEF Listing

-----------------------------------------------------------------------------
LEMMA LogHistory ==
    ASSUME Listing, NEW w \in Writer, NEW e \in Event, NEW method \in Method,
           NEW time \in 0 .. MaxTime, NEW commit \in BOOLEAN,
           Log(w, e, method, time, commit)
    PROVE  History'
  <1>0. TypeOK /\ Owned /\ History /\ Reading
    BY DEF Listing, Writes
  <1>1. /\ entry'[e].created = now /\ entry'[e] # None /\ now' = now + 1
        /\ \A d \in Event \ {e} : entry'[d] = entry[d]
        /\ entry[e] = None /\ now \in Int
    <2>1. [time |-> IF time = None THEN now ELSE time, created |-> now] \in Entry
      BY <1>0 DEF TypeOK, Entry
    <2>. QED BY <1>0, <2>1 DEF Log, TypeOK
  <1>2. e \notin log /\ e \notin reader.atStart /\ e \notin selected
        /\ \A v \in Writer : e \notin own[v] /\ e \notin pending[v]
    BY <1>0, <1>1 DEF Owned, History, Reading
  <1>3. \/ /\ log' = log \cup (pending[w] \cup {e})
           /\ pending' = [pending EXCEPT ![w] = {}]
        \/ log' = log /\ pending' = [pending EXCEPT ![w] = @ \cup {e}]
    BY DEF Log, Create, CommitSession
  <1>4. IsFiniteSet(log') /\ \A v \in Writer : IsFiniteSet(pending'[v])
    <2>1. IsFiniteSet(pending[w] \cup {e})
      BY <1>0, FS_AddElement DEF History
    <2>2. IsFiniteSet(log \cup (pending[w] \cup {e}))
      BY <1>0, <2>1, FS_Union DEF History
    <2>3. IsFiniteSet({})
      BY FS_EmptySet
    <2>. QED BY <1>0, <1>3, <2>1, <2>2, <2>3 DEF History, TypeOK
  <1>5. \A d \in Event : entry'[d] # None => entry'[d].created < now'
    <2>1. \A d \in Event \ {e} :
            entry[d] # None => entry[d].created < now /\ entry[d].created \in Int
      BY <1>0 DEF History, TypeOK, Entry
    <2>. QED BY <1>1, <2>1
  <1>6. \A c, d \in Event :
          entry'[c] # None /\ entry'[d] # None
          /\ entry'[c].created = entry'[d].created => c = d
    BY <1>0, <1>1 DEF History
  <1>7. \A v \in Writer : pending'[v] \cap (log' \cup reader.atStart) = {}
    <2>1. \A v \in Writer : v # w => pending[v] \cap pending[w] = {}
      BY <1>0 DEF Owned
    <2>2. \A v \in Writer : pending[v] \cap (log \cup reader.atStart) = {}
      BY <1>0 DEF History
    <2>. QED BY <1>0, <1>2, <1>3, <2>1, <2>2 DEF TypeOK
  <1>8. \A d \in selected : entry'[d] # None /\ entry'[d].created < cutoff
    BY <1>0, <1>1, <1>2 DEF History, TypeOK
  <1>. QED BY <1>4, <1>5, <1>6, <1>7, <1>8 DEF History, Log, jobVars

LEMMA CommitHistory == ASSUME Listing, NEW w \in Writer, Commit(w) PROVE History'
  <1>0. TypeOK /\ Owned /\ History
    BY DEF Listing, Writes
  <1>1. /\ log' = log \cup pending[w] /\ pending' = [pending EXCEPT ![w] = {}]
        /\ UNCHANGED <<now, entry, selected, cutoff, reader>>
    BY DEF Commit, CommitSession, jobVars
  <1>2. IsFiniteSet(log') /\ \A v \in Writer : IsFiniteSet(pending'[v])
    BY <1>0, <1>1, FS_Union, FS_EmptySet DEF History, TypeOK
  <1>3. \A v \in Writer : pending'[v] \cap (log' \cup reader.atStart) = {}
    <2>1. \A v \in Writer : v # w => pending[v] \cap pending[w] = {}
      BY <1>0 DEF Owned
    <2>. QED BY <1>0, <1>1, <2>1 DEF History, TypeOK
  <1>. QED BY <1>0, <1>1, <1>2, <1>3 DEF History

LEMMA HistoryStep == Listing /\ [Next]_vars => History'
  <1>. SUFFICES ASSUME Listing, [Next]_vars PROVE History'
    OBVIOUS
  <1>0. TypeOK /\ Owned /\ History
    BY DEF Listing, Writes
  <1>1. ASSUME NEW w \in Writer, CallerWrites(w) PROVE History'
    BY <1>0, <1>1 DEF CallerWrites, jobVars, History
  <1>2. ASSUME NEW w \in Writer, Rollback(w) PROVE History'
    <2>1. /\ pending' = [pending EXCEPT ![w] = {}]
          /\ UNCHANGED <<now, log, entry, selected, cutoff, reader>>
      BY <1>2 DEF Rollback, jobVars
    <2>. QED BY <1>0, <2>1, FS_EmptySet DEF History, TypeOK
  <1>3. ASSUME NEW older_than \in 0 .. MaxTime, SelectOld(older_than)
        PROVE  History'
    BY <1>0, <1>3 DEF SelectOld, Old, writerVars, History, Owned
  <1>4. CASE DeleteSelected
    <2>1. IsFiniteSet(log') /\ log' \subseteq log
      BY <1>0, <1>4, FS_Subset DEF DeleteSelected, History
    <2>2. reader'.atStart = reader.atStart
      BY <1>0, <1>4 DEF DeleteSelected, TypeOK, Reader
    <2>. QED BY <1>0, <1>4, <2>1, <2>2 DEF DeleteSelected, writerVars, History
  <1>5. ASSUME NEW filter \in Filters, StartPaging(filter) PROVE History'
    <2>1. reader'.atStart \subseteq log
      BY <1>0, <1>5 DEF StartPaging, TypeOK, Reader
    <2>. QED BY <1>0, <1>5, <2>1 DEF StartPaging, writerVars, jobVars, History
  <1>6. CASE ReadPage
    <2>1. reader'.atStart = reader.atStart
      BY <1>0, <1>6 DEF ReadPage, TypeOK, Reader
    <2>. QED BY <1>0, <1>6, <2>1 DEF ReadPage, writerVars, jobVars, History
  <1>7. CASE UNCHANGED vars
    BY <1>0, <1>7 DEF vars, writerVars, jobVars, History
  <1>. QED BY <1>1, <1>2, <1>3, <1>4, <1>5, <1>6, <1>7, LogHistory, CommitHistory
           DEF Next

-----------------------------------------------------------------------------
LEMMA RankIsNatural ==
    ASSUME History, NEW e
    PROVE  IsFiniteSet(Ahead(e)) /\ Rank(e) \in Nat
  <1>1. Ahead(e) \in SUBSET log
    BY DEF Ahead, Found
  <1>. QED BY <1>1, FS_Subset, FS_CardinalityType DEF History, Rank

(* What is written keeps its place and pushes other entries back.          *)
LEMMA GrowingKeepsReading ==
    ASSUME Listing, History', reader' = reader,
           log \subseteq log', reader.atStart \cap log' \subseteq log,
           \A e \in Event : entry[e] # None => entry'[e] = entry[e]
    PROVE  Reading'
  <1>0. TypeOK /\ Owned /\ History /\ Reading
    BY DEF Listing, Writes
  <1>1. /\ \A e \in log \cup reader.atStart \cup reader.gone : entry'[e] = entry[e]
        /\ \A e \in log \cup reader.atStart \cup reader.gone : entry[e] # None
    BY <1>0 DEF Owned, Reading, TypeOK, Reader
  <1>2. \A e \in reader.atStart : entry'[e] # None /\ Matches(e, reader.filter)'
    BY <1>0, <1>1 DEF Reading, Matches
  <1>3. \A d \in reader.gone : entry'[d] # None
    BY <1>1
  <1>4. \A e \in reader.atStart : Safe(e)' <=> Safe(e)
    BY <1>1 DEF Safe
  <1>5. ASSUME NEW e \in reader.atStart PROVE Rank(e)' >= Rank(e)
    <2>1. Ahead(e) \subseteq Ahead(e)'
      BY <1>1, <1>5 DEF Ahead, Found, Before, Matches
    <2>2. IsFiniteSet(Ahead(e)') /\ Cardinality(Ahead(e)') \in Nat
      <3>1. Ahead(e)' \in SUBSET log' /\ IsFiniteSet(log')
        BY DEF Ahead, Found, History
      <3>. QED BY <3>1, FS_Subset, FS_CardinalityType
    <2>3. Cardinality(Ahead(e)) <= Cardinality(Ahead(e)')
      BY <2>1, <2>2, FS_Subset
    <2>4. Cardinality(Ahead(e)) \in Nat
      BY <1>0, RankIsNatural DEF Rank
    <2>. QED BY <2>2, <2>3, <2>4 DEF Rank
  <1>6. ASSUME reader.step = "paging",
               NEW e \in (reader.atStart \cap log') \ reader.seen, Safe(e)'
        PROVE  Rank(e)' >= reader.offset
    <2>1. Rank(e) >= reader.offset
      BY <1>0, <1>4, <1>6 DEF Reading
    <2>2. Rank(e)' >= Rank(e)
      BY <1>5, <1>6
    <2>3. Rank(e) \in Nat /\ Rank(e)' \in Nat /\ reader.offset \in Nat
      <3>1. Ahead(e)' \in SUBSET log' /\ IsFiniteSet(log')
        BY DEF Ahead, Found, History
      <3>2. Cardinality(Ahead(e)') \in Nat
        BY <3>1, FS_Subset, FS_CardinalityType
      <3>. QED BY <1>0, <3>2, RankIsNatural DEF Rank, TypeOK, Reader
    <2>. QED BY <2>1, <2>2, <2>3
  <1>7. PagingMissesOnlyBackdated'
    BY <1>0, <1>1 DEF Reading, PagingMissesOnlyBackdated
  <1>. QED BY <1>0, <1>2, <1>3, <1>6, <1>7 DEF Reading
LEMMA DeleteKeepsReading ==
    ASSUME Listing, DeleteSelected
    PROVE  Reading'
  <1>0. TypeOK /\ Owned /\ History /\ Reading
    BY DEF Listing, Writes
  <1>1. UNCHANGED <<now, entry, writerVars>>
    BY DEF DeleteSelected
  <1>2. CASE UNCHANGED <<log, reader>>
    BY <1>0, <1>1, <1>2 DEF Reading, PagingMissesOnlyBackdated, Matches, Safe,
                           Rank, Ahead, Found, Before
  <1>3. CASE log' = log \ selected /\ reader' = reader /\ reader.step # "paging"
    BY <1>0, <1>1, <1>3 DEF Reading, PagingMissesOnlyBackdated, Matches
  <1>4. CASE /\ log' = log \ selected /\ reader.step = "paging"
             /\ reader' = [reader EXCEPT !.gone = @ \cup selected,
                                         !.horizon = IF cutoff > @ THEN cutoff ELSE @]
    <2>1. /\ reader'.step = "paging" /\ reader'.filter = reader.filter
          /\ reader'.offset = reader.offset /\ reader'.seen = reader.seen
          /\ reader'.atStart = reader.atStart
          /\ reader'.gone = reader.gone \cup selected
          /\ reader'.horizon = IF cutoff > reader.horizon THEN cutoff
                                                          ELSE reader.horizon
      BY <1>0, <1>4 DEF TypeOK, Reader
    <2>2. /\ reader.horizon \in Int /\ cutoff \in Int
          /\ \A e \in Event : entry[e] # None =>
               entry[e].created \in Int /\ entry[e].time \in Int
      BY <1>0 DEF TypeOK, Reader, Entry
    <2>3. \A e \in log \cup reader.atStart \cup selected :
            entry[e] # None /\ e \in Event
      BY <1>0 DEF Owned, Reading, History, TypeOK, Reader
    <2>4. ASSUME NEW e \in (reader.atStart \cap log') \ reader.seen, Safe(e)'
          PROVE  Rank(e)' >= reader.offset
      <3>1. e \in (reader.atStart \cap log) \ reader.seen
        BY <1>4, <2>4
      <3>2. entry[e].created >= reader.horizon /\ entry[e].created >= cutoff
        <4>1. ~(entry[e].created < reader'.horizon)
          BY <1>1, <2>4 DEF Safe
        <4>2. entry[e].created \in Int
          BY <2>2, <2>3, <3>1
        <4>. QED BY <2>1, <2>2, <4>1, <4>2
      <3>3. ~ \E d \in reader.gone \cup selected :
                 /\ entry[d].time > entry[e].time
                 /\ entry[d].created < entry[e].created
        BY <1>1, <2>1, <2>4 DEF Safe
      <3>4. Safe(e)
        <4>1. ~(entry[e].created < reader.horizon)
          BY <2>2, <2>3, <3>1, <3>2
        <4>. QED BY <3>3, <4>1 DEF Safe
      <3>5. Rank(e) >= reader.offset
        BY <1>0, <1>4, <3>1, <3>4 DEF Reading
      <3>6. ASSUME NEW d \in selected PROVE ~Before(d, e)
        <4>1. entry[d].created < entry[e].created
          <5>1. entry[d].created < cutoff
            BY <1>0 DEF History
          <5>. QED BY <2>2, <2>3, <3>1, <3>2, <5>1
        <4>2. ~(entry[d].time > entry[e].time)
          BY <3>3, <4>1
        <4>. QED BY <2>2, <2>3, <3>1, <4>1, <4>2 DEF Before
      <3>7. Ahead(e)' = Ahead(e)
        BY <1>1, <1>4, <2>1, <3>6 DEF Ahead, Found, Before, Matches
      <3>. QED BY <3>5, <3>7 DEF Rank
    <2>5. \A d \in reader'.gone : entry[d] # None
      BY <1>0, <2>1, <2>3 DEF Reading
    <2>6. \A e \in reader'.atStart : entry'[e] # None /\ Matches(e, reader.filter)'
      BY <1>0, <1>1, <2>1 DEF Reading, Matches
    <2>. QED BY <1>1, <2>1, <2>4, <2>5, <2>6 DEF Reading, PagingMissesOnlyBackdated
  <1>. QED BY <1>2, <1>3, <1>4 DEF DeleteSelected

LEMMA StartKeepsReading ==
    ASSUME Listing, NEW filter \in Filters, StartPaging(filter)
    PROVE  Reading'
  <1>0. TypeOK /\ Owned /\ History /\ Reading
    BY DEF Listing, Writes
  <1>1. UNCHANGED <<log, entry>>
    BY DEF StartPaging
  <1>2. /\ reader'.step = "paging" /\ reader'.filter = filter
        /\ reader'.offset = 0 /\ reader'.gone = reader.gone
        /\ reader'.atStart = {e \in log : Matches(e, filter)}
    BY <1>0 DEF StartPaging, Reading, TypeOK, Reader
  <1>3. \A e : Rank(e)' >= 0
    <2>1. History'
      BY HistoryStep DEF Next
    <2>. SUFFICES ASSUME NEW e PROVE Rank(e)' >= 0
      OBVIOUS
    <2>2. Ahead(e)' \in SUBSET log' /\ IsFiniteSet(log')
      BY <2>1 DEF Ahead, Found, History
    <2>3. Cardinality(Ahead(e)') \in Nat
      BY <2>2, FS_Subset, FS_CardinalityType
    <2>. QED BY <2>3 DEF Rank
  <1>4. \A e \in reader'.atStart : entry'[e] # None /\ Matches(e, filter)'
    BY <1>0, <1>1, <1>2 DEF Owned, Matches
  <1>. QED BY <1>0, <1>1, <1>2, <1>3, <1>4 DEF Reading, PagingMissesOnlyBackdated

(* A page that leaves out an entry ranked behind it is full.               *)
LEMMA PageBehindIsFull ==
    ASSUME TypeOK, Owned, History,
           NEW e \in Found, Rank(e) >= reader.offset + PageSize
    PROVE  Cardinality(ListEvents(reader.filter, PageSize, reader.offset))
             >= PageSize
  <1>. DEFINE T == [d \in Found |-> entry[d].time]
             C == [d \in Found |-> entry[d].created]
             ahead == [d \in Found |-> Ahead(d)]
             k == reader.offset
  <1>1. \A d \in Found : /\ d \in Event /\ entry[d] # None
                         /\ entry[d].time \in Int /\ entry[d].created \in Int
    BY DEF Found, Owned, TypeOK, Entry
  <1>2. T \in [Found -> Int] /\ C \in [Found -> Int]
        /\ \A c, d \in Found : C[c] = C[d] => c = d
    BY <1>1 DEF History
  <1>3. IsFiniteSet(Found)
    BY FS_Subset DEF Found, History
  <1>4. ahead \in [Found -> SUBSET Found]
    BY DEF Ahead
  <1>5. \A d, c \in Found : d \in ahead[c] <=>
          T[d] > T[c] \/ (T[d] = T[c] /\ C[d] > C[c])
    BY DEF Ahead, Before
  <1>6. k \in Nat /\ PageSize \in Nat \ {0}
    BY DEF TypeOK, Reader
  <1>7. Cardinality(ahead[e]) >= k + PageSize
    BY DEF Rank
  <1>. DEFINE page == ListEvents(reader.filter, PageSize, k)
  <1>8. /\ page \in SUBSET Found
        /\ \A d \in Found :
             d \in page <=> Cardinality(ahead[d]) \in k .. k + PageSize - 1
    BY DEF ListEvents, Found, Ahead
  <1>. HIDE DEF T, C, ahead, k, page
  <1>9. Ordered(Found, T, C, ahead)
    BY <1>2, <1>3, <1>4, <1>5 DEF Ordered
  <1>10. IsPage(page, Found, ahead, k, PageSize)
    BY <1>8 DEF IsPage
  <1>11. Cardinality(page) >= PageSize
    BY <1>6, <1>7, <1>9, <1>10, PageIsFull
  <1>. QED BY <1>11 DEF k, page

LEMMA ReadKeepsReading == ASSUME Listing, ReadPage PROVE Reading'
  <1>. DEFINE page == ListEvents(reader.filter, PageSize, reader.offset)
  <1>0. TypeOK /\ Owned /\ History /\ Reading
    BY DEF Listing, Writes
  <1>1. UNCHANGED <<log, entry>> /\ reader.step = "paging"
    BY DEF ReadPage
  <1>2. page = {e \in Found : Rank(e) \in reader.offset .. reader.offset + PageSize - 1}
    BY DEF ListEvents, Rank, Ahead, Found
  <1>. HIDE DEF page
  <1>3. /\ reader'.filter = reader.filter /\ reader'.gone = reader.gone
        /\ reader'.offset = reader.offset + PageSize
        /\ reader'.seen = reader.seen \cup page
        /\ reader'.atStart = reader.atStart /\ reader'.horizon = reader.horizon
        /\ reader'.step = IF Cardinality(page) < PageSize THEN "done" ELSE "paging"
    <2>1. reader' = [reader EXCEPT !.offset = @ + PageSize,
                                   !.seen = @ \cup page,
                                   !.step = IF Cardinality(page) < PageSize
                                            THEN "done" ELSE @]
      BY DEF ReadPage, page
    <2>. QED BY <1>0, <1>1, <2>1 DEF TypeOK, Reader
  <1>4. ASSUME NEW e \in (reader.atStart \cap log) \ reader'.seen, Safe(e)
        PROVE  e \in Found /\ Rank(e) >= reader.offset + PageSize
    <2>1. e \in (reader.atStart \cap log) \ reader.seen /\ e \notin page
      BY <1>3, <1>4
    <2>2. e \in Found
      BY <1>0, <2>1 DEF Reading, Found
    <2>3. Rank(e) >= reader.offset /\ Rank(e) \in Nat /\ reader.offset \in Nat
      BY <1>0, <1>1, <1>4, <2>1, RankIsNatural DEF Reading, TypeOK, Reader
    <2>4. Rank(e) \notin reader.offset .. reader.offset + PageSize - 1
      BY <1>2, <2>1, <2>2
    <2>. QED BY <2>2, <2>3, <2>4
  <1>5. \A e : (Safe(e)' <=> Safe(e)) /\ Rank(e)' = Rank(e)
    BY <1>1, <1>3 DEF Safe, Rank, Ahead, Found, Before, Matches
  <1>6. reader'.step = "paging" =>
          \A e \in (reader'.atStart \cap log') \ reader'.seen :
             Safe(e)' => Rank(e)' >= reader'.offset
    BY <1>1, <1>3, <1>4, <1>5
  <1>7. PagingMissesOnlyBackdated'
    <2>1. ASSUME Cardinality(page) < PageSize,
                 NEW e \in (reader.atStart \cap log) \ reader'.seen
          PROVE  ~Safe(e)
      <3>. SUFFICES ASSUME Safe(e) PROVE FALSE
        OBVIOUS
      <3>1. Cardinality(page) >= PageSize
        BY <1>0, <1>4, <2>1, PageBehindIsFull DEF page
      <3>2. Cardinality(page) \in Nat
        BY <1>0, <1>2, FS_Subset, FS_CardinalityType DEF Found, History
      <3>. QED BY <2>1, <3>1, <3>2
    <2>. QED BY <1>1, <1>3, <2>1 DEF PagingMissesOnlyBackdated, Safe
  <1>8. \A e \in reader'.atStart : entry'[e] # None /\ Matches(e, reader.filter)'
    BY <1>0, <1>1, <1>3 DEF Reading, Matches
  <1>9. (\A d \in reader'.gone : entry'[d] # None) /\ reader'.step # "idle"
    BY <1>0, <1>1, <1>3 DEF Reading
  <1>. QED BY <1>3, <1>6, <1>7, <1>8, <1>9 DEF Reading

LEMMA ListingStep == Listing /\ [Next]_vars => Listing'
  <1>. SUFFICES ASSUME Listing, [Next]_vars PROVE Reading'
    BY WritesStep, HistoryStep DEF Listing
  <1>0. TypeOK /\ Owned /\ History /\ Reading
    BY DEF Listing, Writes
  <1>h. History'
    BY HistoryStep
  <1>1. ASSUME UNCHANGED <<log, entry, reader>> PROVE Reading'
    BY <1>0, <1>1, <1>h, GrowingKeepsReading
  <1>2. ASSUME NEW w \in Writer, CallerWrites(w) \/ Rollback(w) PROVE Reading'
    BY <1>1, <1>2 DEF CallerWrites, Rollback
  <1>3. ASSUME NEW w \in Writer, Commit(w) PROVE Reading'
    <2>1. log' = log \cup pending[w] /\ entry' = entry /\ reader' = reader
      BY <1>3 DEF Commit, CommitSession
    <2>2. reader.atStart \cap log' \subseteq log
      BY <1>0, <2>1 DEF History
    <2>. QED BY <1>h, <2>1, <2>2, GrowingKeepsReading
  <1>4. ASSUME NEW w \in Writer, NEW e \in Event, NEW method \in Method,
               NEW time \in 0 .. MaxTime, NEW commit \in BOOLEAN,
               Log(w, e, method, time, commit)
        PROVE  Reading'
    <2>1. /\ log \subseteq log' /\ log' \subseteq log \cup pending[w] \cup {e}
          /\ reader' = reader /\ entry[e] = None
          /\ \A d \in Event \ {e} : entry'[d] = entry[d]
      BY <1>0, <1>4 DEF Log, Create, CommitSession, TypeOK
    <2>2. e \notin reader.atStart
      BY <1>0, <2>1 DEF Reading
    <2>3. reader.atStart \cap log' \subseteq log
      BY <1>0, <2>1, <2>2 DEF History
    <2>. QED BY <1>h, <2>1, <2>3, GrowingKeepsReading
  <1>5. ASSUME NEW older_than \in 0 .. MaxTime, SelectOld(older_than)
        PROVE  Reading'
    BY <1>1, <1>5 DEF SelectOld
  <1>6. UNCHANGED vars => UNCHANGED <<log, entry, reader>>
    BY DEF vars
  <1>. QED BY <1>1, <1>2, <1>3, <1>4, <1>5, <1>6, DeleteKeepsReading,
              StartKeepsReading, ReadKeepsReading DEF Next

(* list_events: however many pages, entries, writers and deletions, who    *)
(* reads to the end misses an entry that stayed only when an event_time    *)
(* was given that puts a deleted entry before it, or it was due itself.    *)
THEOREM PagingIsComplete == Spec => []PagingMissesOnlyBackdated
  <1>1. Listing => PagingMissesOnlyBackdated
    BY DEF Listing, Reading
  <1>. QED BY ListingInit, ListingStep, <1>1, PTL DEF Spec
=============================================================================
