# TLA+ specifications of ksef-fastapi

ksef-fastapi sends invoices to KSeF, the national e-invoicing service, keeps
track of what became of them, and retries what failed. This directory holds
TLA+ models of the parts of it whose correctness depends on the order of
things: TLC checks them on small instances, and TLAPS proves the main safety
properties for all values of the constants. Paths below are relative to
`src/app/`.

## 1. Inventory

| Component | State it keeps | Operations | What is hard about it | What makes it correct |
|---|---|---|---|---|
| KSeF (external, `_docs/ksef-2.0-open-api.json`) | sessions, documents, verdicts; authentication operations, tokens | open, close, send, status; login, redeem, refresh, revoke | tokens of a login are handed out once; every accepted POST has a lasting effect, even if its answer is lost; second copies end with code 440 | given |
| `SendInvoiceOnlineWorkflow` | durable workflow state: step, references, final status | one run of fourteen activities and a polling loop, a cancel signal | activities run at least once; given-up attempts may act later; the handler overwrites statuses | the row and the answer never claim what KSeF did not do; references belong together; every run ends, unless an answer without a reference stops it for good |
| Activities (persistence, session, invoice, audit) | the submission row, the audit log | upserts and updates through protocols | repeated and late calls | idempotent enough for the above |
| `ReconcilePendingSubmissionsWorkflow` | a loaded list, counters | load, mark one by one | the list goes stale; failures are swallowed | marks do not invent acceptance; counters add up |
| `RetryService` | retry and poll counters, due times, statuses of rows | resend, poll session, poll invoice, dead letter; passes over lists and single rows | decisions on stale records, several workers, crashes between count, call and outcome | limits, backoff, justified dead letters; an overdue row that a pass has listed ends |
| `InvoiceService` | submission rows, reuse of sessions | submit, resubmit | crash between send and row update, resending what was accepted, double opening of sessions | rows before documents, references that match, verdicts that KSeF gave |
| `SessionService`, `session_repository` | session rows | open, close, get-or-open | check-then-act, remote and local state drift apart | a reusable row is an open session |
| `StatusService`, `invoice_repository` | snapshots of statuses, UPOs | poll session, poll invoice, download | answers out of order; an open session is stored as processing | final statuses are not undone |
| `AuthService`, `token_repository` | one token row per company and environment | redeem, refresh, revoke, use | read, await, write races; updates of changed columns only; inserts that meet | the row mixes two logins, names a revoked one or forgets a live one only by an overlap that can be told |
| Auth activities | auth contexts | ensure, refresh | one-time redeem repeated by a retry, concurrent refreshes, a loop as long as its timeout | tokens that were handed out are stored or lost with a stopped attempt; nothing else mixes a context |
| `AuditService`, audit log | entries | write with or without commit, delete old ones, list by page | a session shared with the caller; offsets that shift | nothing is left of what nobody committed; a reader misses only what deletion moved |
| HTTP client | none | one request per method, errors, normalisation | empty bodies, boundary statuses, unreadable answers | an answer with evidence and an error with a status are true |
| Encryption and certificates | none (files on disk) | load, check, wrap, encrypt, decrypt, store material | block boundary, damaged material | what is sent decrypts to the invoice, or is refused, unless stored material was exchanged for other material of its form |
| Tax identifiers | none | NIP, VAT numbers, contractors | checksum arithmetic, several ways to one check | typing errors are refused |
| Strategies, mappers, builders, invoice validation, core, API, DB models | none of their own | conversions, single calls | layout | - |
| Batch workflow, `workers/`, `adapters/`, `tests/` | none | placeholders | - | - |

How they interact. The API calls the services, which call the HTTP client and
the repositories inside one request. The Temporal worker runs the workflows,
which reach KSeF and the database only through activities. `RetryService`
calls `InvoiceService` and the status polling in passes. Rows in the database
are the shared state of all of them; KSeF's state is shared too and can only
be observed by polling.

Contracts. Services and activities are written against collaborator contracts
(`Protocol` classes, "Expected repository contract" docstrings). Several of
the methods they name are not in the concrete repositories and clients of this
commit (`update_retry_state`, `mark_dead_letter`, `list_retry_candidates`,
`create_submission_if_absent`, `mark_submission_reconciled`, ...), and no code
in the repository starts a workflow or calls `RetryService`. The models take
each contract as named by its caller: a method called `..._if_absent` creates
a row once per workflow id, an `update_...` writes the values it is given.
Lists (`list_..._candidates`, `load_pending_...`) may contain any rows up to
their limit, with their state at the time of the call: which rows a repository
chooses, and in which order, is not in this repository, and the callers filter
again, item by item.

## 2. Modules

| Module | What it is |
|---|---|
| `KsefGateway` | KSeF as the code sees it: sessions and documents with their senders |
| `SendInvoiceOnline` | the submission workflow, its activities, attempts and late calls; EXTENDS `KsefGateway` |
| `InvoiceDelivery` | abstract: what the caller of a submission, or of a status request, is promised; implemented by `SendInvoiceOnline` and by `InvoiceSubmission` |
| `ReconcilePending` | the reconciliation workflow beside submissions; EXTENDS `SendInvoiceOnline` |
| `RetryService` | the passes of the retry service |
| `LocalSessions` | session rows and the requests that open, reuse, close and poll sessions; EXTENDS `KsefGateway` |
| `InvoiceSubmission` | submission rows and the requests that submit, resubmit and poll invoices, beside those of `LocalSessions`, which it EXTENDS |
| `KsefAuth` | KSeF's authentication: operations, verdicts, tokens, revocation, expiry |
| `AuthService` | the token row under concurrent requests; EXTENDS `KsefAuth` |
| `AuthContext` | the authentication workflows, their activities and attempts; EXTENDS `KsefAuth` |
| `AuditLog` | writing, deleting and listing the audit log |
| `TaxIdentifiers`, `InvoiceEncryption`, `KsefClient` | the stateless parts, as operators |
| `SendInvoiceOnlineProofs`, `ReconcilePendingProofs`, `RetryServiceProofs`, `InvoiceSubmissionProofs`, `AuthServiceProofs`, `AuthContextProofs`, `AuditLogProofs`, `AlgorithmProofs` | theorems and proofs |
| `MC...` and `*.cfg` | instances for TLC |

### SendInvoiceOnline

`pc[w]` is `_current_step` of execution `w`, refined so that each awaited
activity is one step: `audit_started`, `audit_completed` and the two handler
steps `mark_failed`, `audit_failed` have names of their own. `submitted`,
`sref`, `iref`, `final`, `cancel` are the fields of the workflow; they are
durable and change only when an activity's answer reaches the workflow. `tries`
counts failed attempts of the current activity and `polls` the iterations of
`_poll_invoice_status`. `rowStatus`, `rowSession`, `rowDoc` are the columns of
the submission row, `audit` its event types.

An activity is one action when it succeeds. Otherwise
  - `AttemptFails`: an error, or a crash of the worker before the call;
  - `AttemptRefused`: an error type in `non_retryable_error_types`;
  - `AttemptTimesOut`: the attempt is given up at `start_to_close_timeout`, or
    its answer is lost; its call stays in `late` and may take effect at any
    later moment (`LateCall`), before or after the retry. This covers a crash
    of the worker after the call.
After `MaxAttempts` (5 in `models/common.py:28`) the handler runs if the id of
the row is known, else the run fails; an error of the handler itself, a cancel
seen by the loop and the end of the polling range are `ApplicationError`s that
nothing catches (`aborted`).

KSeF's answers to an open or a send may have no `referenceNumber`: the contract
requires one, but an empty 2xx body is read as `{}` (`base_client.py:235`) and
the activities return what the client returns
(`session_activities.py:47-59`, `invoice_activities.py:115-128`). The workflow
indexes the answer at lines 117 and 161, so its own code raises a `KeyError`.
That is no `ActivityError` and no attempt limit applies: `worker.py` names no
`workflow_failure_exception_types`, so the workflow task fails and Temporal
repeats it on the same history without limit (`AnswerWithoutReference`, step
`stuck`). `Stopped` is an end or this. What an earlier, given-up attempt sent
may still take effect.

`load`, `validate`, `ensure_auth_context`, `build` and `encrypt` write nothing
that the properties speak of and share one action, `LocalActivity`. Sleeping
takes no step of its own: any other step may come between two polls.

KSeF judges documents and expires sessions by itself. It accepts at most one
copy of an invoice; further copies end with 440. An answer to a status request
is a code and the field `isTerminal`, as `_is_terminal_status` and
`_normalize_terminal_status` read them. The code is 150 while the document is
processed, 200, 440, or 430 for every other refusal; it may be missing
(`None`), and a document in process may have one that the workflow does not
know (160). `isTerminal` is in no contract and the workflow obeys it all the
same (lines 299-300), so it may be absent, true or false beside any code.
`lastStatus` keeps the answer that ended the polling. A run that ends on
"processing" was answered with `isTerminal` and a code of a document in process.
`Delivery` maps a completed run to `InvoiceDelivery`: "accepted" is a delivery,
"failed" a refusal only when the answer had a listed code, and every other end
claims nothing.

### ReconcilePending

One run beside the submissions. `load_pending...` returns any set of at most
`Limit` rows not yet reconciled, with their statuses; the loop then takes the
items in any order (the query orders nothing the model could rely on), marks
those whose loaded status was accepted or failed, and swallows failed marks.
Marks are retried and may arrive late like all other calls.

### RetryService

`pc[w]` is the place of worker `w` in its pass: the lists it reads, the next
item, and inside an item the awaited calls in their order - store the count,
call, audit, and in the except clause audit, mark as dead letter, audit. A
record is what was read of a row: status, count, due time. The three
`_process_..._candidate` methods have the same shape and are one set of
actions over tasks `[op, row]`: a submission has a retry task and a poll task
with a counter each, a session a poll task. `local_status` is abstracted to
unsent, sent, final (accepted, rejected, closed, failed) and dead_letter. A
list holds at most `ListLimit` rows (100 by default), which may be any, or none
although there are rows (`Lists`).
`Resubmit` and `Poll` stand for the calls of other services by their effects
on the row; `WriteFails` is a database error inside the try block, `PassAborts`
a crash or an error outside it, which ends the pass. Rows are created at time
0 and `Tick` advances the clock.

### LocalSessions and InvoiceSubmission

One company and its concurrent requests. A request `c` is one call of a
service method: `op[c]` what it was made for, `pc[c]` its next await, `held`,
`dref`, `target`, `answer` its local variables. Between two awaits nothing of
other requests can happen, so one await is one step. `local[s]` is the status
of a session's row; `rowStatus`, `rowSession`, `rowDoc` are the columns of a
submission row, named by the request that creates it.

`FindSession`, `OpenRemote`, `PersistOpened` are `open_online_session` of
`SessionService` and `_load_or_open_session` of `InvoiceService`, which do the
same; `AfterSession` says where the request goes on. `close_session` closes at
KSeF and then in the row, polls read a status and then store it. A step that
raises, a missing token, or a crash ends the request (`SessionStepFails`,
`SubmissionStepFails`); calls to KSeF may have had their effect all the same
(`SessionAnswerLost`, `SendFails`, `DiesAfterSend`). Only `submit_invoice` has
a handler, for a failed send.

KSeF's answer to a send may have no reference:
`_extract_invoice_reference_number` then gives `None`, which is stored
unchecked (`invoice_service.py:206-218`, 303-314). The row says "sent" or
"resent" without a document, and a resubmission loses the reference of the
first send by it; a poll of such a row raises, so it begins no request. An
open without a reference is refused. A status answer without a code, or with
one that the service does not know, is "processing" for `StatusService`.

The two services name different methods of their repositories for the same
purpose (`get_reusable_online_session` and `get_open_session_for_company`,
`create_from_remote` and `save`); both are taken as the code of
`session_repository` does it. At this commit `SessionService` passes
`upo_reference_number` to `KsefSession`, which has no such field
and refuses unknown ones (`session_service.py:180-193`,
`domain/models/session.py:33-44`, `domain/models/auth.py:23`): there, an open
fails after KSeF opened the session. That
outcome is in the model (`SessionStepFails` at `persist`), the others are what
the service is written to do.

`Delivery` maps the status requests (`poll_invoice_status`) to
`InvoiceDelivery`: the invoice asked about is that of the row, and the answer
what `StatusService` returns; requests of the other kinds end with "unknown",
as they return no verdict. A status request is answered from the document its row
names, which another request may replace while KSeF is asked; so "delivered"
is said of the invoice, not of the copy that the row names in the end.

Not in the model: batch sessions (same steps, no document is sent in one),
downloads of UPOs (they write a column nothing reads), and the readers.

### AuthService

`row` is the one row of `ksef_tokens` for a company and environment; the
unique constraint allows no second one. A request `c` is a call of `redeem`,
`refresh`, `revoke` or of the services' `_get_valid_access_token` (`use`), and
`pc[c]` its next await. A login stands for its refresh token, so the tokens of
a row belong together when the access token was issued for its login.
`TokenRepository.save` is three awaits - select, commit, reload - and what a
commit does is written as the ORM does it: an UPDATE names only the columns
that differ from what was loaded (`Update`), and fails when the row is gone;
an INSERT fails when another request inserted first (`CanWrite`). A delete
that finds its row gone deletes nothing. Any await may raise, with or without
its effect (`Answered`, `StepFails`).

`_initialize_token_auth` and `_initialize_xades_auth` differ only in what they
send. Columns for expiry are `until` (of the refresh token, which a refresh
keeps from its own read) and, for the access token, the token itself, as the
two always change together. The column `refresh_token` is nullable and `revoke`
falls back to the access token without one (`auth_service.py:220`); the
contract requires a `refreshToken` in every answer to a redeem, and a refresh
keeps the stored one, so the row always has one here.

### AuthContext

An execution is one of the two workflows, or the ensure step of a submission:
one activity with its attempts. An attempt is the pair of execution and
number; attempts that were given up go on beside their successors (`GiveUp`,
at most `MaxLate` at once). What an attempt did before it failed stays done.
`polls * POLL_INTERVAL_SECONDS` is the least time an attempt has slept, so an
attempt that has slept as long as `MEDIUM_ACTIVITY_TIMEOUT` is not the awaited
one any more (`InTime`); `TimeoutAssumption` is 40 * 3 s >= 2 min.
`_has_valid_access_token` and `_can_refresh` look at stored times only:
`expired` and `lapsed` are the tokens for which those have passed. Errors of
the types in `non_retryable_error_types`, or flagged so, end the execution;
others lead to another attempt. Repository and client are the protocols of
`auth_activities.py`. Contexts without a refresh token, and the error
`RefreshTokenMissing` (`auth_activities.py:231-233`, 274-280, 340-341), are
left out for the same reason as in `AuthService`.

### AuditLog

A writer is a database session with a change of its caller's own in it
(`work`). `create` commits everything in the session, or flushes only; when
the write fails it rolls everything back. `log_auth_event`,
`log_security_event` and `log_webhook_received` do not hand a commit flag to
`create` (the first two take one and drop it): `AlwaysCommits`. Deletion and
paging have no caller in `src/`; a job and a reader stand for the callers they
are written for. `created_at` is the time of the flush, different for any two
entries. `event_time` is another reading of the clock, before the awaits that
lead to the flush: up to `MaxLag` entries of others may be written between the
two. Callers of `log_event` may give any `event_time`.

### TaxIdentifiers, InvoiceEncryption, KsefClient

Operators without state; `MCAlgorithms` enumerates inputs as initial states.
Texts, files and replies are records of what the code finds out about them: a
text its leading letters, other letters and digits; a file whether it can be
read and what is in it; a reply its status, body and fields. Ciphertexts and
hashes are named by what went into them, so two are equal only if that is.

Details the abstraction shows, or leaves out:
  - `validate_polish_vat_eu` and `validate_eu_vat_number` accept "PL" with
    letters between ten valid digits, and keep the letters, where
    `looks_like_eu_vat_number` refuses them; country DE accepts a number with
    another prefix; a `tax_identifier` of spaces only counts as given, so
    `vat_eu` and `nip` are not looked at.
  - `validate_nip` accepts digits of other scripts; texts here are ASCII.
  - RSA keys are long enough to wrap 32 bytes (nothing checks it); a content
    that is no whole number of blocks makes `decrypt_content` raise an error
    of the library instead of its own. The constructor's check of the
    configured sizes, PKCS#12 bundles, passwords, and the readiness check for
    XAdES signatures with its private keys, are not modelled: nothing that an
    invoice goes through calls them.
  - A stored key or vector that was exchanged for another one of the same
    length, in valid Base64, passes every check (`encryption_service.py:116-123`
    and the checks of lengths). Damage of this kind is in the inputs; a
    decryption with it is taken not to give what was announced.
  - KSeF does not answer with redirects; a 3xx would be read as an answer.

## 3. Runs

| Run | Checks | Bounds |
|---|---|---|
| `send_one` | type, references, polling, audit trail, verdicts of runs and rows, attempts, stable final status, refinement, every run ends or is stuck | 1 execution, 2 attempts, 1 poll, 1 late call, 2 sessions, 3 documents, answers of every shape, `FairSpec` |
| `reconcile` | type, acceptance, counters | 2 executions of one invoice, 1 session, 1 document, 2 attempts, late marks but no late activity calls |
| `reconcile_stale` | the docstring's claim, violated | 1 execution |
| `retry` | type, sends, dead letters, backoff, a listed overdue row ends | 1 worker, 1 submission, 1 session, lists of at most one row, 2 retries, 1 poll, 2 faults, clock to 3, `FairSpec` |
| `retry_two` | counters within their limits | 2 workers, 1 submission, 2 retries, 1 poll, 1 fault, clock to 3 |
| `retry_final` | terminal statuses stay, violated | 1 worker, 1 submission, 1 fault |
| `services` | type, rows before documents, references, verdicts, rejection only by a copy, closed rows, no second reuse, refinement | 3 requests of any kind, 2 sessions, 2 documents |
| `resubmit` | the docstring of `resubmit_invoice`, violated | 3 requests, 1 session, 2 documents |
| `auth` | type, mixed tokens, revoked and forgotten logins | 3 requests of any kind, 2 logins, 3 access tokens, 2 polls |
| `auth_context` | type, redeemed tokens, timeouts, mixed tokens, revoked contexts | 2 executions of either kind, 2 attempts, 1 poll as long as the timeout, 1 attempt given up, 2 logins, 3 tokens |
| `algorithms` | identifiers, encryption, answers | 63 062 inputs, see below |
| `audit` | commits, paging | 2 sessions, 3 entries, pages of one, no filter, a clock lag of one, clock to 3 |

Why the bounds are enough. Two attempts and a late call let a retry succeed
while the given-up call is still on its way, and let it arrive at any time
after. With one poll the first is the last, and a second is forbidden; polls
keep nothing but their count. Two executions of one invoice are run beside a
reconciliation only; that references and verdicts of executions do not mix is
shown by the theorems, which hold for any number. Two attempts in `reconcile`
let a mark be given up, retried and still arrive. `send_one` has as many
sessions as attempts, and one document more, so KSeF never runs out of them
before the attempts end; only in the reconciliation runs is there one session
and one document, so that of two executions one gets through and the other
fails, which gives the list its accepted and its failed row. A list of one row
that may be empty leaves a row out, as one of a hundred does when there are
more; two workers on one row are the overlap in which the second counts from a
stale record. A limit of two makes a first, a last and a forbidden attempt; a
clock one past the timeout shows both sides of the strict comparison, and the
cap of the delay is reached at the second attempt. Bounds of the model are
`MaxLate`, `MaxTime` and `MaxFaults`; `MaxAttempts`, `MaxPolls`, `Limit`,
`RetryLimit`, `PollLimit`, `Base`, `MaxDelay` and `Timeout` are settings of the
program, made small.

Three requests are a submission and any two others that overlap it and each
other; two sessions let a resubmission use another session than the row names.
Two polls stored out of order show that they cannot turn an accepted row into
a rejected one; that a resubmission and two polls can takes four requests,
which is more than the run has and what `RejectedByCopy` proves of any number.

Three requests on the token row are the most that one of its hazards needs: a
login, and two that overlap on its row (or a login that overlaps a revoke of
an earlier one). Three access tokens are one for each. Two executions of two
attempts let a given-up attempt write after another execution has replaced the
context. With one poll per attempt and a timeout of one interval the loop ends
exactly when the attempt is given up, as 40 polls and two minutes do. Pages of
one entry and three entries show one entry read, one deleted and one skipped.

`algorithms` takes 1399 valid NIPs with every digit mistyped and every pair of
neighbours swapped, numbers of every country and of every length around the
limits, contractors with every combination of eight identifiers, files in every
state, contents of 0 to 33 bytes (around the first two block boundaries) whose
bytes are 0, 1 or 16, stored material kept, lost, garbled, cut or exchanged
(key and vector each), and every method of the client with every kind of reply.

What nothing orders is symmetric: the executions of `reconcile`, the requests
and references of `services` and `resubmit`, the requests, executions, logins
and tokens of the two authentication runs, the workers of `retry_two`, the
sessions and entries of `audit`. `send_one` and `retry` check liveness and use
no symmetry.

Deadlock is not checked in the runs of workflows and services
(`CHECK_DEADLOCK FALSE`): an execution or a request that has ended takes no
step. It is checked in the retry runs, where a worker can always begin a pass.

Fairness. `send_one` assumes `WF(Run(w))`: Temporal schedules the next
attempt of a running workflow; it assumes nothing of success, of the shape of
answers, of KSeF's verdict or of late calls. Its safety properties do not
depend on it. `retry` assumes `WF(Continue(w))`: a pass that has begun goes on,
or crashes, at most `MaxFaults` times. It does not assume that anybody begins
a pass, since nothing in the repository does, that time passes, or that a row
is ever listed. So `OverdueRowEnds` speaks of a row that a pass has in its
list after the deadline.

### What the runs show

  - A row or an answer says accepted only of the very document that KSeF
    accepted, whatever is retried or late. The price, visible in the model, is
    in the other direction: a row may say failed although its invoice was
    accepted, when attach, close or an audit fails after the send, or when a
    retried send ended as a duplicate of an accepted copy. `InvoiceDelivery`
    states exactly that much: "refused" is claimed only when KSeF refused some
    copy, and a failed run claims nothing.
  - The final status of a run is KSeF's verdict when the answer has the shape
    of the contract. An answer without a code, or with one that is not listed,
    ends the polling as "failed" before KSeF has judged, and one with
    `isTerminal` may end it as "processing"; "accepted" is right all the same.
  - A run whose open or send is answered without a reference is stuck: it
    neither ends nor fails, and only a late call still changes its row.
  - A final row status is overwritten only by the handler or a late call.
  - `reconcile_stale`: rows are reconciled with the status they had when the
    list was loaded, not with their local state.
  - Counters are safe with any number of workers because the limit is compared
    with the same record the new value is computed from; sends, backoff and
    dead letters are not, which is why those properties are stated for one
    worker.
  - Rows whose last attempt was cut short by a crash are skipped by every
    later pass; only the deadline ends them, in a pass that lists them. A row
    that no list holds stays as it is: with more candidates than the limit,
    that depends on the order a repository chooses.
  - `retry_final`: a success whose audit fails is handled like a failure and,
    at the limit, turns a final row into a dead letter.

  - The services never lose track: whatever fails, KSeF has no document
    without a submission row and a session row. What may be missing is the
    reference of the document in its row, also in a row that says "sent": the
    services store an answer without a reference as it is.
  - `resubmit`: an accepted submission can be resubmitted. `RejectedOnlyByCopy`
    says that this is the only way from accepted to rejected: polls stored
    out of order cannot do it.
  - A poll of an open session stores "processing", so the session is not
    reused any more and the next submission opens another one; session rows
    may lag behind KSeF but never say closed too early.
  - The token row is not always right, and `auth` says when: two saves that
    overlap may leave the access token of one login with the refresh token of
    another, as unchanged columns are not written; a refresh that KSeF answered
    before a revoke may bring the revoked login back; and a revoke deletes
    whatever row it finds, which may be that of a later login. Nothing else
    does any of this. A revoke whose answer is lost leaves a row that no later
    revoke can remove, as KSeF refuses to revoke twice.
  - The expiry of a stored access token is never compared, although the
    docstring of `_get_valid_access_token` promises it
    (`session_service.py:426`): the names looked up at 454-458 are not those of
    the domain model (`domain/models/auth.py:40`). The model's `use` therefore
    takes a token as it finds it; the services send expired ones, and KSeF
    refuses them.
  - Tokens that were redeemed and not stored are lost with their attempt: the
    next attempt logs in again. A context whose login was revoked makes every
    attempt fail until its refresh token lapses (`RevokedContextStays`), and
    the error `AuthenticationTimeout`, meant to be final, is never heard: the
    attempt has been given up by then and another login begins
    (`TimeoutErrorUnheard`).
  - Writing to the audit log may commit its caller's unfinished work, but only
    when a commit was asked for or the method is one that drops the flag.
    Paging is complete unless an older entry is deleted meanwhile that was
    listed before a younger one, by an event time its caller gave or because
    the clock readings of the two overlapped.
  - An invoice is read by KSeF as it was announced when its material was kept,
    and refused before the send when the material is incomplete, garbled or of
    another length. With another key or vector of the right length the code
    sends what KSeF cannot read.
  - A caller of the HTTP client may believe an answer that carries a reference,
    a token or a status, and an error with a status of KSeF. An empty 2xx body
    is an answer without a reference: `SessionService` refuses it,
    `InvoiceService` stores it, and the submission workflow is stuck on it.

## 4. Proofs

`tlapm` checks the eight proof modules. Constants are arbitrary, under the
named assumptions of the modules (`NoneAssumption`, `WorkflowAssumption`,
`RetryAssumption`, `DelayAssumption`, `SubmissionAssumption`,
`LoginAssumption`, `AuthAssumption`, `ContextAssumption`, `TimeoutAssumption`,
`AuditAssumption`).

`SendInvoiceOnlineProofs`. The invariant `IInv` adds to the types what each
step of a run may rely on: which references are set by which step (`StepInv`),
that the reference kept is of a document sent by this execution in the session
kept (`ReferenceInv`), what a call in `late` may still do (`LateInv`: its
argument is the value the run had, and by then fixed), and what is known of
documents (`DocumentInv`). `StatusVerdict` says what reading an answer of any
shape gives, and `ReferenceInv` keeps it for `lastStatus`, `final` and the
verdict of the document, which no later step changes. The invariant is needed
because the properties speak of the row, and a late write of the row is only
harmless if its argument can be traced back to the run. One lemma per action
shows that `IInv` is kept; `IInvImplies` gives the properties.
`FinalStatusStays` and `AuditTrailCorrect` use a further invariant each
(`StatusInv`, `AuditInv`).

`AttemptsCorrect` counts: the sessions an execution has opened and the
given-up calls that may still open one are together no more than the attempts
it has used up (`AttemptInv`), and likewise for documents. Each step is one of
four kinds (`Accounted`): nothing new, an attempt more, a call given up, a
given-up call that takes effect, which only moves from one set to the other.
The bound holds because a given-up call takes effect at most once.

`DeliveryImplemented` shows the refinement: the verdicts on documents map to
verdicts on invoices, the last step of a run to the answer, and all other
steps to stutters (`OutcomeStep`, `StepRefines`).

`RunsAreBounded` is the safety half of `EveryRunEnds`, for any settings. Every
step of an execution has a rank (`StepsAfter`), a poll still to come counts two
more while the loop is ahead or running, and each step has `MaxAttempts`
attempts, of which `tries` are used up. What is left (`AttemptsLeft`) is at
most `(18 + 2 * MaxPolls) * MaxAttempts` and nothing exactly when the run has
ended or is stuck (`BudgetCorrect`); each step or failed attempt of the
execution makes it less, and neither KSeF, nor a late call, a cancellation or
another execution makes it more. What TLC adds is the fairness by which an
execution takes its steps.

`ReconcilePendingProofs` keeps `IInv` of the executions beside the run: a mark
writes "accepted" only where the verdict is, because an execution takes its
verdict once (`VerdictStays`) and so an item of a stale list that says
accepted is right for ever (`ItemsInv`). For the counters, the submissions of
the list are different and not reconciled (`ListInv`), so that each counted
update is a row of its own; the rows that are reconciled but not counted are
those of late marks, which need a counted failure or the mark at hand
(`CountInv`). The theorems on counters assume that there are finitely many
executions (`IsFiniteSet(Client)`), as `Cardinality(Client)` bounds them.
A step of the composition is a step of the executions or changes nothing of
theirs but the statuses of rows (`StepKinds`), so what is proved of
`SendInvoiceOnline` holds beside a reconciliation run too: references,
verdicts, polling, the audit trail, attempts, the refinement and the bound on
steps (`...SurviveReconciliation`, `...SurvivesReconciliation`,
`RunsStayBounded`). `FinalStatusStable` alone does not: a mark writes the
status that it was loaded with.

`RetryServiceProofs` proves the types and the counters for any number of
workers from `IInv`. With one worker, `OneIInv` adds that the records of the
list are the rows as they are (`ListFresh`) and what holds at each step of an
attempt (`AttemptInv`), from which sends, dead letters and backoff follow;
and KSeF gets at most `RetryLimit` copies of a submission (`SendsLimited`).
`PassesAreBounded` is the safety half of a pass's end, for any number of
workers: an item takes at most seven steps, and the lists a pass has still to
read hold at most `ListLimit` records each, so what is left of it (`PassLeft`)
is bounded when it begins, gets less with each of its steps, failed
writes included, and more with nothing else, however many rows there are.
`DelayAssumption` says that the delays of the schedule are numbers: true of
the formula, but the provers know nothing of `^`; TLC evaluates it.

`InvoiceSubmissionProofs` proves every passing property of the service model.
A request writes rows from what it got in earlier steps, so `IInv` says what a
request may rely on at its next step although others have run: the session at
hand for `persist` was opened by this very request and has no row yet, other
sessions at hand have one, an answer "closed" is of a closed session
(`SessionInv`); the document at hand was sent for the row at hand, and an
answer is a verdict KSeF gave on it (`RowInv`). `DocumentsStay` carries these
facts over all steps that send nothing, `ReceiveStays` over a send. What a row
that says "sent" rests on is that its own request sent a document in the
session it names (`SentBy`), whether or not the reference came back. The two
action properties follow from `IInv` and the few steps that write the row.
`DeliveryImplemented` shows that the requests implement `InvoiceDelivery` as
the workflow does. It needs that a verdict is at hand only of a request that
has asked for one (`AnswerInv`) and that documents are copies of invoices
(`DocumentsCopyInvoices`); that the verdict was given is `RowInv`, which also
holds when the row names another copy by now. A request begins, goes on, ends,
or stores a status (`RequestKinds`), and only the last gives a verdict as
answer.

`AuthServiceProofs` proves every passing property of the token row. `IInv`
says what a request has at hand at each step: a login it began itself
(`Private`: nobody else knows its refresh token before it is saved) and tokens
issued for it, or what it read (`Hand`); `Begun`, that logins at hand were
begun.
`RequestKeeps` carries these facts over the steps of the others. That the row
changes by the commit of one request, and which, is `SaveOf` and `DeleteOf`.
Then a commit that did not load a changed row writes a coherent one, and a redeemed login
cannot have been revoked before it was stored, as nobody else knows it.

`AuthContextProofs` proves every property of the contexts. `IInv` adds to the
types the flow of attempts (`Flow`: an attempt past the current one is idle)
and what an attempt has at hand (`Hands`: a login, and a token issued for it);
`StepKeeps` is the part that all steps of attempts share. `TimeoutErrorUnheard`
rests on `TimeoutAssumption` only. Two theorems bound what attempts do although
given-up ones go on: an attempt takes at most `6 + MaxStatusPolls` steps
(`AttemptsAreBounded`, by `AttemptLeft`; `WayOf` lists the ways an attempt can
go), and KSeF never gets more logins than the executions that ensure a context
have attempts (`LoginsLimited`): a login is begun in one place, and the attempt
that began it has it at hand for good (`BegunInv`), so there is an attempt of
its own for each login. The second assumes finitely many executions.

`AuditLogProofs`. `Writes` (entries belong to one writer, what is pending is
its own) gives `NothingWithoutCommit`. `PagingIsComplete` needs `Listing`: an
entry of the first moment that is still there, not yet seen, and preceded by
no deleted one has a rank at or past the offset (`Reading`), since entries
added before it only raise its rank and only a deletion before it lowers it;
and a page that is not full ends the list (`PageIsFull`: ranks are an
injection, so a set of n entries has the ranks 0 to n - 1).

`AlgorithmProofs` proves for every input what the run `algorithms` checks on
some. A change of one digit, or a swap of two neighbours, changes the weighted
sum or the check digit by a number that 11 does not divide (weights and their
differences are none of its multiples): `TypingErrorsAreRejected`. The ways to
one check agree (`LookingIsBeing`), and an accepted Polish contractor has a
NIP whichever of its fields is missing, empty or wrong (`PolishContractors`). A
padding of `PadLength` bytes is what `Unpad` takes off (`PaddingComesOff`), and
material that was exported, damaged and restored is refused if its form is not
right, gives what was announced if it was kept, and otherwise, with another key
or vector of the right length, goes out and cannot be read
(`SentInvoiceComesBack`, for every configuration and content).
`CallersKnow` goes through every method of the client and every reply. The
states of `MCAlgorithms` never change, so its three invariants follow from
these (`IdentifiersCorrect`, `EncryptionCorrect`, `CallersCorrect`).

Model-checked only: the two liveness properties, `EveryRunEnds` and
`OverdueRowEnds`. Fairness speaks of ENABLED, which the prover cannot expand, so
from "each step leaves less to do" it cannot conclude "some day nothing is
left"; the theorems `RunsAreBounded` and `PassesAreBounded` are as far as it
goes. Their formulas (`WithinBudget`, `RunsUseUp`, `PassBounded`,
`PassesUseUp`) are defined beside the proofs and in no run: what they say shows
there in the liveness properties. The workflows of `AuthContext` have no
liveness property in a run, only `AttemptsAreBounded`.

## 5. What is not modelled

  - The batch workflow, `workers/`, `adapters/` and the tests: placeholders.
  - Logging, XML building, mappers, invoice validation, DB declarations and
    routes: conversions and layout with no control of their own. What the
    unique constraints of the tables forbid is in the models that write them.
  - `api/deps.py` and the authentication router call constructors and methods
    that do not exist at this commit; the models start at the services.
  - Exceptions are taken as raised where the code raises them. Those declared
    with `dataclass(slots=True)` and a zero-argument `super()` fail with a
    `TypeError` at their construction on the Python that `.python-version`
    names; the calls end with an error either way.
  - Temporal's own cancellation of a workflow, which the code does not handle.
  - Session encryption material is stored only by a repository that has a
    method `save_opened_session` (`session_service.py:546`), which the one of
    this commit has not; and `InvoiceService` encrypts an invoice without the
    key and vector that `encrypt_invoice_xml` requires
    (`invoice_service.py:557`, `encryption_service.py:256-263`). The models
    take both as their callers are written: in `InvoiceSubmission` an
    encryption is a step that may fail, in `InvoiceEncryption` it uses the
    material that storage returned.
  - The contents of audit entries, and their filters by equality. `event_time`
    is naive UTC and `created_at` aware; the model reads one clock twice.
  - PKCS#12 bundles, passwords, fingerprints, the readiness check for XAdES,
    `core/security.py`, the cryptography itself.
  - Logins without a refresh token, which the contract excludes: a null column
    in `ksef_tokens`, contexts for which `RefreshTokenMissing` is raised.
  - The authentication strategies: builds of one request each.

What could follow: `RetryService` composed with `InvoiceSubmission`, its
abstract `Resubmit` and `Poll` replaced by the requests they stand for;
liveness of the services.
