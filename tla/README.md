# Verification of telegram-saved-organizer

TLA+ models of both sides of the organizer. On the server: durable imports of a
user's Telegram Saved Messages and the leases of the workers that run them
(`ScanJobs`), the streams that report them (`StreamSlots`), the Telegram
connections they depend on (`TelegramLogin`), and the accounts and web sessions
in front of it all (`WebSessions`). In the browser: the import panel
(`ScanProgress`, which implements the abstract `ScanView`), the message list
(`MessagesPage`), the session as several tabs see it (`BrowserSession`), the
page that connects Telegram (`ConnectPage`), and the lists of categories and
tags (`Organization`). TLC checks the models on small instances; TLAPS proves
the theorems of the eight `*_proofs` modules for every instance.

Paths below are relative to `src/`; `service.py` without a directory is
`backend/app/telegram/service.py`.

## The system

A FastAPI application, one or more worker processes and one PostgreSQL
database. The API and the workers share nothing but the database: every
interaction between components is a row that one transaction writes and another
reads. A React front end talks to the API over HTTP and a server-sent event
stream.

| Component | State it keeps | Operations | Talks to |
|---|---|---|---|
| Scan jobs (`service.py`) | `scan_jobs`: state, stop request, lease (owner, expiry), cursor, counts, start time, provenance | `start`, `stop`, `status`, claim, renew, execute a slice, persist a page, save the session, finalize, requeue, release, sweep, downgrade | connection rows, message rows, Telegram |
| Scanner (`scanner.py`) | in memory: offset, counts, stop flag, deadline | one loop of stop check, limits, fetch, previews, `on_page` | Telegram client, the scan job's callbacks |
| Worker (`worker.py`) | none | loop over `process_next_scan_job`, shut down | scan jobs |
| Scan queue (`process_next_scan_job`) | `heartbeat_at`, `created_at` | pick the next claimable job over all users | scan jobs |
| Status streams (`streams.py`, `router.py`) | `scan_stream_slots`: owner, expiry | claim, renew, release, stream | scan jobs, web sessions |
| Telegram login (`auth/service.py`, `client.py`) | `telegram_connections`: state, generation, secrets, challenge | status, start, verify, disconnect | scan jobs, Telegram |
| Accounts (`accounts/service.py`) | `users`: failed attempts, lock; `web_sessions` | register, log in, resolve, revoke, change password, delete | connection, everything owned |
| Rate limits (`abuse.py`) | `abuse_rate_limit_buckets` | consume, prune | called by the routers |
| Messages (`messages/service.py`) | `messages` | list, move, delete (on Telegram and locally) | Telegram, connection, categories |
| Categories, tags | `categories`, `tags`, `message_tags` | create, rename, reorder, delete, assign | messages |
| Categorizer, security, config | none | pure functions, settings | |
| Import panel (`scan-progress.tsx`) | the status shown, requests in flight, an EventSource, a poll timer | refresh, start, stop, full refresh, apply an event | status, start, stop, stream |
| Message list (`messages-page.tsx`) | list, total, URL, search box, selection | load, filter, page, move, tag, delete, in bulk too | messages API |
| Browser session (`auth-provider.tsx`, `client.ts`, `account-settings-page.tsx`) | status and user per tab; one cookie per browser | check, sign in, sign out, delete the account, a 401 of any request | accounts API, the other tabs (BroadcastChannel) |
| Connection page (`connect-page.tsx`) | the connection shown, the request in flight | load, connect, verify, disconnect | login API |
| Organization pages (`use-categories.ts`, `tags-page.tsx`, `categories-page.tsx`, `sidebar.tsx`) | category list per hook, tag list per page | load, create, rename, delete, announce | categories and tags API, the other tabs |
| Presentation (cards, layout, dialogs) | none that lasts | render | |

### What makes it correct, and what is hard about it

* **Scan jobs.** One import per account at a time. A job belongs to at most one
  worker, and a worker that lost its lease changes nothing. The cursor only
  descends and no message is skipped or counted twice over slices, crashes and
  reclaims. Quota and runtime hold over the whole job. A stop ends the job, even
  if the worker is dead. A finished job does not change. Hard: every worker may
  stop between two statements; leases expire under a running worker; `stop()`
  and reconnections come at any moment; three transactions decide in two
  statements; clocks are read before the statements they are used in.
* **Replacement imports.** `clear_existing` marks the rows an import saw and
  deletes the others once the source is exhausted. That deletion must never meet
  a row whose message is still there. Hard: markers survive crashes, are cleared
  by five different transactions, and the deletion runs many slices after the
  marks were made.
* **Connection.** A session of a replaced login is never stored, and no job
  runs under a login it was not started with. Hard: a worker reads the
  connection unlocked, works for minutes, and writes.
* **Status streams.** At most `scan_max_streams_per_user` live slots over all
  API processes; a slot whose stream died is reusable; a stream that lost its
  slot, its web session or its scan stops. Hard: the clock is read before the
  statement that compares with it, a stalled client stops its stream for longer
  than a lease, and the `finally` of a stream may never run.
* **Login.** A challenge ends with its expiry; a Telegram identity belongs to
  one account; a verified connection uses a session of its own identity; every
  change of principal is a new generation and cancels the scans. Hard: `start()`
  and `verify()` hold a row lock across calls to Telegram, `status()` decides
  without one, and the mapper writes only the columns it believes changed.
* **Accounts.** The lockout holds and ends; active sessions stay within their
  bound; an ended session stays ended; a password change ends every older
  session. Hard: requests read their session and user without a lock and write
  later, while others end the session or change the password.
* **Rate limits.** A window counts every attempt once, on both sides of its end.
* **Messages, categories, tags.** A message always has a category of its owner;
  moves, deletions and imports that overlap leave no dangling or wrong rows.
* **Import panel.** Polls, events, refreshes and commands compete for one
  status: an older reply never replaces a newer one, each finish is announced
  once, and the panel ends at the state of the server. Hard: the stream of an old
  scan delivers until an effect closes it, tasks after the new status was set.
* **Message list.** The list is that of the URL, and its messages and total are
  those of the server once the page is at rest. Hard: a load is superseded by
  the next URL; changes patch list and total before, after or while a load is
  under way.
* **Browser session.** No tab stays at its spinner, and the tabs agree with the
  cookie. Hard: checks, sign-ins, sign-outs, 401s and broadcasts overlap, and a
  version decides what is still to be believed.
* **Connection page.** It awaits one answer at a time and takes no other, though
  visits are left with a request under way and effects may run twice.
* **Organization.** A tab shows the lists as they are after the last change it
  heard of. Hard: shared requests that were sent before a change; a local patch
  and a background reload in either order; an answer whose page was left.

`PROJECT.json` lists each hazard at its line.

## Plan

The order followed the weight of what can go wrong: `ScanJobs` with its proofs,
`StreamSlots`, `TelegramLogin` and `WebSessions`, each with its proofs,
then the browser: `ScanView` and `ScanProgress` with the refinement and its
proof, then `BrowserSession`, `Organization` and `ConnectPage`, each with its
proofs, and `MessagesPage`, whose proofs came last. Worth doing next:

1. `ScanQueue`: the order of jobs of several users, and an abstract round-robin
   specification that the heartbeat order implements.
2. `RateLimits`: fixed windows, checked against a sliding count.

The server modules share no variables. `ScanJobs` keeps of the connection what a
scan depends on (usable, generation, whose session), and its environment replaces
and erases it at any time; `TelegramLogin` keeps of a scan the generation and
identity it was started with. Likewise `StreamSlots` sees of a web session and
of a scan only that it ends. The browser modules each contain the part of the
server they talk to, as its answers show it: `ScanProgress` a scan that goes on
by itself, `ConnectPage` the steps of a login, `BrowserSession` the cookie.

Every module with runs has an `MC` module, which gives the constants of its
`.cfg` values and, where it is sound, a symmetry. Definitions commented `Mutant`
are plausible mistakes in the code; they are used by no specification and serve
to see that each property can fail.

## ScanJobs

One account. Constants name the job rows, the worker processes, the highest
message id `N`, the limits of a job, and the bounds `MaxGen` and `MaxFaults`.

| Variable | Code |
|---|---|
| `job[j]` | the row of `scan_jobs`; `live` is `lease_expires_at > now`, `clock` says whether `started_at` is set and `max_runtime_seconds` have passed |
| `conn` | the row of `telegram_connections`: usable or not, its generation, and the generation whose session it holds |
| `row[m]` | the row of `messages` for Telegram id `m`: absent, unmarked, or marked by a job (`last_seen_replacement_job_id`) |
| `worker[w]` | the locals of `process_scan_job` and `SavedMessagesScanner.scan` in one process, the rows its open transaction has locked, and whether a statement with an outdated clock is in flight |
| `starter` | the job that `start()` has read and is about to overwrite |
| `remote`, `top` | Saved Messages on Telegram, and the highest id assigned |
| `steady` | ids in Saved Messages ever since the newest job was created (history, for the properties) |
| `faults` | crashes, shutdowns and failed heartbeats so far |

Every definition has its lines in `PROJECT.json` under `map`.

**Atomicity.** A transaction whose first statement locks the row it decides on
is one action. Two actions each: `start()` over an expired stop (unlocked read,
later write), the erasure of unreadable credentials, the sweep, the requeue and
the release (messages first, job second). What the first statement updated is
kept in `worker[w].rows`: those rows are locked (`RowLocks` blocks every other
writer) and become visible at the commit. Transactions the database aborts, for
instance to break a deadlock, are the failures `Fail`, `DispositionFails` and
`Crash`.

**Time.** Only comparisons with the clock matter, so a lease is live or not and
`Expire` ends it at any moment; while a worker holds it this means that its
heartbeats failed for 90 seconds, and counts as a fault. Code reads the clock
before it sends a statement. `worker[w].late` is a statement whose clock still
found the lease live although it has expired by the time it runs. The second
statement of a requeue always has that freedom (it shares its clock with the
first); `DelayedStatements = TRUE` gives it to heartbeats and dispositions too.

**Abstractions.** A lease owner is a fresh UUID per claim in the code and the
worker here: a worker abandons a job before it claims another, so the name
identifies the claim. `telegram_user_id` changes only with the generation and is
folded into it. `error`, `finished_at` and `completion_reason` are written and
never read by the operations. The branch of the claim for jobs without
provenance is left out: no code creates such a job and the migration that added
the columns ended the old ones. Row contents, categories and previews are left
out; the truncation of a page by the preview deadline is kept. `ClaimCancels`
may meet any cancelled or failed job: which job a worker had selected earlier is
not kept.

### Properties

`OneActiveJob`, `ScannerInStep`, `SessionIsCurrent`,
`ActiveJobUsesCurrentLogin`, `MarkersAreOfTheRunningJob` (invariants);
`TerminalIsFinal`, `PruneSparesSteady`, `ExhaustedMeansImported` (what a step may
never do); `StopEndsTheJob`, `EveryScanEnds` (under fairness). Each is explained
where it is defined. `LeaseMatchesState`, `QuotaRespected` and `CursorDescends`
are proved as well, and used in the proofs of the others.

### Fairness

`Fairness` asks for three things. Every worker that can take a step takes one:
`run_worker` loops for ever and a crashed process is restarted by its
supervisor. A lease that no worker holds runs out, and so does the runtime of a
job: both are clocks. Nothing is assumed of the user, of Telegram, or of which
step a worker takes: a slice may time out each time, and `EveryScanEnds` holds
because the runtime limit is measured from the first claim.

### Runs

| Run | Instance | Shows |
|---|---|---|
| `scan_workers` | 1 job, 2 workers, 2 messages, pages of 1, 2 pages a slice, quota 2, 1 fault, delayed statements | reclaims under a live worker, and termination: a stop is carried out and a claimed scan ends although its worker dies |
| `scan_lifecycle` | 2 jobs, 1 worker, 2 messages, pages of 2, 1 page a slice, 2 generations, 1 fault | a replacement interrupted at any statement and another import after it, a login replaced or erased under a running scan |

Two workers suffice for every race over one lease: the properties speak of an
owner and of one other writer. Two jobs suffice for one active job and its
predecessor or successor. Two messages in pages of one give a first and a last
page, and in pages of two a page the deadline cuts short. Jobs are symmetric in
the safety run. Deadlock is not an error: when every job has ended, the bounds are
used up and no message is left to arrive, the system rests.

### What a reader of the code may not expect

* `_requeue_scan_job` (`service.py:954`) first clears the markers if a stop is
  requested, then sets the state. A `stop()` between the two statements is seen
  only by the second: the job is cancelled and keeps its markers, against the
  comment in `start()` ("A terminal job should never leave a marker behind").
  `MarkersAreOfTheRunningJob` shows why this is harmless: the next replacement
  clears all markers of the user before it begins.
* With a heartbeat delayed past its own lease (`service.py:540`): the sweep
  clears the markers of an expired stop, the late heartbeat revives the job
  before the sweep's second statement, and the sweep commits the cleared markers
  without cancelling. If the worker has passed its last stop check, the
  replacement completes as exhausted and deletes messages it has seen. The
  instance of `scan_workers`, checked for `PruneSparesSteady`, shows it;
  `scan_lifecycle` and the theorem `ReplacementSparesSteady` show that without
  such a delay it cannot happen. Under the same delay `start()` can overwrite the
  result of a late finalize, so `TerminalIsFinal` is checked and proved without
  delays only.
* A requeue locks messages and then its job, the commit of a page the job and
  then messages. The deadlock is the database's to break; the transaction it
  aborts is a failure the model allows at each of these steps.

## StreamSlots

The streams of one account. Constants: the requests, the three settings
(`MaxStreams`, `Lease`, `Heartbeat`) and `MaxDelay`, a bound.

| Variable | Code |
|---|---|
| `slot[i]` | the row of `scan_stream_slots` with that number: owner, and ticks until `expires_at` |
| `stream[s]` | a request: where it is in `claim_scan_stream` or `event_stream`, the slot it tries or holds, ticks to its next heartbeat, whether its web session is active; and the lease it last wrote (history) |
| `scanning` | whether the account's newest scan is active |

**Atomicity.** Each SQL statement is an action: the reclaiming UPDATE, the
INSERT, the renewal, the release. One clock serves a whole claim, so the second
slot is tried with a clock that is older still.

**Time** is relative: `Tick` shortens every lease and lengthens the `age` of
every clock that was read for a statement not yet executed, up to `MaxDelay`.
A stream that waits for its client (a `send` that does not return) is between
two actions and may wait any number of ticks.

**Abstractions.** What is sent, and the polling interval: a poll may follow the
last one at once. The end by `max_events` is a choice at any poll. Owners are
fresh UUIDs in the code and the requests here.

**Properties.** `LiveLeaseIsHeld`: no running lease is taken. `StreamLimit`. It
counts streams with a running lease; a stream whose client is stalled may stay
open beyond it until its next heartbeat, where `LostStreamEnds` says that it
ends, and `RevokedStreamEnds` the same of a stream whose web session is over.
`DeadSlotsRefuseNobody` is proved only: every slot a request passes over was
leased when the request came. That is a statement on each slot, not on all at one
moment: a request may be refused although at each moment one slot was free.

**Fairness.** `FairSpec`: the event loop runs every request on, which includes
that a `send` to a stalled client returns or fails in the end, and time passes.
Nothing is assumed of clients, of `max_events` or of the scan.

**Run.** `streams`: 3 streams, 1 slot, lease 2, heartbeat 1, delay 1. Three
streams are one that holds the slot, one that reclaims it and one that is late;
the delay is just short of a lease. Deadlock never occurs: time goes on.

## TelegramLogin

Several users and Telegram accounts, and the requests that overlap.

| Variable | Code |
|---|---|
| `conn[u]` | the row of `telegram_connections`: state, `telegram_user_id`, telephone, session, the pending challenge and whether it has expired, `password_required`, generation, whether the ciphertexts can be decrypted |
| `lock[u]` | the request whose transaction holds that row `FOR UPDATE` |
| `req[r]` | the locals of `status`, `start`, `verify` or `disconnect`: its Telegram client's key, the row as read, the row to be committed |
| `owner[k]` | on Telegram: the account that authorization key is logged in to |
| `scan[u]` | generation and identity of the user's active scan |

**Atomicity.** `start` and `verify` keep the row lock from their first read to
their commit, and each call to Telegram in between is an action of its own, so
Telegram, the clock and other users move during it. `status` reads without a
lock and writes later; so does `start` once it has committed an invalidation.
`Write` is the UPDATE of the mapper: the columns that differ from what was read,
the others as they are by then. The uniqueness of `telegram_user_id` is checked
twice, by a query and by the index at the commit; both are modelled.

**Abstractions.** A user without a row is one whose row is blank. `api_id` and
`api_hash` are stored, read and erased with the session and folded into its
key. The telephone number and the Telegram account it belongs to are one value.
Wrong codes change nothing here and are `Fail`. The requests `StartScan`,
`LoseAuthorization` stand for the operations of `telegram/service.py` and
`telegram/client.py` that check or erase the connection under its lock.

**Properties.** `SessionMatchesIdentity` (a verified connection never works with
the session of another Telegram account), `PrincipalsHaveGenerations` (a change of
principal is a new generation), `LogOutSparesConnected` (no log-out ends the
session of a verified connection).

| Run | Instance | Shows |
|---|---|---|
| `login_races` | 1 user, 2 Telegram accounts, 2 keys, 2 requests, 4 generations | a change of account in the middle of any other request |
| `login_identities` | 2 users, 1 Telegram account, 2 keys, 2 requests, 2 generations | two users verify the same account |
| `login_erased` | 1 user, 1 account, 1 key | violated: see below |

Two requests suffice for a race: each property concerns one writer and one other
that has read before it. Four generations let a connection be verified, replaced
and invalidated. Deadlock is not an error here: the model rests when the
generations and the keys are used up.

* `login_erased`. `status()` sees an expired challenge without a lock. If a
  `verify()` that had locked the row in time commits now, `status()` erases the
  session just authorized. The row ends disconnected and still bound to its
  Telegram account, since the mapper does not write a column that was empty when
  `status()` read it; the next `status()` takes it for corrupt.
* `_invalidate_corrupt_connection` (`auth/service.py:217`) commits and thereby
  drops the lock under which `start()` goes on. It can overwrite a newer
  generation with the one it computed, which gives an older number to a new
  login. `PrincipalsHaveGenerations` holds nevertheless: the number differs from
  the one it replaces whenever the principal does.

## WebSessions

One account: its password, lockout and web sessions.

| Variable | Code |
|---|---|
| `user` | the row of `users`: how often the password changed, `failed_login_attempts`, `locked_until` |
| `lock` | the log-in that holds that row `FOR UPDATE` |
| `session[s]` | the row of `web_sessions`: revoked, past its idle expiry, past its expiry; the password it was issued under and whether it was ever past an expiry (history) |
| `req[r]` | a request: a log-in with the user it read, or one that came with a session |
| `tried` | wrong passwords since the last log-in or lockout (history) |

**Atomicity.** `login` locks the row before it verifies the password.
`resolve_session` reads without a lock, then writes `last_seen_at` and the idle
expiry in a transaction of its own. `change_password` flushes the new hash
before it ends the sessions, so the row lock of that UPDATE makes the rest one
action; `delete_account` likewise. The selection of the sessions to keep and
the commit of a log-in are one action: a session touched in between changes
neither the count nor what is revoked.

**Abstractions.** The lockout is counted in units of its first delay, 30 s; the
delays 1, 2, 4, 8, 16, 30 are those of the code. An expiry is past or not, and
`Lapse` passes it at any time. Which sessions a log-in keeps is a free choice
(the code keeps those seen last). Rows old enough to be pruned are any revoked
or expired ones that no request has in hand. No code clears `is_active`.

**Properties.** `SessionLimit`, `SessionsAreOfThePassword`,
`EndedSessionsStayEnded`, `AttemptsAreLimited`, `LockoutHolds`, each explained
where it is defined. `LockoutsStayShort` is proved only.

Three things a reader of the code may not expect:

* A touch that commits after its session has run out revives it. A log-in in
  between did not count that session, so for a while one more than
  `TSO_MAX_ACTIVE_SESSIONS` may be active; `SessionLimit` leaves such sessions
  out.
* Every completed lockout resets the count of attempts. The exponent of the
  delay is therefore always 0: `LockoutsStayShort` says that no lockout is
  longer than 30 s, and `LOGIN_LOCK_MAX_SECONDS` is never reached.
* Two overlapping `change_password` with the same old password both succeed, as
  each has verified it before the other commits. The sessions left are those of
  the last one.

**Run.** `web_sessions`: 4 sessions, 2 requests, threshold 2, at most 2 active
sessions, one password change. Four sessions are a full account, one to be
issued and one that ended; a threshold of 2 tells the first failure from the one
that locks. No fairness is stated: the model has no liveness property, since a
lockout ends by the clock alone.

## ScanView and ScanProgress

One import panel beside a scan of its account. A status reaches the user in three
steps: `setStatus` puts it into the state of the component, a render draws it, and
the effects of that render settle on it: they close and open the EventSource, arm
the timer and announce a finish. `ScanView` is what the panel promises about these
steps: `server` and `past` are what the server's status is and has been, `shown`,
`drawn` and `settled` how far a status has come. The panel shows only statuses the
server has had, it draws a status only after it settled on the last one drawn, and
a new status does not go behind both the one shown and the one settled on: not to
an older scan, and not from finished back to running.

| Variable of `ScanProgress` | Code (`scan-progress.tsx`) |
|---|---|
| `shown`, `loading` | `status`, `isInitialLoading` |
| `screen` | the last render: the status drawn, and the buttons it turned off (`isBusy`, `isStarting` or `isStopping`) |
| `settled` | the status of the render whose effects ran last |
| `refresh` | the one `refreshStatus` in flight (`inFlightRef`): initial, manual or a poll |
| `command` | the start, stop or full refresh in flight, or the look that follows a start that failed |
| `latest` | which request took the newest `statusRequestVersionRef` |
| `stream` | `streamConnectionState`, and the events sent and not yet delivered |
| `timer` | the chain of poll timers |
| `server`, `past` | the status, dated by a sequence number that the code does not have; its history |
| `notices` | how often each finish was announced to the categories (history) |

**Atomicity.** A callback runs to its end and no further. `Render` and `RunEffects`
are steps of their own, for React renders in a later task and runs passive effects
in a later one still, and the browser may deliver an event, an answer or a timer
before either. A render waits for the effects of the one before it, as React does.
A click is drawn with the callback it starts, since React flushes discrete events
at once; what else waits to be drawn may go on waiting, so the model has a few
screens more than React would. A request is three steps: sent, carried out,
received; between the last two anything may happen.

**Abstractions.** `running` stands for pending and running, `done` for the three
final states; counts change the sequence number only. Whether the browser has an
EventSource is chosen at the start. An EventSource reconnects on its own, at any
time after it broke. The effect that follows `streamConnectionState` arms the timer
in the step that changes that state: a timer that is not armed waits for an answer,
which arms it, so it does not matter when.

**Properties.** `RepliesNeverRegress`: no reply to a request replaces a newer
status. An event may, for it was sent before a reply that overtook it; that is
what `KeepsItsPromises` bounds, the refinement of `ScanView`.
`FinishAnnouncedOnce`: when the effects have run for a finished scan, it was
announced, and once. `Settles`: once the server's status stays, the panel draws it
and goes on drawing it.

What a reader of the code may not expect: `onStatus` applies what it is given
(198-217), and only the effect closes an EventSource that other news has outdated
(229). Between a reply that shows the end of a scan and that effect, an event which
the old EventSource still holds shows the scan as running again, and if an older
render was yet to settle, the user sees it. The next event or poll corrects it
(`Settles`). It cannot happen once the effects have run for the finished scan;
that, and no more, is the promise of `ScanView`.

**Fairness.** The poll timer fires, renders and effects run, and every request is
answered or fails, as the browser, React and `fetch` guarantee. Nothing is assumed
of the stream.

**Run.** `scan_progress`: statuses up to number 3, 2 scans, 2 events under way, 1
failure, 2 clicks. Two scans are one shown and its successor. The server's first
status may be a scan under way, so two changes are enough for an event of that scan
that comes after its end was shown, and for its end and the start of another. Two
clicks are a command with a refresh or another command behind it. Deadlock is
checked: polling never ends.

## MessagesPage

| Variable | Code (`messages-page.tsx`) |
|---|---|
| `items`, `total`, `url`, `box` | `messages`, `totalMessages`, the search parameters, the text of the search box |
| `load`, `completed`, `error` | the load whose `AbortController` is not aborted, `hasCompletedInitialLoadRef`, `loadError` |
| `ops` | the changes in flight, each with whether filters were active when it was issued |
| `deleting`, `selected` | `pendingDeleteMessageId`, the bulk selection |
| `stored` | the server's messages |
| `answered`, `raced`, `drift` | history: whose answer is on the screen, which messages were changed by answers that overtook each other, whether the total missed a change |

**Atomicity.** A callback, the render and the effects it causes are one step.
`Follow` is that render: it clamps the page number and, if URL or reload
counter changed, cancels the load in flight and starts another. So the properties
speak of the page after its effects have run; an answer that comes between a new
URL and the effect that cancels its load is not modelled.

**Abstractions.** A filter is a category or a tag; type and order are filters like
these. The search text matches a fixed set of messages. Lists beside the message
list and the dialogs are left out, except for what their buttons disable; so is
the deletion of a message on Telegram, which the server answers with success,
failure or the conflict that leads to a local deletion.

**Properties.** `ListAnswersUrl`: the list shown without a spinner is that of the
URL. `ListIsTrue` and `TotalIsTrue`: at rest, messages and total are the
server's, but for those `raced` and `drift` name. `ComesToRest`: under fairness
(every request ends, the debounce timer fires) the loads end, with box and URL in
agreement.

**Run.** `messages_page`: 3 messages, pages of 2, 2 pages, 2 changes in flight, 1
failure, 3 clicks: the least with which a deletion empties a page, two answers
overtake each other and a load meets both. The theorems below hold for any of
these.

What the exceptions of `ListIsTrue` and `TotalIsTrue` stand for, each an
execution of the model:

* A list that was read before a deletion and arrives after it shows the deleted
  message again, and the total, already corrected, is corrected a second time or
  not at all.
* Whether a change needs a reload is decided by the filters at the time of the
  click (`hasActiveFilters` in the closure): a filter set in the meantime is not
  looked at. Tagging in bulk never reloads.
* Deleting every message of a page while more remain shows the empty state
  although the total is positive (1325-1328). The clamp works with the total as
  shown, so going back to a page that exists again may lead elsewhere (419-431); a
  first load that fails sets the total to 0 and leads to page 1.
* The dialog of a move or a deletion belongs to the message last chosen: the
  answer to an earlier one closes it or shows its error there (678-691, 782,
  822). Dialogs are not modelled.

## BrowserSession

Several tabs of one browser, which share a cookie and tell each other of changes.

| Variable | Code |
|---|---|
| `cookie` | the user of the session that the browser's cookie names |
| `status[t]`, `user[t]` | the state of `AuthProvider` in a tab |
| `check[t]` | the `loadSession` whose version is current |
| `op[t]` | the sign-in, registration, sign-out or deletion in flight, and whether its version is current |
| `call[t]` | an API request of a signed-in page, whose 401 signs the tab out |
| `inbox[t]` | broadcasts not yet delivered |
| `lapsed`, `messy` | history: the session ended and no tab announced it; operations overlapped or an answer was lost |

`requestVersion` is represented by what it decides. Deleting an account is two
requests, the deletion and a sign-out that may find no session. A tab has at most
one operation and one API request in flight; the forms are disabled meanwhile.

**Properties.** `NeverStuck`: a user is shown exactly while signed in, and a
spinner awaits an answer that will be taken. `TabsAgree`: with everything
delivered, all tabs show the user of the cookie, unless operations overlapped.
`ComesToRest`: tabs do not keep each other busy with broadcasts and checks.
Fairness: every request ends and every broadcast is delivered.

**Run.** `browser_session`: 2 tabs, 2 users, 1 failure, 4 clicks. Two users tell a
later sign-in from an earlier one; four clicks are a sign-in and a sign-out in
each tab.

What the exception `messy` stands for: a check sent before a sign-out and
answered after it restores the user signed out; the 401 of an earlier session, or
a late "signed-out", clears a newer sign-in and, with a 401, tells all tabs; a
sign-in outdated by a broadcast leaves its tab with another user than the cookie;
"Try again" that finds nobody tells the other tabs they are signed out; a check
that finds nobody while the account of its tab is being deleted keeps the later
sign-out from being announced; and the sign-out after a deletion ends whichever
session the cookie names by then.

## Organization

| Variable | Code |
|---|---|
| `lists[t]`, `fetch[t]`, `dirty` | the category list of each `useCategories` hook, the request its tab shares (`inFlightCategoryRequest`), tabs whose effects have yet to run again after a change |
| `page[t]`, `load[t]` | the state of the tags page and its newest `loadTags` (`loadRevisionRef`) |
| `op[t]` | the change in flight; `here` says whether the tags page that sent it is still mounted, whose `setTags` the answer calls |
| `inbox[t]` | broadcasts not yet delivered |
| `categories`, `tags`, `used` | the server: a revision of the categories, the tags, the last identifier given |
| `stale`, `gone` | history: lists that a lost answer left behind, deletions confirmed to the page that asked for them |

A category list is the revision it was read at, or the fallback; what is in it
does not matter to its users. All hooks of a tab run again together. `Navigate`
mounts another page, and the one that is left goes with its list and its load. A
change it sent is carried out all the same and announced by `api/tags.ts`, but its
patch is lost: a tags page opened since has only the announcement. The tag list of a page
is the set of its entries; its alphabetical order is left out. An entry that the
page added on the answer of `createTag` is another one than the entry a load
brings, so that a tag listed twice has two; an update leaves the entries apart, as
`handleSave` keeps the `message_count` of each. No page can hold more than two
entries of a tag: it adds a created tag once, and a load replaces all.

**Properties.** `CategoriesAreTrue`, `TagsAreTrue`: a tab that has heard of every
change and awaits nothing shows what the database holds (or the fallback), each
tag once. `DeletedStaysDeleted`: a tag whose deletion was confirmed to the tags
page that asked for it is never shown again in that tab, whatever loads were under
way, also after the page is left and opened again. `Settles`: loads and broadcasts
end, with no spinner left. Fairness: requests end, broadcasts are delivered,
renders run.

**Run.** `organization`: 2 tabs, 1 tag, 2 names, 2 changes, one change in flight per
tab, and 2 events, each a failure or a navigation: a change in each tab, or two of
one; a page that is left and opened again while its change is under way; a failure
on a page that was just opened.

What a reader of the code may not expect: `createTag` announces the change before
the page appends the tag to its list, so a load served in between, or one already
under way, may show the tag twice until the reload that was announced, and for
good if that reload fails (`tags-page.tsx:113`, 53-60). A deletion whose page was
left is patched nowhere (154): a tags page opened meanwhile, whose load was served
before the deletion, shows the tag until the reload that was announced, and for
good if that fails. A category refresh that
fails replaces a good list by the fallback. A change whose answer is lost is
announced to nobody. Deleting messages announces "categories" only: counts shown
beside tags stay behind.

## ConnectPage

| Variable | Code (`connect-page.tsx`) |
|---|---|
| `mounted`, `shown`, `operation`, `active` | the page is open, `connection`, `operation`, `activeRequestRef` |
| `asks[k]` | a request in flight: of this visit or an earlier one, and whether its id is that of `requestIdRef` |
| `server` | the connection, dated by a number the code does not have |
| `missed` | history: it changed elsewhere, or an answer was lost |

A visit that is left takes no answer, and its requests are carried out all the
same. In development React runs the effects of a new page twice (`OpenTwice`). The
server answers a verification that is repeated after it succeeded with the
account as it is (`auth/service.py:232`).

**Properties.** `BusyWhileAsking`: the page is busy exactly while it awaits the
one answer it will take. `AnswersInOrder`: no answer puts an older state back.
`ShowsTheServer`: a page that awaits nothing shows the connection as it is, unless
it changed elsewhere or an answer was lost. No fairness: nothing is repeated or
awaited but requests.

**Run.** `connect_page`: 3 requests in flight, 3 changes of the connection, 1 lost
or repeated request, 5 clicks: opening, connecting, leaving, opening again twice
over, or a whole login with one visit in between.

The forms stay enabled during a refresh, and a submit is then ignored without a
word. The page is not told of changes elsewhere. A request of an earlier visit may
be carried out after the load of the next one.

## Proofs

### ScanJobs

For any sets of jobs and workers and any bounds:

| Theorem | Property | Assumes |
|---|---|---|
| `TypeCorrect` | `TypeOK` | |
| `OneScanAtATime` | `OneActiveJob` | |
| `LeasesMatchStates` | `LeaseMatchesState` | |
| `ScannersInStep` | `ScannerInStep` | |
| `QuotaHolds` | `QuotaRespected` | |
| `CursorOnlyDescends` | `CursorDescends` | |
| `SessionsAreCurrent` | `SessionIsCurrent` | |
| `JobsUseTheCurrentLogin` | `ActiveJobUsesCurrentLogin` | |
| `MarkersBelongToTheRunningJob` | `MarkersAreOfTheRunningJob` | |
| `ReplacementSparesSteady` | `PruneSparesSteady` | no delayed statements |
| `ExhaustedScansImported` | `ExhaustedMeansImported` | no delayed statements |
| `TerminalJobsAreFinal` | `TerminalIsFinal` | no delayed statements |

All rest on the `ASSUME`s of `ScanJobs`: `NoJob` is no job, `NoWorker` no
worker, a job is not one of the two other values of a row, the bounds are
naturals and the limits of a job positive. The last three also assume
`~DelayedStatements`, without which the first of them is false (see above).

`ScanJobs_proofs.tla`. The inductive invariant is
`IInv == TypeInv /\ LeaseInv`. `TypeOK` alone is not inductive: `left` stays a
natural number only because a fetched page fits what is left, which `WorkerOK`
adds (with: a busy worker has a job, and the page lies below its offset). The
argument for the rest goes through `JobSteps`: whatever the action, a row of
`scan_jobs` is created while none is active, claimed by an idle worker, kept by
its owner, handed back, ended, or advanced by a page. `OneActiveJob` and
`LeaseMatchesState` follow by cases. `ScannerInStep` also needs `ScannerSteps`
(a scanner comes by its cursor and quota at a claim or with a page): no other
worker can advance the row while the owner is unchanged, because a page is
committed only by the owner. `QuotaRespected` and `ScannerInStep` need each
other: a claim computes the remaining quota from a count that has not exceeded
it. `CursorDescends` follows from `ScannerInStep` and the page lying below its
offset.

The second half of the module is about the rows of messages. `RowSteps` is the counterpart of
`JobSteps` for a row of `messages`: it is kept, cleared with the end of the job
that marked it, cleared by the commit of a transaction that locked it, written
by a page, or pruned. `MarkerInv` (only replacements mark) is inductive with it.

Without delayed statements, `PromptInv` adds to `IInv`:

* `HandInv`, `StarterInv`: a job that a worker or `start()` has in hand exists,
  and an expired stop can only become a cancellation (`DeadStaysDead`: without
  delayed statements nothing revives a dead lease).
* `LockInv`: rows locked by a transaction carry the marker of its job, no two
  transactions lock the same row, and the job of a transaction that clears
  markers is stopped for good. Its conjunct `RowsStopped` is the one a delayed
  heartbeat breaks.
* `SteadyInv`: behind the cursor of a job that goes on every steady message is
  imported and, in a replacement, marked by that job; a fetched page holds every
  steady message between its offsets; a slice that came out as exhausted left
  none behind. `HereStays` says that nothing takes an import or a mark from a
  job that goes on; it rests on `LockInv` and on there being one active job.

### StreamSlots

`AccountLimits_proofs.tla`, with the proofs about `WebSessions`, which is why that
module's `WSInit`, `WSNext`, `WSSpec` and `WSTypeOK` are not just `Init` and so on.
The two share the account and no variable. For any finite set of requests and any
positive settings:

| Theorem | Property | Assumes |
|---|---|---|
| `StreamTypesCorrect` | `TypeOK` | |
| `LeasesAreRespected` | `LiveLeaseIsHeld` | |
| `StreamsAreLimited` | `StreamLimit` | |
| `DeadSlotsAreReused` | `DeadSlotsRefuseNobody` | `MaxDelay < Lease` |

The inductive invariant is `TypeOK /\ BeliefInv`: a stream that goes on either
owns its row and agrees with it on the expiry, or has lost it, and then its lease
had run out. `TypeOK` alone does not say whose row it is. `OthersBelieve` is the
step for the streams that do not move: their row is as it was, was not theirs, or
had expired. `StreamLimit` follows as live streams own different rows
(`LiveLeaseIsHeld`), an injection into the slots. `DeadSlotsAreReused` has an
invariant of its own, `TriedInv`: between its UPDATE and its INSERT a request
knows that a row in its slot was leased when it read its clock. A row that
another request puts there in between has at least `Lease - MaxDelay` ticks,
which is where the assumption is needed.

### WebSessions

The second half of `AccountLimits_proofs.tla`. For any finite set of sessions, any
requests and any limits:

| Theorem | Property |
|---|---|
| `SessionTypesCorrect` | `WSTypeOK` |
| `AttemptsLimited` | `AttemptsAreLimited` |
| `LockoutsShort` | `LockoutsStayShort` |
| `LockoutIsKept` | `LockoutHolds` |
| `EndedStayEnded` | `EndedSessionsStayEnded` |
| `PasswordEndsSessions` | `SessionsAreOfThePassword` |
| `SessionsLimited` | `SessionLimit` |

`AccountInv == WSTypeOK /\ HolderInv /\ CountInv` is inductive. `HolderInv`: a
log-in past its first read holds the lock, so the password, count and lockout it
read are still those of the row, and one that issues a session found no lockout
running. `CountInv` ties `failed_login_attempts` to the wrong passwords really
tried: unlocked, they are equal and below the threshold; locked, the lockout is
the first delay, or has run out. `AttemptsLimited`, `LockoutsShort` and
`LockoutIsKept` follow from it. For the sessions, `SessionSteps` sums up every
action: a row is kept, touched, ended, passes an expiry, is new, or is gone; `PasswordSteps` says that a new password ends every row of an old one.
`EndedStayEnded` and `PasswordEndsSessions` follow by cases. `SessionsLimited`
adds `LapseInv` (a session past an expiry counts no more), so that a log-in finds
every session that counts and keeps at most `MaxActive - 1` of them; a
change of password keeps none.

### TelegramLogin

For any users, Telegram accounts, keys, requests and bound on generations, from
`NoneAssumption` and `MaxGenAssumption`:

| Theorem | Property |
|---|---|
| `LoginTypesCorrect` | `TypeOK` |
| `SessionsMatchIdentities` | `SessionMatchesIdentity` |
| `LogOutsSpareConnected` | `LogOutSparesConnected` |
| `PrincipalsChangeGenerations` | `PrincipalsHaveGenerations` |

`SessionMatchesIdentity` alone is not inductive: it says nothing of a key that
a request is about to store. `IInv` adds

* `KeysInv`, `IdentitiesInv`: no two users share a key or a Telegram account;
* `HolderOK`: a request past its first read holds the row's lock and the row still
  has the key, identity and generation that were read, or (`Exclusive`: `start()`
  after an invalidation, which has dropped the lock) its new key is nobody else's
  and not yet authorized;
* `SignInOK`, `CommitOK`: a code is only entered for a pending row, and a row about
  to be committed names the account its key was authorized for, under a new
  generation if the principal changes;
* `LogOutOK`: the key that a disconnect will log out is in no row.

`SteadyInv` shares out the work: a step that gives a row a key only from a
request that holds it (`KeyStep`), authorizes a key only in a sign-in
(`OwnerStep`) and leaves the rows that others have locked alone (`LocksKept`)
disturbs no request that does not move (`UnmovedOK`), so each action is left with
its own request and row. `status()`, which writes without a lock, is harmless to
these properties because all it can write are blanks (`WrittenBlank`).

### ScanProgress

For any bounds:

| Theorem | Property |
|---|---|
| `ScanProgressTypesCorrect` | `TypeOK` |
| `FinishIsAnnouncedOnce` | `FinishAnnouncedOnce` |
| `NoReplyRegresses` | `RepliesNeverRegress` |
| `PanelImplementsView` | `KeepsItsPromises`, that is `View!Spec` |

The inductive invariant `IInv` adds to `TypeOK` and `FinishAnnouncedOnce`:

* `HistoryIsOrdered`: of two statuses the server has had, the later is of the same
  scan or a later one, and a finished scan stays finished;
* `Sourced`: what is shown, drawn, settled on, replied or queued is one of them;
* `NewestIsNotOlder`: the reply to the newest request carries nothing older than
  what is shown, for an event or reply shown since would have outdated it;
* `StreamIsOfTheScan`: an EventSource is open only if the effects last ran for an
  active scan, and its queue tells of no older one.

The last two carry the refinement. A reply follows what is shown. An event may be
older than that, but while it can be delivered the effects last ran for an active
scan, which no event in the queue precedes: it follows what was settled on, though
what is shown may have ended. Once the effects run for that end or another scan, the
EventSource is closed and its queue dropped (`ResubscribedRight`). Every step so
maps to a step of `ScanView` or leaves its variables alone.

### BrowserSession

`BrowserTypesCorrect` (`TypeOK`) and `TabsAreNeverStuck` (`NeverStuck`), for any
tabs, users and bounds. Two conjuncts are added to make them inductive:
`ChecksAreSeen`, a check whose failure changes nothing was not begun from a
spinner, and `OpsAreInOrder`, only a sign-out follows a deletion and only a log-in
is answered by a user. Without them a failed check or a superseded sign-in could
end the last request a spinner waits for.

`TabsAgreeAtRest` (`TabsAgree`), from the invariant `~messy => Agreement` on top
of these, says who still has to learn what:

* `UsersAreTrue`: if the session did not lapse, a tab that shows a user, or awaits
  a check that found one, is right, or has a "signed-out" in its inbox, or the
  sign-out is still in flight (`Knows`);
* `NobodyIsTrue`: a tab that shows nobody, or is about to (`FindsNobody`), is right,
  or has an unread broadcast, or a log-in that succeeded is in flight;
* `CookieGone`: while a sign-out is under way or unread, or a log-in not yet
  served, the cookie names nobody;
* `OpsAlone`: an operation is current, the only one, and starts with no check in
  its tab and no sign-out unread anywhere.

At rest nothing is in flight or unread, so the first two leave only being right.
`messy` records that operations overlapped or an answer was lost (see BrowserSession
above); the theorem says nothing about what comes after that.

### Organization

For any tabs, any names, any finite set of tags recorded at first, and any number
of changes, faults and navigations:

| Theorem | Property |
|---|---|
| `OrganizationTypesCorrect` | `TypeOK` |
| `CategoryListsAreTrue` | `CategoriesAreTrue` |
| `TagListsAreTrue` | `TagsAreTrue` |
| `DeletedTagsStayDeleted` | `DeletedStaysDeleted` |

They assume that the values that stand for no request, a lost one and the fallback
are none of the others. The properties speak of tabs that await nothing; the
invariant has to say what is true while a request is under way:

* `CategoriesAreCurrent`: in a tab that heard of every change and is not about to
  rerun its hooks, a served request carries the current categories, and when there
  is none the lists are current. It is inductive because a change that is heard
  marks the tab `dirty`, and the next request does not join the one in flight.
* `TagsAreCurrent`: the same of the newest `loadTags`. `DispatchOne`: hearing of a
  change always replaces that load, so the page's own patch need not be right.
* `LoadsHavePages`: only an open page loads or lists tags; `SendersAreOpen`: a change
  whose page is still mounted has that page open, so that its patch reaches no other.
* `OpsAreWhole`: a change in flight names a tag with an identifier once one was
  given.
* `Database`: identifiers are unique and never given again; a deletion that was
  answered is done; and an identifier whose deletion was confirmed to its page is
  not in the database, not on its page, not in the answer of its newest load and not
  in the answer to a creation of its own. The last two are why a late answer cannot
  bring a tag back.

`ContainsAppend`, `ContainsTail` and `BroadcastTo` say what a broadcast and its
delivery do to the inboxes.

### ConnectPage

`ConnectTypesCorrect` (`TypeOK`), `BusyMeansAsking` (`BusyWhileAsking`),
`AnswersAreInOrder` (`AnswersInOrder`) and `PageShowsTheServer`
(`ShowsTheServer`), for any bounds. The invariant is

* `BusyWhileAsking` and `NewestIsMine`: the request whose id is current belongs to
  this visit; `ClosedIsBlank`: a page that is left shows nothing and is free;
* `RepliesAreLater`: the answer under way for the newest request is no older than
  what is shown, and nothing is newer than the server;
* `UpToDate`: if nothing was missed, then the awaited answer, or what is shown
  when none is awaited, is the connection as it is.

### MessagesPage

For any finite set of messages, any filters, page size and links, and any number of
changes in flight, clicks and failures:

| Theorem | Property |
|---|---|
| `MessagesTypesCorrect` | `TypeOK` |
| `ListsAnswerTheUrl` | `ListAnswersUrl` |
| `ListsAreTrue` | `ListIsTrue` |
| `TotalsAreTrue` | `TotalIsTrue` |

They assume that "no filter" is neither a category nor a tag, and that the values
that stand for no request, a lost or refused one and a deleted message are none of
the others. The three properties speak of a page at rest, so the invariant has to
say what is true while replies are on their way. A change is `Owing` once the
server has carried it out and until the page sees the reply.

* `Types` is `TypeOK` with `OpsAreWhole`: a reply is one that its change can have,
  without which a patched list would not be a list of messages.
* `Owes`, about the server alone: two owed changes are not about one message, or the
  message is in `raced` (`EndsAreAlone`); what the reply says of a message is what
  the server has, so that patching twice is patching once (`ReceiptsHold`); a
  message is deleted once (`DeletedOnce`).
* `LoadIsOfUrl`: a load in flight is one of the URL, for `Follow` cancels it as soon
  as the URL changes. `ReplyHolds`: its answer is right but for the messages changed
  since it was made.
* `ListHolds`: without a load in flight, a listed message is as stored, or becomes so
  with the one reply it waits for; and it belongs to the filter unless the reply that
  is owed will start a load.
* `TotalHolds`: the total counts what the filter matches and the `Doomed`, the
  deleted messages whose reply is under way. It speaks of the states in which no
  owed change is `Unsettled`: will reload the list, or deletes a message
  that is not listed. A change of a filtered list may take a message out of the
  filter, so the total is wrong until the load that follows; this is why `TotalHolds`
  must look ahead at what the replies will do, and why dropping the reload
  (`ReloadsAfterSingle`) breaks the properties.

Most steps are `Steady`: they carry nothing out, show nothing and at most start a
load, which resets all that is claimed of the screen (`Restarted`). The others are
treated one by one: the server's `Commit`, the end of a load, and the replies that
patch the list (`ChangeArrives`) or shorten it (`DeletionArrives`, where `TakenOff`
shows that the total goes down by exactly the messages that leave it).

### Only model-checked

Liveness, outside the prover's reach: `StopEndsTheJob`, `EveryScanEnds`,
`LostStreamEnds`, `RevokedStreamEnds`, `Settles`, `ComesToRest`. Every invariant and
every action property of a passing run is a theorem. What recursive definitions
compute and `ENABLED` appear in none of them.

## Not modelled

* The order of the queue and rate limits: an own module each would be worth it,
  see the plan. To the modelled requests a rate limit is one more refusal.
* Messages, categories and tags on the server beside an import: the foreign keys
  and the row locks of one statement keep them whole; the SQL of filters, search
  and counts is data without behaviour over time.
* The categorizer, media extraction, encryption, identifiers and configuration are
  pure functions; migrations, deployment and backup scripts run once and alone.
* Dialogs, cards, layout and everything else that only renders.

`components` in `PROJECT.json` has the reason for each part.
