------------------------------ MODULE ScanJobs ------------------------------
(***************************************************************************)
(* Durable scan jobs of one account: src/backend/app/telegram/service.py.  *)
(*                                                                         *)
(* A user starts, stops and restarts imports of the Telegram Saved         *)
(* Messages.  Each import is a row of scan_jobs that any worker may claim  *)
(* under a lease, work on for one bounded slice, and hand back.  Workers   *)
(* crash, leases expire, the Telegram connection is replaced and the user  *)
(* presses "stop" between any two database statements.                     *)
(*                                                                         *)
(* A transaction that takes the row lock of the job (or of the connection) *)
(* before it decides is one step.  The transactions of the code that read  *)
(* without a lock and write later are two steps here: start() over an      *)
(* expired stop, the erasure of undecryptable credentials, and three that  *)
(* update messages first and the job second: _requeue_scan_job,            *)
(* _release_interrupted_scan and the sweep of expired stops.  The message  *)
(* rows stay locked, and nobody sees their new values, until the commit.   *)
(*                                                                         *)
(* Time is kept as the two predicates the code evaluates on it: a lease is *)
(* live while lease_expires_at > now, and a job has spent its runtime once *)
(* started_at + max_runtime_seconds <= now.                                *)
(***************************************************************************)
EXTENDS Integers, FiniteSets

CONSTANTS
    Jobs,              \* identifiers of scan_jobs rows
    Workers,           \* worker processes; a lease owner is one of them
    NoJob, NoWorker,   \* SQL NULL
    N,                 \* Telegram message ids are 1..N
    PageSize,          \* scan_jobs.page_size
    SliceMaxPages,     \* settings.scan_slice_max_pages
    MaxMessages,       \* scan_jobs.max_messages
    MaxGen,            \* bound: connection generations explored
    MaxFaults,         \* bound: crashes, shutdowns and failed heartbeats explored
    DelayedStatements  \* may a statement reach the database after the lease
                       \* that its own, earlier, "now" found live has expired?

ASSUME NoJobAssumption == NoJob \notin Jobs
ASSUME NoWorkerAssumption == NoWorker \notin Workers
ASSUME BoundsAssumption ==
    /\ N \in Nat /\ MaxGen \in Nat /\ MaxFaults \in Nat
    /\ PageSize \in Nat \ {0} /\ SliceMaxPages \in Nat \ {0}
    /\ MaxMessages \in Nat \ {0}
ASSUME DelayAssumption == DelayedStatements \in BOOLEAN

Ids == 1..N
ActiveStates == {"pending", "running", "stopping"}
LeasedStates == {"running", "stopping"}
TerminalStates == {"completed", "failed", "cancelled"}

\* A message id has no local row, an unmarked one, or one that a replacement
\* job marked (messages.last_seen_replacement_job_id).
Absent == "absent"
Unmarked == "unmarked"
ASSUME MarkAssumption == {Absent, Unmarked} \intersect Jobs = {}

VARIABLES
    job,      \* scan_jobs
    conn,     \* the user's telegram_connections row
    row,      \* messages: for each Telegram id its local row
    worker,   \* the local state of each worker process
    starter,  \* the job that a start() has read and is about to overwrite
    remote,   \* ids now in the Saved Messages on Telegram
    top,      \* the highest id Telegram has assigned
    steady,   \* ids in Saved Messages ever since the newest job was created
    faults    \* crashes, shutdowns and failed heartbeats so far

vars == <<job, conn, row, worker, starter, remote, top, steady, faults>>
telegram == <<remote, top, steady>>

JobType ==
    [state   : ActiveStates \union TerminalStates \union {"none"},
     stop    : BOOLEAN,                        \* stop_requested
     replace : BOOLEAN,                        \* replace_existing
     gen     : Nat,                            \* connection_generation
     owner   : Workers \union {NoWorker},      \* lease_owner
     live    : BOOLEAN,                        \* lease_expires_at > now
     cursor  : Ids \union {0},                 \* last_message_id, 0 is NULL
     scanned : Nat,                            \* messages_scanned
     clock   : {"unset", "ticking", "spent"}]  \* started_at and the runtime

\* The phases in which a heartbeat task runs beside the operation.
Beating == {"claimed", "corrupt", "client", "loop", "page", "save"}
Working == Beating \union {"dispose", "requeue", "fail", "release"}

Outcomes == {"none", "stopped", "exhausted", "limit", "runtime", "slice"}

WorkerType ==
    [pc    : Working \union {"idle", "sweep"},
     job   : Jobs \union {NoJob},
     off   : Ids \union {0},     \* the scanner's previous_offset_id
     left  : Nat,                \* what remains of max_messages
     pages : Nat,                \* pages persisted in this slice
     page  : SUBSET Ids,         \* the fetched page
     next  : Ids \union {0},     \* page.next_offset_id
     more  : BOOLEAN,            \* page.has_more
     cut   : BOOLEAN,            \* the preview deadline truncated the page
     out   : Outcomes,           \* completion_reason of the slice
     rows  : SUBSET Ids,         \* rows its open transaction updated and locks
     late  : BOOLEAN]            \* a statement with an expired "now" in flight

NewJob == [state |-> "none", stop |-> FALSE, replace |-> FALSE, gen |-> 0,
           owner |-> NoWorker, live |-> FALSE, cursor |-> 0, scanned |-> 0,
           clock |-> "unset"]

IdleWorker == [pc |-> "idle", job |-> NoJob, off |-> 0, left |-> 0,
               pages |-> 0, page |-> {}, next |-> 0, more |-> FALSE, cut |-> FALSE,
               out |-> "none", rows |-> {}, late |-> FALSE]

TypeOK ==
    /\ job \in [Jobs -> JobType]
    /\ conn \in [state : {"connected", "pending", "down"},
                 gen : Nat, sess : Nat]
    /\ row \in [Ids -> {Absent, Unmarked} \union Jobs]
    /\ worker \in [Workers -> WorkerType]
    /\ starter \in Jobs \union {NoJob}
    /\ remote \in SUBSET Ids
    /\ top \in Ids \union {0}
    /\ steady \in SUBSET Ids
    /\ faults \in Nat
-----------------------------------------------------------------------------
\* The account has logged in to Telegram and may hold rows of earlier imports,
\* among them rows whose message has since been deleted on Telegram.
Init ==
    /\ job = [j \in Jobs |-> NewJob]
    /\ conn = [state |-> "connected", gen |-> 1, sess |-> 1]
    /\ top \in 0..N
    /\ remote \in SUBSET (1..top)
    /\ row \in {r \in [Ids -> {Absent, Unmarked}] : \A m \in Ids : m > top => r[m] = Absent}
    /\ worker = [w \in Workers |-> IdleWorker]
    /\ starter = NoJob
    /\ steady = {}
    /\ faults = 0

Active(j) == job[j].state \in ActiveStates
ActiveJobs == {j \in Jobs : Active(j)}

\* UPDATE messages SET last_seen_replacement_job_id = NULL for the jobs in S.
Marked(S) == {m \in Ids : row[m] \in S}
Unmark(ids) == [m \in Ids |-> IF m \in ids THEN Unmarked ELSE row[m]]
ClearMarkers(S) == Unmark(Marked(S))

\* A write to a message row waits for the transaction that has it locked.
Locked == UNION {worker[w].rows : w \in Workers}
RowLocks == \A m \in Locked : row'[m] = row[m]
LockFree(ids) == ids \intersect Locked = {}

\* The columns a terminal UPDATE writes: the state, and a cleared lease.
Ended(j, state) == [job[j] EXCEPT !.state = state, !.owner = NoWorker, !.live = FALSE]

CancelScansLeavesPending(S) ==          \* mutant: forgets the pending jobs
    /\ row' = ClearMarkers(S) /\ RowLocks
    /\ job' = [j \in Jobs |->
                 IF j \in S /\ job[j].state # "pending"
                 THEN [Ended(j, "cancelled") EXCEPT !.stop = TRUE] ELSE job[j]]

\* _cancel_active_scans: every job in S is cancelled and its markers cleared.
CancelScans(S) ==
    /\ row' = ClearMarkers(S) /\ RowLocks
    /\ job' = [j \in Jobs |->
                 IF j \in S THEN [Ended(j, "cancelled") EXCEPT !.stop = TRUE] ELSE job[j]]
-----------------------------------------------------------------------------
(* TelegramScanService: the requests of the user.  start() serialises on the
   row of the user, which it holds from its first read to its first commit. *)

ConnectionMatches(gen) == conn.state = "connected" /\ conn.gen = gen

\* A stopping job whose lease is dead belongs to nobody any more.
ExpiredStopWithoutOwner(j) == job[j].state = "stopping" /\ job[j].owner = NoWorker  \* mutant
ExpiredStop(j) == job[j].state = "stopping" /\ ~job[j].live

\* No job of the user is active: start() checks it under the lock of the user
\* row, and the index uq_scan_jobs_user_id_active enforces it at the insert.
NoScanPendingOrRunning ==                                   \* mutant: no stopping
    \A j \in Jobs : job[j].state \notin {"pending", "running"}
NoScanActive == ActiveJobs = {}

MarkersKeptAtStart(replace) == row                          \* mutant
MarkersAtStart(replace) == IF replace THEN ClearMarkers(Jobs) ELSE row

\* start() with no active job: validate the connection, clear every marker of
\* the user for a replacement, insert the job.
StartCreate(j, replace) ==
    /\ starter = NoJob
    /\ NoScanActive /\ job[j].state = "none"
    /\ conn.state = "connected"
    /\ job' = [job EXCEPT ![j] = [NewJob EXCEPT !.state = "pending",
                                                !.replace = replace,
                                                !.gen = conn.gen]]
    /\ row' = MarkersAtStart(replace) /\ RowLocks
    /\ steady' = remote
    /\ UNCHANGED <<conn, worker, starter, remote, top, faults>>

\* _validate_authorized_connection finds the authorization gone, unreadable or
\* of another account: the connection is erased and start() fails.
StartInvalidatesConnection ==
    /\ starter = NoJob /\ NoScanActive
    /\ conn.state = "connected" /\ conn.gen < MaxGen
    /\ conn' = [state |-> "down", gen |-> conn.gen + 1, sess |-> 0]
    /\ UNCHANGED <<job, row, worker, starter, faults, telegram>>

\* start() reads, without locking the job, a stopping job with a dead lease...
StartReadsExpiredStop(j) ==
    /\ starter = NoJob
    /\ ExpiredStop(j)
    /\ starter' = j
    /\ UNCHANGED <<job, conn, row, worker, faults, telegram>>

\* ... and writes its cancellation over whatever the row holds by then.
StartOverwritesExpiredStop ==
    /\ starter # NoJob
    /\ job' = [job EXCEPT ![starter] = Ended(starter, "cancelled")]
    /\ row' = IF job[starter].replace THEN ClearMarkers({starter}) ELSE row
    /\ RowLocks
    /\ starter' = NoJob
    /\ UNCHANGED <<conn, worker, faults, telegram>>

\* stop() locks the active job.  A job nobody works on is cancelled at once.
Stop(j) ==
    /\ Active(j)
    /\ IF job[j].state = "pending" \/ ~job[j].live
       THEN /\ job' = [job EXCEPT ![j] = [Ended(j, "cancelled") EXCEPT !.stop = TRUE]]
            /\ row' = IF job[j].replace THEN ClearMarkers({j}) ELSE row
       ELSE /\ job' = [job EXCEPT ![j].state = "stopping", ![j].stop = TRUE]
            /\ row' = row
    /\ RowLocks
    /\ UNCHANGED <<conn, worker, starter, faults, telegram>>
-----------------------------------------------------------------------------
(* The Telegram connection, as far as scans depend on it.                   *)

\* revoke_telegram_connection (disconnect, account deletion), and likewise
\* _invalidate_authorization when deleting a message finds the login invalid.
Disconnect ==
    /\ conn.gen < MaxGen
    /\ CancelScans(ActiveJobs)
    /\ conn' = [state |-> "down", gen |-> conn.gen + 1, sess |-> 0]
    /\ UNCHANGED <<worker, starter, faults, telegram>>

\* TelegramAuthService.start sends a login code: a new generation is pending.
RequestCode ==
    /\ conn.gen < MaxGen
    /\ CancelScans(ActiveJobs)
    /\ conn' = [state |-> "pending", gen |-> conn.gen + 1, sess |-> conn.gen + 1]
    /\ UNCHANGED <<worker, starter, faults, telegram>>

\* TelegramAuthService.verify binds the identity without a new generation.
Verify ==
    /\ conn.state = "pending"
    /\ conn' = [conn EXCEPT !.state = "connected"]
    /\ UNCHANGED <<job, row, worker, starter, faults, telegram>>
-----------------------------------------------------------------------------
(* A worker process: process_next_scan_job and process_scan_job.            *)

Mine(w) == worker[w].job
Lease(w) == job[worker[w].job]

\* The predicate every lease-fenced statement repeats.  The user, the Telegram
\* identity and the generation in it are columns nothing ever changes.
Owns(w) == Lease(w).owner = w /\ Lease(w).state \in LeasedStates
FenceNowAnyOwner(w) == Lease(w).state \in LeasedStates /\ Lease(w).live   \* mutant
FenceNow(w) == Owns(w) /\ Lease(w).live
\* The same predicate with a "now" taken before the statement was sent.
Unfenced(w) == worker[w].job # NoJob                                      \* mutant
FenceThen(w) == Owns(w) /\ (Lease(w).live \/ worker[w].late)

Become(w, r) == worker' = [worker EXCEPT ![w] = r]
Goto(w, pc) == Become(w, [worker[w] EXCEPT !.pc = pc])
Idle(w) == Become(w, IdleWorker)
\* Leaving the operation: of its local state only the outcome is used again.
Leave(w, pc, out) == Become(w, [IdleWorker EXCEPT !.pc = pc, !.job = worker[w].job,
                                                  !.out = out, !.late = worker[w].late])
\* An exception cancels the heartbeat and whatever statement it had in flight.
Raise(w) == Become(w, [IdleWorker EXCEPT !.pc = "fail", !.job = worker[w].job])

\* _terminalize_expired_stopping_jobs, first statement: clear the markers.
SweepMarkers(w) ==
    /\ worker[w].pc = "idle"
    /\ \E j \in Jobs :
         /\ ExpiredStop(j)
         /\ LockFree(Marked({j}))
         /\ Become(w, [IdleWorker EXCEPT !.pc = "sweep", !.job = j, !.rows = Marked({j})])
    /\ UNCHANGED <<job, conn, row, starter, faults, telegram>>

\* Second statement: cancel the job if it still is an expired stop.  Commit.
SweepJobs(w) ==
    /\ worker[w].pc = "sweep"
    /\ job' = IF ExpiredStop(Mine(w))
              THEN [job EXCEPT ![Mine(w)] =
                      [Ended(Mine(w), "cancelled") EXCEPT !.stop = TRUE]]
              ELSE job
    /\ row' = Unmark(worker[w].rows)
    /\ Idle(w)
    /\ UNCHANGED <<conn, starter, faults, telegram>>

\* Where a claim resumes the scan.
ResumeOffset(j) == job[j].cursor

\* _claim_scan_job wins a pending job or a running one whose lease is dead, and
\* takes the cursor and the remaining quota from the row.
Claim(w, j) ==
    /\ worker[w].pc = "idle"
    /\ job[j].state = "pending" \/ (job[j].state = "running" /\ ~job[j].live)
    /\ job' = [job EXCEPT ![j].state = "running", ![j].owner = w, ![j].live = TRUE,
                          ![j].clock = IF @ = "unset" THEN "ticking" ELSE @]
    /\ Become(w, [IdleWorker EXCEPT !.pc = "claimed", !.job = j,
                                    !.off = ResumeOffset(j),
                                    !.left = IF job[j].scanned < MaxMessages
                                             THEN MaxMessages - job[j].scanned ELSE 0])
    /\ UNCHANGED <<conn, row, starter, faults, telegram>>

\* _claim_scan_job reaches a job that was stopped since it was selected: it
\* cancels the job if its lease is dead, clears the markers of a cancelled or
\* failed job, and claims nothing.
ClaimCancels(w, j) ==
    /\ worker[w].pc = "idle"
    /\ ExpiredStop(j) \/ job[j].state \in {"cancelled", "failed"}
    /\ job' = IF ExpiredStop(j) THEN [job EXCEPT ![j] = Ended(j, "cancelled")] ELSE job
    /\ row' = ClearMarkers({j}) /\ RowLocks
    /\ UNCHANGED <<conn, worker, starter, faults, telegram>>

\* _renew_scan_lease.  It changes something only when its "now" is late: a live
\* lease stays live.
Renew(w) ==
    /\ worker[w].pc \in Beating
    /\ FenceThen(w)
    /\ job' = [job EXCEPT ![Mine(w)].live = TRUE]
    /\ Become(w, [worker[w] EXCEPT !.late = FALSE])
    /\ UNCHANGED <<conn, row, starter, faults, telegram>>

\* The heartbeat, the stop check, a page or a session write finds that the
\* lease is gone: ScanLeaseLostError, and the worker drops the job.
LoseLease(w) ==
    /\ worker[w].pc \in Beating
    /\ ~FenceNow(w)
    /\ Idle(w)
    /\ UNCHANGED <<job, conn, row, starter, faults, telegram>>

\* Any other exception of the operation; the job is still to be marked failed.
Fail(w) ==
    /\ worker[w].pc \in Beating
    /\ Raise(w)
    /\ UNCHANGED <<job, conn, row, starter, faults, telegram>>

\* _execute_bounded_scan_slice: the slice and its grace period have passed.  A
\* result is used only once the heartbeat task has ended (~late), here and below.
SliceTimeout(w) ==
    /\ worker[w].pc \in Beating /\ ~worker[w].late
    /\ Leave(w, "dispose", "slice")
    /\ UNCHANGED <<job, conn, row, starter, faults, telegram>>
-----------------------------------------------------------------------------
(* _execute_claimed_scan: limits, connection, authorization.                *)

\* Nothing remains of the runtime or of the quota: no Telegram client is opened.
QuotaGone(w) ==
    /\ worker[w].pc = "claimed" /\ ~worker[w].late
    /\ \/ Lease(w).clock = "spent" /\ Leave(w, "dispose", "runtime")
       \/ worker[w].left = 0 /\ Leave(w, "dispose", "limit")
    /\ UNCHANGED <<job, conn, row, starter, faults, telegram>>

\* The unlocked read of the connection; its secrets open, or they do not.
ReadConnection(w) ==
    /\ worker[w].pc = "claimed" /\ worker[w].left > 0
    /\ IF ConnectionMatches(Lease(w).gen)
       THEN Goto(w, "client") \/ Goto(w, "corrupt")
       ELSE Raise(w)
    /\ UNCHANGED <<job, conn, row, starter, faults, telegram>>

\* The unreadable connection is erased by a write that takes no lock and sets
\* the generation to one more than the generation read before.
EraseConnection(w) ==
    /\ worker[w].pc = "corrupt" /\ Lease(w).gen < MaxGen
    /\ conn' = [state |-> "down", gen |-> Lease(w).gen + 1, sess |-> 0]
    /\ Raise(w)
    /\ UNCHANGED <<job, row, starter, faults, telegram>>

\* is_user_authorized and get_me agree with the lease.
Authorized(w) ==
    /\ worker[w].pc = "client"
    /\ IF Lease(w).clock = "spent"
       THEN ~worker[w].late /\ Leave(w, "dispose", "runtime")
       ELSE Goto(w, "loop")
    /\ UNCHANGED <<job, conn, row, starter, faults, telegram>>

\* They do not: _downgrade_connection, if the generation is still the lease's.
Downgrade(w) ==
    /\ worker[w].pc = "client" /\ conn.gen < MaxGen
    /\ IF conn.gen = Lease(w).gen
       THEN /\ CancelScans({j \in ActiveJobs : job[j].gen = Lease(w).gen})
            /\ conn' = [state |-> "down", gen |-> conn.gen + 1, sess |-> 0]
       ELSE UNCHANGED <<job, row, conn>>
    /\ Raise(w)
    /\ UNCHANGED <<starter, faults, telegram>>
-----------------------------------------------------------------------------
(* SavedMessagesScanner.scan: stop check, limits, one page, its commit.     *)

BelowOffByOne(off) == {m \in remote : off = 0 \/ m < off - 1}             \* mutant
Below(off) == {m \in remote : off = 0 \/ m < off}

\* A page is the newest messages below the offset, down to its next_offset_id.
PageDownTo(next, source) == {m \in source : m >= next}

Capacity(w) == IF worker[w].left < PageSize THEN worker[w].left ELSE PageSize

\* The stop check comes first, then the message limit, then the page limit;
\* the time of the slice may run out at any of its awaits.
StopsHere(w) ==
    /\ worker[w].pc = "loop" /\ FenceNow(w)
    /\ Leave(w, "save", IF Lease(w).stop THEN "stopped"
                        ELSE IF worker[w].left = 0 THEN "limit" ELSE "slice")
    /\ UNCHANGED <<job, conn, row, starter, faults, telegram>>

\* Fetch capacity + 1 ids, drop the extra one, and load image previews until
\* the deadline truncates the page to the messages done so far.
Fetch(w) ==
    /\ worker[w].pc = "loop" /\ FenceNow(w) /\ ~Lease(w).stop
    /\ worker[w].left > 0 /\ worker[w].pages < SliceMaxPages
    /\ LET source == Below(worker[w].off)
       IN IF source = {} THEN Leave(w, "save", "exhausted")
          ELSE \E next \in source :
                 LET page == PageDownTo(next, source)
                 IN /\ Cardinality(page) <= Capacity(w)
                    /\ Become(w, [worker[w] EXCEPT
                         !.pc = "page", !.page = page, !.next = next,
                         !.more = page # source,
                         !.cut = page # source /\ Cardinality(page) < Capacity(w)])
    /\ UNCHANGED <<job, conn, row, starter, faults, telegram>>

\* _persist_scan_page: connection lock, job lock, upsert, fenced progress.
PersistPage(w) ==
    LET page == worker[w].page
        j    == Mine(w)
        left == worker[w].left - Cardinality(page)
    IN /\ worker[w].pc = "page"
       /\ ConnectionMatches(Lease(w).gen) /\ FenceNow(w)
       /\ row' = [m \in Ids |-> IF m \notin page THEN row[m]
                                ELSE IF Lease(w).replace THEN j
                                ELSE IF row[m] = Absent THEN Unmarked ELSE row[m]]
       /\ RowLocks
       /\ job' = [job EXCEPT ![j].cursor = worker[w].next,
                             ![j].scanned = @ + Cardinality(page)]
       /\ IF worker[w].cut THEN Leave(w, "save", "slice")
          ELSE IF ~worker[w].more THEN Leave(w, "save", "exhausted")
          ELSE Become(w, [worker[w] EXCEPT
                 !.pc = "loop", !.page = {}, !.next = 0, !.more = FALSE,
                 !.off = worker[w].next, !.left = left, !.pages = @ + 1])
       /\ UNCHANGED <<conn, starter, faults, telegram>>

\* The connection is another one: a page or a session is refused.
ConnectionLost(w) ==
    /\ worker[w].pc \in {"page", "save"}
    /\ ~ConnectionMatches(Lease(w).gen)
    /\ Idle(w)
    /\ UNCHANGED <<job, conn, row, starter, faults, telegram>>

SaveSessionUnfenced(w) ==                                                 \* mutant
    /\ worker[w].pc = "save" /\ ~worker[w].late
    /\ conn' = [conn EXCEPT !.sess = Lease(w).gen]
    /\ Leave(w, "dispose", worker[w].out)
    /\ UNCHANGED <<job, row, starter, faults, telegram>>

\* _persist_refreshed_session; then the heartbeat task is awaited.
SaveSession(w) ==
    /\ worker[w].pc = "save" /\ ~worker[w].late
    /\ ConnectionMatches(Lease(w).gen) /\ FenceNow(w)
    /\ conn' = [conn EXCEPT !.sess = Lease(w).gen]
    /\ Leave(w, "dispose", worker[w].out)
    /\ UNCHANGED <<job, row, starter, faults, telegram>>
-----------------------------------------------------------------------------
(* The disposition of a slice in process_scan_job.                          *)

Spent(w) == Lease(w).clock = "spent"
RequeuesForever(w) == worker[w].out = "slice"                             \* mutant
Requeues(w) == worker[w].out = "slice" /\ ~Spent(w)

PrunesWhenCompleted(state, reason) == state = "completed"                 \* mutant
Prunes(state, reason) == state = "completed" /\ reason = "exhausted"

\* _finalize_scan_job: the fenced UPDATE locks the job; a replacement that saw
\* the whole source deletes every row it did not mark, then drops the markers.
Finalize(w, state, reason) ==
    LET j == Mine(w)
    IN /\ IF FenceThen(w)
          THEN /\ job' = [job EXCEPT ![j] = Ended(j, state)]
               /\ row' = IF ~job[j].replace THEN row
                         ELSE [m \in Ids |-> IF row[m] = j THEN Unmarked
                                             ELSE IF Prunes(state, reason) THEN Absent ELSE row[m]]
               /\ RowLocks
          ELSE UNCHANGED <<job, row>>
       /\ Idle(w)
       /\ UNCHANGED <<conn, starter, faults, telegram>>

Dispose(w) ==
    /\ worker[w].pc = "dispose" /\ ~Requeues(w)
    /\ IF worker[w].out = "stopped"
       THEN Finalize(w, "cancelled", "stopped")
       ELSE Finalize(w, "completed", IF worker[w].out = "slice" THEN "runtime"
                                     ELSE worker[w].out)

FinalizeFailed(w) ==
    /\ worker[w].pc = "fail"
    /\ Finalize(w, "failed", "none")

\* The first statement of handing a job back: if its stop was requested (a
\* stopping job always has its request set), its markers are to be cleared.
MarkersToClear(w, fence) ==
    IF fence /\ Lease(w).replace /\ Lease(w).stop THEN Marked({Mine(w)}) ELSE {}

\* _requeue_scan_job, first statement.
RequeueMarkers(w) ==
    /\ worker[w].pc = "dispose" /\ Requeues(w)
    /\ LockFree(MarkersToClear(w, FenceThen(w)))
    /\ Become(w, [IdleWorker EXCEPT !.pc = "requeue", !.job = Mine(w),
                                    !.rows = MarkersToClear(w, FenceThen(w)),
                                    !.late = worker[w].late])
    /\ UNCHANGED <<job, conn, row, starter, faults, telegram>>

\* Handing a job back: cancelled if its stop was requested, pending otherwise.
HandBack(w) == [Lease(w) EXCEPT !.state = IF Lease(w).stop THEN "cancelled" ELSE "pending",
                                !.owner = NoWorker, !.live = FALSE]

\* Second statement, with the "now" of the first.
RequeueJob(w) ==
    /\ worker[w].pc = "requeue"
    /\ job' = IF FenceThen(w) THEN [job EXCEPT ![Mine(w)] = HandBack(w)] ELSE job
    /\ row' = Unmark(worker[w].rows)
    /\ Idle(w)
    /\ UNCHANGED <<conn, starter, faults, telegram>>

\* A disposition that raises is caught, and the job is to be marked failed.
DispositionFails(w) ==
    /\ worker[w].pc \in {"dispose", "requeue"}
    /\ Raise(w)
    /\ UNCHANGED <<job, conn, row, starter, faults, telegram>>

\* A shutdown cancels the task: _release_interrupted_scan, which needs the
\* owner but no live lease, in the same two statements.
ReleaseMarkers(w) ==
    /\ worker[w].pc \in Working \ {"release"} /\ faults < MaxFaults
    /\ LockFree(MarkersToClear(w, Owns(w)) \ worker[w].rows)
    /\ Become(w, [IdleWorker EXCEPT !.pc = "release", !.job = Mine(w),
                                    !.rows = MarkersToClear(w, Owns(w))])
    /\ faults' = faults + 1
    /\ UNCHANGED <<job, conn, row, starter, telegram>>

ReleaseJob(w) ==
    /\ worker[w].pc = "release"
    /\ job' = IF Owns(w) THEN [job EXCEPT ![Mine(w)] = HandBack(w)] ELSE job
    /\ row' = Unmark(worker[w].rows)
    /\ Idle(w)
    /\ UNCHANGED <<conn, starter, faults, telegram>>
-----------------------------------------------------------------------------
(* The environment.                                                         *)

\* The process dies; the database keeps the lease in its name.
Crash(w) ==
    /\ worker[w].pc # "idle" /\ faults < MaxFaults
    /\ Idle(w)
    /\ faults' = faults + 1
    /\ UNCHANGED <<job, conn, row, starter, telegram>>

Holds(w, j) == worker[w].job = j /\ worker[w].pc \in Working /\ job[j].owner = w
Unattended(j) == \A w \in Workers : ~Holds(w, j)

\* lease_expires_at passes: the worker is gone, or its heartbeats failed for the
\* length of a lease, which counts as a fault.  The "now" of a requeue is taken
\* before its first statement; with DelayedStatements a heartbeat or a
\* disposition may likewise have taken its "now" and be on its way to the
\* database.
Expire(j) ==
    /\ job[j].state \in LeasedStates /\ job[j].live
    /\ IF Unattended(j) THEN faults' = faults
       ELSE faults < MaxFaults /\ faults' = faults + 1
    /\ job' = [job EXCEPT ![j].live = FALSE]
    /\ \E late \in (IF DelayedStatements THEN BOOLEAN ELSE {FALSE}) :
         worker' = [w \in Workers |->
           IF Holds(w, j) /\ (worker[w].pc = "requeue" \/ late)
           THEN [worker[w] EXCEPT !.late = TRUE] ELSE worker[w]]
    /\ UNCHANGED <<conn, row, starter, telegram>>

\* started_at + max_runtime_seconds passes.
SpendRuntime(j) ==
    /\ Active(j) /\ job[j].clock = "ticking"
    /\ job' = [job EXCEPT ![j].clock = "spent"]
    /\ UNCHANGED <<conn, row, worker, starter, faults, telegram>>

\* A message is saved on Telegram, or deleted there.
Arrive ==
    /\ top < N
    /\ top' = top + 1
    /\ remote' = remote \union {top + 1}
    /\ UNCHANGED <<job, conn, row, worker, starter, steady, faults>>

Vanish(m) ==
    /\ m \in remote
    /\ remote' = remote \ {m} /\ steady' = steady \ {m}
    /\ UNCHANGED <<job, conn, row, worker, starter, top, faults>>
-----------------------------------------------------------------------------
WorkerStep(w) ==
    \/ SweepMarkers(w) \/ SweepJobs(w)
    \/ \E j \in Jobs : Claim(w, j) \/ ClaimCancels(w, j)
    \/ Renew(w) \/ LoseLease(w) \/ Fail(w) \/ SliceTimeout(w)
    \/ QuotaGone(w) \/ ReadConnection(w) \/ EraseConnection(w)
    \/ Authorized(w) \/ Downgrade(w)
    \/ StopsHere(w) \/ Fetch(w) \/ PersistPage(w)
    \/ ConnectionLost(w) \/ SaveSession(w)
    \/ Dispose(w) \/ FinalizeFailed(w)
    \/ RequeueMarkers(w) \/ RequeueJob(w)
    \/ DispositionFails(w) \/ ReleaseJob(w)

UserStep ==
    \/ \E j \in Jobs :
         \/ \E replace \in BOOLEAN : StartCreate(j, replace)
         \/ StartReadsExpiredStop(j)
         \/ Stop(j)
    \/ StartInvalidatesConnection
    \/ StartOverwritesExpiredStop
    \/ Disconnect \/ RequestCode \/ Verify

Environment ==
    \/ \E w \in Workers : Crash(w) \/ ReleaseMarkers(w)
    \/ \E j \in Jobs : Expire(j) \/ SpendRuntime(j)
    \/ Arrive
    \/ \E m \in Ids : Vanish(m)

Next == (\E w \in Workers : WorkerStep(w)) \/ UserStep \/ Environment

Spec == Init /\ [][Next]_vars

\* A worker that can take a step does (worker.py loops for ever, and a crash
\* restarts it); a lease that nobody renews runs out; so does the runtime.
Fairness ==
    /\ \A w \in Workers : WF_vars(WorkerStep(w))
    /\ \A j \in Jobs : WF_vars(Unattended(j) /\ Expire(j)) /\ WF_vars(SpendRuntime(j))

FairSpec == Spec /\ Fairness
-----------------------------------------------------------------------------
(* Safety.                                                                  *)

\* At most one scan of an account is active, whatever start(), stop(), the
\* sweep and reconnections do in between.
OneActiveJob == \A i, j \in ActiveJobs : i = j

\* A running or stopping job has an owner and no other job has one or a live
\* lease: otherwise a job would be lost (nobody may claim it) or doubly run.
\* A stopping job always carries its stop request.
LeaseMatchesState ==
    \A j \in Jobs :
      /\ job[j].owner # NoWorker <=> job[j].state \in LeasedStates
      /\ job[j].live => job[j].state \in LeasedStates
      /\ job[j].state = "stopping" => job[j].stop

\* While a worker may still write, its private copy of the cursor and of the
\* quota, taken at the claim, agrees with the row: nobody else advanced the job
\* since (the claim, _persist_scan_page and scan() together).
ScannerInStep ==
    \A w \in Workers :
      worker[w].pc \in {"claimed", "client", "loop", "page"} /\ Owns(w) =>
        /\ worker[w].off = Lease(w).cursor
        /\ worker[w].left + Lease(w).scanned = MaxMessages

\* max_messages holds over all slices, workers and reclaims of a job.
QuotaRespected == \A j \in Jobs : job[j].scanned <= MaxMessages

\* A connection that can be used holds the session of its own generation: a
\* slow worker never stores the session of a login that was replaced.
SessionIsCurrent == conn.state # "down" => conn.sess = conn.gen

\* A job that may still run was created under the login in use: a login is
\* never replaced without cancelling the scans bound to it.
ActiveJobUsesCurrentLogin ==
    \A j \in ActiveJobs : conn.state # "down" => job[j].gen = conn.gen

\* While a replacement runs no marker of another job is left that its final
\* deletion could mistake for its own, and a completed or failed job leaves
\* no marker behind.
MarkersAreOfTheRunningJob ==
    \A m \in Ids, j \in Jobs :
      row[m] = j => /\ job[j].state \notin {"completed", "failed", "none"}
                    /\ \A i \in ActiveJobs : job[i].replace => i = j

\* A terminal job never changes again: not its state, nor what it counted.
TerminalIsFinal ==
    [][\A j \in Jobs : job[j].state \in TerminalStates => job'[j] = job[j]]_vars

\* A replacement never deletes the local row of a message that has been in
\* Saved Messages since the job was created: the prune of _finalize_scan_job
\* meets only rows whose message a complete scan did not see.
PruneSparesSteady ==
    [][\A m \in steady : row[m] # Absent => row'[m] # Absent]_vars

\* A scan that completes because the source is exhausted has imported every
\* message that was there all along, over all its slices and workers.
ExhaustedMeansImported ==
    [][\A w \in Workers :
         /\ worker[w].pc = "dispose" /\ worker[w].out = "exhausted"
         /\ Lease(w).state # "completed" /\ job'[Mine(w)].state = "completed"
         => \A m \in steady : row'[m] # Absent]_vars

\* The cursor of a job only moves to older messages.
CursorDescends ==
    [][\A j \in Jobs :
         job[j].state # "none" /\ job[j].cursor # 0 /\ job'[j].cursor # job[j].cursor
         => job'[j].cursor # 0 /\ job'[j].cursor < job[j].cursor]_vars
-----------------------------------------------------------------------------
(* Liveness, under FairSpec.                                                *)

\* A stop is honoured: the job ends, whether its worker lives or not.
StopEndsTheJob ==
    \A j \in Jobs : job[j].state = "stopping" ~> job[j].state \in TerminalStates

\* Every scan that was ever claimed ends: lost leases, crashes and slices that
\* make no progress are outlasted by the runtime limit.
EveryScanEnds ==
    \A j \in Jobs : job[j].clock # "unset" ~> job[j].state \in TerminalStates
=============================================================================
