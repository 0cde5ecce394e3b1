---------------------------- MODULE ScanProgress ----------------------------
(***************************************************************************)
(* The import panel of the dashboard (scan-progress.tsx with api/scan.ts): *)
(* one status on the screen, written by four competing sources: a poll     *)
(* timer, the live stream, the user's refreshes, and the replies to Start, *)
(* Stop and Refresh full library.                                          *)
(*                                                                         *)
(* React works in three steps, and events are delivered between any two of *)
(* them: setStatus changes the state, a later task renders it, and a later *)
(* one still runs the effects of that render, which close and open the     *)
(* live stream.                                                            *)
(*                                                                         *)
(* The server's status is a record with a sequence number of its own: the  *)
(* number is not in the code, it dates what a reply or an event carries.   *)
(* "running" stands for pending and running, "done" for completed, failed  *)
(* and cancelled.                                                          *)
(***************************************************************************)
EXTENDS Integers, Sequences

CONSTANTS
  MaxSeq,    \* bound: changes of the server's status
  MaxJobs,   \* bound: scans
  MaxQueue,  \* bound: events sent and not yet delivered
  MaxFaults, \* bound: failed requests and broken streams
  MaxClicks, \* bound: clicks; the user comes to rest
  NoReply,   \* a request that was not answered
  Failed     \* a request that ended in an error

ASSUME BoundsAssumption ==
  /\ MaxSeq \in Nat
  /\ MaxJobs \in Nat
  /\ MaxQueue \in Nat
  /\ MaxFaults \in Nat
  /\ MaxClicks \in Nat

States == {"idle", "running", "stopping", "done"}
Statuses == [seq : 0 .. MaxSeq, job : 0 .. MaxJobs, state : States]

ASSUME RepliesAssumption ==
  NoReply \notin Statuses /\ Failed \notin Statuses /\ NoReply # Failed

\* INITIAL_SCAN_STATUS
FirstStatus == [seq |-> 0, job |-> 0, state |-> "idle"]

VARIABLES
  server,  \* what GET /status would answer now
  past,    \* history: every status the server has had
  shown,   \* status, as setStatus left it
  screen,  \* the last render
  settled, \* the status that the effects of a render last ran for
  refresh, \* the one refreshStatus in flight (inFlightRef)
  command, \* the one start, stop or library refresh in flight
  latest,  \* the request in flight whose version is the newest one taken
  loading, \* isInitialLoading
  stream,  \* streamConnectionState and what the EventSource has to deliver
  timer,   \* the chain of poll timers
  notices, \* announcements of a finished scan, by scan
  faults,  \* bound: failures so far
  clicks   \* bound: clicks so far

vars == <<server, past, shown, screen, settled, refresh, command, latest,
          loading, stream, timer, notices, faults, clicks>>

Modes == {"none", "initial", "manual", "poll"}
Kinds == {"none", "start", "sync", "stop", "library"}
Replies == Statuses \union {NoReply, Failed}
StreamStates == {"idle", "unsupported", "connecting", "connected", "fallback"}

Renders == [status : Statuses, busy : BOOLEAN, commanding : BOOLEAN]

NoRefresh == [mode |-> "none", reply |-> NoReply]
NoCommand == [kind |-> "none", reply |-> NoReply]
Quiet(s)  == [state |-> s, queue |-> <<>>, sent |-> FirstStatus]

TypeOK ==
  /\ server \in Statuses
  /\ past \subseteq Statuses
  /\ shown \in Statuses /\ screen \in Renders /\ settled \in Statuses
  /\ refresh \in [mode : Modes, reply : Replies]
  /\ command \in [kind : Kinds, reply : Replies]
  /\ latest \in {"none", "refresh", "command"}
  /\ loading \in BOOLEAN
  /\ stream \in [state : StreamStates, queue : Seq(Statuses), sent : Statuses]
  /\ timer \in {"armed", "waiting"}
  /\ notices \in [0 .. MaxJobs -> Nat]
  /\ faults \in 0 .. MaxFaults
  /\ clicks \in 0 .. MaxClicks

-----------------------------------------------------------------------------
(* Helpers *)

Active(s)   == s.state \in {"running", "stopping"}
Finished(s) == s.state = "done"

\* isBusy
Busy == loading \/ command.kind # "none" \/ refresh.mode = "manual"

Rendering == [status |-> shown, busy |-> Busy, commanding |-> command.kind # "none"]

\* The buttons of the last render.
CanStart   == ~screen.busy /\ ~Active(screen.status)
CanStop    == ~screen.busy /\ screen.status.state = "running"
CanRefresh == ~screen.busy
CanReplace == ~Active(screen.status) /\ ~screen.commanding

Click == clicks < MaxClicks /\ clicks' = clicks + 1

\* Mutant: the EventSource of the last scan is kept.
ResubscribedOnActivity(s) ==
  IF Active(s) = Active(settled) \/ stream.state = "unsupported" THEN stream
  ELSE Quiet(IF Active(s) THEN "connecting" ELSE "idle")

\* The effect on scanIsActive and job_id: another scan, another EventSource.
\* "unsupported" stands for a browser that has none, whether a scan is active
\* or not.
Resubscribed(s) ==
  IF \/ Active(s) = Active(settled) /\ s.job = settled.job
     \/ stream.state = "unsupported"
  THEN stream
  ELSE Quiet(IF Active(s) THEN "connecting" ELSE "idle")

\* Mutant: every finished status is announced.
AnnouncedEachTime(s) ==
  [notices EXCEPT ![s.job] = IF Finished(s) THEN @ + 1 ELSE @]

\* The effect on the terminal key of the status.
Announced(s) ==
  [notices EXCEPT ![s.job] = IF Finished(s) /\ @ = 0 THEN 1 ELSE @]

\* React renders once the effects of the render before have run.
Render ==
  /\ settled = screen.status /\ screen # Rendering
  /\ screen' = Rendering
  /\ UNCHANGED <<server, past, shown, settled, refresh, command, latest, loading,
                 stream, timer, notices, faults, clicks>>

\* The passive effects of a render run in a task of their own.
RunEffects ==
  /\ settled # screen.status
  /\ settled' = screen.status
  /\ stream' = Resubscribed(screen.status)
  /\ notices' = Announced(screen.status)
  /\ timer' = "armed"
  /\ UNCHANGED <<server, past, shown, screen, refresh, command, latest, loading,
                 faults, clicks>>

KeepPanel  == UNCHANGED <<settled, stream, notices>>
KeepScreen == UNCHANGED <<shown, screen>> /\ KeepPanel

-----------------------------------------------------------------------------
(* The server, as the panel sees it *)

Moves(s) == server' = s /\ past' = past \union {s}
Later(job, state) == [seq |-> server.seq + 1, job |-> job, state |-> state]

NewScan == server.job < MaxJobs /\ Moves(Later(server.job + 1, "running"))

\* Progress, a stop or the end of the scan; a scan started in another tab.
ServerProgress ==
  /\ server.seq < MaxSeq
  /\ \/ Active(server) /\ Moves(Later(server.job, server.state))
     \/ server.state = "running" /\ Moves(Later(server.job, "stopping"))
     \/ Active(server) /\ Moves(Later(server.job, "done"))
     \/ ~Active(server) /\ NewScan
  /\ UNCHANGED <<refresh, command, latest, loading, timer, faults, clicks>>
  /\ KeepScreen

ServeRefresh ==
  /\ refresh.mode # "none" /\ refresh.reply = NoReply
  /\ refresh' = [refresh EXCEPT !.reply = server]
  /\ UNCHANGED <<server, past, command, latest, loading, timer, faults, clicks>>
  /\ KeepScreen

Answer(r) == command' = [command EXCEPT !.reply = r]

\* POST /start: a new scan, the pending one, or a conflict.
ServeStart ==
  /\ command.kind \in {"start", "library"}
  /\ \/ ~Active(server) /\ server.seq < MaxSeq /\ NewScan /\ Answer(server')
     \/ server.state = "running" /\ Answer(server) /\ UNCHANGED <<server, past>>
     \/ Answer(Failed) /\ UNCHANGED <<server, past>>

\* POST /stop: cancels a pending scan, asks a running one to stop.
ServeStop ==
  /\ command.kind = "stop"
  /\ \/ /\ Active(server) /\ server.seq < MaxSeq
        /\ \E s \in {"stopping", "done"} : Moves(Later(server.job, s))
        /\ Answer(server')
     \/ ~Active(server) /\ Answer(server) /\ UNCHANGED <<server, past>>
     \/ Answer(Failed) /\ UNCHANGED <<server, past>>

ServeSync ==
  /\ command.kind = "sync"
  /\ Answer(server)
  /\ UNCHANGED <<server, past>>

ServeCommand ==
  /\ command.reply = NoReply
  /\ ServeStart \/ ServeStop \/ ServeSync
  /\ UNCHANGED <<refresh, latest, loading, timer, faults, clicks>>
  /\ KeepScreen

\* The network loses a request, or the reply to one that was carried out.
LoseRefresh ==
  /\ refresh.mode # "none" /\ refresh.reply # Failed
  /\ refresh' = [refresh EXCEPT !.reply = Failed]
  /\ UNCHANGED command

LoseCommand ==
  /\ command.kind # "none" /\ command.reply # Failed
  /\ Answer(Failed)
  /\ UNCHANGED refresh

Lose ==
  /\ faults < MaxFaults
  /\ faults' = faults + 1
  /\ LoseRefresh \/ LoseCommand
  /\ UNCHANGED <<server, past, latest, loading, timer, clicks>>
  /\ KeepScreen

-----------------------------------------------------------------------------
(* refreshStatus *)

BeginRefresh(mode) ==
  /\ refresh.mode = "none"
  /\ refresh' = [mode |-> mode, reply |-> NoReply]
  /\ latest' = "refresh"

PollTimer ==
  /\ timer = "armed"
  /\ BeginRefresh("poll")
  /\ timer' = "waiting"
  /\ UNCHANGED <<server, past, command, loading, faults, clicks>>
  /\ KeepScreen

\* While a poll is in flight the click changes nothing.
Refresh ==
  /\ CanRefresh
  /\ Click
  /\ BeginRefresh("manual")
  /\ screen' = [screen EXCEPT !.busy = TRUE]
  /\ UNCHANGED <<server, past, shown, command, loading, timer, faults>>
  /\ KeepPanel

\* Mutants: the version is not compared; a failed poll ends the polling.
ApplyAnyRefresh ==
  /\ shown' = IF refresh.reply # Failed THEN refresh.reply ELSE shown
  /\ timer' = "armed"

ApplyRefreshOrStop ==
  IF latest = "refresh" /\ refresh.reply # Failed
  THEN shown' = refresh.reply /\ timer' = "armed"
  ELSE UNCHANGED <<shown, timer>>

\* Only the reply with the newest version is applied; a poll arms the next
\* one either way.
ApplyRefresh ==
  /\ shown' = IF latest = "refresh" /\ refresh.reply # Failed THEN refresh.reply
              ELSE shown
  /\ timer' = "armed"

ReceiveRefresh ==
  /\ refresh.mode # "none" /\ refresh.reply # NoReply
  /\ ApplyRefresh
  /\ refresh' = NoRefresh
  /\ loading' = (loading /\ refresh.mode # "initial")
  /\ latest' = IF latest = "refresh" THEN "none" ELSE latest
  /\ UNCHANGED <<server, past, screen, command, faults, clicks>>
  /\ KeepPanel

-----------------------------------------------------------------------------
(* handleStartScan, handleStopScan, handleRefreshLibrary *)

\* A click is rendered at once, so that its button is off; updates that
\* already wait may still wait for a render of their own.
Issue(kind) ==
  /\ command' = [kind |-> kind, reply |-> NoReply]
  /\ latest' = "command"
  /\ screen' = [screen EXCEPT !.busy = TRUE, !.commanding = TRUE]
  /\ UNCHANGED <<server, past, shown, refresh, loading, timer, faults>>
  /\ KeepPanel

Start   == CanStart /\ Click /\ Issue("start")
Stop    == CanStop /\ Click /\ Issue("stop")
Replace == CanReplace /\ Click /\ Issue("library")

ApplyCommand ==
  shown' = IF latest = "command" /\ command.reply # Failed THEN command.reply
           ELSE shown

\* A start that failed is followed by a look at what is there instead.
SyncAfterStart ==
  /\ command.kind = "start" /\ command.reply = Failed
  /\ Issue("sync")
  /\ UNCHANGED clicks

EndCommand ==
  /\ command.reply # NoReply
  /\ ~(command.kind = "start" /\ command.reply = Failed)
  /\ ApplyCommand
  /\ command' = NoCommand
  /\ latest' = IF latest = "command" THEN "none" ELSE latest
  /\ UNCHANGED <<server, past, screen, refresh, loading, timer, faults, clicks>>
  /\ KeepPanel

ReceiveCommand == SyncAfterStart \/ EndCommand

-----------------------------------------------------------------------------
(* The live stream: an EventSource, which reconnects on its own.  A change  *)
(* of streamConnectionState arms the poll timer again; when that effect     *)
(* runs does not matter, as a timer that is not armed waits for a poll.     *)

StreamOpen ==
  /\ stream.state \in {"connecting", "fallback"}
  /\ stream' = Quiet("connected")
  /\ timer' = "armed"
  /\ UNCHANGED <<server, past, shown, screen, settled, refresh, command, latest,
                 loading, notices, faults, clicks>>

\* The server sends its status when it differs from the last one it sent.
StreamSend ==
  /\ stream.state = "connected"
  /\ Len(stream.queue) < MaxQueue
  /\ stream.sent # server
  /\ stream' = [stream EXCEPT !.queue = Append(@, server), !.sent = server]
  /\ UNCHANGED <<server, past, shown, screen, settled, refresh, command, latest,
                 loading, timer, notices, faults, clicks>>

Delivered == [stream EXCEPT !.queue = Tail(@)]

\* onStatus: always applied, and every request in flight is outdated.  The
\* last event of a scan closes the stream there and then; otherwise only the
\* effects do, and what the old stream still holds is applied until then.
StreamEvent ==
  /\ stream.queue # <<>>
  /\ shown' = Head(stream.queue)
  /\ stream' = IF Finished(shown') THEN Quiet("idle") ELSE Delivered
  /\ latest' = "none"
  /\ loading' = FALSE
  /\ UNCHANGED <<server, past, screen, settled, refresh, command, timer, notices,
                 faults, clicks>>

StreamBreak ==
  /\ faults < MaxFaults
  /\ faults' = faults + 1
  /\ stream.state \in {"connecting", "connected"}
  /\ stream' = Quiet("fallback")
  /\ timer' = "armed"
  /\ UNCHANGED <<server, past, shown, screen, settled, refresh, command, latest,
                 loading, notices, clicks>>

-----------------------------------------------------------------------------

Init ==
  /\ server \in {[seq |-> 1, job |-> 0, state |-> "idle"],
                 [seq |-> 1, job |-> 1, state |-> "running"],
                 [seq |-> 1, job |-> 1, state |-> "done"]} \intersect Statuses
  /\ past = {server}
  /\ shown = FirstStatus
  /\ refresh = [mode |-> "initial", reply |-> NoReply]
  /\ command = NoCommand
  /\ latest = "refresh"
  /\ loading = TRUE
  /\ \E s \in {"idle", "unsupported"} : stream = Quiet(s)
  /\ screen = Rendering /\ settled = screen.status
  /\ timer = "armed"
  /\ notices = [j \in 0 .. MaxJobs |-> 0]
  /\ faults = 0
  /\ clicks = 0

Next ==
  \/ Render \/ RunEffects
  \/ ServerProgress \/ ServeRefresh \/ ServeCommand \/ Lose
  \/ PollTimer \/ Refresh \/ ReceiveRefresh
  \/ Start \/ Stop \/ Replace \/ ReceiveCommand
  \/ StreamOpen \/ StreamSend \/ StreamEvent \/ StreamBreak

Spec == Init /\ [][Next]_vars

\* The browser runs timers, callbacks and React's tasks, and every request ends.
Fairness ==
  /\ WF_vars(Render) /\ WF_vars(RunEffects)
  /\ WF_vars(PollTimer)
  /\ WF_vars(ServeRefresh) /\ WF_vars(ReceiveRefresh)
  /\ WF_vars(ServeCommand) /\ WF_vars(ReceiveCommand)

FairSpec == Spec /\ Fairness

-----------------------------------------------------------------------------
(* Properties *)

\* The comment on statusRequestVersionRef: the reply to a request never puts
\* a status on the screen that is older than the one it replaces.  Only an
\* event of the live stream, sent before a reply overtook it, may do so.
RepliesNeverRegress ==
  [][shown'.seq < shown.seq => stream.queue # <<>> /\ shown' = Head(stream.queue)]_vars

\* However polls, events and clicks interleave, once the server's status
\* stays as it is, the panel comes to show it and goes on showing it.
Settles == <>[](screen.status = server)

\* A finished scan refreshes the category counts when the effects of its
\* render run, and once.
FinishAnnouncedOnce ==
  /\ \A j \in 0 .. MaxJobs : notices[j] <= 1
  /\ Finished(settled) => notices[settled.job] = 1

\* The panel keeps the promises of ScanView: an older scan, or a scan at work
\* that was shown as finished, can come back only until the effects of the
\* render have run, and not behind what they ran for before.
View == INSTANCE ScanView WITH server <- server, past <- past, shown <- shown,
                              drawn <- screen.status, settled <- settled,
                              Statuses <- Statuses, FirstStatus <- FirstStatus
KeepsItsPromises == View!Spec
=============================================================================
