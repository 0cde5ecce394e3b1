------------------------- MODULE ScanProgress_proofs -------------------------
(***************************************************************************)
(* Proofs about ScanProgress, for any bounds: no reply takes the panel     *)
(* back, and ScanProgress implements ScanView.                             *)
(***************************************************************************)
EXTENDS ScanProgress, TLAPS

\* Statuses are numbered; a later one is of the same scan or of a later one,
\* and a scan that is done stays done.
After(a, b) ==
  /\ b.job >= a.job
  /\ b.job = a.job /\ Finished(a) => Finished(b)

HistoryIsOrdered ==
  /\ server \in past
  /\ \A a \in past : a.seq <= server.seq
  /\ \A a, b \in past : a.seq <= b.seq => After(a, b)

\* The screen and everything on its way to it comes from the server.
Sourced ==
  /\ \A s \in {shown, screen.status, settled} : s = FirstStatus \/ s \in past
  /\ refresh.reply \in Statuses => refresh.reply \in past
  /\ command.reply \in Statuses => command.reply \in past
  /\ \A i \in 1 .. Len(stream.queue) : stream.queue[i] \in past

\* The request with the newest version carries nothing older than the screen.
NewestIsNotOlder ==
  /\ latest = "refresh" /\ refresh.reply \in Statuses => refresh.reply.seq >= shown.seq
  /\ latest = "command" /\ command.reply \in Statuses => command.reply.seq >= shown.seq

\* An EventSource is open only for the active scan the effects ran for, and
\* tells of no older one.
StreamIsOfTheScan ==
  /\ stream.state \in {"connecting", "connected", "fallback"} => Active(settled)
  /\ stream.queue # <<>> => stream.state = "connected"
  /\ \A i \in 1 .. Len(stream.queue) : stream.queue[i].job >= settled.job

IInv == /\ TypeOK /\ HistoryIsOrdered /\ Sourced /\ NewestIsNotOlder
        /\ StreamIsOfTheScan /\ FinishAnnouncedOnce

-----------------------------------------------------------------------------
(* Typing of the records *)

USE BoundsAssumption, RepliesAssumption

Streams == [state : StreamStates, queue : Seq(Statuses), sent : Statuses]

LEMMA FirstTyped == FirstStatus \in Statuses /\ FirstStatus.seq = 0
                    /\ FirstStatus.job = 0 /\ ~Finished(FirstStatus)
  BY DEF FirstStatus, Statuses, States, Finished

LEMMA QuietTyped ==
  ASSUME NEW s \in StreamStates
  PROVE  /\ Quiet(s) \in Streams /\ Quiet(s).queue = <<>> /\ Quiet(s).state = s
         /\ Len(Quiet(s).queue) = 0
  <1>1. <<>> \in Seq(Statuses) /\ Len(<<>>) = 0
    OBVIOUS
  <1>. QED  BY <1>1, FirstTyped DEF Quiet, Streams

LEMMA StatusFields ==
  ASSUME NEW s \in Statuses
  PROVE  s.seq \in Nat /\ s.job \in Nat /\ s.job \in 0 .. MaxJobs /\ s.seq \in 0 .. MaxSeq
         /\ s.state \in States
  BY DEF Statuses

\* A request of either kind, given its new contents.
LEMMA RefreshTyped ==
  ASSUME NEW m \in Modes, NEW r \in Replies
  PROVE  [mode |-> m, reply |-> r] \in [mode : Modes, reply : Replies]
  OBVIOUS

LEMMA CommandTyped ==
  ASSUME NEW k \in Kinds, NEW r \in Replies
  PROVE  [kind |-> k, reply |-> r] \in [kind : Kinds, reply : Replies]
  OBVIOUS

\* A click turns buttons of the last render off.
LEMMA ClickedTyped ==
  ASSUME screen \in Renders
  PROVE  /\ [screen EXCEPT !.busy = TRUE] \in Renders
         /\ [screen EXCEPT !.busy = TRUE, !.commanding = TRUE] \in Renders
         /\ [screen EXCEPT !.busy = TRUE].status = screen.status
         /\ [screen EXCEPT !.busy = TRUE, !.commanding = TRUE].status = screen.status
  BY DEF Renders

LEMMA RenderingTyped ==
  ASSUME TypeOK
  PROVE  Rendering \in Renders /\ Rendering.status = shown
  BY DEF TypeOK, Rendering, Renders, Busy

LEMMA InitInv == Init => IInv
  <1>. SUFFICES ASSUME Init PROVE IInv
    OBVIOUS
  <1>1. PICK s \in {"idle", "unsupported"} : stream = Quiet(s)
    BY DEF Init
  <1>2. stream \in Streams /\ stream.queue = <<>> /\ stream.state = s
        /\ Len(stream.queue) = 0
    BY <1>1, QuietTyped DEF StreamStates
  <1>3. server \in Statuses /\ past = {server} /\ shown = FirstStatus
    BY DEF Init
  <1>4. /\ refresh \in [mode : Modes, reply : Replies]
        /\ command \in [kind : Kinds, reply : Replies]
        /\ refresh.reply = NoReply /\ command.reply = NoReply
    BY DEF Init, Modes, Kinds, Replies, NoCommand
  <1>5. notices \in [0 .. MaxJobs -> Nat] /\ \A j \in 0 .. MaxJobs : notices[j] = 0
    BY DEF Init
  <1>6. /\ latest \in {"none", "refresh", "command"} /\ loading \in BOOLEAN
        /\ timer \in {"armed", "waiting"}
        /\ faults \in 0 .. MaxFaults /\ clicks \in 0 .. MaxClicks
    BY DEF Init
  <1>a. screen = Rendering /\ settled = screen.status
    BY DEF Init
  <1>b. screen \in Renders /\ screen.status = FirstStatus /\ settled = FirstStatus
    BY <1>a, <1>3, <1>6, FirstTyped DEF Rendering, Renders, Busy
  <1>7. TypeOK
    BY <1>2, <1>3, <1>4, <1>5, <1>6, <1>b, FirstTyped DEF TypeOK, Streams
  <1>8. HistoryIsOrdered
    BY <1>3, StatusFields DEF HistoryIsOrdered, After
  <1>9. Sourced /\ NewestIsNotOlder /\ StreamIsOfTheScan
    BY <1>2, <1>3, <1>4, <1>b DEF Sourced, NewestIsNotOlder, StreamIsOfTheScan
  <1>10. FinishAnnouncedOnce
    BY <1>b, <1>5, FirstTyped DEF FinishAnnouncedOnce
  <1>. QED  BY <1>7, <1>8, <1>9, <1>10 DEF IInv

-----------------------------------------------------------------------------
(* The server's history *)

LEMMA PastIsBefore ==
  ASSUME IInv, NEW t \in {shown, screen.status, settled}
  PROVE  /\ t \in Statuses /\ server \in Statuses
         /\ t.seq <= server.seq /\ t.job <= server.job
         /\ \A s \in past : s \in Statuses /\ (s.seq >= t.seq => After(t, s))
  <1>1. t \in Statuses /\ server \in Statuses /\ server \in past
    BY DEF IInv, TypeOK, Renders, HistoryIsOrdered
  <1>2. \A s \in past : s \in Statuses
    BY DEF IInv, TypeOK
  <1>3. \A s \in past : s.seq >= t.seq => After(t, s)
    <2>1. CASE t = FirstStatus
      BY <1>2, <2>1, FirstTyped, StatusFields DEF After
    <2>2. CASE t \in past
      <3>. SUFFICES ASSUME NEW s \in past, s.seq >= t.seq
                    PROVE  After(t, s)
        OBVIOUS
      <3>1. t.seq <= s.seq
        BY <1>1, <1>2, StatusFields
      <3>. QED  BY <2>2, <3>1 DEF IInv, HistoryIsOrdered
    <2>. QED  BY <2>1, <2>2 DEF IInv, Sourced
  <1>4. t.seq <= server.seq
    BY <1>1, FirstTyped, StatusFields DEF IInv, Sourced, HistoryIsOrdered
  <1>5. server.seq >= t.seq
    BY <1>1, <1>4, StatusFields
  <1>6. t.job <= server.job
    BY <1>1, <1>3, <1>5, StatusFields DEF After
  <1>. QED  BY <1>1, <1>2, <1>3, <1>4, <1>6

LEMMA ScreenIsPast ==
  ASSUME IInv
  PROVE  /\ shown \in Statuses /\ server \in Statuses
         /\ shown.seq <= server.seq /\ shown.job <= server.job
         /\ \A s \in past : s \in Statuses /\ (s.seq >= shown.seq => After(shown, s))
  BY PastIsBefore

\* What ServerProgress, ServeStart and ServeStop do to the status.
Successor(n) ==
  /\ n \in Statuses
  /\ n.seq = server.seq + 1
  /\ \/ n.job = server.job /\ Active(server)
     \/ n.job = server.job + 1

LEMMA SuccessorIsAfter ==
  ASSUME IInv, NEW n, Successor(n), NEW a \in past
  PROVE  a.seq < n.seq /\ After(a, n)
  <1>1. a \in Statuses /\ server \in Statuses /\ n \in Statuses
    BY DEF IInv, TypeOK, Successor
  <1>2. a.seq <= server.seq /\ After(a, server)
    BY DEF IInv, HistoryIsOrdered
  <1>3. a.seq < n.seq
    BY <1>1, <1>2, StatusFields DEF Successor
  <1>4. CASE n.job = server.job /\ Active(server)
    BY <1>1, <1>2, <1>3, <1>4, StatusFields DEF After, Active, Finished
  <1>5. CASE n.job = server.job + 1
    BY <1>1, <1>2, <1>3, <1>5, StatusFields DEF After
  <1>. QED  BY <1>3, <1>4, <1>5 DEF Successor

LEMMA ServerMoved ==
  ASSUME IInv, NEW n, Successor(n), Moves(n)
  PROVE  /\ server' = n /\ server' \in Statuses /\ past' \subseteq Statuses
         /\ past \subseteq past' /\ server' \in past'
         /\ HistoryIsOrdered'
  <1>1. /\ server' = n /\ past' = past \union {n}
        /\ n \in Statuses /\ past \subseteq Statuses /\ server \in Statuses
    BY DEF Moves, Successor, IInv, TypeOK
  <1>2. \A a \in past' : a.seq <= server'.seq
    BY <1>1, SuccessorIsAfter, StatusFields
  <1>3. ASSUME NEW a \in past', NEW b \in past', a.seq <= b.seq
        PROVE  After(a, b)
    <2>1. CASE a \in past /\ b \in past
      BY <1>3, <2>1 DEF IInv, HistoryIsOrdered
    <2>2. CASE b = n /\ a \in past
      BY <2>2, SuccessorIsAfter
    <2>3. CASE a = n /\ b \in past
      <3>1. b.seq < a.seq
        BY <2>3, SuccessorIsAfter
      <3>. QED  BY <1>1, <1>3, <3>1, StatusFields
    <2>4. CASE a = n /\ b = n
      BY <1>1, <2>4, StatusFields DEF After
    <2>. QED  BY <1>1, <2>1, <2>2, <2>3, <2>4
  <1>4. HistoryIsOrdered'
    BY <1>1, <1>2, <1>3 DEF HistoryIsOrdered, After, Finished
  <1>. QED  BY <1>1, <1>4

LEMMA LaterIsSuccessor ==
  ASSUME TypeOK, server.seq < MaxSeq
  PROVE  /\ \A state \in States : Active(server) => Successor(Later(server.job, state))
         /\ server.job < MaxJobs => Successor(Later(server.job + 1, "running"))
  <1>1. server \in Statuses
    BY DEF TypeOK
  <1>2. /\ server.seq + 1 \in 0 .. MaxSeq
        /\ server.job \in 0 .. MaxJobs
        /\ server.job < MaxJobs => server.job + 1 \in 0 .. MaxJobs
    BY <1>1, StatusFields
  <1>. QED  BY <1>2 DEF Successor, Later, Statuses, States

-----------------------------------------------------------------------------
(* The screen *)

LEMMA AnnouncedRight ==
  ASSUME IInv, NEW s \in Statuses, settled' = s, notices' = Announced(s)
  PROVE  notices' \in [0 .. MaxJobs -> Nat] /\ FinishAnnouncedOnce'
  <1>1. notices \in [0 .. MaxJobs -> Nat] /\ s.job \in 0 .. MaxJobs
    BY StatusFields DEF IInv, TypeOK
  <1>2. /\ notices' \in [0 .. MaxJobs -> Nat]
        /\ \A j \in 0 .. MaxJobs \ {s.job} : notices'[j] = notices[j]
        /\ notices'[s.job] = 1 \/ (notices'[s.job] = notices[s.job] /\ ~(Finished(s) /\ notices[s.job] = 0))
    BY <1>1 DEF Announced
  <1>3. \A j \in 0 .. MaxJobs : notices[j] <= 1
    BY DEF IInv, FinishAnnouncedOnce
  <1>4. ASSUME NEW j \in 0 .. MaxJobs PROVE notices'[j] <= 1
    <2>1. CASE j = s.job
      <3>1. notices[s.job] <= 1
        BY <1>1, <1>3
      <3>2. notices'[s.job] = 1 \/ notices'[s.job] = notices[s.job]
        BY <1>2
      <3>. QED  BY <2>1, <3>1, <3>2
    <2>2. CASE j # s.job
      BY <1>2, <1>3, <2>2
    <2>. QED  BY <2>1, <2>2
  <1>5. Finished(s) => notices'[s.job] = 1
    <2>1. notices[s.job] \in Nat /\ notices[s.job] <= 1
      BY <1>1, <1>3
    <2>. QED  BY <1>2, <2>1
  <1>6. FinishAnnouncedOnce'
    BY <1>4, <1>5 DEF FinishAnnouncedOnce, Finished
  <1>. QED  BY <1>2, <1>6

\* The EventSource after the status changes: the same one, or an empty one.
LEMMA ResubscribedRight ==
  ASSUME IInv, NEW s \in Statuses
  PROVE  /\ Resubscribed(s) \in Streams
         /\ \/ /\ Resubscribed(s) = stream
               /\ Active(s) = Active(settled) /\ s.job = settled.job
            \/ /\ Resubscribed(s).queue = <<>> /\ Len(Resubscribed(s).queue) = 0
               /\ \/ Resubscribed(s).state \in {"idle", "unsupported"}
                  \/ Resubscribed(s).state = "connecting" /\ Active(s)
  <1>1. stream \in Streams
    BY DEF IInv, TypeOK, Streams
  <1>2. {"idle", "unsupported", "connecting"} \subseteq StreamStates
    BY DEF StreamStates
  <1>3. CASE Active(s) = Active(settled) /\ s.job = settled.job
    BY <1>1, <1>3 DEF Resubscribed
  <1>4. CASE stream.state = "unsupported"
    <2>1. stream.queue = <<>> /\ Len(stream.queue) = 0
      BY <1>1, <1>4 DEF IInv, StreamIsOfTheScan
    <2>. QED  BY <1>1, <1>4, <2>1 DEF Resubscribed
  <1>5. CASE /\ ~(Active(s) = Active(settled) /\ s.job = settled.job)
             /\ stream.state # "unsupported"
    <2>1. CASE Active(s)
      BY <1>2, <1>5, <2>1, QuietTyped DEF Resubscribed
    <2>2. CASE ~Active(s)
      BY <1>2, <1>5, <2>2, QuietTyped DEF Resubscribed
    <2>. QED  BY <2>1, <2>2
  <1>. QED  BY <1>3, <1>4, <1>5

\* A step that leaves the effects and the stream alone.
LEMMA PanelKept ==
  ASSUME IInv, KeepPanel, past \subseteq past'
  PROVE  /\ settled' \in Statuses /\ stream' \in Streams
         /\ notices' \in [0 .. MaxJobs -> Nat]
         /\ StreamIsOfTheScan' /\ FinishAnnouncedOnce'
         /\ settled' = FirstStatus \/ settled' \in past'
         /\ \A i \in 1 .. Len(stream'.queue) : stream'.queue[i] \in past'
         /\ settled' = settled
  <1>1. UNCHANGED <<settled, stream, notices>>
    BY DEF KeepPanel
  <1>2. /\ settled \in Statuses /\ stream \in Streams
        /\ notices \in [0 .. MaxJobs -> Nat]
        /\ settled = FirstStatus \/ settled \in past
        /\ \A i \in 1 .. Len(stream.queue) : stream.queue[i] \in past
    BY DEF IInv, TypeOK, Streams, Sourced
  <1>3. StreamIsOfTheScan'
    BY <1>1 DEF IInv, StreamIsOfTheScan, Active
  <1>4. FinishAnnouncedOnce'
    BY <1>1 DEF IInv, FinishAnnouncedOnce, Finished
  <1>. QED  BY <1>1, <1>2, <1>3, <1>4

\* A step after which the panel holds and shows the same status.
LEMMA StatusKept ==
  ASSUME IInv, UNCHANGED shown, screen' \in Renders, screen'.status = screen.status,
         past \subseteq past'
  PROVE  /\ shown' \in Statuses
         /\ \A s \in {shown', screen'.status} : s = FirstStatus \/ s \in past'
         /\ shown' = shown /\ ~(shown'.seq < shown.seq)
  <1>1. shown \in Statuses /\ \A s \in {shown, screen.status} : s = FirstStatus \/ s \in past
    BY DEF IInv, TypeOK, Sourced
  <1>2. ~(shown'.seq < shown.seq)
    BY <1>1, StatusFields
  <1>. QED  BY <1>1, <1>2

LEMMA ScreenKept ==
  ASSUME IInv, KeepScreen, past \subseteq past'
  PROVE  /\ shown' \in Statuses /\ screen' \in Renders
         /\ settled' \in Statuses /\ stream' \in Streams
         /\ notices' \in [0 .. MaxJobs -> Nat]
         /\ StreamIsOfTheScan' /\ FinishAnnouncedOnce'
         /\ \A s \in {shown', screen'.status, settled'} : s = FirstStatus \/ s \in past'
         /\ \A i \in 1 .. Len(stream'.queue) : stream'.queue[i] \in past'
         /\ shown' = shown /\ ~(shown'.seq < shown.seq)
         /\ screen' = screen /\ settled' = settled
  <1>1. KeepPanel /\ shown' = shown /\ screen' = screen /\ screen \in Renders
    BY DEF KeepScreen, IInv, TypeOK
  <1>. QED  BY <1>1, PanelKept, StatusKept

\* A step that leaves the server alone.
LEMMA ServerKept ==
  ASSUME IInv, UNCHANGED <<server, past>>
  PROVE  /\ server' \in Statuses /\ past' \subseteq Statuses
         /\ past \subseteq past' /\ HistoryIsOrdered'
  BY DEF IInv, TypeOK, HistoryIsOrdered, After, Finished

-----------------------------------------------------------------------------
(* The steps *)

\* What every step keeps or does: the invariant, the step of ScanView, and
\* that only an event puts an older status on the screen.
StillDrawn == screen'.status = screen.status

Promised ==
  \/ /\ server' \in Statuses /\ past' = past \union {server'}
     /\ UNCHANGED <<shown, settled>> /\ StillDrawn
  \/ UNCHANGED <<server, past, shown, settled>> /\ StillDrawn
  \/ /\ shown' \in past /\ (After(shown, shown') \/ After(settled, shown'))
     /\ UNCHANGED <<server, past, settled>> /\ StillDrawn
  \/ /\ settled = screen.status /\ screen'.status = shown
     /\ UNCHANGED <<server, past, shown, settled>>
  \/ /\ settled' = screen.status
     /\ UNCHANGED <<server, past, shown>> /\ StillDrawn

NeverRegresses ==
  shown'.seq < shown.seq => stream.queue # <<>> /\ shown' = Head(stream.queue)

Kept == IInv' /\ Promised /\ NeverRegresses

\* The rest of the types, as far as a step leaves them alone.
LEMMA RestTyped ==
  ASSUME IInv
  PROVE  /\ UNCHANGED refresh => refresh' \in [mode : Modes, reply : Replies]
         /\ UNCHANGED command => command' \in [kind : Kinds, reply : Replies]
         /\ UNCHANGED latest => latest' \in {"none", "refresh", "command"}
         /\ UNCHANGED loading => loading' \in BOOLEAN
         /\ UNCHANGED timer => timer' \in {"armed", "waiting"}
         /\ UNCHANGED faults => faults' \in 0 .. MaxFaults
         /\ UNCHANGED clicks => clicks' \in 0 .. MaxClicks
         /\ refresh.reply \in Statuses => refresh.reply \in past
         /\ command.reply \in Statuses => command.reply \in past
  BY DEF IInv, TypeOK, Sourced

LEMMA ServerProgressStep ==
  ASSUME IInv, ServerProgress
  PROVE  Kept
  <1>1. PICK n : Successor(n) /\ Moves(n)
    <2>1. TypeOK /\ server.seq < MaxSeq /\ server.state \in States
      BY StatusFields DEF IInv, TypeOK, ServerProgress
    <2>2. server.state = "running" => Active(server)
      BY DEF Active
    <2>3. {"stopping", "done"} \subseteq States
      BY DEF States
    <2>. QED  BY <2>1, <2>2, <2>3, LaterIsSuccessor DEF ServerProgress, NewScan
  <1>2. /\ server' = n /\ server' \in Statuses /\ past' \subseteq Statuses
        /\ past \subseteq past' /\ HistoryIsOrdered' /\ past' = past \union {server'}
    BY <1>1, ServerMoved DEF Moves
  <1>3. UNCHANGED <<refresh, command, latest, loading, timer, faults, clicks>>
    BY DEF ServerProgress
  <1>4. KeepScreen
    BY DEF ServerProgress
  <1>5. TypeOK' /\ Sourced'
    BY <1>2, <1>3, <1>4, ScreenKept, RestTyped DEF TypeOK, Streams, Sourced
  <1>6. NewestIsNotOlder'
    BY <1>2, <1>3, <1>4, ScreenKept DEF IInv, NewestIsNotOlder
  <1>. QED  BY <1>2, <1>3, <1>4, <1>5, <1>6, ScreenKept DEF Kept, IInv, Promised, StillDrawn, NeverRegresses

LEMMA ServeRefreshStep ==
  ASSUME IInv, ServeRefresh
  PROVE  Kept
  <1>1. /\ UNCHANGED <<server, past, command, latest, loading, timer, faults, clicks>>
        /\ KeepScreen /\ refresh' = [refresh EXCEPT !.reply = server]
    BY DEF ServeRefresh
  <1>2. /\ server' \in Statuses /\ past' \subseteq Statuses
        /\ past \subseteq past' /\ HistoryIsOrdered'
    BY <1>1, ServerKept
  <1>3. /\ refresh \in [mode : Modes, reply : Replies] /\ server \in Replies
        /\ server \in past /\ server \in Statuses /\ shown \in Statuses
    BY DEF IInv, TypeOK, HistoryIsOrdered, Replies
  <1>4. refresh' \in [mode : Modes, reply : Replies] /\ refresh'.reply = server
    BY <1>1, <1>3
  <1>5. TypeOK' /\ Sourced'
    BY <1>1, <1>2, <1>3, <1>4, ScreenKept, RestTyped DEF TypeOK, Streams, Sourced
  <1>6. server.seq >= shown'.seq
    BY <1>1, <1>3, ScreenIsPast, ScreenKept, <1>2, StatusFields
  <1>7. NewestIsNotOlder'
    BY <1>1, <1>2, <1>4, <1>6, ScreenKept DEF IInv, NewestIsNotOlder
  <1>. QED  BY <1>1, <1>2, <1>5, <1>7, ScreenKept DEF Kept, IInv, Promised, StillDrawn, NeverRegresses

\* A command is answered with a status the server has now, or with an error.
LEMMA ServeCommandStep ==
  ASSUME IInv, ServeCommand
  PROVE  Kept
  <1>1. /\ UNCHANGED <<refresh, latest, loading, timer, faults, clicks>> /\ KeepScreen
        /\ server \in Statuses /\ server.state \in States /\ TypeOK
        /\ shown \in Statuses
    BY StatusFields DEF ServeCommand, IInv, TypeOK
  <1>2. PICK r : /\ Answer(r) /\ r \in {Failed, server'}
                 /\ \/ UNCHANGED <<server, past>>
                    \/ \E n : Successor(n) /\ Moves(n)
    <2>1. CASE ServeStart
      BY <1>1, <2>1, LaterIsSuccessor DEF ServeStart, NewScan
    <2>2. CASE ServeStop
      <3>1. {"stopping", "done"} \subseteq States
        BY DEF States
      <3>. QED  BY <1>1, <2>2, <3>1, LaterIsSuccessor DEF ServeStop
    <2>3. CASE ServeSync
      BY <2>3 DEF ServeSync
    <2>. QED  BY <2>1, <2>2, <2>3 DEF ServeCommand
  <1>3. /\ server' \in Statuses /\ past' \subseteq Statuses /\ server' \in past'
        /\ past \subseteq past' /\ HistoryIsOrdered'
        /\ server'.seq >= server.seq
        /\ \/ past' = past \union {server'}
           \/ UNCHANGED <<server, past>>
    <2>1. CASE UNCHANGED <<server, past>>
      BY <1>1, <2>1, ServerKept, StatusFields DEF IInv, HistoryIsOrdered
    <2>2. CASE \E n : Successor(n) /\ Moves(n)
      <3>1. PICK n : Successor(n) /\ Moves(n)
        BY <2>2
      <3>2. server' = n /\ past' = past \union {server'}
        BY <3>1 DEF Moves
      <3>3. server'.seq >= server.seq
        BY <1>1, <3>1, <3>2, StatusFields DEF Successor
      <3>. QED  BY <3>1, <3>2, <3>3, ServerMoved
    <2>. QED  BY <1>2, <2>1, <2>2
  <1>4. /\ command \in [kind : Kinds, reply : Replies] /\ r \in Replies
        /\ command' = [command EXCEPT !.reply = r]
    BY <1>2, <1>3 DEF Answer, IInv, TypeOK, Replies
  <1>5. command' \in [kind : Kinds, reply : Replies] /\ command'.reply = r
    BY <1>4
  <1>6. TypeOK' /\ Sourced'
    BY <1>1, <1>2, <1>3, <1>5, ScreenKept, RestTyped DEF TypeOK, Streams, Sourced
  <1>7. server'.seq >= shown'.seq
    <2>1. shown' = shown /\ shown.seq <= server.seq
      BY <1>1, <1>3, ScreenKept, ScreenIsPast
    <2>. QED  BY <1>1, <1>3, <2>1, StatusFields
  <1>8. NewestIsNotOlder'
    BY <1>1, <1>2, <1>3, <1>5, <1>7, ScreenKept DEF IInv, NewestIsNotOlder
  <1>. QED  BY <1>1, <1>3, <1>6, <1>8, ScreenKept DEF Kept, IInv, Promised, StillDrawn, NeverRegresses

LEMMA LoseStep ==
  ASSUME IInv, Lose
  PROVE  Kept
  <1>1. /\ UNCHANGED <<server, past, latest, loading, timer, clicks>> /\ KeepScreen
        /\ faults < MaxFaults /\ faults' = faults + 1
        /\ \/ UNCHANGED command /\ refresh' = [refresh EXCEPT !.reply = Failed]
           \/ UNCHANGED refresh /\ command' = [command EXCEPT !.reply = Failed]
    BY DEF Lose, LoseRefresh, LoseCommand, Answer
  <1>2. /\ server' \in Statuses /\ past' \subseteq Statuses
        /\ past \subseteq past' /\ HistoryIsOrdered'
    BY <1>1, ServerKept
  <1>3. /\ refresh \in [mode : Modes, reply : Replies]
        /\ command \in [kind : Kinds, reply : Replies]
        /\ faults \in 0 .. MaxFaults /\ Failed \in Replies
    BY DEF IInv, TypeOK, Replies
  <1>4. faults' \in 0 .. MaxFaults
    BY <1>1, <1>3
  <1>5. /\ refresh' \in [mode : Modes, reply : Replies]
        /\ command' \in [kind : Kinds, reply : Replies]
        /\ refresh'.reply \in {refresh.reply, Failed}
        /\ command'.reply \in {command.reply, Failed}
    BY <1>1, <1>3
  <1>6. TypeOK' /\ Sourced'
    BY <1>1, <1>2, <1>4, <1>5, ScreenKept, RestTyped DEF TypeOK, Streams, Sourced
  <1>7. NewestIsNotOlder'
    BY <1>1, <1>2, <1>5, ScreenKept DEF IInv, NewestIsNotOlder
  <1>. QED  BY <1>1, <1>2, <1>6, <1>7, ScreenKept DEF Kept, IInv, Promised, StillDrawn, NeverRegresses

\* The poll timer and the user's refresh.
LEMMA BeginRefreshStep ==
  ASSUME IInv, PollTimer \/ Refresh
  PROVE  Kept
  <1>1. /\ UNCHANGED <<server, past, shown, command, loading, faults>> /\ KeepPanel
        /\ latest' = "refresh"
        /\ timer' = "waiting" \/ UNCHANGED timer
        /\ UNCHANGED clicks \/ (clicks < MaxClicks /\ clicks' = clicks + 1)
        /\ UNCHANGED screen \/ screen' = [screen EXCEPT !.busy = TRUE]
    BY DEF PollTimer, Refresh, BeginRefresh, Click, KeepScreen
  <1>2. PICK m \in {"poll", "manual"} : refresh' = [mode |-> m, reply |-> NoReply]
    BY DEF PollTimer, Refresh, BeginRefresh
  <1>3. /\ refresh' \in [mode : Modes, reply : Replies] /\ refresh'.reply = NoReply
    BY <1>2, RefreshTyped DEF Modes, Replies
  <1>4. /\ server' \in Statuses /\ past' \subseteq Statuses
        /\ past \subseteq past' /\ HistoryIsOrdered'
    BY <1>1, ServerKept
  <1>5. clicks' \in 0 .. MaxClicks
    BY <1>1 DEF IInv, TypeOK
  <1>6. timer' \in {"armed", "waiting"} /\ latest' \in {"none", "refresh", "command"}
    BY <1>1, RestTyped
  <1>7. screen' \in Renders /\ screen'.status = screen.status
    BY <1>1, ClickedTyped DEF IInv, TypeOK
  <1>8. /\ shown' \in Statuses /\ ~(shown'.seq < shown.seq)
        /\ \A s \in {shown', screen'.status} : s = FirstStatus \/ s \in past'
    BY <1>1, <1>4, <1>7, StatusKept
  <1>9. TypeOK' /\ Sourced'
    BY <1>1, <1>3, <1>4, <1>5, <1>6, <1>7, <1>8, PanelKept, RestTyped
    DEF TypeOK, Streams, Sourced
  <1>10. NewestIsNotOlder'
    BY <1>1, <1>3 DEF NewestIsNotOlder
  <1>. QED  BY <1>1, <1>4, <1>7, <1>8, <1>9, <1>10, PanelKept
            DEF Kept, IInv, Promised, StillDrawn, NeverRegresses

LEMMA IssueStep ==
  ASSUME IInv, Start \/ Stop \/ Replace \/ SyncAfterStart
  PROVE  Kept
  <1>1. /\ UNCHANGED <<server, past, shown, refresh, loading, timer, faults>> /\ KeepPanel
        /\ latest' = "command"
        /\ UNCHANGED clicks \/ (clicks < MaxClicks /\ clicks' = clicks + 1)
        /\ screen' = [screen EXCEPT !.busy = TRUE, !.commanding = TRUE]
    BY DEF Start, Stop, Replace, SyncAfterStart, Issue, Click
  <1>2. PICK k \in Kinds : command' = [kind |-> k, reply |-> NoReply]
    BY DEF Start, Stop, Replace, SyncAfterStart, Issue, Kinds
  <1>3. command' \in [kind : Kinds, reply : Replies] /\ command'.reply = NoReply
    BY <1>2, CommandTyped DEF Replies
  <1>4. /\ server' \in Statuses /\ past' \subseteq Statuses
        /\ past \subseteq past' /\ HistoryIsOrdered'
    BY <1>1, ServerKept
  <1>5. clicks' \in 0 .. MaxClicks
    BY <1>1 DEF IInv, TypeOK
  <1>6. latest' \in {"none", "refresh", "command"}
    BY <1>1
  <1>7. screen' \in Renders /\ screen'.status = screen.status
    BY <1>1, ClickedTyped DEF IInv, TypeOK
  <1>8. /\ shown' \in Statuses /\ ~(shown'.seq < shown.seq)
        /\ \A s \in {shown', screen'.status} : s = FirstStatus \/ s \in past'
    BY <1>1, <1>4, <1>7, StatusKept
  <1>9. TypeOK' /\ Sourced'
    BY <1>1, <1>3, <1>4, <1>5, <1>6, <1>7, <1>8, PanelKept, RestTyped
    DEF TypeOK, Streams, Sourced
  <1>10. NewestIsNotOlder'
    BY <1>1, <1>3 DEF NewestIsNotOlder
  <1>. QED  BY <1>1, <1>4, <1>7, <1>8, <1>9, <1>10, PanelKept
            DEF Kept, IInv, Promised, StillDrawn, NeverRegresses

\* The reply with the newest version is no older than what the panel holds.
LEMMA NewestFollows ==
  ASSUME IInv, NEW s \in past, s.seq >= shown.seq,
         UNCHANGED <<server, past, settled, screen>>, shown' = s
  PROVE  Promised /\ NeverRegresses
  <1>1. After(shown, s)
    BY ScreenIsPast
  <1>2. s \in Statuses /\ shown \in Statuses
    BY ScreenIsPast
  <1>3. ~(s.seq < shown.seq)
    BY <1>2, StatusFields
  <1>. QED  BY <1>1, <1>3 DEF Promised, StillDrawn, NeverRegresses

LEMMA ReceiveRefreshStep ==
  ASSUME IInv, ReceiveRefresh
  PROVE  Kept
  <1>1. /\ UNCHANGED <<server, past, screen, command, faults, clicks>> /\ KeepPanel
        /\ refresh' = NoRefresh
        /\ refresh.reply # NoReply /\ ApplyRefresh /\ timer' = "armed"
        /\ latest' = IF latest = "refresh" THEN "none" ELSE latest
        /\ loading' = (loading /\ refresh.mode # "initial")
    BY DEF ReceiveRefresh, ApplyRefresh
  <1>2. /\ refresh' \in [mode : Modes, reply : Replies] /\ refresh'.reply = NoReply
        /\ refresh.reply \in Replies /\ NoReply \notin Statuses
    BY <1>1, RefreshTyped DEF Modes, Replies, NoRefresh, IInv, TypeOK
  <1>3. /\ server' \in Statuses /\ past' \subseteq Statuses
        /\ past \subseteq past' /\ HistoryIsOrdered'
    BY <1>1, ServerKept
  <1>4. latest' \in {"none", "refresh", "command"} /\ latest' # "refresh"
        /\ (latest' = "command" => latest = "command") /\ loading' \in BOOLEAN
    BY <1>1 DEF IInv, TypeOK
  <1>5. screen' \in Renders /\ screen'.status = screen.status
        /\ (screen.status = FirstStatus \/ screen.status \in past')
    BY <1>1 DEF IInv, TypeOK, Sourced
  <1>6. CASE latest = "refresh" /\ refresh.reply # Failed
    <2>1. refresh.reply \in Statuses /\ refresh.reply \in past
      BY <1>1, <1>2, <1>6, RestTyped DEF Replies
    <2>2. refresh.reply.seq >= shown.seq
      BY <1>6, <2>1 DEF IInv, NewestIsNotOlder
    <2>3. shown' = refresh.reply
      BY <1>1, <1>6 DEF ApplyRefresh
    <2>4. TypeOK' /\ Sourced'
      BY <1>1, <1>2, <1>3, <1>4, <1>5, <2>1, <2>3, PanelKept, RestTyped
      DEF TypeOK, Streams, Sourced
    <2>5. NewestIsNotOlder'
      BY <1>1, <1>4, <1>6 DEF NewestIsNotOlder
    <2>6. Promised /\ NeverRegresses
      BY <1>1, <1>3, <2>1, <2>2, <2>3, PanelKept, NewestFollows
    <2>. QED  BY <1>1, <1>3, <2>4, <2>5, <2>6, PanelKept DEF Kept, IInv
  <1>7. CASE ~(latest = "refresh" /\ refresh.reply # Failed)
    <2>1. KeepScreen
      BY <1>1, <1>7 DEF ApplyRefresh, KeepScreen
    <2>2. TypeOK' /\ Sourced'
      BY <1>1, <1>2, <1>3, <1>4, <2>1, ScreenKept, RestTyped DEF TypeOK, Streams, Sourced
    <2>3. NewestIsNotOlder'
      BY <1>1, <1>3, <1>4, <2>1, ScreenKept DEF IInv, NewestIsNotOlder
    <2>. QED  BY <1>1, <1>3, <2>1, <2>2, <2>3, ScreenKept
              DEF Kept, IInv, Promised, StillDrawn, NeverRegresses
  <1>. QED  BY <1>6, <1>7

LEMMA EndCommandStep ==
  ASSUME IInv, EndCommand
  PROVE  Kept
  <1>1. /\ UNCHANGED <<server, past, screen, refresh, loading, timer, faults, clicks>>
        /\ KeepPanel
        /\ command' = NoCommand
        /\ command.reply # NoReply /\ ApplyCommand
        /\ latest' = IF latest = "command" THEN "none" ELSE latest
    BY DEF EndCommand
  <1>2. /\ command' \in [kind : Kinds, reply : Replies] /\ command'.reply = NoReply
        /\ command.reply \in Replies
    BY <1>1, CommandTyped DEF Kinds, Replies, NoCommand, IInv, TypeOK
  <1>3. /\ server' \in Statuses /\ past' \subseteq Statuses
        /\ past \subseteq past' /\ HistoryIsOrdered'
    BY <1>1, ServerKept
  <1>4. latest' \in {"none", "refresh", "command"} /\ latest' # "command"
        /\ (latest' = "refresh" => latest = "refresh")
    BY <1>1 DEF IInv, TypeOK
  <1>5. screen' \in Renders /\ screen'.status = screen.status
        /\ (screen.status = FirstStatus \/ screen.status \in past')
    BY <1>1 DEF IInv, TypeOK, Sourced
  <1>6. CASE latest = "command" /\ command.reply # Failed
    <2>1. command.reply \in Statuses /\ command.reply \in past
      BY <1>1, <1>2, <1>6, RestTyped DEF Replies
    <2>2. command.reply.seq >= shown.seq
      BY <1>6, <2>1 DEF IInv, NewestIsNotOlder
    <2>3. shown' = command.reply
      BY <1>1, <1>6 DEF ApplyCommand
    <2>4. TypeOK' /\ Sourced'
      BY <1>1, <1>2, <1>3, <1>4, <1>5, <2>1, <2>3, PanelKept, RestTyped
      DEF TypeOK, Streams, Sourced
    <2>5. NewestIsNotOlder'
      BY <1>1, <1>4, <1>6 DEF NewestIsNotOlder
    <2>6. Promised /\ NeverRegresses
      BY <1>1, <1>3, <2>1, <2>2, <2>3, PanelKept, NewestFollows
    <2>. QED  BY <1>1, <1>3, <2>4, <2>5, <2>6, PanelKept DEF Kept, IInv
  <1>7. CASE ~(latest = "command" /\ command.reply # Failed)
    <2>1. KeepScreen
      BY <1>1, <1>7 DEF ApplyCommand, KeepScreen
    <2>2. TypeOK' /\ Sourced'
      BY <1>1, <1>2, <1>3, <1>4, <2>1, ScreenKept, RestTyped DEF TypeOK, Streams, Sourced
    <2>3. NewestIsNotOlder'
      BY <1>1, <1>3, <1>4, <2>1, ScreenKept DEF IInv, NewestIsNotOlder
    <2>. QED  BY <1>1, <1>3, <2>1, <2>2, <2>3, ScreenKept
              DEF Kept, IInv, Promised, StillDrawn, NeverRegresses
  <1>. QED  BY <1>6, <1>7

\* A step of the stream itself: only the stream and what it shows changes.
LEMMA RenderKept ==
  ASSUME IInv, UNCHANGED <<past, screen, settled, notices>>
  PROVE  /\ screen' \in Renders /\ settled' \in Statuses
         /\ notices' \in [0 .. MaxJobs -> Nat] /\ FinishAnnouncedOnce'
         /\ \A s \in {screen'.status, settled'} : s = FirstStatus \/ s \in past'
         /\ shown \in Statuses /\ (shown = FirstStatus \/ shown \in past)
  BY DEF IInv, TypeOK, Sourced, FinishAnnouncedOnce, Finished

\* A stream that opens or breaks has nothing to deliver yet.
LEMMA StreamOpenOrBreakStep ==
  ASSUME IInv, StreamOpen \/ StreamBreak
  PROVE  Kept
  <1>1. /\ UNCHANGED <<server, past, shown, screen, settled, refresh, command, latest,
                       loading, notices, clicks>>
        /\ stream.state \in {"connecting", "connected", "fallback"}
        /\ timer' = "armed"
        /\ UNCHANGED faults \/ (faults < MaxFaults /\ faults' = faults + 1)
    BY DEF StreamOpen, StreamBreak
  <1>2. /\ stream' \in Streams /\ stream'.queue = <<>> /\ Len(stream'.queue) = 0
    BY QuietTyped DEF StreamOpen, StreamBreak, StreamStates
  <1>3. /\ server' \in Statuses /\ past' \subseteq Statuses
        /\ past \subseteq past' /\ HistoryIsOrdered'
    BY <1>1, ServerKept
  <1>4. faults' \in 0 .. MaxFaults
    BY <1>1 DEF IInv, TypeOK
  <1>5. TypeOK' /\ Sourced'
    BY <1>1, <1>2, <1>3, <1>4, RenderKept, RestTyped DEF TypeOK, Streams, Sourced
  <1>6. NewestIsNotOlder'
    BY <1>1 DEF IInv, NewestIsNotOlder
  <1>7. Active(settled)
    BY <1>1 DEF IInv, StreamIsOfTheScan
  <1>8. StreamIsOfTheScan'
    BY <1>1, <1>2, <1>7 DEF StreamIsOfTheScan, Active
  <1>9. ~(shown'.seq < shown.seq)
    BY <1>1, ScreenIsPast, StatusFields
  <1>. QED  BY <1>1, <1>3, <1>5, <1>6, <1>8, <1>9, RenderKept
            DEF Kept, IInv, Promised, StillDrawn, NeverRegresses

LEMMA StreamSendStep ==
  ASSUME IInv, StreamSend
  PROVE  Kept
  <1>1. /\ UNCHANGED <<server, past, shown, screen, settled, refresh, command, latest,
                       loading, timer, notices, faults, clicks>>
        /\ stream.state = "connected"
        /\ stream' = [stream EXCEPT !.queue = Append(@, server), !.sent = server]
    BY DEF StreamSend
  <1>2. settled.job <= server.job /\ settled \in Statuses /\ server \in Statuses
    BY PastIsBefore
  <1>3. /\ stream \in Streams /\ server \in past
        /\ server.job >= settled.job /\ stream.queue \in Seq(Statuses)
    BY <1>2, StatusFields DEF IInv, TypeOK, HistoryIsOrdered, Streams
  <1>4. Append(stream.queue, server) \in Seq(Statuses)
    BY <1>2, <1>3
  <1>5. /\ stream' \in Streams /\ stream'.state = stream.state
        /\ stream'.queue = Append(stream.queue, server)
    BY <1>1, <1>2, <1>3, <1>4 DEF Streams
  <1>6. \A i \in 1 .. Len(stream'.queue) :
           stream'.queue[i] \in past /\ stream'.queue[i].job >= settled.job
    <2>. SUFFICES ASSUME NEW i \in 1 .. Len(stream'.queue)
                  PROVE  stream'.queue[i] \in past /\ stream'.queue[i].job >= settled.job
      OBVIOUS
    <2>1. CASE i \in 1 .. Len(stream.queue)
      <3>1. stream'.queue[i] = stream.queue[i]
        BY <1>2, <1>3, <1>5, <2>1
      <3>. QED  BY <2>1, <3>1 DEF IInv, Sourced, StreamIsOfTheScan
    <2>2. CASE i \notin 1 .. Len(stream.queue)
      <3>1. stream'.queue[i] = server
        BY <1>2, <1>3, <1>5, <2>2
      <3>. QED  BY <1>3, <3>1
    <2>. QED  BY <2>1, <2>2
  <1>7. /\ server' \in Statuses /\ past' \subseteq Statuses /\ HistoryIsOrdered'
    BY <1>1, ServerKept
  <1>8. TypeOK' /\ Sourced'
    BY <1>1, <1>5, <1>6, <1>7, RenderKept, RestTyped DEF TypeOK, Streams, Sourced
  <1>9. NewestIsNotOlder'
    BY <1>1 DEF IInv, NewestIsNotOlder
  <1>10. StreamIsOfTheScan'
    BY <1>1, <1>5, <1>6 DEF IInv, StreamIsOfTheScan, Active
  <1>11. ~(shown'.seq < shown.seq)
    BY <1>1, ScreenIsPast, StatusFields
  <1>. QED  BY <1>1, <1>7, <1>8, <1>9, <1>10, <1>11, RenderKept
            DEF Kept, IInv, Promised, StillDrawn, NeverRegresses

LEMMA TailElements ==
  ASSUME NEW q \in Seq(Statuses), q # <<>>, NEW i \in 1 .. Len(Tail(q))
  PROVE  i + 1 \in 1 .. Len(q) /\ Tail(q)[i] = q[i + 1]
  OBVIOUS

\* An event is of the active scan that the effects ran for, or of a later one.
LEMMA StreamEventStep ==
  ASSUME IInv, StreamEvent
  PROVE  Kept
  <1>. DEFINE s == Head(stream.queue)
  <1>1. /\ UNCHANGED <<server, past, screen, settled, refresh, command, timer,
                       notices, faults, clicks>>
        /\ stream.queue # <<>> /\ shown' = s
        /\ stream' = IF Finished(s) THEN Quiet("idle") ELSE Delivered
        /\ latest' = "none" /\ loading' = FALSE
    BY DEF StreamEvent
  <1>2. /\ stream \in Streams /\ stream.queue \in Seq(Statuses)
        /\ 1 \in 1 .. Len(stream.queue) /\ s = stream.queue[1]
    BY <1>1 DEF IInv, TypeOK, Streams
  <1>3. s \in past /\ s \in Statuses /\ s.job >= settled.job
    BY <1>2 DEF IInv, TypeOK, Sourced, StreamIsOfTheScan
  <1>4. Active(settled) /\ ~Finished(settled) /\ stream.state = "connected"
    BY <1>1 DEF IInv, StreamIsOfTheScan, Active, Finished
  <1>5. /\ server' \in Statuses /\ past' \subseteq Statuses
        /\ past \subseteq past' /\ HistoryIsOrdered'
    BY <1>1, ServerKept
  <1>6. /\ stream' \in Streams /\ StreamIsOfTheScan'
        /\ \A i \in 1 .. Len(stream'.queue) : stream'.queue[i] \in past'
    <2>1. CASE Finished(s)
      <3>1. /\ stream' \in Streams /\ stream'.queue = <<>> /\ Len(stream'.queue) = 0
            /\ stream'.state = "idle"
        BY <1>1, <2>1, QuietTyped DEF StreamStates
      <3>. QED  BY <3>1 DEF StreamIsOfTheScan
    <2>2. CASE ~Finished(s)
      <3>1. stream' = [stream EXCEPT !.queue = Tail(stream.queue)]
        BY <1>1, <2>2 DEF Delivered
      <3>2. Tail(stream.queue) \in Seq(Statuses)
        BY <1>1, <1>2
      <3>3. /\ stream' \in Streams /\ stream'.state = stream.state
            /\ stream'.queue = Tail(stream.queue)
        BY <1>2, <3>1, <3>2 DEF Streams
      <3>4. \A i \in 1 .. Len(stream'.queue) :
               stream'.queue[i] \in past /\ stream'.queue[i].job >= settled.job
        <4>. SUFFICES ASSUME NEW i \in 1 .. Len(stream'.queue)
                      PROVE  stream'.queue[i] \in past /\ stream'.queue[i].job >= settled.job
          OBVIOUS
        <4>1. i + 1 \in 1 .. Len(stream.queue) /\ stream'.queue[i] = stream.queue[i + 1]
          BY <1>1, <1>2, <3>3, TailElements
        <4>. QED  BY <4>1 DEF IInv, Sourced, StreamIsOfTheScan
      <3>5. StreamIsOfTheScan'
        BY <1>1, <1>4, <3>3, <3>4 DEF StreamIsOfTheScan, Active
      <3>. QED  BY <1>1, <3>3, <3>4, <3>5
    <2>. QED  BY <2>1, <2>2
  <1>7. TypeOK' /\ Sourced'
    BY <1>1, <1>3, <1>5, <1>6, RenderKept, RestTyped DEF TypeOK, Streams, Sourced
  <1>8. NewestIsNotOlder'
    BY <1>1 DEF NewestIsNotOlder
  <1>9. After(settled, s)
    BY <1>3, <1>4 DEF After
  <1>10. Promised /\ NeverRegresses
    BY <1>1, <1>3, <1>9 DEF Promised, StillDrawn, NeverRegresses
  <1>. QED  BY <1>1, <1>5, <1>6, <1>7, <1>8, <1>10, RenderKept DEF Kept, IInv

\* A render draws the status that the panel holds.
LEMMA RenderStep ==
  ASSUME IInv, Render
  PROVE  Kept
  <1>1. /\ UNCHANGED <<server, past, shown, settled, refresh, command, latest, loading,
                       stream, timer, notices, faults, clicks>>
        /\ settled = screen.status /\ screen' = Rendering
    BY DEF Render
  <1>2. screen' \in Renders /\ screen'.status = shown
    BY <1>1, RenderingTyped DEF IInv
  <1>3. /\ server' \in Statuses /\ past' \subseteq Statuses
        /\ past \subseteq past' /\ HistoryIsOrdered'
    BY <1>1, ServerKept
  <1>4. KeepPanel
    BY <1>1 DEF KeepPanel
  <1>5. shown \in Statuses /\ (shown = FirstStatus \/ shown \in past)
    BY DEF IInv, TypeOK, Sourced
  <1>6. TypeOK' /\ Sourced'
    BY <1>1, <1>2, <1>3, <1>4, <1>5, PanelKept, RestTyped DEF TypeOK, Streams, Sourced
  <1>7. NewestIsNotOlder'
    BY <1>1 DEF IInv, NewestIsNotOlder
  <1>8. ~(shown'.seq < shown.seq)
    BY <1>1, <1>5, StatusFields
  <1>. QED  BY <1>1, <1>2, <1>3, <1>4, <1>6, <1>7, <1>8, PanelKept
            DEF Kept, IInv, Promised, NeverRegresses

\* The effects settle on what was drawn.
LEMMA RunEffectsStep ==
  ASSUME IInv, RunEffects
  PROVE  Kept
  <1>. DEFINE s == screen.status
  <1>1. /\ UNCHANGED <<server, past, shown, screen, refresh, command, latest, loading,
                       faults, clicks>>
        /\ settled' = s /\ stream' = Resubscribed(s) /\ notices' = Announced(s)
        /\ timer' = "armed"
    BY DEF RunEffects
  <1>2. /\ s \in Statuses /\ shown \in Statuses /\ screen \in Renders
        /\ \A t \in {shown, s} : t = FirstStatus \/ t \in past
    BY DEF IInv, TypeOK, Renders, Sourced
  <1>3. notices' \in [0 .. MaxJobs -> Nat] /\ FinishAnnouncedOnce'
    BY <1>1, <1>2, AnnouncedRight
  <1>4. /\ server' \in Statuses /\ past' \subseteq Statuses
        /\ past \subseteq past' /\ HistoryIsOrdered'
    BY <1>1, ServerKept
  <1>5. /\ stream' \in Streams /\ StreamIsOfTheScan'
        /\ \A i \in 1 .. Len(stream'.queue) : stream'.queue[i] \in past'
    <2>1. CASE /\ Resubscribed(s) = stream
               /\ Active(s) = Active(settled) /\ s.job = settled.job
      BY <1>1, <1>2, <2>1, ResubscribedRight
      DEF IInv, StreamIsOfTheScan, Active, Sourced
    <2>2. CASE /\ Resubscribed(s).queue = <<>> /\ Len(Resubscribed(s).queue) = 0
               /\ \/ Resubscribed(s).state \in {"idle", "unsupported"}
                  \/ Resubscribed(s).state = "connecting" /\ Active(s)
      BY <1>1, <1>2, <2>2, ResubscribedRight DEF StreamIsOfTheScan, Active
    <2>. QED  BY <1>2, <2>1, <2>2, ResubscribedRight
  <1>6. TypeOK' /\ Sourced'
    BY <1>1, <1>2, <1>3, <1>4, <1>5, RestTyped DEF TypeOK, Streams, Sourced
  <1>7. NewestIsNotOlder'
    BY <1>1 DEF IInv, NewestIsNotOlder
  <1>8. ~(shown'.seq < shown.seq)
    BY <1>1, <1>2, StatusFields
  <1>. QED  BY <1>1, <1>3, <1>4, <1>5, <1>6, <1>7, <1>8
            DEF Kept, IInv, Promised, StillDrawn, NeverRegresses

LEMMA NextKeeps == IInv /\ Next => Kept
  BY RenderStep, RunEffectsStep, ServerProgressStep, ServeRefreshStep, ServeCommandStep,
     LoseStep, BeginRefreshStep, IssueStep, ReceiveRefreshStep, EndCommandStep,
     StreamOpenOrBreakStep, StreamSendStep, StreamEventStep
  DEF Next, ReceiveCommand

LEMMA StutterKeeps == IInv /\ UNCHANGED vars => Kept
  <1>. SUFFICES ASSUME IInv, UNCHANGED vars PROVE Kept
    OBVIOUS
  <1>1. IInv'
    BY DEF IInv, vars, TypeOK, HistoryIsOrdered, Sourced, NewestIsNotOlder,
           StreamIsOfTheScan, FinishAnnouncedOnce, After, Active, Finished
  <1>2. ~(shown'.seq < shown.seq)
    BY ScreenIsPast, StatusFields DEF vars
  <1>. QED  BY <1>1, <1>2 DEF Kept, Promised, StillDrawn, NeverRegresses, vars

LEMMA SpecInv == Spec => []IInv
  <1>1. IInv /\ [Next]_vars => IInv'
    BY NextKeeps, StutterKeeps DEF Kept
  <1>. QED  BY InitInv, <1>1, PTL DEF Spec

-----------------------------------------------------------------------------
(* Theorems *)

\* Every variable of the import panel keeps its type, for any bounds.
THEOREM ScanProgressTypesCorrect == Spec => []TypeOK
  <1>1. IInv => TypeOK
    BY DEF IInv
  <1>. QED  BY <1>1, SpecInv, PTL

\* The effect on the terminal key refreshes the category counts exactly once
\* for each finished scan whose render it has run for (scan-progress.tsx:243-254).
THEOREM FinishIsAnnouncedOnce == Spec => []FinishAnnouncedOnce
  <1>1. IInv => FinishAnnouncedOnce
    BY DEF IInv
  <1>. QED  BY <1>1, SpecInv, PTL

\* The request versions do what their comment says (scan-progress.tsx:108-177):
\* no reply to a request puts an older status on the screen.
THEOREM NoReplyRegresses == Spec => RepliesNeverRegress
  <1>1. IInv /\ [Next]_vars
        => [shown'.seq < shown.seq => stream.queue # <<>> /\ shown' = Head(stream.queue)]_vars
    BY NextKeeps, StutterKeeps DEF Kept, NeverRegresses
  <1>. QED  BY <1>1, SpecInv, PTL DEF Spec, RepliesNeverRegress

\* The panel implements ScanView: what it shows is a status the server has
\* had, and never behind both what it showed and what its effects last ran
\* for; the effects run for each render before the next one.  Events of the
\* live stream are applied without a check (scan-progress.tsx:198-217), and
\* the stream is closed by an effect only (229), so no more than that holds.
THEOREM PanelImplementsView == Spec => KeepsItsPromises
  <1>1. Init => View!Init
    <2>. SUFFICES ASSUME Init PROVE View!Init
      OBVIOUS
    <2>1. IInv
      BY InitInv
    <2>2. screen.status = FirstStatus /\ settled = FirstStatus
      BY <2>1, RenderingTyped DEF IInv, Init
    <2>. QED  BY <2>1, <2>2 DEF View!Init, Init, IInv, TypeOK
  <1>2. IInv /\ [Next]_vars => [View!Next]_(View!vars)
    <2>. SUFFICES ASSUME IInv, [Next]_vars PROVE [View!Next]_(View!vars)
      OBVIOUS
    <2>1. Promised
      BY NextKeeps, StutterKeeps DEF Kept
    <2>2. CASE /\ server' \in Statuses /\ past' = past \union {server'}
               /\ UNCHANGED <<shown, settled>> /\ StillDrawn
      BY <2>2 DEF View!Next, View!ServerMoves, StillDrawn
    <2>3. CASE UNCHANGED <<server, past, shown, settled>> /\ StillDrawn
      BY <2>3 DEF View!vars, StillDrawn
    <2>4. CASE /\ shown' \in past /\ (After(shown, shown') \/ After(settled, shown'))
               /\ UNCHANGED <<server, past, settled>> /\ StillDrawn
      <3>1. View!Follows(shown', shown) \/ View!Follows(shown', settled)
        BY <2>4 DEF View!Follows, View!Finished, After, Finished
      <3>2. View!Shows(shown')
        BY <2>4, <3>1 DEF View!Shows, StillDrawn
      <3>. QED  BY <2>4, <3>2 DEF View!Next
    <2>5. CASE /\ settled = screen.status /\ screen'.status = shown
               /\ UNCHANGED <<server, past, shown, settled>>
      BY <2>5 DEF View!Next, View!Draws
    <2>6. CASE /\ settled' = screen.status
               /\ UNCHANGED <<server, past, shown>> /\ StillDrawn
      BY <2>6 DEF View!Next, View!SettlesOnIt, StillDrawn
    <2>. QED  BY <2>1, <2>2, <2>3, <2>4, <2>5, <2>6 DEF Promised
  <1>. QED  BY <1>1, <1>2, SpecInv, PTL DEF Spec, KeepsItsPromises, View!Spec
=============================================================================
