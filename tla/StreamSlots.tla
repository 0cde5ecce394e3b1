---------------------------- MODULE StreamSlots ----------------------------
(***************************************************************************)
(* The status streams of one account (streams.py, scan_status_stream of     *)
(* router.py).  A stream is a request that claims one of a few slots, each  *)
(* a row with an owner and an expiry, then loops: every heartbeat it checks *)
(* its web session and renews the row, every poll it reports the scan.      *)
(*                                                                          *)
(* Time is relative: expiries and ages count ticks from now, so that only   *)
(* what the code compares is kept.  A statement is sent some time after its *)
(* clock was read; `age` is how long ago that was.                          *)
(***************************************************************************)
EXTENDS Integers, FiniteSets

CONSTANTS
  Streams,    \* requests to the stream endpoint, each with its fresh uuid
  MaxStreams, \* settings.scan_max_streams_per_user
  Lease,      \* STREAM_LEASE_SECONDS, in ticks
  Heartbeat,  \* STREAM_HEARTBEAT_SECONDS, in ticks
  MaxDelay,   \* bound: ticks between reading the clock and the statement
  Free        \* a slot without a row

ASSUME StreamsAssumption == Free \notin Streams /\ IsFiniteSet(Streams)
ASSUME TimesAssumption ==
  /\ MaxStreams \in Nat \ {0}
  /\ Lease \in Nat \ {0}
  /\ Heartbeat \in Nat \ {0}
  /\ MaxDelay \in Nat \ {0}

VARIABLES
  slot,     \* scan_stream_slots: owner and ticks left, by slot number
  stream,   \* the locals of each request
  scanning  \* whether the account's newest scan is active

vars == <<slot, stream, scanning>>

Slots == 0 .. MaxStreams - 1

\* An expiry further back than any clock still in use need not be told apart.
Ticks == -MaxDelay .. Lease
Sooner(left) == IF left > -MaxDelay THEN left - 1 ELSE left

RowType == [owner : Streams \union {Free}, left : Ticks]
NoRow == [owner |-> Free, left |-> 0]

Claiming  == {"reclaim", "insert"}
Streaming == {"claimed", "top", "renew", "poll"}
Over      == {"refused", "done"}

StreamType ==
  [pc      : {"new", "release"} \union Claiming \union Streaming \union Over,
   slot    : Slots,          \* the slot tried or held
   age     : 0 .. MaxDelay,     \* ticks since `now` was read
   left    : Ticks,             \* ticks until the lease it last wrote runs out
   beat    : 0 .. Heartbeat, \* ticks until next_heartbeat_at
   session : BOOLEAN]        \* whether its web session is still active

NewStream ==
  [pc |-> "new", slot |-> 0, age |-> 0, left |-> 0, beat |-> 0,
   session |-> TRUE]

Init ==
  /\ slot = [i \in Slots |-> NoRow]
  /\ stream = [s \in Streams |-> NewStream]
  /\ scanning \in BOOLEAN

At(s, pc) == stream[s].pc = pc
Mine(s) == stream[s].slot
Goto(s, pc) == stream' = [stream EXCEPT ![s].pc = pc]

\* Leave the loop or the claim: of the locals only the slot still matters.
Quit(s, pc) ==
  stream' = [stream EXCEPT ![s] = [NewStream EXCEPT !.pc = pc, !.slot = Mine(s)]]

\* The row of a slot as the clock of s sees it.
ExpiredFor(s, i) == slot[i].owner # Free /\ slot[i].left <= -stream[s].age
LiveFor(s, i)    == slot[i].owner # Free /\ slot[i].left > -stream[s].age

\* The expiry that s writes, computed from its clock.
Until(s) == Lease - stream[s].age

(***************************************************************************)
(* claim_scan_stream: one clock for all slots.  For each an UPDATE of an    *)
(* expired row, then, if there was none, an INSERT that fails if there is a *)
(* row by then.                                                             *)
(***************************************************************************)
Request(s) ==
  /\ At(s, "new")
  /\ Goto(s, "reclaim")
  /\ UNCHANGED <<slot, scanning>>

Take(s) ==
  /\ slot' = [slot EXCEPT ![Mine(s)] = [owner |-> s, left |-> Until(s)]]
  /\ stream' = [stream EXCEPT ![s].pc = "claimed", ![s].left = Until(s),
                              ![s].age = 0]

\* Mutant: reclaim by slot number alone, whoever holds it.
ReclaimableUnexpired(s) == slot[Mine(s)].owner # Free

Reclaimable(s) == ExpiredFor(s, Mine(s))

Reclaim(s) ==
  /\ At(s, "reclaim")
  /\ \/ Reclaimable(s) /\ Take(s)
     \/ ~Reclaimable(s) /\ Goto(s, "insert") /\ UNCHANGED slot
  /\ UNCHANGED scanning

NextSlot(s) ==
  IF Mine(s) + 1 \in Slots
  THEN stream' = [stream EXCEPT ![s].pc = "reclaim", ![s].slot = @ + 1]
  ELSE Quit(s, "refused")

Insert(s) ==
  /\ At(s, "insert")
  /\ \/ slot[Mine(s)].owner = Free /\ Take(s)
     \/ slot[Mine(s)].owner # Free /\ NextSlot(s) /\ UNCHANGED slot
  /\ UNCHANGED scanning

(***************************************************************************)
(* event_stream.  The body starts some time after the claim, if the client  *)
(* is still there.                                                          *)
(***************************************************************************)
StartBody(s) ==
  /\ At(s, "claimed")
  /\ stream' = [stream EXCEPT ![s].pc = "top", ![s].beat = Heartbeat]
  /\ UNCHANGED <<slot, scanning>>

\* Mutant: renew the slot without checking the web session.
SessionUnchecked(s) == stream[s].session \in BOOLEAN

\* The top of the loop: when a heartbeat is due the web session is checked
\* first and the clock of the renewal read after that.
SessionActive(s) == stream[s].session

Top(s) ==
  /\ At(s, "top")
  /\ \/ stream[s].beat > 0 /\ Goto(s, "poll")
     \/ /\ stream[s].beat = 0
        /\ SessionActive(s)
        /\ stream' = [stream EXCEPT ![s].pc = "renew", ![s].beat = Heartbeat]
     \/ /\ stream[s].beat = 0
        /\ ~SessionActive(s)
        /\ Quit(s, "release")
  /\ UNCHANGED <<slot, scanning>>

\* Mutant: renewal that ignores its outcome.
RenewableRegardless(s) == slot[Mine(s)].owner \in Streams \union {Free}

Renewable(s) == slot[Mine(s)].owner = s /\ LiveFor(s, Mine(s))

Renewed(s) ==
  /\ slot' = [slot EXCEPT ![Mine(s)].left = Until(s)]
  /\ stream' = [stream EXCEPT ![s].pc = "poll", ![s].left = Until(s),
                              ![s].age = 0]

Renew(s) ==
  /\ At(s, "renew")
  /\ \/ Renewable(s) /\ Renewed(s)
     \/ /\ ~Renewable(s)
        /\ Quit(s, "release")
        /\ UNCHANGED slot
  /\ UNCHANGED scanning

\* The status is read and, if it changed, sent.  The stream ends when the
\* scan is no longer active, and may end because max_events were sent.
Poll(s) ==
  /\ At(s, "poll")
  /\ \/ scanning /\ Goto(s, "top")
     \/ Quit(s, "release")
  /\ UNCHANGED <<slot, scanning>>

\* request.is_disconnected() at the top of the loop.
Disconnected(s) ==
  /\ At(s, "top")
  /\ Quit(s, "release")
  /\ UNCHANGED <<slot, scanning>>

\* Mutant: release the slot without asking whose it is.
ReleasedByAnyone(s) == slot[Mine(s)].owner # Free

Released(s) == slot[Mine(s)].owner = s

Release(s) ==
  /\ At(s, "release")
  /\ slot' = IF Released(s) THEN [slot EXCEPT ![Mine(s)] = NoRow] ELSE slot
  /\ Quit(s, "done")
  /\ UNCHANGED scanning

\* A request that ends without running its `finally`: its process dies, the
\* client leaves before the body is iterated, or the release itself fails.
Abandon(s) ==
  /\ ~At(s, "new") /\ stream[s].pc \notin Over
  /\ Quit(s, "done")
  /\ UNCHANGED <<slot, scanning>>

-----------------------------------------------------------------------------
(* What goes on around the streams.                                          *)

\* The clock moves.  A statement is at most MaxDelay behind its clock.
InFlight(s) == stream[s].pc \in Claiming \union {"renew"}

Tick ==
  /\ \A s \in Streams : InFlight(s) => stream[s].age < MaxDelay
  /\ slot' = [i \in Slots |->
                IF slot[i].owner = Free THEN slot[i]
                ELSE [slot[i] EXCEPT !.left = Sooner(slot[i].left)]]
  /\ stream' = [s \in Streams |->
                  IF stream[s].pc \notin Claiming \union Streaming THEN stream[s]
                  ELSE [stream[s] EXCEPT
                          !.age = IF InFlight(s) THEN stream[s].age + 1 ELSE 0,
                          !.left = Sooner(stream[s].left),
                          !.beat = IF stream[s].beat > 0
                                   THEN stream[s].beat - 1 ELSE 0]]
  /\ UNCHANGED scanning

\* Log-out, expiry or revocation of the web session of s.
EndSession(s) ==
  /\ stream[s].pc \in Claiming \union Streaming /\ stream[s].session
  /\ stream' = [stream EXCEPT ![s].session = FALSE]
  /\ UNCHANGED <<slot, scanning>>

\* A scan ends, or another is started.
ScanChanges ==
  /\ scanning' = ~scanning
  /\ UNCHANGED <<slot, stream>>

StreamStep(s) ==
  \/ Reclaim(s) \/ Insert(s) \/ StartBody(s) \/ Top(s) \/ Renew(s)
  \/ Poll(s) \/ Release(s)

Next ==
  \/ \E s \in Streams : \/ StreamStep(s) \/ Request(s) \/ Disconnected(s)
                        \/ Abandon(s) \/ EndSession(s)
  \/ Tick
  \/ ScanChanges

\* The event loop runs every request on, and time passes.
Fairness ==
  /\ WF_vars(Tick)
  /\ \A s \in Streams : WF_vars(StreamStep(s))

Spec == Init /\ [][Next]_vars
FairSpec == Spec /\ Fairness

-----------------------------------------------------------------------------
(* Properties.                                                               *)

\* Every variable keeps its type; no slot beyond the configured ones is held.
TypeOK ==
  /\ slot \in [Slots -> RowType]
  /\ stream \in [Streams -> StreamType]
  /\ scanning \in BOOLEAN

\* A stream that goes on and whose last written lease has not run out.
Live(s) == stream[s].pc \in Streaming /\ stream[s].left > 0

\* A stream is never robbed of a lease that still runs: claims, releases and
\* renewals of others, however late their statements, spare its row.
LiveLeaseIsHeld ==
  \A s \in Streams : Live(s) => slot[Mine(s)].owner = s

\* scan_max_streams_per_user bounds the streams with a running lease, over
\* all API processes.
StreamLimit == Cardinality({s \in Streams : Live(s)}) <= MaxStreams

\* A request passes over a slot only if its lease still ran when the request
\* read its clock: slots left behind by crashed streams refuse nobody.  Needs
\* statements that are late by less than a lease.
DeadSlotsRefuseNobody ==
  [][\A s \in Streams :
       At(s, "insert") /\ stream'[s].pc \in {"reclaim", "refused"}
         => LiveFor(s, Mine(s))]_vars

\* A row that is reclaimed or removed is never renewed by its former owner:
\* a stream that lost its slot notices at its next heartbeat and ends.
LostStreamEnds ==
  \A s \in Streams :
    (stream[s].pc \in Streaming /\ slot[Mine(s)].owner # s)
      ~> stream[s].pc \in Over

\* A stream does not outlive its web session by more than a heartbeat.
RevokedStreamEnds ==
  \A s \in Streams :
    (stream[s].pc \in Streaming /\ ~stream[s].session)
      ~> stream[s].pc \in Over

=============================================================================
