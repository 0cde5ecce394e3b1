------------------------ MODULE AccountLimits_proofs ------------------------
(***************************************************************************)
(* Proofs about what one account is limited to.                            *)
(*                                                                         *)
(* StreamSlots: nobody takes a lease that still runs, the streams with one *)
(* never exceed the limit, and a dead lease turns nobody away.             *)
(*                                                                         *)
(* WebSessions: the count of attempts and the lockout, a change of the     *)
(* password ends every older session, an ended session stays ended, and    *)
(* the limit on active sessions.                                           *)
(***************************************************************************)
EXTENDS StreamSlots, WebSessions, FiniteSetTheorems, TLAPS

-----------------------------------------------------------------------------
(* StreamSlots                                                              *)

(* Types.                                                                    *)

\* An expiry computed from a clock not older than MaxDelay is an expiry.
LEMMA UntilIsTicks ==
  ASSUME TypeOK, NEW s \in Streams
  PROVE  Until(s) \in Ticks /\ Until(s) >= Lease - MaxDelay
BY TimesAssumption DEF TypeOK, Until, StreamType, Ticks

\* The record a request is left with when it quits has the type of one.
LEMMA QuitType ==
  ASSUME TypeOK, NEW s \in Streams, NEW pc \in {"release"} \union Over,
         Quit(s, pc)
  PROVE  stream' \in [Streams -> StreamType]
<1>1. NewStream \in StreamType
  BY TimesAssumption DEF NewStream, StreamType, Slots, Ticks
<1>2. Mine(s) \in Slots
  BY DEF TypeOK, StreamType, Mine
<1>3. [NewStream EXCEPT !.pc = pc, !.slot = Mine(s)] \in StreamType
  BY <1>1, <1>2 DEF StreamType
<1>4. QED
  BY <1>3 DEF TypeOK, Quit

LEMMA GotoType ==
  ASSUME TypeOK, NEW s \in Streams,
         NEW pc \in {"release"} \union Claiming \union Streaming, Goto(s, pc)
  PROVE  stream' \in [Streams -> StreamType]
BY DEF TypeOK, Goto, StreamType, Claiming, Streaming

\* Init gives every variable its type.
LEMMA InitTypeOK == Init => TypeOK
BY TimesAssumption DEF Init, TypeOK, RowType, NoRow, Ticks, StreamType,
   NewStream, Slots

\* Every step keeps the types.
LEMMA NextTypeOK == TypeOK /\ [Next]_vars => TypeOK'
<1> SUFFICES ASSUME TypeOK, [Next]_vars PROVE TypeOK'
  OBVIOUS
<1>1. ASSUME NEW s \in Streams, Take(s), UNCHANGED scanning PROVE TypeOK'
  <2>1. Until(s) \in Ticks /\ 0 \in 0 .. MaxDelay
    BY UntilIsTicks, TimesAssumption
  <2>2. slot' \in [Slots -> RowType]
    BY <1>1, <2>1 DEF TypeOK, Take, RowType
  <2>3. stream' \in [Streams -> StreamType]
    BY ZenonT(60), <1>1, <2>1 DEF TypeOK, Take, StreamType, Streaming
  <2>4. QED
    BY <1>1, <2>2, <2>3 DEF TypeOK
<1>2. CASE \E s \in Streams : Request(s)
  BY <1>2, GotoType DEF Request, TypeOK, Claiming
<1>3. CASE \E s \in Streams : Reclaim(s)
  BY <1>3, <1>1, GotoType DEF Reclaim, TypeOK, Claiming
<1>4. CASE \E s \in Streams : Insert(s)
  <2> PICK s \in Streams : Insert(s)
    BY <1>4
  <2>1. CASE slot[Mine(s)].owner = Free /\ Take(s)
    BY <2>1, <1>1 DEF Insert
  <2>2. CASE NextSlot(s) /\ UNCHANGED slot
    <3>1. CASE Mine(s) + 1 \in Slots
      BY <2>2, <3>1 DEF NextSlot, TypeOK, StreamType, Mine, Insert, Claiming
    <3>2. CASE Mine(s) + 1 \notin Slots
      BY <2>2, <3>2, QuitType DEF NextSlot, TypeOK, Insert, Over
    <3>3. QED
      BY <3>1, <3>2
  <2>3. QED
    BY <2>1, <2>2 DEF Insert
<1>5. CASE \E s \in Streams : StartBody(s)
  <2>1. Heartbeat \in 0 .. Heartbeat
    BY TimesAssumption
  <2>2. QED
    BY ZenonT(60), <1>5, <2>1 DEF StartBody, TypeOK, StreamType, Streaming
<1>6. CASE \E s \in Streams : Top(s)
  <2> PICK s \in Streams : Top(s)
    BY <1>6
  <2>1. CASE Goto(s, "poll")
    BY <2>1, GotoType DEF Top, TypeOK, Streaming
  <2>2. CASE stream' = [stream EXCEPT ![s].pc = "renew", ![s].beat = Heartbeat]
    <3>1. Heartbeat \in 0 .. Heartbeat
      BY TimesAssumption
    <3>2. QED
      BY <2>2, <3>1 DEF Top, TypeOK, StreamType, Streaming
  <2>3. CASE Quit(s, "release")
    BY <2>3, QuitType DEF Top, TypeOK
  <2>4. QED
    BY <2>1, <2>2, <2>3 DEF Top
<1>7. CASE \E s \in Streams : Renew(s)
  <2> PICK s \in Streams : Renew(s)
    BY <1>7
  <2>1. CASE Renewed(s)
    <3>1. Until(s) \in Ticks /\ 0 \in 0 .. MaxDelay
      BY UntilIsTicks, TimesAssumption
    <3>2. slot' \in [Slots -> RowType]
      BY <2>1, <3>1 DEF Renewed, TypeOK, RowType
    <3>3. stream' \in [Streams -> StreamType]
      BY ZenonT(60), <2>1, <3>1 DEF Renewed, TypeOK, StreamType, Streaming
    <3>4. QED
      BY <3>2, <3>3 DEF Renew, TypeOK
  <2>2. CASE Quit(s, "release") /\ UNCHANGED slot
    BY <2>2, QuitType DEF Renew, TypeOK
  <2>3. QED
    BY <2>1, <2>2 DEF Renew
<1>8. CASE \E s \in Streams : Poll(s)
  BY <1>8, GotoType, QuitType DEF Poll, TypeOK, Streaming
<1>9. CASE \E s \in Streams : Release(s)
  <2>1. NoRow \in RowType
    BY TimesAssumption DEF NoRow, RowType, Ticks
  <2>2. PICK s \in Streams : Release(s)
    BY <1>9
  <2>3. slot' \in [Slots -> RowType]
    BY <2>1, <2>2 DEF Release, TypeOK
  <2>4. QED
    BY <2>2, <2>3, QuitType DEF Release, TypeOK, Over
<1>10. CASE \E s \in Streams : Disconnected(s) \/ Abandon(s)
  BY <1>10, QuitType DEF Disconnected, Abandon, TypeOK, Over
<1>11. CASE \E s \in Streams : EndSession(s)
  BY ZenonT(60), <1>11 DEF EndSession, TypeOK, StreamType
<1>12. CASE Tick
  <2>1. \A left \in Ticks : Sooner(left) \in Ticks
    BY TimesAssumption DEF Sooner, Ticks
  <2>2. slot' \in [Slots -> RowType]
    BY <1>12, <2>1 DEF Tick, TypeOK, RowType
  <2>3. stream' \in [Streams -> StreamType]
    <3> SUFFICES ASSUME NEW s \in Streams PROVE stream'[s] \in StreamType
      BY <1>12 DEF Tick, TypeOK
    <3>1. stream[s] \in StreamType
      BY DEF TypeOK
    <3>2. CASE stream[s].pc \notin Claiming \union Streaming
      BY <1>12, <3>1, <3>2 DEF Tick
    <3>3. CASE stream[s].pc \in Claiming \union Streaming
      <4> DEFINE age == IF InFlight(s) THEN stream[s].age + 1 ELSE 0
                 beat == IF stream[s].beat > 0 THEN stream[s].beat - 1 ELSE 0
      <4>1. age \in 0 .. MaxDelay
        <5>1. InFlight(s) => stream[s].age < MaxDelay
          BY <1>12 DEF Tick
        <5>2. stream[s].age \in 0 .. MaxDelay
          BY <3>1 DEF StreamType
        <5>3. QED
          BY <5>1, <5>2, TimesAssumption
      <4>2. beat \in 0 .. Heartbeat
        BY <3>1, TimesAssumption DEF StreamType
      <4>3. Sooner(stream[s].left) \in Ticks
        BY <2>1, <3>1 DEF StreamType
      <4>4. stream'[s] = [stream[s] EXCEPT !.age = age,
                            !.left = Sooner(stream[s].left), !.beat = beat]
        BY <1>12, <3>3 DEF Tick, TypeOK
      <4> HIDE DEF age, beat
      <4>5. QED
        BY <3>1, <4>1, <4>2, <4>3, <4>4 DEF StreamType
    <3>4. QED
      BY <3>2, <3>3
  <2>4. QED
    BY <1>12, <2>2, <2>3 DEF Tick, TypeOK
<1>13. CASE ScanChanges
  BY <1>13 DEF ScanChanges, TypeOK
<1>14. CASE UNCHANGED vars
  BY <1>14 DEF vars, TypeOK
<1>15. QED
  BY <1>2, <1>3, <1>4, <1>5, <1>6, <1>7, <1>8, <1>9, <1>10, <1>11, <1>12,
     <1>13, <1>14 DEF Next, StreamStep

-----------------------------------------------------------------------------
(* The row and what its stream believes of it.                               *)

\* A stream that goes on either still owns its row, and both agree on the
\* expiry, or has lost it to somebody, and then its lease had run out.
Believes(s) ==
  IF slot[Mine(s)].owner = s THEN slot[Mine(s)].left = stream[s].left
                             ELSE stream[s].left <= 0

BeliefInv == \A s \in Streams : stream[s].pc \in Streaming => Believes(s)

IInv == TypeOK /\ BeliefInv

LEMMA InitBelief == Init => BeliefInv
BY DEF Init, BeliefInv, NewStream, Streaming

\* A stream whose own state stays as it is keeps its belief if its row does,
\* or if the row was not its own, or if its lease had run out.
LEMMA OthersBelieve ==
  ASSUME IInv, NEW t \in Streams, stream[t].pc \in Streaming,
         stream'[t].pc \in Streaming, stream'[t].slot = Mine(t),
         stream'[t].left = stream[t].left,
         \/ slot'[Mine(t)] = slot[Mine(t)]
         \/ slot[Mine(t)].owner # t /\ slot'[Mine(t)].owner # t
         \/ slot[Mine(t)].left <= 0 /\ slot'[Mine(t)].owner # t
  PROVE  Believes(t)'
BY DEF IInv, BeliefInv, Believes, Mine

\* Quitting leaves every belief alone if the rows are left alone.
LEMMA QuitBelief ==
  ASSUME IInv, NEW s \in Streams, NEW pc \in {"release"} \union Over,
         Quit(s, pc), UNCHANGED slot
  PROVE  BeliefInv'
BY DEF IInv, TypeOK, StreamType, Quit, BeliefInv, Believes, Mine, NewStream,
   Streaming, Over

\* The row taken was free, or its lease had run out.
LEMMA TakeBelief ==
  ASSUME IInv, NEW s \in Streams, Take(s), stream[s].pc \in Claiming,
         \/ slot[Mine(s)].owner = Free
         \/ slot[Mine(s)].left <= 0
  PROVE  BeliefInv'
<1> SUFFICES ASSUME NEW t \in Streams, stream'[t].pc \in Streaming
             PROVE  Believes(t)'
  BY DEF BeliefInv
<1>1. /\ stream \in [Streams -> StreamType] /\ slot \in [Slots -> RowType]
      /\ Mine(s) \in Slots /\ Mine(t) \in Slots
  BY DEF IInv, TypeOK, StreamType, Mine
<1>2. CASE t = s
  BY <1>1, <1>2 DEF Take, Believes, Mine, StreamType
<1>3. CASE t # s
  <2>1. stream'[t] = stream[t]
    BY <1>1, <1>3 DEF Take
  <2>2. slot' = [slot EXCEPT ![Mine(s)] = [owner |-> s, left |-> Until(s)]]
    BY DEF Take
  <2>3. CASE Mine(t) = Mine(s)
    <3>1. slot'[Mine(t)].owner # t
      BY <1>1, <1>3, <2>2, <2>3
    <3>2. slot[Mine(t)].owner # t \/ slot[Mine(t)].left <= 0
      BY <2>3, StreamsAssumption
    <3>3. QED
      BY <2>1, <3>1, <3>2, OthersBelieve DEF Mine
  <2>4. CASE Mine(t) # Mine(s)
    <3>1. slot'[Mine(t)] = slot[Mine(t)]
      BY <1>1, <2>2, <2>4
    <3>2. QED
      BY <2>1, <3>1, OthersBelieve DEF Mine
  <2>5. QED
    BY <2>3, <2>4
<1>4. QED
  BY <1>2, <1>3

\* Every step keeps the beliefs.
LEMMA NextBelief == IInv /\ [Next]_vars => BeliefInv'
<1> SUFFICES ASSUME IInv, [Next]_vars PROVE BeliefInv'
  OBVIOUS
<1>1. /\ stream \in [Streams -> StreamType] /\ slot \in [Slots -> RowType]
      /\ \A s \in Streams : Mine(s) \in Slots
  BY DEF IInv, TypeOK, StreamType, Mine
<1>2. ASSUME NEW s \in Streams, NEW pc \in {"release"} \union Claiming \union Streaming,
             Goto(s, pc), UNCHANGED slot,
             pc \in Streaming => stream[s].pc \in Streaming
      PROVE  BeliefInv'
  <2> SUFFICES ASSUME NEW t \in Streams, stream'[t].pc \in Streaming
               PROVE  Believes(t)'
    BY DEF BeliefInv
  <2>1. stream'[t].slot = Mine(t) /\ stream'[t].left = stream[t].left
    BY <1>1, <1>2 DEF Goto, Mine, StreamType
  <2>2. stream[t].pc \in Streaming
    BY <1>1, <1>2 DEF Goto, StreamType
  <2>3. QED
    BY <1>2, <2>1, <2>2, OthersBelieve
<1>3. ASSUME NEW s \in Streams, UNCHANGED slot,
             stream'[s].slot = Mine(s), stream'[s].left = stream[s].left,
             stream'[s].pc \in Streaming => stream[s].pc \in Streaming,
             \A t \in Streams \ {s} : stream'[t] = stream[t]
      PROVE  BeliefInv'
  <2> SUFFICES ASSUME NEW t \in Streams, stream'[t].pc \in Streaming
               PROVE  Believes(t)'
    BY DEF BeliefInv
  <2>1. /\ stream'[t].slot = Mine(t) /\ stream'[t].left = stream[t].left
        /\ stream[t].pc \in Streaming
    BY <1>3 DEF Mine
  <2>2. QED
    BY <1>3, <2>1, OthersBelieve
<1>4. CASE \E s \in Streams : Request(s)
  BY <1>2, <1>4 DEF Request, Claiming, Streaming
<1>5. CASE \E s \in Streams : Reclaim(s)
  <2> PICK s \in Streams : Reclaim(s)
    BY <1>5
  <2>1. stream[s].age \in Nat /\ slot[Mine(s)].left \in Int
    BY <1>1 DEF StreamType, RowType, Ticks
  <2>2. CASE Reclaimable(s) /\ Take(s)
    <3>1. slot[Mine(s)].left <= 0
      BY <2>1, <2>2 DEF Reclaimable, ExpiredFor
    <3>2. QED
      BY <2>2, <3>1, TakeBelief DEF Reclaim, At, Claiming
  <2>3. CASE Goto(s, "insert") /\ UNCHANGED slot
    BY <2>3, <1>2 DEF Claiming, Streaming
  <2>4. QED
    BY <2>2, <2>3 DEF Reclaim
<1>6. CASE \E s \in Streams : Insert(s)
  <2> PICK s \in Streams : Insert(s)
    BY <1>6
  <2>1. CASE slot[Mine(s)].owner = Free /\ Take(s)
    BY <2>1, TakeBelief DEF Insert, At, Claiming, NoRow
  <2>2. CASE NextSlot(s) /\ UNCHANGED slot
    <3>1. CASE Mine(s) + 1 \in Slots
      <4> SUFFICES ASSUME NEW t \in Streams, stream'[t].pc \in Streaming
                   PROVE  Believes(t)'
        BY DEF BeliefInv
      <4>1. t # s
        BY <1>1, <2>2, <3>1 DEF NextSlot, Streaming, StreamType
      <4>2. stream'[t] = stream[t]
        BY <1>1, <2>2, <3>1, <4>1 DEF NextSlot
      <4>3. QED
        BY <2>2, <4>2, OthersBelieve DEF Mine
    <3>2. CASE Mine(s) + 1 \notin Slots
      BY <2>2, <3>2, QuitBelief DEF NextSlot, Over
    <3>3. QED
      BY <3>1, <3>2
  <2>3. QED
    BY <2>1, <2>2 DEF Insert
<1>7. CASE \E s \in Streams : StartBody(s)
  <2> PICK s \in Streams : StartBody(s)
    BY <1>7
  <2>1. /\ stream'[s].slot = Mine(s) /\ stream'[s].left = stream[s].left
        /\ \A t \in Streams \ {s} : stream'[t] = stream[t]
    BY <1>1 DEF StartBody, Mine, StreamType
  <2>2. QED
    BY <1>3, <2>1 DEF StartBody, At, Streaming
<1>8. CASE \E s \in Streams : Top(s)
  <2> PICK s \in Streams : Top(s)
    BY <1>8
  <2>1. CASE Goto(s, "poll")
    BY <1>2, <2>1 DEF Top, At, Streaming
  <2>2. CASE stream' = [stream EXCEPT ![s].pc = "renew", ![s].beat = Heartbeat]
    <3>1. /\ stream'[s].slot = Mine(s) /\ stream'[s].left = stream[s].left
          /\ \A t \in Streams \ {s} : stream'[t] = stream[t]
      BY <1>1, <2>2 DEF Mine, StreamType
    <3>2. QED
      BY <1>3, <3>1 DEF Top, At, Streaming
  <2>3. CASE Quit(s, "release")
    BY <2>3, QuitBelief DEF Top
  <2>4. QED
    BY <2>1, <2>2, <2>3 DEF Top
<1>9. CASE \E s \in Streams : Renew(s)
  <2> PICK s \in Streams : Renew(s)
    BY <1>9
  <2>1. CASE Renewable(s) /\ Renewed(s)
    <3> SUFFICES ASSUME NEW t \in Streams, stream'[t].pc \in Streaming
                 PROVE  Believes(t)'
      BY DEF BeliefInv
    <3>1. /\ slot' = [slot EXCEPT ![Mine(s)].left = Until(s)]
          /\ stream' = [stream EXCEPT ![s].pc = "poll", ![s].left = Until(s),
                                      ![s].age = 0]
      BY <2>1 DEF Renewed
    <3>2. CASE t = s
      <4>1. slot'[Mine(s)].left = Until(s)
        BY <1>1, <3>1 DEF RowType
      <4>2. slot'[Mine(s)].owner = s
        BY <1>1, <2>1, <3>1 DEF RowType, Renewable
      <4>3. stream'[s].slot = Mine(s) /\ stream'[s].left = Until(s)
        BY <1>1, <3>1 DEF StreamType, Mine
      <4>4. QED
        BY <3>2, <4>1, <4>2, <4>3 DEF Believes, Mine
    <3>3. CASE t # s
      <4>1. stream'[t] = stream[t]
        BY <1>1, <3>1, <3>3
      <4>2. CASE Mine(t) = Mine(s)
        <5>1. slot[Mine(t)].owner # t /\ slot'[Mine(t)].owner # t
          BY <1>1, <2>1, <3>1, <3>3, <4>2 DEF RowType, Renewable
        <5>2. QED
          BY <4>1, <5>1, OthersBelieve DEF Mine
      <4>3. CASE Mine(t) # Mine(s)
        <5>1. slot'[Mine(t)] = slot[Mine(t)]
          BY <1>1, <3>1, <4>3
        <5>2. QED
          BY <4>1, <5>1, OthersBelieve DEF Mine
      <4>4. QED
        BY <4>2, <4>3
    <3>4. QED
      BY <3>2, <3>3
  <2>2. CASE Quit(s, "release") /\ UNCHANGED slot
    BY <2>2, QuitBelief
  <2>3. QED
    BY <2>1, <2>2 DEF Renew
<1>10. CASE \E s \in Streams : Poll(s)
  BY <1>2, <1>10, QuitBelief DEF Poll, At, Streaming
<1>11. CASE \E s \in Streams : Release(s)
  <2> PICK s \in Streams : Release(s)
    BY <1>11
  <2> SUFFICES ASSUME NEW t \in Streams, stream'[t].pc \in Streaming
               PROVE  Believes(t)'
    BY DEF BeliefInv
  <2>1. stream'[s].pc = "done" /\ \A u \in Streams \ {s} : stream'[u] = stream[u]
    BY <1>1 DEF Release, Quit, NewStream
  <2>2. t # s
    BY <2>1 DEF Streaming
  <2>3. CASE slot'[Mine(t)] = slot[Mine(t)]
    BY <2>1, <2>2, <2>3, OthersBelieve DEF Mine
  <2>4. CASE slot'[Mine(t)] # slot[Mine(t)]
    <3>1. Mine(t) = Mine(s) /\ slot[Mine(s)].owner = s /\ slot'[Mine(t)] = NoRow
      BY <1>1, <2>4 DEF Release, Released
    <3>2. slot[Mine(t)].owner # t /\ slot'[Mine(t)].owner # t
      BY <2>2, <3>1, StreamsAssumption DEF NoRow
    <3>3. QED
      BY <2>1, <2>2, <3>2, OthersBelieve DEF Mine
  <2>5. QED
    BY <2>3, <2>4
<1>12. CASE \E s \in Streams : Disconnected(s) \/ Abandon(s)
  BY <1>12, QuitBelief DEF Disconnected, Abandon, Over
<1>13. CASE \E s \in Streams : EndSession(s)
  <2> PICK s \in Streams : EndSession(s)
    BY <1>13
  <2>1. /\ stream'[s].slot = Mine(s) /\ stream'[s].left = stream[s].left
        /\ stream'[s].pc = stream[s].pc
        /\ \A t \in Streams \ {s} : stream'[t] = stream[t]
    BY <1>1 DEF EndSession, Mine, StreamType
  <2>2. QED
    BY <1>3, <2>1 DEF EndSession
<1>14. CASE Tick
  <2> SUFFICES ASSUME NEW t \in Streams, stream'[t].pc \in Streaming
               PROVE  Believes(t)'
    BY DEF BeliefInv
  <2>1. /\ stream'[t].pc = stream[t].pc /\ stream'[t].slot = Mine(t)
        /\ stream[t].pc \in Streaming
             => stream'[t].left = Sooner(stream[t].left)
    BY <1>1, <1>14 DEF Tick, Mine, StreamType
  <2>2. CASE slot[Mine(t)].owner = t
    <3>1. slot'[Mine(t)] = [slot[Mine(t)] EXCEPT !.left = Sooner(slot[Mine(t)].left)]
      BY <1>1, <1>14, <2>2, StreamsAssumption DEF Tick
    <3>2. slot'[Mine(t)].owner = t /\ slot'[Mine(t)].left = Sooner(slot[Mine(t)].left)
      BY <1>1, <2>2, <3>1 DEF RowType
    <3>3. QED
      BY <2>1, <2>2, <3>2 DEF IInv, BeliefInv, Believes, Mine
  <2>3. CASE slot[Mine(t)].owner # t
    <3>1. slot'[Mine(t)].owner # t
      BY <1>1, <1>14, <2>3 DEF Tick, RowType
    <3>2. stream[t].left <= 0 /\ stream[t].left \in Int
      BY <1>1, <2>1, <2>3 DEF IInv, BeliefInv, Believes, StreamType, Ticks
    <3>3. Sooner(stream[t].left) <= 0
      BY <3>2, TimesAssumption DEF Sooner
    <3>4. QED
      BY <2>1, <3>1, <3>3 DEF Believes, Mine
  <2>4. QED
    BY <2>2, <2>3
<1>15. CASE UNCHANGED slot /\ UNCHANGED stream
  BY <1>15 DEF IInv, BeliefInv, Believes, Mine
<1>16. QED
  BY <1>4, <1>5, <1>6, <1>7, <1>8, <1>9, <1>10, <1>11, <1>12, <1>13, <1>14,
     <1>15 DEF Next, StreamStep, ScanChanges, vars

\* Types and beliefs hold throughout.
LEMMA Inductive == Spec => []IInv
<1>1. Init => IInv
  BY InitTypeOK, InitBelief DEF IInv
<1>2. IInv /\ [Next]_vars => IInv'
  BY NextTypeOK, NextBelief DEF IInv
<1>3. QED
  BY <1>1, <1>2, PTL DEF Spec

-----------------------------------------------------------------------------
(* The theorems.                                                             *)

\* Every variable keeps its type, whatever the number of slots and streams:
\* no request looks for a slot beyond the configured ones.
THEOREM StreamTypesCorrect == Spec => []TypeOK
<1>1. IInv => TypeOK
  BY DEF IInv
<1>2. QED
  BY <1>1, Inductive, PTL

\* What IInv says of a stream with a running lease.
LEMMA LiveOwns == IInv => LiveLeaseIsHeld
<1> SUFFICES ASSUME IInv, NEW s \in Streams, Live(s)
             PROVE  slot[Mine(s)].owner = s
  BY DEF LiveLeaseIsHeld
<1>1. stream[s].left \in Int
  BY DEF IInv, TypeOK, StreamType, Ticks
<1>2. QED
  BY <1>1 DEF IInv, BeliefInv, Believes, Live

\* No claim, renewal or release of another stream, however late its statement,
\* takes the slot of a stream whose lease still runs.
THEOREM LeasesAreRespected == Spec => []LiveLeaseIsHeld
BY LiveOwns, Inductive, PTL

\* Streams with a running lease own different slots, so there are no more of
\* them than slots.
LEMMA LiveBound == IInv => StreamLimit
<1> SUFFICES ASSUME IInv PROVE StreamLimit
  OBVIOUS
<1> DEFINE live == {s \in Streams : Live(s)}
           held == [s \in live |-> Mine(s)]
<1>1. \A s \in live : Mine(s) \in Slots /\ slot[Mine(s)].owner = s
  BY LiveOwns DEF LiveLeaseIsHeld, IInv, TypeOK, StreamType, Mine
<1>2. held \in Injection(live, Slots)
  BY <1>1 DEF Injection, IsInjective
<1>3. IsFiniteSet(Slots) /\ Cardinality(Slots) = MaxStreams
  <2>1. 0 \in Int /\ MaxStreams - 1 \in Int /\ ~(0 > MaxStreams - 1)
    BY TimesAssumption
  <2>2. QED
    BY <2>1, FS_Interval, TimesAssumption DEF Slots
<1>4. Cardinality(live) <= Cardinality(Slots)
  BY <1>2, <1>3, FS_Injection
<1>5. QED
  BY <1>3, <1>4 DEF StreamLimit

\* There are never more streams with a running lease than
\* scan_max_streams_per_user.
THEOREM StreamsAreLimited == Spec => []StreamLimit
BY LiveBound, Inductive, PTL

-----------------------------------------------------------------------------
(* Dead slots.                                                               *)

\* Between its UPDATE and its INSERT a request knows of the row it tries that
\* its lease ran when the request read its clock: no row appears there with
\* less than a lease minus the delay of a statement.
TriedInv ==
  \A s \in Streams :
    At(s, "insert") /\ slot[Mine(s)].owner # Free
      => slot[Mine(s)].left > -stream[s].age

DInv == TypeOK /\ TriedInv

LEMMA NextTried ==
  ASSUME MaxDelay < Lease, DInv, [Next]_vars
  PROVE  TriedInv'
<1> SUFFICES ASSUME NEW t \in Streams, stream'[t].pc = "insert",
                    slot'[Mine(t)'].owner # Free
             PROVE  slot'[Mine(t)'].left > -stream'[t].age
  BY DEF TriedInv, At
<1>1. /\ stream \in [Streams -> StreamType] /\ slot \in [Slots -> RowType]
      /\ \A s \in Streams : /\ Mine(s) \in Slots
                            /\ stream[s].age \in 0 .. MaxDelay
                            /\ stream[s].left \in Ticks
      /\ \A i \in Slots : slot[i].left \in Ticks
  BY DEF DInv, TypeOK, StreamType, RowType, Mine
<1>2. ASSUME stream[t].pc = "insert", stream'[t].slot = Mine(t),
             stream'[t].age = stream[t].age,
             \/ slot'[Mine(t)] = slot[Mine(t)]
             \/ slot'[Mine(t)].left > 0
      PROVE  slot'[Mine(t)'].left > -stream'[t].age
  <2>1. CASE slot'[Mine(t)] = slot[Mine(t)]
    BY <1>2, <2>1 DEF DInv, TriedInv, At, Mine
  <2>2. CASE slot'[Mine(t)].left > 0
    <3>1. DInv => Mine(t)' = Mine(t) /\ stream[t].age \in 0 .. MaxDelay
      BY <1>1, <1>2 DEF Mine
    <3>2. slot'[Mine(t)].left \in Int
      <4>1. slot' \in [Slots -> RowType]
        BY NextTypeOK DEF DInv, TypeOK
      <4>2. QED
        BY <1>1, <4>1 DEF RowType, Ticks
    <3>3. QED
      BY <1>2, <2>2, <3>1, <3>2, TimesAssumption
  <2>3. QED
    BY <1>2, <2>1, <2>2
<1>3. ASSUME NEW s \in Streams, Take(s) PROVE slot'[Mine(t)'].left > -stream'[t].age
  <2>1. t # s
    BY <1>1, <1>3 DEF Take, StreamType
  <2>2. stream'[t] = stream[t]
    BY <1>1, <1>3, <2>1 DEF Take
  <2>3. Until(s) > 0
    BY <1>1, UntilIsTicks, TimesAssumption DEF DInv, Until
  <2>4. slot'[Mine(t)] = slot[Mine(t)] \/ slot'[Mine(t)].left > 0
    BY <1>1, <1>3, <2>3 DEF Take
  <2>5. QED
    BY <1>2, <2>2, <2>4 DEF Mine
<1>4. ASSUME NEW s \in Streams, UNCHANGED slot, stream'[s].pc # "insert",
             \A u \in Streams \ {s} : stream'[u] = stream[u]
      PROVE  slot'[Mine(t)'].left > -stream'[t].age
  BY <1>2, <1>4 DEF Mine
<1>5. ASSUME NEW s \in Streams, NEW pc \in {"release"} \union Over, Quit(s, pc),
             slot' \in {slot, [slot EXCEPT ![Mine(s)] = NoRow]}
      PROVE  slot'[Mine(t)'].left > -stream'[t].age
  <2>1. stream'[s].pc = pc /\ \A u \in Streams \ {s} : stream'[u] = stream[u]
    BY <1>1, <1>5 DEF Quit, NewStream
  <2>2. t # s
    BY <2>1 DEF Over
  <2>3. stream'[t] = stream[t]
    BY <2>1, <2>2
  <2>4. slot'[Mine(t)] = slot[Mine(t)]
    BY <1>1, <1>5, <2>3, StreamsAssumption DEF NoRow, Mine
  <2>5. QED
    BY <1>2, <2>3, <2>4 DEF Mine
<1>6. ASSUME NEW s \in Streams, NEW pc \in {"reclaim", "poll", "top"},
             Goto(s, pc), UNCHANGED slot
      PROVE  slot'[Mine(t)'].left > -stream'[t].age
  <2>1. stream'[s].pc = pc /\ \A u \in Streams \ {s} : stream'[u] = stream[u]
    BY <1>1, <1>6 DEF Goto, StreamType
  <2>2. QED
    BY <1>4, <1>6, <2>1
<1>7. CASE \E s \in Streams : Request(s)
  BY <1>6, <1>7 DEF Request
<1>8. CASE \E s \in Streams : Reclaim(s)
  <2> PICK s \in Streams : Reclaim(s)
    BY <1>8
  <2>1. CASE Take(s)
    BY <1>3, <2>1
  <2>2. CASE ~Reclaimable(s) /\ Goto(s, "insert") /\ UNCHANGED slot
    <3>1. CASE t = s
      <4>1. /\ stream'[s].slot = Mine(s) /\ stream'[s].age = stream[s].age
        BY <1>1, <2>2 DEF Goto, Mine, StreamType
      <4>2. slot[Mine(s)].owner # Free
        BY <2>2, <3>1, <4>1 DEF Mine
      <4>3. slot[Mine(s)].left \in Int /\ stream[s].age \in Int
        BY <1>1 DEF Ticks
      <4>4. slot[Mine(s)].left > -stream[s].age
        BY <2>2, <4>2, <4>3 DEF Reclaimable, ExpiredFor
      <4>5. QED
        BY <2>2, <3>1, <4>1, <4>4 DEF Mine
    <3>2. CASE t # s
      BY <1>1, <1>2, <2>2, <3>2 DEF Goto, Mine
    <3>3. QED
      BY <3>1, <3>2
  <2>3. QED
    BY <2>1, <2>2 DEF Reclaim
<1>9. CASE \E s \in Streams : Insert(s)
  <2> PICK s \in Streams : Insert(s)
    BY <1>9
  <2>1. CASE Take(s)
    BY <1>3, <2>1
  <2>2. CASE NextSlot(s) /\ UNCHANGED slot
    <3>1. CASE Mine(s) + 1 \in Slots
      BY <1>1, <1>4, <2>2, <3>1 DEF NextSlot, StreamType
    <3>2. CASE Mine(s) + 1 \notin Slots
      BY <1>5, <2>2, <3>2 DEF NextSlot, Over
    <3>3. QED
      BY <3>1, <3>2
  <2>3. QED
    BY <2>1, <2>2 DEF Insert
<1>10. CASE \E s \in Streams : StartBody(s)
  BY <1>1, <1>4, <1>10 DEF StartBody, StreamType
<1>11. CASE \E s \in Streams : Top(s)
  <2> PICK s \in Streams : Top(s)
    BY <1>11
  <2>1. CASE Goto(s, "poll")
    BY <1>6, <2>1 DEF Top
  <2>2. CASE stream' = [stream EXCEPT ![s].pc = "renew", ![s].beat = Heartbeat]
    BY <1>1, <1>4, <2>2 DEF Top, StreamType
  <2>3. CASE Quit(s, "release")
    BY <1>5, <2>3 DEF Top
  <2>4. QED
    BY <2>1, <2>2, <2>3 DEF Top
<1>12. CASE \E s \in Streams : Renew(s)
  <2> PICK s \in Streams : Renew(s)
    BY <1>12
  <2>1. CASE Renewable(s) /\ Renewed(s)
    <3>1. /\ stream'[s].pc = "poll"
          /\ \A u \in Streams \ {s} : stream'[u] = stream[u]
      BY <1>1, <2>1 DEF Renewed, StreamType
    <3>2. t # s /\ stream'[t] = stream[t]
      BY <3>1
    <3>3. Until(s) > 0
      BY <1>1, UntilIsTicks, TimesAssumption DEF DInv, Until
    <3>4. slot'[Mine(t)] = slot[Mine(t)] \/ slot'[Mine(t)].left > 0
      BY <1>1, <2>1, <3>3 DEF Renewed, RowType
    <3>5. QED
      BY <1>2, <3>2, <3>4 DEF Mine
  <2>2. CASE Quit(s, "release") /\ UNCHANGED slot
    BY <1>5, <2>2
  <2>3. QED
    BY <2>1, <2>2 DEF Renew
<1>13. CASE \E s \in Streams : Poll(s)
  BY <1>5, <1>6, <1>13 DEF Poll
<1>14. CASE \E s \in Streams : Release(s)
  BY <1>5, <1>14 DEF Release, Over
<1>15. CASE \E s \in Streams : Disconnected(s) \/ Abandon(s)
  BY <1>5, <1>15 DEF Disconnected, Abandon, Over
<1>16. CASE \E s \in Streams : EndSession(s)
  <2> PICK s \in Streams : EndSession(s)
    BY <1>16
  <2>1. /\ stream'[t].slot = Mine(t) /\ stream'[t].pc = stream[t].pc
        /\ stream'[t].age = stream[t].age
    BY <1>1 DEF EndSession, Mine, StreamType
  <2>2. QED
    BY <1>2, <2>1 DEF EndSession
<1>17. CASE Tick
  <2>1. CASE stream[t].pc = "insert"
    <3>1. /\ stream'[t].slot = Mine(t) /\ stream'[t].age = stream[t].age + 1
          /\ stream[t].age < MaxDelay
      BY <1>1, <1>17, <2>1 DEF Tick, Mine, StreamType, InFlight, Claiming
    <3>2. slot[Mine(t)].owner # Free
      BY <1>1, <1>17, <3>1 DEF Tick, Mine
    <3>3. slot[Mine(t)].left > -stream[t].age
      BY <2>1, <3>2 DEF DInv, TriedInv, At
    <3>4. slot'[Mine(t)].left = Sooner(slot[Mine(t)].left)
      BY <1>1, <1>17, <3>2 DEF Tick, RowType
    <3>5. Sooner(slot[Mine(t)].left) > -(stream[t].age + 1)
      BY <1>1, <3>1, <3>3, TimesAssumption DEF Sooner, Ticks
    <3>6. QED
      BY <3>1, <3>4, <3>5 DEF Mine
  <2>2. CASE stream[t].pc # "insert"
    BY <1>1, <1>17, <2>2 DEF Tick, StreamType
  <2>3. QED
    BY <2>1, <2>2
<1>18. CASE UNCHANGED slot /\ UNCHANGED stream
  BY <1>2, <1>18 DEF Mine
<1>19. QED
  BY <1>7, <1>8, <1>9, <1>10, <1>11, <1>12, <1>13, <1>14, <1>15, <1>16, <1>17,
     <1>18 DEF Next, StreamStep, ScanChanges, vars

\* A step by which a request passes over a slot.
LEMMA PassesOver ==
  ASSUME DInv, [Next]_vars, NEW s \in Streams, At(s, "insert"),
         stream'[s].pc \in {"reclaim", "refused"}
  PROVE  LiveFor(s, Mine(s))
<1> DEFINE Acts(t) == StreamStep(t) \/ Request(t) \/ Disconnected(t)
                        \/ Abandon(t) \/ EndSession(t)
<1>1. stream \in [Streams -> StreamType]
  BY DEF DInv, TypeOK
<1>2. stream'[s].pc # "insert"
  OBVIOUS
<1>3. ASSUME NEW t \in Streams, Acts(t), t # s PROVE FALSE
  <2>1. stream'[s] = stream[s]
    BY <1>1, <1>3
    DEF StreamStep, Request, Reclaim, Take, Goto, Quit, Insert, NextSlot,
        StartBody, Top, Renew, Renewed, Poll, Release, Disconnected, Abandon,
        EndSession
  <2>2. QED
    BY <1>2, <2>1 DEF At
<1>4. ASSUME Acts(s) PROVE Insert(s)
  <2>1. ~Abandon(s)
    BY <1>1 DEF Abandon, Quit, NewStream
  <2>2. ~EndSession(s)
    BY <1>1, <1>2 DEF EndSession, At, StreamType
  <2>3. QED
    BY <1>4, <2>1, <2>2
    DEF StreamStep, Request, Reclaim, StartBody, Top, Renew, Poll, Release,
        Disconnected, At
<1>5. ~Tick /\ ~ScanChanges /\ ~UNCHANGED vars
  <2>1. ~Tick
    BY ZenonT(60), <1>1, <1>2 DEF Tick, At, StreamType
  <2>2. QED
    BY <1>2, <2>1 DEF ScanChanges, vars, At
<1>6. Insert(s)
  BY <1>3, <1>4, <1>5 DEF Next
<1>7. slot[Mine(s)].owner # Free
  BY <1>1, <1>6 DEF Insert, Take, StreamType
<1>8. QED
  BY <1>7 DEF DInv, TriedInv, LiveFor

\* With statements that are late by less than a lease, a request passes over a
\* slot only if the slot's lease ran when the request read its clock.
THEOREM DeadSlotsAreReused ==
  ASSUME MaxDelay < Lease
  PROVE  Spec => DeadSlotsRefuseNobody
<1>1. Init => DInv
  BY InitTypeOK DEF DInv, TriedInv, Init, NewStream, At
<1>2. DInv /\ [Next]_vars => DInv'
  BY NextTypeOK, NextTried DEF DInv
<1>3. DInv /\ [Next]_vars =>
        [\A s \in Streams :
           At(s, "insert") /\ stream'[s].pc \in {"reclaim", "refused"}
             => LiveFor(s, Mine(s))]_vars
  BY PassesOver
<1>4. QED
  BY <1>1, <1>2, <1>3, PTL DEF Spec, DeadSlotsRefuseNobody

-----------------------------------------------------------------------------
(* WebSessions                                                              *)

(* Types.                                                                    *)

LEMMA RecordTypes ==
  /\ Registered \in UserType
  /\ NoSession \in SessionType
  /\ \A p \in 0 .. MaxChanges : Issued(p) \in SessionType
  /\ Idle \in RequestType
<1>1. 0 \in 0 .. MaxChanges /\ 0 \in 0 .. LongestDelay
  BY LimitsAssumption DEF LongestDelay
<1>2. Registered \in UserType
  BY <1>1 DEF Registered, UserType
<1>3. NoSession \in SessionType
  BY <1>1 DEF NoSession, SessionType
<1>4. \A p \in 0 .. MaxChanges : Issued(p) \in SessionType
  BY <1>3 DEF Issued, SessionType
<1>5. Idle \in RequestType
  BY <1>2 DEF Idle, RequestType, Steps
<1>6. QED
  BY <1>2, <1>3, <1>4, <1>5

\* A lockout lasts between one and thirty times the first delay.
LEMMA DelayType ==
  ASSUME NEW n \in Nat, n >= Threshold
  PROVE  Delay(n) \in 0 .. LongestDelay
<1> DEFINE k == n - Threshold
           i == 1 + IF k < 5 THEN k ELSE 5
<1>1. i \in 1 .. 6
  BY LimitsAssumption
<1>2. Delays[i] \in 0 .. LongestDelay
  BY <1>1 DEF Delays, LongestDelay
<1>3. QED
  BY <1>2 DEF Delay

\* The first one lasts one.
LEMMA FirstDelay == Delay(Threshold) = 1
<1>1. Threshold - Threshold = 0
  BY LimitsAssumption
<1>2. QED
  BY <1>1 DEF Delay, Delays

\* A request that is done has let go of the lock and of its session.
LEMMA DoneTypes ==
  ASSUME WSTypeOK, NEW r \in Requests, Done(r)
  PROVE  /\ req' \in [Requests -> RequestType]
         /\ lock' \in Requests \union {None}
         /\ lock' # None => lock' = lock /\ lock # r /\ req'[lock] = req[lock]
         /\ req'[r] = Idle
         /\ \A q \in Requests \ {r} : req'[q] = req[q]
BY RecordTypes DEF WSTypeOK, Done

LEMMA WSInitTypeOK == WSInit => WSTypeOK
BY RecordTypes DEF WSInit, WSTypeOK

LEMMA WSNextTypeOK == WSTypeOK /\ [WSNext]_wsVars => WSTypeOK'
<1> SUFFICES ASSUME WSTypeOK, [WSNext]_wsVars PROVE WSTypeOK'
  OBVIOUS
<1>0. ASSUME NEW r \in Requests, Done(r),
             user' \in UserType, session' \in [Sessions -> SessionType], tried' \in Nat
      PROVE  WSTypeOK'
  BY <1>0, DoneTypes DEF WSTypeOK
<1>1. ASSUME NEW r \in Requests, LoginRead(r) PROVE WSTypeOK'
  <2>1. [Idle EXCEPT !.pc = "login", !.read = user] \in RequestType
    BY RecordTypes DEF WSTypeOK, RequestType, Steps
  <2>2. req' \in [Requests -> RequestType] /\ req'[r].pc = "login"
    BY <1>1, <2>1 DEF LoginRead, WSTypeOK, Idle
  <2>3. QED
    BY <1>1, <2>2 DEF LoginRead, Lock, WSTypeOK
<1>2. ASSUME NEW r \in Requests, LoginLocked(r) \/ Fail(r) PROVE WSTypeOK'
  BY <1>2, <1>0 DEF LoginLocked, Fail, WSTypeOK
<1>3. ASSUME NEW r \in Requests, LoginFails(r) PROVE WSTypeOK'
  <2> DEFINE n == Attempts(r)
             left == IF Locks(n) THEN Delay(n) ELSE 0
  <2>1. n \in Nat
    BY DEF WSTypeOK, Attempts, RequestType, UserType
  <2>2. left \in 0 .. LongestDelay /\ Locks(n) \in BOOLEAN
    <3>1. CASE Locks(n)
      BY <2>1, <3>1, DelayType DEF Locks
    <3>2. CASE ~Locks(n)
      BY <3>2 DEF Locks, LongestDelay
    <3>3. QED
      BY <3>1, <3>2 DEF Locks
  <2>3. user' = [user EXCEPT !.attempts = n, !.locked = Locks(n), !.left = left]
    BY <1>3 DEF LoginFails
  <2> HIDE DEF n, left
  <2>4. user' \in UserType
    BY <2>1, <2>2, <2>3 DEF WSTypeOK, UserType
  <2>5. QED
    BY <1>3, <2>4, <1>0 DEF LoginFails, WSTypeOK
<1>4. ASSUME NEW r \in Requests, LoginPasses(r) PROVE WSTypeOK'
  <2> DEFINE alive == {s \in Sessions : Unexpired(s)}
             issuing == [[req[r] EXCEPT !.pc = "issue"] EXCEPT !.alive = alive]
  <2>1. alive \in SUBSET Sessions
    OBVIOUS
  <2>2. req[r] \in RequestType /\ lock \in Requests \union {None}
    BY DEF WSTypeOK
  <2>3. req' = [req EXCEPT ![r].pc = "issue", ![r].alive = alive]
    BY <1>4 DEF LoginPasses
  <2> HIDE DEF alive
  <2>4. issuing \in RequestType /\ issuing.pc = "issue"
    BY <2>1, <2>2 DEF RequestType, Steps
  <2>5. /\ req' \in [Requests -> RequestType]
        /\ req'[r] = issuing /\ \A q \in Requests \ {r} : req'[q] = req[q]
    BY <2>3, <2>4 DEF WSTypeOK
  <2>6. lock # None => req'[lock].pc \in {"login", "issue"}
    BY <2>2, <2>4, <2>5 DEF WSTypeOK
  <2>7. QED
    BY <1>4, <2>5, <2>6 DEF LoginPasses, WSTypeOK
<1>5. ASSUME NEW r \in Requests, LoginIssues(r) PROVE WSTypeOK'
  <2>1. 0 \in 0 .. LongestDelay
    BY DEF LongestDelay
  <2>2. user' \in UserType
    BY <1>5, <2>1 DEF LoginIssues, WSTypeOK, UserType
  <2>3. req[r].read.password \in 0 .. MaxChanges
    BY DEF WSTypeOK, RequestType, UserType
  <2>4. \A s \in Sessions : [session[s] EXCEPT !.revoked = TRUE] \in SessionType
    BY DEF WSTypeOK, SessionType
  <2>5. \A s \in Sessions, b \in BOOLEAN :
          [session[s] EXCEPT !.revoked = @ \/ b] \in SessionType
    BY DEF WSTypeOK, SessionType
  <2>6. session' \in [Sessions -> SessionType]
    BY ZenonT(60), <1>5, <2>3, <2>5, RecordTypes DEF LoginIssues
  <2>7. QED
    BY <1>5, <2>2, <2>6, <1>0 DEF LoginIssues
<1>6. ASSUME NEW r \in Requests, NEW s \in Sessions, Resolve(r, s) PROVE WSTypeOK'
  <2>1. PICK pc \in {"touch", "in", "expire"} :
          req' = [req EXCEPT ![r] = [Idle EXCEPT !.pc = pc, !.session = s]]
    BY <1>6 DEF Resolve
  <2>2. [Idle EXCEPT !.pc = pc, !.session = s] \in RequestType
    BY RecordTypes DEF RequestType, Steps
  <2>3. lock # None => lock # r
    BY <1>6 DEF Resolve, WSTypeOK, Doing
  <2>4. QED
    BY <1>6, <2>1, <2>2, <2>3 DEF Resolve, WSTypeOK
<1>7. ASSUME NEW r \in Requests, Expire(r) \/ \E s \in Sessions : Revoke(r, s)
      PROVE  WSTypeOK'
  <2>1. PICK s \in Sessions \union {None} : session' = [session EXCEPT ![s].revoked = TRUE]
    BY <1>7 DEF Expire, Revoke, SetRevoked, WSTypeOK, RequestType, Its
  <2>2. session' \in [Sessions -> SessionType]
    BY <2>1 DEF WSTypeOK, SessionType
  <2>3. QED
    BY <1>7, <2>2, <1>0 DEF Expire, Revoke, WSTypeOK
<1>8. ASSUME NEW r \in Requests, Touch(r) PROVE WSTypeOK'
  <2>1. session' \in [Sessions -> SessionType]
    BY <1>8 DEF Touch, Touched, WSTypeOK, SessionType
  <2>2. req' \in [Requests -> RequestType]
    BY <1>8 DEF Touch, WSTypeOK, RequestType, Steps
  <2>3. lock # None => lock # r
    BY <1>8 DEF Touch, WSTypeOK, Doing
  <2>4. QED
    BY <1>8, <2>1, <2>2, <2>3 DEF Touch, WSTypeOK
<1>9. ASSUME NEW r \in Requests, ChangePassword(r) PROVE WSTypeOK'
  <2>1. user.password + 1 \in 0 .. MaxChanges
    BY <1>9, LimitsAssumption DEF ChangePassword, WSTypeOK, UserType
  <2>2. user' \in UserType
    BY <1>9, <2>1 DEF ChangePassword, WSTypeOK, UserType
  <2>3. \A s \in Sessions, b \in BOOLEAN :
          [session[s] EXCEPT !.revoked = @ \/ b] \in SessionType
    BY DEF WSTypeOK, SessionType
  <2>4. \A s \in Sessions : EndedByChange(s) \in BOOLEAN
    BY DEF EndedByChange, Unrevoked, WSTypeOK, SessionType
  <2>5. session' \in [Sessions -> SessionType]
    BY <1>9, <2>1, <2>3, <2>4, RecordTypes DEF ChangePassword
  <2>6. QED
    BY <1>9, <2>2, <2>5, <1>0 DEF ChangePassword, WSTypeOK
<1>10. ASSUME NEW r \in Requests, DeleteAccount(r) PROVE WSTypeOK'
  <2>1. user' \in UserType
    BY <1>10 DEF DeleteAccount, WSTypeOK, UserType
  <2>2. session' \in [Sessions -> SessionType]
    BY <1>10, RecordTypes DEF DeleteAccount
  <2>3. QED
    BY <1>10, <2>1, <2>2, <1>0 DEF DeleteAccount, WSTypeOK
<1>11. CASE TimePasses
  <2>1. user.left - 1 \in 0 .. LongestDelay
    BY <1>11 DEF TimePasses, WSTypeOK, UserType, LongestDelay
  <2>2. user' \in UserType
    BY <1>11, <2>1 DEF TimePasses, WSTypeOK, UserType
  <2>3. QED
    BY <1>11, <2>2 DEF TimePasses, WSTypeOK
<1>12. ASSUME NEW s \in Sessions, Lapse(s) PROVE WSTypeOK'
  <2>1. session' \in [Sessions -> SessionType]
    <3>1. CASE session' = [session EXCEPT ![s].idle = TRUE, ![s].lapsed = TRUE]
      BY ZenonT(60), <3>1 DEF WSTypeOK, SessionType
    <3>2. CASE session' = [session EXCEPT ![s].idle = TRUE, ![s].over = TRUE,
                                          ![s].lapsed = TRUE]
      <4> DEFINE lapsed == [[[session[s] EXCEPT !.idle = TRUE]
                                        EXCEPT !.over = TRUE] EXCEPT !.lapsed = TRUE]
      <4>1. session[s] \in SessionType
        BY DEF WSTypeOK
      <4>2. lapsed \in SessionType
        BY <4>1 DEF SessionType
      <4>3. QED
        BY <3>2, <4>2 DEF WSTypeOK
    <3>3. QED
      BY <1>12, <3>1, <3>2 DEF Lapse
  <2>2. QED
    BY <1>12, <2>1 DEF Lapse, WSTypeOK
<1>13. CASE UNCHANGED wsVars
  BY <1>13 DEF wsVars, WSTypeOK
<1>14. QED
  BY <1>1, <1>2, <1>3, <1>4, <1>5, <1>6, <1>7, <1>8, <1>9, <1>10, <1>11, <1>12, <1>13
  DEF WSNext

\* Every variable keeps its type.
THEOREM SessionTypesCorrect == WSSpec => []WSTypeOK
<1>1. QED
  BY WSInitTypeOK, WSNextTypeOK, PTL DEF WSSpec

-----------------------------------------------------------------------------
(* The lock.  A log-in works on the row of the user as it still is.          *)

LogsIn(r) == req[r].pc \in {"login", "issue"}

HolderInv ==
  \A r \in Requests : LogsIn(r) =>
    /\ lock = r
    /\ req[r].read.password = user.password
    /\ req[r].read.attempts = user.attempts
    /\ req[r].read.locked = user.locked
    /\ Doing(r, "issue") => ~(user.locked /\ user.left > 0)

LEMMA InitHolderInv == WSInit => HolderInv
BY DEF WSInit, HolderInv, Idle, LogsIn

LEMMA NextHolderInv == WSTypeOK /\ HolderInv /\ [WSNext]_wsVars => HolderInv'
<1> SUFFICES ASSUME WSTypeOK, HolderInv, [WSNext]_wsVars PROVE HolderInv'
  OBVIOUS
\* Nothing that a request without the lock may change concerns its holder.
<1>0. ASSUME NEW r \in Requests, ~LogsIn(r), ~LogsIn(r)', UNCHANGED user,
             \A q \in Requests \ {r} : req'[q] = req[q],
             \A q \in Requests \ {r} : lock = q => lock' = q
      PROVE  HolderInv'
  BY <1>0 DEF HolderInv, LogsIn, Doing
\* A log-in that is done was the only one, and so was a change without a lock.
<1>a. ASSUME NEW r \in Requests, LogsIn(r) \/ Unlocked, Done(r) PROVE HolderInv'
  <2>1. \A q \in Requests \ {r} : ~LogsIn(q)
    BY <1>a, NoneAssumption DEF HolderInv, Unlocked
  <2>2. \A q \in Requests : ~LogsIn(q)'
    BY <1>a, <2>1, DoneTypes DEF LogsIn, Idle
  <2>3. QED
    BY <2>2 DEF HolderInv, LogsIn
<1>b. ASSUME NEW r \in Requests, ~LogsIn(r), Done(r), UNCHANGED user PROVE HolderInv'
  <2>1. ~LogsIn(r)' /\ \A q \in Requests \ {r} : req'[q] = req[q]
    BY <1>b, DoneTypes DEF LogsIn, Idle
  <2>2. \A q \in Requests \ {r} : lock = q => lock' = q
    BY <1>b DEF Done
  <2>3. QED
    BY <1>0, <1>b, <2>1, <2>2
<1>1. ASSUME NEW r \in Requests, LoginRead(r) PROVE HolderInv'
  <2>1. \A q \in Requests : ~LogsIn(q)
    BY <1>1, NoneAssumption DEF LoginRead, HolderInv, Unlocked
  <2>2. req'[r] = [Idle EXCEPT !.pc = "login", !.read = user]
    BY <1>1 DEF LoginRead, WSTypeOK
  <2>3. req'[r].pc = "login" /\ req'[r].read = user
    BY <2>2 DEF Idle
  <2>4. \A q \in Requests \ {r} : req'[q] = req[q]
    BY <1>1 DEF LoginRead, WSTypeOK
  <2>5. QED
    BY <1>1, <2>1, <2>3, <2>4 DEF LoginRead, Lock, HolderInv, LogsIn, Doing
<1>2. ASSUME NEW r \in Requests, LoginLocked(r) \/ LoginFails(r) \/ LoginIssues(r)
      PROVE  HolderInv'
  BY <1>2, <1>a DEF LoginLocked, LoginFails, LoginIssues, LogsIn, Doing
<1>3. ASSUME NEW r \in Requests, LoginPasses(r) PROVE HolderInv'
  <2>1. req'[r].pc = "issue" /\ req'[r].read = req[r].read
    BY <1>3 DEF LoginPasses, WSTypeOK, RequestType
  <2>2. \A q \in Requests \ {r} : req'[q] = req[q]
    BY <1>3 DEF LoginPasses, WSTypeOK
  <2>3. LogsIn(r)
    BY <1>3 DEF LoginPasses, LogsIn, Doing
  <2>4. ~(user.locked /\ user.left > 0)
    BY <1>3, <2>3 DEF LoginPasses, IsLocked, HolderInv
  <2>5. QED
    BY ZenonT(60), <1>3, <2>1, <2>2, <2>3, <2>4 DEF LoginPasses, HolderInv, LogsIn, Doing
<1>4. ASSUME NEW r \in Requests, NEW s \in Sessions, Resolve(r, s) PROVE HolderInv'
  <2>1. PICK pc \in {"touch", "in", "expire"} :
          req' = [req EXCEPT ![r] = [Idle EXCEPT !.pc = pc, !.session = s]]
    BY <1>4 DEF Resolve
  <2>2. [Idle EXCEPT !.pc = pc, !.session = s].pc = pc
    BY DEF Idle
  <2>3. ~LogsIn(r)' /\ ~LogsIn(r)
    BY <1>4, <2>1, <2>2 DEF LogsIn, WSTypeOK, Resolve, Doing
  <2>4. QED
    BY <1>0, <1>4, <2>1, <2>3 DEF Resolve, WSTypeOK
<1>5. ASSUME NEW r \in Requests, Expire(r) \/ \E s \in Sessions : Revoke(r, s)
      PROVE  HolderInv'
  BY <1>5, <1>b DEF Expire, Revoke, LogsIn, Doing
<1>6. ASSUME NEW r \in Requests, Touch(r) PROVE HolderInv'
  <2>1. ~LogsIn(r)' /\ ~LogsIn(r)
    BY <1>6 DEF Touch, LogsIn, WSTypeOK, RequestType, Doing
  <2>2. QED
    BY <1>0, <1>6, <2>1 DEF Touch, WSTypeOK
<1>7. ASSUME NEW r \in Requests, ChangePassword(r) \/ DeleteAccount(r) PROVE HolderInv'
  BY <1>7, <1>a DEF ChangePassword, DeleteAccount
<1>8. ASSUME NEW r \in Requests, Fail(r) PROVE HolderInv'
  BY <1>8, <1>a, <1>b DEF Fail
<1>9. CASE TimePasses
  <2>1. user.left \in Nat /\ user'.left = user.left - 1 /\ user'.password = user.password
          /\ user'.attempts = user.attempts /\ user'.locked = user.locked
    BY <1>9 DEF TimePasses, WSTypeOK, UserType, LongestDelay
  <2>2. QED
    BY <1>9, <2>1 DEF TimePasses, HolderInv, LogsIn, Doing
<1>10. ASSUME NEW s \in Sessions, Lapse(s) PROVE HolderInv'
  BY <1>10 DEF Lapse, HolderInv, LogsIn, Doing
<1>11. CASE UNCHANGED wsVars
  BY <1>11 DEF wsVars, HolderInv, LogsIn, Doing
<1>12. QED
  BY <1>1, <1>2, <1>3, <1>4, <1>5, <1>6, <1>7, <1>8, <1>9, <1>10, <1>11 DEF WSNext

-----------------------------------------------------------------------------
(* Attempts and lockouts.                                                    *)

CountInv ==
  /\ ~user.locked => user.left = 0 /\ user.attempts = tried /\ tried < Threshold
  /\ user.locked => \/ user.left = 1 /\ tried <= Threshold
                    \/ user.left = 0 /\ tried = 0

LEMMA InitCountInv == WSInit => CountInv
BY LimitsAssumption DEF WSInit, Registered, CountInv

LEMMA NextCountInv == WSTypeOK /\ HolderInv /\ CountInv /\ [WSNext]_wsVars => CountInv'
<1> SUFFICES ASSUME WSTypeOK, HolderInv, CountInv, [WSNext]_wsVars PROVE CountInv'
  OBVIOUS
<1>0. ASSUME user'.locked = user.locked, user'.left = user.left,
             user'.attempts = user.attempts, tried' = tried
      PROVE  CountInv'
  BY <1>0 DEF CountInv
<1>1. ASSUME NEW r \in Requests, LoginFails(r) PROVE CountInv'
  <2> DEFINE n == Attempts(r)
  <2>1. /\ req[r].read.locked = user.locked /\ req[r].read.attempts = user.attempts
        /\ user.locked => user.left = 0
    BY <1>1 DEF LoginFails, LogsIn, Doing, HolderInv, CountInv, IsLocked
  <2>2. n = tried + 1 /\ n <= Threshold /\ n \in Nat
    BY <2>1, LimitsAssumption DEF Attempts, Fresh, CountInv, WSTypeOK
  <2>3. user' = [user EXCEPT !.attempts = n, !.locked = Locks(n),
                             !.left = IF Locks(n) THEN Delay(n) ELSE 0]
    BY <1>1 DEF LoginFails
  <2>4. tried' = n
    BY <1>1, <2>2 DEF LoginFails
  <2> HIDE DEF n
  <2>5. /\ user'.attempts = n /\ user'.locked = Locks(n)
        /\ user'.left = IF Locks(n) THEN Delay(n) ELSE 0
    BY <2>3 DEF WSTypeOK, UserType
  <2>6. CASE n = Threshold
    <3>1. Locks(n) /\ Delay(n) = 1
      BY <2>6, FirstDelay, LimitsAssumption DEF Locks
    <3>2. QED
      BY <2>4, <2>5, <2>6, <3>1, LimitsAssumption DEF CountInv
  <2>7. CASE n < Threshold
    <3>1. ~Locks(n)
      BY <2>2, <2>7, LimitsAssumption DEF Locks
    <3>2. QED
      BY <2>4, <2>5, <2>7, <3>1 DEF CountInv
  <2>8. QED
    BY <2>2, <2>6, <2>7, LimitsAssumption
<1>2. ASSUME NEW r \in Requests, LoginIssues(r) PROVE CountInv'
  <2>1. user'.attempts = 0 /\ ~user'.locked /\ user'.left = 0 /\ tried' = 0
    BY <1>2 DEF LoginIssues, WSTypeOK, UserType
  <2>2. QED
    BY <2>1, LimitsAssumption DEF CountInv
<1>3. ASSUME NEW r \in Requests, ChangePassword(r) PROVE CountInv'
  BY <1>3, <1>0 DEF ChangePassword, WSTypeOK, UserType
<1>4. ASSUME NEW r \in Requests, DeleteAccount(r) PROVE CountInv'
  BY <1>4, <1>0 DEF DeleteAccount, WSTypeOK, UserType
<1>5. CASE TimePasses
  <2>1. user.locked /\ user.left = 1
    BY <1>5 DEF TimePasses, CountInv, WSTypeOK, UserType
  <2>2. user'.locked /\ user'.left = 0 /\ tried' = 0
    BY <1>5, <2>1 DEF TimePasses, WSTypeOK, UserType
  <2>3. QED
    BY <2>2 DEF CountInv
<1>6. CASE \/ UNCHANGED wsVars
           \/ \E s \in Sessions : Lapse(s)
           \/ \E r \in Requests : \/ LoginRead(r) \/ LoginLocked(r) \/ LoginPasses(r)
                                  \/ Expire(r) \/ Touch(r) \/ Fail(r)
                                  \/ \E s \in Sessions : Resolve(r, s) \/ Revoke(r, s)
  <2>1. UNCHANGED <<user, tried>>
    BY <1>6 DEF wsVars, Lapse, LoginRead, LoginLocked, LoginPasses, Expire, Touch, Fail,
       Resolve, Revoke
  <2>2. QED
    BY <2>1, <1>0
<1>7. QED
  BY <1>1, <1>2, <1>3, <1>4, <1>5, <1>6 DEF WSNext

AccountInv == WSTypeOK /\ HolderInv /\ CountInv

LEMMA AccountInvHolds == WSSpec => []AccountInv
<1>1. WSInit => AccountInv
  BY WSInitTypeOK, InitHolderInv, InitCountInv DEF AccountInv
<1>2. AccountInv /\ [WSNext]_wsVars => AccountInv'
  BY WSNextTypeOK, NextHolderInv, NextCountInv DEF AccountInv
<1>3. QED
  BY <1>1, <1>2, PTL DEF WSSpec

\* No more than LOGIN_LOCK_THRESHOLD wrong passwords before a lockout.
THEOREM AttemptsLimited == WSSpec => []AttemptsAreLimited
<1>1. AccountInv => AttemptsAreLimited
  BY LimitsAssumption DEF AccountInv, CountInv, AttemptsAreLimited, WSTypeOK
<1>2. QED
  BY <1>1, AccountInvHolds, PTL

\* Each lockout is as short as the first.
THEOREM LockoutsShort == WSSpec => []LockoutsStayShort
<1>1. AccountInv => LockoutsStayShort
  BY FirstDelay DEF AccountInv, CountInv, LockoutsStayShort
<1>2. QED
  BY <1>1, AccountInvHolds, PTL

\* While the account is locked no log-in succeeds and none moves the end.
THEOREM LockoutIsKept == WSSpec => LockoutHolds
<1>1. AccountInv /\ [WSNext]_wsVars =>
        [user.locked /\ user.left > 0
           => user'.locked /\ user'.left \in {user.left, user.left - 1}]_wsVars
  <2> SUFFICES ASSUME AccountInv, WSNext, user.locked, user.left > 0
               PROVE  user'.locked /\ user'.left \in {user.left, user.left - 1}
    OBVIOUS
  <2>1. ASSUME NEW r \in Requests PROVE ~LoginFails(r) /\ ~LoginIssues(r)
    BY DEF AccountInv, HolderInv, LoginFails, LoginIssues, IsLocked, LogsIn, Doing
  <2>2. CASE TimePasses
    BY <2>2 DEF TimePasses, AccountInv, WSTypeOK, UserType
  <2>3. CASE \E r \in Requests : ChangePassword(r) \/ DeleteAccount(r)
    BY <2>3 DEF ChangePassword, DeleteAccount, AccountInv, WSTypeOK, UserType
  <2>4. CASE \/ \E s \in Sessions : Lapse(s)
             \/ \E r \in Requests : \/ LoginRead(r) \/ LoginLocked(r) \/ LoginPasses(r)
                                    \/ Expire(r) \/ Touch(r) \/ Fail(r)
                                    \/ \E s \in Sessions : Resolve(r, s) \/ Revoke(r, s)
    BY <2>4 DEF Lapse, LoginRead, LoginLocked, LoginPasses, Expire, Touch, Fail,
       Resolve, Revoke
  <2>5. QED
    BY <2>1, <2>2, <2>3, <2>4 DEF WSNext
<1>2. QED
  BY <1>1, AccountInvHolds, PTL DEF WSSpec, LockoutHolds

-----------------------------------------------------------------------------
(* Sessions.                                                                 *)

\* Whatever the step, a session is as it was, absent or new, or ended, touched
\* or lapsed.
SessionKept(s)   == session'[s] = session[s]
SessionNew(s)    == ~session[s].row /\ session'[s] = Issued(user'.password)
SessionGone(s)   == session'[s] = NoSession
SessionEnded(s)  == session'[s] = [session[s] EXCEPT !.revoked = TRUE]
SessionTouch(s)  == session'[s] = Touched(session[s])
SessionLapse(s)  == \/ session'[s] = [session[s] EXCEPT !.idle = TRUE, !.lapsed = TRUE]
                    \/ session'[s] = [session[s] EXCEPT !.idle = TRUE, !.over = TRUE,
                                                        !.lapsed = TRUE]

SessionSteps ==
  \A s \in Sessions : \/ SessionKept(s) \/ SessionNew(s) \/ SessionGone(s)
                      \/ SessionEnded(s) \/ SessionTouch(s) \/ SessionLapse(s)

\* Only a change of the password changes it, and it ends all other sessions.
PasswordSteps ==
  \/ user'.password = user.password
  \/ \A s \in Sessions : SessionNew(s) \/ SessionEnded(s) \/ (SessionKept(s) /\ ~Unrevoked(s))

LEMMA KeptOrEnded ==
  ASSUME WSTypeOK, NEW s \in Sessions, NEW b \in BOOLEAN
  PROVE  [session[s] EXCEPT !.revoked = @ \/ b]
           = IF b THEN [session[s] EXCEPT !.revoked = TRUE] ELSE session[s]
<1>1. session[s] \in SessionType
  BY DEF WSTypeOK
<1>2. QED
  BY <1>1 DEF SessionType

LEMMA SessionsInSteps ==
  ASSUME WSTypeOK, HolderInv, [WSNext]_wsVars
  PROVE  SessionSteps /\ PasswordSteps
<1>1. ASSUME NEW r \in Requests, LoginIssues(r) PROVE SessionSteps /\ PasswordSteps
  <2>1. user'.password = user.password /\ req[r].read.password = user.password
    BY <1>1 DEF LoginIssues, WSTypeOK, UserType, HolderInv, LogsIn, Doing
  <2>2. PICK kept \in SUBSET Active(r), pruned \in SUBSET {s \in Sessions : Old(s)},
             new \in {s \in Sessions : ~session[s].row} :
          session' = [s \in Sessions |->
            IF s = new THEN Issued(req[r].read.password)
            ELSE IF s \in pruned THEN NoSession
            ELSE [session[s] EXCEPT !.revoked = @ \/ s \in Active(r) \ kept]]
    BY <1>1 DEF LoginIssues
  <2>3. ASSUME NEW s \in Sessions
        PROVE  SessionKept(s) \/ SessionNew(s) \/ SessionGone(s) \/ SessionEnded(s)
    <3>1. CASE s = new
      BY <2>1, <2>2, <3>1 DEF SessionNew
    <3>2. CASE s # new /\ s \in pruned
      BY <2>2, <3>2 DEF SessionGone
    <3>3. CASE s # new /\ s \notin pruned
      <4> DEFINE b == s \in Active(r) \ kept
      <4>1. session'[s] = [session[s] EXCEPT !.revoked = @ \/ b] /\ b \in BOOLEAN
        BY <2>2, <3>3
      <4> HIDE DEF b
      <4>2. QED
        BY <4>1, KeptOrEnded DEF SessionKept, SessionEnded
    <3>4. QED
      BY <3>1, <3>2, <3>3
  <2>4. QED
    BY <2>1, <2>3 DEF SessionSteps, PasswordSteps
<1>2. ASSUME NEW r \in Requests, ChangePassword(r) PROVE SessionSteps /\ PasswordSteps
  <2>1. user'.password = user.password + 1
    BY <1>2 DEF ChangePassword, WSTypeOK, UserType
  <2>2. PICK new \in {s \in Sessions : ~session[s].row} :
          session' = [s \in Sessions |->
                       IF s = new THEN Issued(user.password + 1)
                       ELSE [session[s] EXCEPT !.revoked = @ \/ EndedByChange(s)]]
    BY <1>2 DEF ChangePassword
  <2>3. ASSUME NEW s \in Sessions
        PROVE  SessionNew(s) \/ SessionEnded(s) \/ (SessionKept(s) /\ ~Unrevoked(s))
    <3>1. CASE s = new
      BY <2>1, <2>2, <3>1 DEF SessionNew
    <3>2. CASE s # new
      <4>1. EndedByChange(s) \in BOOLEAN
        BY DEF EndedByChange, Unrevoked, WSTypeOK, SessionType
      <4>2. session'[s] = [session[s] EXCEPT !.revoked = @ \/ EndedByChange(s)]
        BY <2>2, <3>2
      <4>3. session'[s] = IF EndedByChange(s) THEN [session[s] EXCEPT !.revoked = TRUE]
                          ELSE session[s]
        BY <4>1, <4>2, KeptOrEnded
      <4>4. QED
        BY <4>3 DEF SessionKept, SessionEnded, EndedByChange
    <3>3. QED
      BY <3>1, <3>2
  <2>4. QED
    BY <2>3 DEF SessionSteps, PasswordSteps
<1>3. ASSUME NEW r \in Requests, DeleteAccount(r) PROVE SessionSteps /\ PasswordSteps
  BY <1>3 DEF DeleteAccount, SessionSteps, PasswordSteps, SessionGone, WSTypeOK, UserType
<1>4. ASSUME NEW r \in Requests, Touch(r) PROVE SessionSteps /\ PasswordSteps
  <2>1. \A s \in Sessions : SessionTouch(s) \/ SessionKept(s)
    BY <1>4 DEF Touch, SessionTouch, SessionKept, WSTypeOK
  <2>2. QED
    BY <1>4, <2>1 DEF Touch, SessionSteps, PasswordSteps
<1>5. ASSUME NEW r \in Requests, Expire(r) \/ \E s \in Sessions : Revoke(r, s)
      PROVE  SessionSteps /\ PasswordSteps
  <2>1. PICK s \in Sessions \union {None} : session' = [session EXCEPT ![s].revoked = TRUE]
    BY <1>5 DEF Expire, Revoke, SetRevoked, WSTypeOK, RequestType, Its
  <2>2. \A t \in Sessions : SessionKept(t) \/ SessionEnded(t)
    BY <2>1 DEF SessionKept, SessionEnded, WSTypeOK
  <2>3. QED
    BY <1>5, <2>2 DEF Expire, Revoke, SessionSteps, PasswordSteps
<1>6. ASSUME NEW s \in Sessions, Lapse(s) PROVE SessionSteps /\ PasswordSteps
  <2>1. \A t \in Sessions : SessionKept(t) \/ SessionLapse(t)
    <3>1. CASE session' = [session EXCEPT ![s].idle = TRUE, ![s].lapsed = TRUE]
      BY <3>1 DEF SessionKept, SessionLapse, WSTypeOK, SessionType
    <3>2. CASE session' = [session EXCEPT ![s].idle = TRUE, ![s].over = TRUE,
                                          ![s].lapsed = TRUE]
      BY <3>2 DEF SessionKept, SessionLapse, WSTypeOK, SessionType
    <3>3. QED
      BY <1>6, <3>1, <3>2 DEF Lapse
  <2>2. QED
    BY <1>6, <2>1 DEF Lapse, SessionSteps, PasswordSteps
<1>7. CASE TimePasses
  BY <1>7 DEF TimePasses, SessionSteps, PasswordSteps, SessionKept, WSTypeOK, UserType
<1>8. ASSUME NEW r \in Requests, LoginFails(r) PROVE SessionSteps /\ PasswordSteps
  BY <1>8 DEF LoginFails, SessionSteps, PasswordSteps, SessionKept, WSTypeOK, UserType
<1>9. CASE \/ UNCHANGED wsVars
           \/ \E r \in Requests : \/ LoginRead(r) \/ LoginLocked(r) \/ LoginPasses(r)
                                  \/ Fail(r) \/ \E s \in Sessions : Resolve(r, s)
  <2>1. UNCHANGED <<user, session>>
    BY <1>9 DEF wsVars, LoginRead, LoginLocked, LoginPasses, Fail, Resolve
  <2>2. QED
    BY <2>1 DEF SessionSteps, PasswordSteps, SessionKept
<1>10. QED
  BY <1>1, <1>2, <1>3, <1>4, <1>5, <1>6, <1>7, <1>8, <1>9 DEF WSNext

\* The records a step leaves behind.
LEMMA SteppedRecords ==
  ASSUME WSTypeOK, NEW s \in Sessions
  PROVE  /\ SessionNew(s) => /\ session'[s].row /\ ~session'[s].revoked
                             /\ ~session'[s].idle /\ ~session'[s].over
                             /\ ~session'[s].lapsed
                             /\ session'[s].password = user'.password
         /\ SessionGone(s) => ~session'[s].row
         /\ SessionEnded(s) => session'[s].revoked
         /\ SessionEnded(s) =>
              \A c \in {"row", "idle", "over", "lapsed", "password"} :
                session'[s][c] = session[s][c]
         /\ SessionTouch(s) =>
              /\ session'[s].idle = session[s].over
              /\ \A c \in {"row", "revoked", "over", "lapsed", "password"} :
                   session'[s][c] = session[s][c]
         /\ SessionLapse(s) =>
              /\ session'[s].lapsed
              /\ \A c \in {"row", "revoked", "password"} : session'[s][c] = session[s][c]
<1>1. session[s] \in SessionType
  BY DEF WSTypeOK
<1>2. SessionNew(s) => /\ session'[s].row /\ ~session'[s].revoked
                       /\ ~session'[s].idle /\ ~session'[s].over
                       /\ ~session'[s].lapsed
                       /\ session'[s].password = user'.password
  BY DEF SessionNew, Issued, NoSession
<1>3. SessionGone(s) => ~session'[s].row
  BY DEF SessionGone, NoSession
<1>4. SessionEnded(s) => /\ session'[s].revoked
                         /\ \A c \in {"row", "idle", "over", "lapsed", "password"} :
                              session'[s][c] = session[s][c]
  BY <1>1 DEF SessionEnded, SessionType
<1>5. SessionTouch(s) => /\ session'[s].idle = session[s].over
                         /\ \A c \in {"row", "revoked", "over", "lapsed", "password"} :
                              session'[s][c] = session[s][c]
  BY <1>1 DEF SessionTouch, Touched, SessionType
<1>6. SessionLapse(s) => /\ session'[s].lapsed
                         /\ \A c \in {"row", "revoked", "password"} :
                              session'[s][c] = session[s][c]
  BY <1>1 DEF SessionLapse, SessionType
<1>7. QED
  BY <1>2, <1>3, <1>4, <1>5, <1>6

\* A session that was ended is never active again.
THEOREM EndedStayEnded == WSSpec => EndedSessionsStayEnded
<1>1. AccountInv /\ [WSNext]_wsVars =>
        [\A s \in Sessions : session[s].row /\ session[s].revoked
           => ~session'[s].row \/ session'[s].revoked]_wsVars
  <2> SUFFICES ASSUME AccountInv, WSNext, NEW s \in Sessions, session[s].row,
                      session[s].revoked, session'[s].row
               PROVE  session'[s].revoked
    OBVIOUS
  <2>1. WSTypeOK /\ SessionSteps
    BY SessionsInSteps DEF AccountInv
  <2>2. QED
    BY <2>1, SteppedRecords DEF SessionSteps, SessionKept, SessionNew
<1>2. QED
  BY <1>1, AccountInvHolds, PTL DEF WSSpec, EndedSessionsStayEnded

LEMMA NextSessionsAreOfThePassword ==
  WSTypeOK /\ HolderInv /\ SessionsAreOfThePassword /\ [WSNext]_wsVars
    => SessionsAreOfThePassword'
<1> SUFFICES ASSUME WSTypeOK, HolderInv, SessionsAreOfThePassword, [WSNext]_wsVars,
                    NEW s \in Sessions, Unrevoked(s)'
             PROVE  session'[s].password = user'.password
  BY DEF SessionsAreOfThePassword
<1>1. SessionSteps /\ PasswordSteps
  BY SessionsInSteps
<1>2. CASE SessionNew(s)
  BY <1>2, SteppedRecords
<1>3. CASE ~SessionNew(s)
  <2>1. ~SessionGone(s) /\ ~SessionEnded(s)
    BY SteppedRecords DEF Unrevoked
  <2>2. Unrevoked(s) /\ session'[s].password = session[s].password
    BY <1>1, <1>3, <2>1, SteppedRecords DEF SessionSteps, SessionKept, Unrevoked
  <2>3. user'.password = user.password
    BY <1>1, <1>3, <2>1, <2>2 DEF PasswordSteps
  <2>4. QED
    BY <2>2, <2>3 DEF SessionsAreOfThePassword
<1>4. QED
  BY <1>2, <1>3

\* A change of the password ends every session issued under an older one.
THEOREM PasswordEndsSessions == WSSpec => []SessionsAreOfThePassword
<1>1. WSInit => SessionsAreOfThePassword
  BY DEF WSInit, NoSession, SessionsAreOfThePassword, Unrevoked
<1>2. AccountInv /\ SessionsAreOfThePassword /\ [WSNext]_wsVars => SessionsAreOfThePassword'
  BY NextSessionsAreOfThePassword DEF AccountInv
<1>3. QED
  BY <1>1, <1>2, AccountInvHolds, PTL DEF WSSpec

-----------------------------------------------------------------------------
(* The limit.                                                                *)

Counted == {s \in Sessions : Unrevoked(s) /\ ~session[s].lapsed}

\* A session is counted while its expiries have not been past.
LapseInv ==
  \A s \in Sessions : session[s].idle \/ session[s].over => session[s].lapsed

LEMMA NextLapseInv ==
  WSTypeOK /\ HolderInv /\ LapseInv /\ [WSNext]_wsVars => LapseInv'
<1> SUFFICES ASSUME WSTypeOK, HolderInv, LapseInv, [WSNext]_wsVars, NEW s \in Sessions,
                    session'[s].idle \/ session'[s].over
             PROVE  session'[s].lapsed
  BY DEF LapseInv
<1>1. SessionSteps
  BY SessionsInSteps
<1>2. ~SessionGone(s)
  BY DEF SessionGone, NoSession
<1>3. QED
  BY <1>1, <1>2, SteppedRecords DEF SessionSteps, SessionKept, LapseInv

LEMMA NextSessionLimit ==
  WSTypeOK /\ HolderInv /\ LapseInv /\ SessionLimit /\ [WSNext]_wsVars => SessionLimit'
<1> SUFFICES ASSUME WSTypeOK, HolderInv, LapseInv, SessionLimit, [WSNext]_wsVars
             PROVE  Cardinality(Counted') <= MaxActive
  BY DEF SessionLimit, Counted
<1>0. IsFiniteSet(Counted) /\ Cardinality(Counted) \in Nat /\ Cardinality(Counted) <= MaxActive
  <2>1. Counted \subseteq Sessions
    BY DEF Counted
  <2>2. QED
    BY <2>1, SessionsAssumption, FS_Subset, FS_CardinalityType DEF SessionLimit, Counted
\* A set of one more than MaxActive - 1.
<1>a. ASSUME NEW kept \in SUBSET Sessions, NEW new, Cardinality(kept) <= MaxActive - 1,
             Counted' \subseteq kept \union {new}
      PROVE  Cardinality(Counted') <= MaxActive
  <2>1. IsFiniteSet(kept) /\ Cardinality(kept) \in Nat
    BY SessionsAssumption, FS_Subset, FS_CardinalityType
  <2>2. /\ IsFiniteSet(kept \union {new})
        /\ Cardinality(kept \union {new}) <= Cardinality(kept) + 1
        /\ Cardinality(kept \union {new}) \in Nat
    BY <2>1, FS_AddElement, FS_CardinalityType
  <2>3. IsFiniteSet(Counted') /\ Cardinality(Counted') <= Cardinality(kept \union {new})
    BY <1>a, <2>2, FS_Subset
  <2>4. Cardinality(Counted') \in Nat
    BY <2>3, FS_CardinalityType
  <2>5. QED
    BY <1>a, <2>1, <2>2, <2>3, <2>4, LimitsAssumption
<1>1. ASSUME NEW r \in Requests, LoginIssues(r) PROVE Cardinality(Counted') <= MaxActive
  <2>1. PICK kept \in SUBSET Active(r), pruned \in SUBSET {s \in Sessions : Old(s)},
             new \in {s \in Sessions : ~session[s].row} :
          /\ Keep(Active(r), kept)
          /\ session' = [s \in Sessions |->
               IF s = new THEN Issued(req[r].read.password)
               ELSE IF s \in pruned THEN NoSession
               ELSE [session[s] EXCEPT !.revoked = @ \/ s \in Active(r) \ kept]]
    BY <1>1 DEF LoginIssues
  <2>2. ASSUME NEW s \in Counted', s # new PROVE s \in kept
    <3>1. s \in Sessions /\ session'[s].row /\ ~session'[s].revoked /\ ~session'[s].lapsed
      BY <2>2 DEF Counted, Unrevoked
    <3>2. s \notin pruned
      BY <2>1, <2>2, <3>1 DEF NoSession
    <3>3. session'[s] = [session[s] EXCEPT !.revoked = @ \/ s \in Active(r) \ kept]
      BY <2>1, <2>2, <3>1, <3>2
    <3>4. session[s] \in SessionType
      BY <3>1 DEF WSTypeOK
    <3>5. /\ session'[s].row = session[s].row /\ session'[s].lapsed = session[s].lapsed
          /\ session'[s].revoked = (session[s].revoked \/ s \in Active(r) \ kept)
      BY <3>3, <3>4 DEF SessionType
    <3>6. s \in Active(r)
      BY <3>1, <3>5 DEF Active, Unrevoked, Unexpired, LapseInv
    <3>7. QED
      BY <3>1, <3>5, <3>6
  <2>3. kept \in SUBSET Sessions /\ Cardinality(kept) <= MaxActive - 1
    BY <2>1 DEF Keep, Active
  <2>4. QED
    BY <1>a, <2>2, <2>3
<1>2. ASSUME NEW r \in Requests, ChangePassword(r) PROVE Cardinality(Counted') <= MaxActive
  <2>1. PICK new \in {s \in Sessions : ~session[s].row} :
          session' = [s \in Sessions |->
                       IF s = new THEN Issued(user.password + 1)
                       ELSE [session[s] EXCEPT !.revoked = @ \/ EndedByChange(s)]]
    BY <1>2 DEF ChangePassword
  <2>2. ASSUME NEW s \in Counted', s # new PROVE FALSE
    <3>1. s \in Sessions /\ session'[s].row /\ ~session'[s].revoked
      BY <2>2 DEF Counted, Unrevoked
    <3>2. session'[s] = [session[s] EXCEPT !.revoked = @ \/ EndedByChange(s)]
      BY <2>1, <2>2, <3>1
    <3>3. session[s] \in SessionType
      BY <3>1 DEF WSTypeOK
    <3>4. session'[s].row = session[s].row
            /\ session'[s].revoked = (session[s].revoked \/ EndedByChange(s))
      BY <3>2, <3>3 DEF SessionType
    <3>5. QED
      BY <3>1, <3>4 DEF EndedByChange, Unrevoked
  <2>3. Cardinality({}) <= MaxActive - 1
    BY FS_EmptySet, LimitsAssumption
  <2>4. QED
    BY <1>a, <2>2, <2>3
\* Every other step counts no session that was not counted.
<1>3. CASE \A s \in Sessions : ~SessionNew(s)
  <2>1. SessionSteps
    BY SessionsInSteps
  <2>2. Counted' \subseteq Counted
    BY <1>3, <2>1, SteppedRecords DEF SessionSteps, SessionKept, Counted, Unrevoked
  <2>3. IsFiniteSet(Counted') /\ Cardinality(Counted') <= Cardinality(Counted)
    BY <1>0, <2>2, FS_Subset
  <2>4. Cardinality(Counted') \in Nat
    BY <2>3, FS_CardinalityType
  <2>5. QED
    BY <1>0, <2>3, <2>4, LimitsAssumption
<1>4. CASE ~\E r \in Requests : LoginIssues(r) \/ ChangePassword(r)
  <2> SUFFICES ASSUME NEW s \in Sessions, SessionNew(s) PROVE FALSE
    BY <1>3
  <2>1. session'[s].row /\ ~session[s].row
    BY SteppedRecords DEF SessionNew
  <2>2. session'[s].row = session[s].row \/ session' = [t \in Sessions |-> NoSession]
    <3>1. CASE \E t \in Sessions : Lapse(t)
      BY <3>1 DEF Lapse, WSTypeOK, SessionType
    <3>2. CASE \E r \in Requests : DeleteAccount(r)
      BY <3>2 DEF DeleteAccount
    <3>3. CASE \E r \in Requests : Touch(r)
      BY <3>3 DEF Touch, Touched, WSTypeOK, SessionType
    <3>4. CASE \E r \in Requests : Expire(r) \/ \E t \in Sessions : Revoke(r, t)
      BY <3>4 DEF Expire, Revoke, SetRevoked, WSTypeOK, SessionType
    <3>5. CASE UNCHANGED session
      BY <3>5
    <3>6. QED
      BY <1>4, <3>1, <3>2, <3>3, <3>4, <3>5 DEF WSNext, wsVars, TimePasses, LoginRead, LoginLocked,
         LoginFails, LoginPasses, Fail, Resolve
  <2>3. ~NoSession.row
    BY DEF NoSession
  <2>4. QED
    BY <2>1, <2>2, <2>3
<1>5. QED
  BY <1>1, <1>2, <1>4

\* max_active_sessions bounds the active sessions that have not been past an
\* expiry.
THEOREM SessionsLimited == WSSpec => []SessionLimit
<1>1. WSInit => LapseInv /\ SessionLimit
  <2>1. WSInit => Counted = {}
    BY DEF WSInit, Counted, Unrevoked, NoSession
  <2>2. Cardinality({}) <= MaxActive
    BY FS_EmptySet, LimitsAssumption
  <2>3. WSInit => SessionLimit
    <3>1. Counted = {} => SessionLimit
      BY <2>2 DEF Counted, SessionLimit
    <3>2. QED
      BY <2>1, <3>1
  <2>4. WSInit => LapseInv
    BY DEF WSInit, LapseInv, NoSession
  <2>5. QED
    BY <2>3, <2>4
<1>2. AccountInv /\ LapseInv /\ SessionLimit /\ [WSNext]_wsVars => LapseInv' /\ SessionLimit'
  BY NextLapseInv, NextSessionLimit DEF AccountInv
<1>3. QED
  BY <1>1, <1>2, AccountInvHolds, PTL DEF WSSpec
=============================================================================
