-------------------------- MODULE ConnectPage_proofs --------------------------
(***************************************************************************)
(* Proofs about ConnectPage, for any bounds.                               *)
(***************************************************************************)
EXTENDS ConnectPage, TLAPS

Awaited(k) == asks[k] # NoRequest /\ Applies(asks[k])

\* What was abandoned is outdated.
NewestIsMine == \A k \in Slots : asks[k] # NoRequest /\ asks[k].newest => asks[k].mine

ClosedIsBlank == ~mounted => shown = NoStatus /\ ~active

\* What is shown is not newer than the server, and the awaited answer is not
\* older than what is shown.
RepliesAreLater ==
  /\ shown # NoStatus => shown.seq <= server.seq
  /\ \A k \in Slots : Awaited(k) /\ asks[k].reply \in Statuses =>
       /\ asks[k].reply.seq <= server.seq
       /\ shown # NoStatus => shown.seq <= asks[k].reply.seq

\* As long as nothing was missed, the awaited answer says how things are, or
\* what is shown does and will go on doing so.
UpToDate ==
  ~missed =>
    /\ ~active => shown \in {NoStatus, server}
    /\ \A k \in Slots : Awaited(k) =>
         /\ asks[k].reply \in Statuses => asks[k].reply = server
         /\ asks[k].reply = Failed => shown \in {NoStatus, server}
         /\ asks[k].reply = NoReply /\ ~asks[k].retried => shown \in {NoStatus, server}

IInv == /\ TypeOK /\ BusyWhileAsking /\ NewestIsMine /\ ClosedIsBlank
        /\ RepliesAreLater /\ UpToDate

-----------------------------------------------------------------------------
USE ConnectAssumption, RepliesAssumption, RequestAssumption

LEMMA InitInv == Init => IInv
  <1>. SUFFICES ASSUME Init PROVE IInv
    OBVIOUS
  <1>1. TypeOK
    <2>1. server \in Statuses
      BY DEF Init, Statuses
    <2>. QED  BY <2>1 DEF Init, TypeOK, Operations, Slots
  <1>2. BusyWhileAsking /\ NewestIsMine /\ ClosedIsBlank
    BY DEF Init, BusyWhileAsking, NewestIsMine, ClosedIsBlank
  <1>3. RepliesAreLater /\ UpToDate
    BY DEF Init, RepliesAreLater, UpToDate, Awaited
  <1>. QED  BY <1>1, <1>2, <1>3 DEF IInv

\* The page awaits one answer at most.
LEMMA OneAwaited ==
  ASSUME IInv, NEW j \in Slots, NEW k \in Slots, Awaited(j), Awaited(k)
  PROVE  j = k
  BY DEF IInv, BusyWhileAsking, Awaited, Applies

LEMMA AwaitedIsActive ==
  ASSUME IInv, NEW k \in Slots
  PROVE  /\ Awaited(k) => active /\ mounted
         /\ asks[k] # NoRequest /\ asks[k].newest => Awaited(k)
  BY DEF IInv, BusyWhileAsking, NewestIsMine, ClosedIsBlank, Awaited, Applies

LEMMA NewAsksAreAsks ==
  ASSUME NEW kind \in Kinds, NEW newest \in BOOLEAN
  PROVE  /\ NewAsk(kind, newest) \in Asks
         /\ NewAsk(kind, newest) # NoRequest
         /\ NewAsk(kind, newest).mine /\ NewAsk(kind, newest).newest = newest
         /\ NewAsk(kind, newest).reply = NoReply /\ ~NewAsk(kind, newest).retried
  <1>1. NewAsk(kind, newest) \in Asks
    BY DEF NewAsk, Asks
  <1>2. /\ NewAsk(kind, newest).mine /\ NewAsk(kind, newest).newest = newest
        /\ NewAsk(kind, newest).reply = NoReply /\ ~NewAsk(kind, newest).retried
    BY DEF NewAsk
  <1>. QED  BY <1>1, <1>2

LEMMA OutdatedAsks ==
  ASSUME NEW a \in Asks \union {NoRequest}
  PROVE  /\ Outdated(a) \in Asks \union {NoRequest}
         /\ Abandoned(a) \in Asks \union {NoRequest}
         /\ Outdated(a) # NoRequest => ~Outdated(a).newest
         /\ Abandoned(a) # NoRequest => ~Abandoned(a).newest
  BY DEF Outdated, Abandoned, Asks

\* A slot whose request is the one the page will await, and no other is.
SoleAsk(k, kind) ==
  /\ asks' \in [Slots -> Asks \union {NoRequest}]
  /\ asks'[k] = NewAsk(kind, TRUE)
  /\ \A i \in Slots \ {k} : asks'[i] # NoRequest => ~asks'[i].newest

\* A page that awaited nothing sends a request.
LEMMA Asked ==
  ASSUME IInv, ~active, NEW kind \in Kinds, NEW doing \in Operations \ {"none"},
         NEW k \in Slots, SoleAsk(k, kind),
         active' = TRUE, operation' = doing, mounted' = TRUE, clicks' = clicks + 1,
         UNCHANGED <<server, shown, missed, faults>>
  PROVE  IInv'
  <1>. DEFINE new == NewAsk(kind, TRUE)
  <1>1. /\ new \in Asks /\ new # NoRequest /\ new.mine /\ new.newest
        /\ new.reply = NoReply /\ ~new.retried /\ NoReply \notin Statuses
    BY NewAsksAreAsks
  <1>2. asks'[k] = new
    BY DEF SoleAsk
  <1>. HIDE DEF new
  <1>3. Awaited(k)' /\ \A i \in Slots : Awaited(i)' => i = k
    BY <1>1, <1>2 DEF SoleAsk, Awaited, Applies
  <1>4. TypeOK'
    BY DEF SoleAsk, IInv, TypeOK
  <1>5. BusyWhileAsking'
    <2>1. (\E i \in Slots : asks[i] # NoRequest /\ Applies(asks[i]))'
      BY <1>3 DEF Awaited
    <2>2. \A i \in Slots : asks'[i] # NoRequest /\ asks'[i].newest => i = k
      BY DEF SoleAsk
    <2>. QED  BY <2>1, <2>2 DEF BusyWhileAsking
  <1>6. NewestIsMine' /\ ClosedIsBlank'
    BY <1>1, <1>2 DEF SoleAsk, NewestIsMine, ClosedIsBlank
  <1>7. RepliesAreLater'
    BY <1>1, <1>2, <1>3 DEF IInv, RepliesAreLater
  <1>8. UpToDate'
    BY <1>1, <1>2, <1>3 DEF IInv, UpToDate
  <1>. QED  BY <1>4, <1>5, <1>6, <1>7, <1>8 DEF IInv

LEMMA AskIsSole ==
  ASSUME IInv, NEW kind \in Kinds, NEW doing, Ask(kind, doing)
  PROVE  \E k \in Slots : SoleAsk(k, kind)
  <1>1. PICK k \in Slots :
          asks' = [i \in Slots |-> IF i = k THEN NewAsk(kind, TRUE) ELSE Outdated(asks[i])]
    BY DEF Ask
  <1>2. asks \in [Slots -> Asks \union {NoRequest}] /\ NewAsk(kind, TRUE) \in Asks
    BY NewAsksAreAsks DEF IInv, TypeOK
  <1>3. asks'[k] = NewAsk(kind, TRUE)
    BY <1>1
  <1>4. ASSUME NEW i \in Slots, i # k
        PROVE  /\ asks'[i] \in Asks \union {NoRequest}
               /\ asks'[i] # NoRequest => ~asks'[i].newest
    <2>1. asks[i] \in Asks \union {NoRequest}
      BY <1>2
    <2>2. asks'[i] = Outdated(asks[i])
      BY <1>1, <1>4
    <2>. QED  BY <2>1, <2>2, OutdatedAsks
  <1>5. DOMAIN asks' = Slots /\ asks' = [i \in Slots |-> asks'[i]]
    BY <1>1
  <1>6. asks' \in [Slots -> Asks \union {NoRequest}]
    BY <1>2, <1>3, <1>4, <1>5
  <1>7. SoleAsk(k, kind)
    BY <1>3, <1>4, <1>6 DEF SoleAsk
  <1>. QED  BY <1>7

LEMMA Submitted ==
  ASSUME IInv, NEW kind \in Kinds, NEW doing \in Operations \ {"none"},
         Submit(kind, doing)
  PROVE  IInv'
  <1>1. Ask(kind, doing) /\ ~active
    BY DEF Submit
  <1>2. PICK k \in Slots : SoleAsk(k, kind)
    BY <1>1, AskIsSole
  <1>3. /\ active' = TRUE /\ operation' = doing /\ mounted' = TRUE
        /\ clicks' = clicks + 1 /\ UNCHANGED <<server, shown, missed, faults>>
    BY DEF Submit, Ask, Click, IInv, TypeOK
  <1>. QED  BY <1>1, <1>2, <1>3, Asked

LEMMA Opened == ASSUME IInv, Open PROVE IInv'
  <1>1. Ask("fetch", "loading") /\ ~active /\ "fetch" \in Kinds
    BY DEF Open, IInv, ClosedIsBlank, Kinds
  <1>2. PICK k \in Slots : SoleAsk(k, "fetch")
    BY <1>1, AskIsSole
  <1>3. /\ active' = TRUE /\ operation' = "loading" /\ mounted' = TRUE
        /\ clicks' = clicks + 1 /\ UNCHANGED <<server, shown, missed, faults>>
    BY DEF Open, Ask, Click
  <1>4. "loading" \in Operations \ {"none"}
    BY DEF Operations
  <1>. QED  BY <1>1, <1>2, <1>3, <1>4, Asked

\* Of the two loads of a page opened twice the first is outdated.
LEMMA OpenedTwice == ASSUME IInv, OpenTwice PROVE IInv'
  <1>1. ~active /\ "fetch" \in Kinds /\ "loading" \in Operations \ {"none"}
    BY DEF OpenTwice, IInv, ClosedIsBlank, Kinds, Operations
  <1>2. PICK j \in Slots, k \in Slots :
          /\ k > j
          /\ asks' = [asks EXCEPT ![j] = NewAsk("fetch", FALSE),
                                  ![k] = NewAsk("fetch", TRUE)]
    BY DEF OpenTwice
  <1>3. /\ asks \in [Slots -> Asks \union {NoRequest}] /\ j # k
        /\ \A i \in Slots : asks[i] # NoRequest => ~asks[i].newest
    BY <1>1, <1>2, AwaitedIsActive DEF IInv, TypeOK, Slots
  <1>4. /\ NewAsk("fetch", FALSE) \in Asks /\ ~NewAsk("fetch", FALSE).newest
        /\ NewAsk("fetch", TRUE) \in Asks
    BY <1>1, NewAsksAreAsks
  <1>5. SoleAsk(k, "fetch")
    BY <1>2, <1>3, <1>4 DEF SoleAsk
  <1>6. /\ active' = TRUE /\ operation' = "loading" /\ mounted' = TRUE
        /\ clicks' = clicks + 1 /\ UNCHANGED <<server, shown, missed, faults>>
    BY DEF OpenTwice, Click
  <1>. QED  BY <1>1, <1>5, <1>6, Asked

LEMMA Left == ASSUME IInv, Leave PROVE IInv'
  <1>1. ASSUME NEW k \in Slots
        PROVE  /\ asks'[k] \in Asks \union {NoRequest}
               /\ asks'[k] # NoRequest => ~asks'[k].newest
    <2>1. asks[k] \in Asks \union {NoRequest} /\ asks'[k] = Abandoned(asks[k])
      BY <1>1 DEF IInv, TypeOK, Leave
    <2>. QED  BY <2>1, OutdatedAsks
  <1>2. DOMAIN asks' = Slots /\ asks' = [k \in Slots |-> asks'[k]]
    BY DEF Leave
  <1>3. asks' \in [Slots -> Asks \union {NoRequest}]
    BY <1>1, <1>2
  <1>4. /\ shown' = NoStatus /\ ~active' /\ ~mounted' /\ operation' = "none"
        /\ \A k \in Slots : ~Awaited(k)'
    BY <1>1 DEF Leave, Awaited, Applies
  <1>5. TypeOK'
    <2>1. /\ server' = server /\ missed' = missed /\ faults' = faults
          /\ clicks' = clicks + 1 /\ mounted' = FALSE /\ active' = FALSE
          /\ shown' = NoStatus /\ operation' = "none"
      BY DEF Leave, Click
    <2>2. /\ server \in Statuses /\ missed \in BOOLEAN /\ faults \in Nat /\ clicks \in Nat
          /\ "none" \in Operations
      BY DEF IInv, TypeOK, Operations
    <2>3. server' \in Statuses /\ shown' \in Statuses \union {NoStatus}
      BY <2>1, <2>2
    <2>4. /\ mounted' \in BOOLEAN /\ active' \in BOOLEAN /\ missed' \in BOOLEAN
          /\ operation' \in Operations /\ faults' \in Nat
      BY <2>1, <2>2
    <2>5. clicks' \in Nat
      BY <2>1, <2>2
    <2>. QED  BY <1>3, <2>3, <2>4, <2>5 DEF TypeOK
  <1>6. BusyWhileAsking' /\ NewestIsMine' /\ ClosedIsBlank'
    BY <1>1, <1>4 DEF BusyWhileAsking, NewestIsMine, ClosedIsBlank, Awaited
  <1>7. RepliesAreLater' /\ UpToDate'
    BY <1>4 DEF RepliesAreLater, UpToDate
  <1>. QED  BY <1>5, <1>6, <1>7 DEF IInv

-----------------------------------------------------------------------------
(* The server: the reply of one request changes. *)

RepliedBy(k, r, retried) ==
  /\ asks' \in [Slots -> Asks \union {NoRequest}]
  /\ asks'[k] # NoRequest
  /\ asks'[k].mine = asks[k].mine /\ asks'[k].newest = asks[k].newest
  /\ asks'[k].reply = r /\ asks'[k].retried = retried
  /\ \A i \in Slots \ {k} : asks'[i] = asks[i]

LEMMA Replaced ==
  ASSUME TypeOK, NEW k \in Slots, asks[k] # NoRequest,
         NEW r \in Statuses \union {NoReply, Failed}, NEW retried \in BOOLEAN,
         \/ asks' = [asks EXCEPT ![k].reply = r] /\ retried = asks[k].retried
         \/ asks' = [asks EXCEPT ![k].reply = r, ![k].retried = TRUE] /\ retried = TRUE
  PROVE  RepliedBy(k, r, retried)
  <1>. DEFINE old == asks[k]
              new == [old EXCEPT !.reply = r, !.retried = retried]
  <1>1. old \in Asks
    BY DEF TypeOK
  <1>2. /\ new \in Asks /\ new.mine = old.mine /\ new.newest = old.newest
        /\ new.reply = r /\ new.retried = retried
    BY <1>1 DEF Asks
  <1>3. asks' = [asks EXCEPT ![k] = new]
    <2>1. CASE asks' = [asks EXCEPT ![k].reply = r] /\ retried = asks[k].retried
      <3>1. new = [old EXCEPT !.reply = r]
        BY <1>1, <2>1 DEF Asks
      <3>. QED  BY <2>1, <3>1
    <2>2. CASE asks' = [asks EXCEPT ![k].reply = r, ![k].retried = TRUE] /\ retried = TRUE
      BY <2>2 DEF TypeOK
    <2>. QED  BY <2>1, <2>2
  <1>. HIDE DEF new
  <1>. QED  BY <1>1, <1>2, <1>3 DEF TypeOK, RepliedBy

\* What a reply changes is not what makes the page busy.
LEMMA PageKept ==
  ASSUME IInv, NEW k \in Slots, asks[k] # NoRequest, NEW r, NEW retried,
         RepliedBy(k, r, retried), UNCHANGED page
  PROVE  /\ BusyWhileAsking' /\ NewestIsMine' /\ ClosedIsBlank'
         /\ \A i \in Slots : Awaited(i)' <=> Awaited(i)
  <1>1. ASSUME NEW i \in Slots
        PROVE  /\ asks'[i] # NoRequest <=> asks[i] # NoRequest
               /\ asks'[i].mine = asks[i].mine
               /\ asks'[i].newest = asks[i].newest
    <2>1. CASE i = k
      BY <2>1 DEF RepliedBy
    <2>2. CASE i # k
      BY <2>2 DEF RepliedBy
    <2>. QED  BY <2>1, <2>2
  <1>2. ASSUME NEW i \in Slots PROVE Awaited(i)' <=> Awaited(i)
    BY <1>1 DEF Awaited, Applies
  <1>3. (\E i \in Slots : asks[i] # NoRequest /\ Applies(asks[i]))'
          <=> \E i \in Slots : asks[i] # NoRequest /\ Applies(asks[i])
    BY <1>1 DEF Applies
  <1>4. /\ active' = active /\ operation' = operation
        /\ active <=> operation # "none"
        /\ active <=> \E i \in Slots : asks[i] # NoRequest /\ Applies(asks[i])
    BY DEF page, IInv, BusyWhileAsking
  <1>5. \A i, j \in Slots : asks'[i] # NoRequest /\ asks'[j] # NoRequest
                            /\ asks'[i].newest /\ asks'[j].newest => i = j
    BY <1>1 DEF IInv, BusyWhileAsking
  <1>6. BusyWhileAsking'
    BY <1>3, <1>4, <1>5 DEF BusyWhileAsking
  <1>7. NewestIsMine' /\ ClosedIsBlank'
    BY <1>1 DEF page, IInv, NewestIsMine, ClosedIsBlank
  <1>. QED  BY <1>2, <1>6, <1>7

\* The server's state only moves on.
Later == server' \in Statuses /\ server'.seq >= server.seq

LEMMA BecomesLater ==
  ASSUME TypeOK, NEW state \in States, Becomes(state)
  PROVE  Later
  BY DEF TypeOK, Becomes, Later, Statuses

LEMMA AnsweredInv ==
  ASSUME IInv, NEW k \in Slots, asks[k] # NoRequest, asks[k].reply = NoReply,
         Later, Answered(k), UNCHANGED <<page, faults, clicks>>
  PROVE  IInv'
  <1>1. RepliedBy(k, server', asks[k].retried)
    <2>1. asks[k] \in Asks
      BY DEF IInv, TypeOK
    <2>2. asks[k].retried \in BOOLEAN
      BY <2>1 DEF Asks
    <2>. QED  BY <2>2, Replaced DEF Answered, Later, IInv
  <1>2. /\ BusyWhileAsking' /\ NewestIsMine' /\ ClosedIsBlank'
        /\ \A i \in Slots : Awaited(i)' <=> Awaited(i)
    BY <1>1, PageKept
  <1>3. TypeOK'
    <2>1. missed' \in BOOLEAN
      BY DEF Answered, IInv, TypeOK
    <2>. QED  BY <1>1, <2>1 DEF IInv, TypeOK, page, Later, RepliedBy
  <1>4. shown' = shown /\ active' = active
    BY DEF page
  <1>5. RepliesAreLater'
    <2>1. server.seq \in Nat /\ server'.seq \in Nat /\ server'.seq >= server.seq
      BY DEF IInv, TypeOK, Later, Statuses
    <2>2. shown # NoStatus => shown.seq \in Nat /\ shown.seq <= server.seq
      BY DEF IInv, TypeOK, RepliesAreLater, Statuses
    <2>3. shown' # NoStatus => shown'.seq <= server'.seq
      BY <1>4, <2>1, <2>2
    <2>4. ASSUME NEW i \in Slots, Awaited(i)', asks'[i].reply \in Statuses
          PROVE  /\ asks'[i].reply.seq <= server'.seq
                 /\ shown # NoStatus => shown.seq <= asks'[i].reply.seq
      <3>1. CASE i = k
        BY <1>1, <2>1, <2>2, <3>1 DEF RepliedBy
      <3>2. CASE i # k
        <4>1. asks'[i] = asks[i] /\ Awaited(i)
          BY <1>1, <1>2, <2>4, <3>2 DEF RepliedBy
        <4>2. /\ asks[i].reply.seq \in Nat /\ asks[i].reply.seq <= server.seq
              /\ shown # NoStatus => shown.seq <= asks[i].reply.seq
          BY <2>4, <4>1 DEF IInv, RepliesAreLater, Statuses
        <4>. QED  BY <2>1, <4>1, <4>2
      <3>. QED  BY <3>1, <3>2
    <2>. QED  BY <1>4, <2>3, <2>4 DEF RepliesAreLater
  <1>6. UpToDate'
    <2>1. CASE asks[k].newest
      <3>1. active /\ \A i \in Slots : Awaited(i) => i = k
        BY <2>1, OneAwaited, AwaitedIsActive
      <3>2. asks'[k].reply = server' /\ server' \in Statuses
        BY <1>1 DEF RepliedBy, Later
      <3>. QED  BY <1>2, <1>4, <3>1, <3>2 DEF UpToDate
    <2>2. CASE ~asks[k].newest
      <3>1. ~missed' => ~missed /\ server' = server
        BY <2>2 DEF Answered, IInv, TypeOK
      <3>2. \A i \in Slots : Awaited(i)' => asks'[i] = asks[i] /\ Awaited(i)
        BY <1>1, <1>2, <2>2 DEF RepliedBy, Awaited, Applies
      <3>. QED  BY <1>4, <3>1, <3>2 DEF IInv, UpToDate
    <2>. QED  BY <2>1, <2>2
  <1>. QED  BY <1>2, <1>3, <1>5, <1>6 DEF IInv

\* A reply other than a status leaves a page that awaited it as it is shown.
LEMMA FailedInv ==
  ASSUME IInv, NEW k \in Slots, asks[k] # NoRequest,
         NEW r \in {NoReply, Failed}, NEW retried \in BOOLEAN,
         RepliedBy(k, r, retried), UNCHANGED <<server, page, clicks>>, faults' \in Nat,
         missed' \in BOOLEAN, missed => missed',
         \/ missed' = TRUE
         \/ asks[k].reply = NoReply /\ asks[k].retried = FALSE
         \/ r = NoReply /\ retried = TRUE
  PROVE  IInv'
  <1>1. /\ BusyWhileAsking' /\ NewestIsMine' /\ ClosedIsBlank'
        /\ \A i \in Slots : Awaited(i)' <=> Awaited(i)
    BY PageKept DEF page
  <1>2. shown' = shown /\ active' = active /\ server' = server
    BY DEF page
  <1>3. TypeOK'
    BY DEF RepliedBy, IInv, TypeOK, page
  <1>4. asks'[k].reply = r /\ r \notin Statuses
    BY DEF RepliedBy
  <1>5. \A i \in Slots \ {k} : asks'[i] = asks[i]
    BY DEF RepliedBy
  <1>6. RepliesAreLater'
    BY <1>1, <1>2, <1>4, <1>5 DEF IInv, RepliesAreLater
  <1>7. UpToDate'
    <2>1. SUFFICES ASSUME ~missed' PROVE UpToDate'
      BY DEF UpToDate
    <2>2. ASSUME NEW i \in Slots, Awaited(i)'
          PROVE  /\ asks'[i].reply \in Statuses => asks'[i].reply = server
                 /\ asks'[i].reply = Failed => shown \in {NoStatus, server}
                 /\ asks'[i].reply = NoReply /\ ~asks'[i].retried
                      => shown \in {NoStatus, server}
      <3>1. Awaited(i) /\ ~missed
        BY <1>1, <2>1, <2>2
      <3>2. CASE i # k
        BY <1>5, <3>1, <3>2 DEF IInv, UpToDate
      <3>3. CASE i = k
        <4>1. asks'[k].retried = retried
          BY DEF RepliedBy
        <4>. QED  BY <1>4, <2>1, <3>1, <3>3, <4>1 DEF IInv, UpToDate
      <3>. QED  BY <3>2, <3>3
    <2>3. ~active => shown \in {NoStatus, server}
      BY <2>1 DEF IInv, UpToDate
    <2>. QED  BY <1>2, <2>2, <2>3 DEF UpToDate
  <1>. QED  BY <1>1, <1>3, <1>6, <1>7 DEF IInv

LEMMA Replying ==
  ASSUME TypeOK, NEW k \in Slots, asks[k] # NoRequest
  PROVE  asks[k].retried \in BOOLEAN /\ asks[k].reply \in Statuses \union {NoReply, Failed}
  <1>1. asks[k] \in Asks
    BY DEF TypeOK
  <1>. QED  BY <1>1 DEF Asks

LEMMA Served == ASSUME IInv, NEW k \in Slots, Serve(k) PROVE IInv'
  <1>1. /\ TypeOK /\ asks[k] # NoRequest /\ asks[k].reply = NoReply
        /\ UNCHANGED <<page, faults, clicks>>
    BY DEF Serve, IInv
  <1>2. {"code_required", "connected", "password_required", "disconnected"} \subseteq States
    BY DEF States
  <1>3. UNCHANGED server => Later
    BY DEF IInv, TypeOK, Later, Statuses
  <1>4. CASE Fetched(k)
    BY <1>1, <1>3, <1>4, AnsweredInv DEF Fetched
  <1>5. CASE Started(k)
    <2>1. Later /\ Answered(k)
      BY <1>1, <1>2, <1>3, <1>5, BecomesLater DEF Started
    <2>. QED  BY <1>1, <2>1, AnsweredInv
  <1>6. CASE Verified(k)
    <2>1. Later /\ Answered(k)
      BY <1>1, <1>2, <1>3, <1>6, BecomesLater DEF Verified
    <2>. QED  BY <1>1, <2>1, AnsweredInv
  <1>7. CASE Disconnected(k)
    <2>1. Later /\ Answered(k)
      BY <1>1, <1>2, <1>7, BecomesLater DEF Disconnected
    <2>. QED  BY <1>1, <2>1, AnsweredInv
  <1>8. CASE Refused(k)
    <2>1. /\ asks' = [asks EXCEPT ![k].reply = Failed] /\ UNCHANGED server
          /\ missed' = (missed \/ asks[k].retried)
      BY <1>8 DEF Refused
    <2>2. RepliedBy(k, Failed, asks[k].retried) /\ asks[k].retried \in BOOLEAN
      BY <1>1, <2>1, Replaced, Replying
    <2>3. /\ missed' \in BOOLEAN /\ (missed => missed') /\ faults' \in Nat
          /\ missed' = TRUE \/ asks[k].retried = FALSE
      BY <1>1, <2>1, <2>2 DEF TypeOK
    <2>4. UNCHANGED <<server, page, clicks>>
      BY <1>1, <2>1
    <2>. QED  BY <1>1, <2>2, <2>3, <2>4, FailedInv
  <1>. QED  BY <1>4, <1>5, <1>6, <1>7, <1>8 DEF Serve

LEMMA Lost == ASSUME IInv, NEW k \in Slots, Lose(k) PROVE IInv'
  <1>1. /\ TypeOK /\ asks[k] # NoRequest /\ UNCHANGED <<server, page, clicks>>
        /\ asks' = [asks EXCEPT ![k].reply = Failed]
        /\ missed' = (missed \/ asks[k].reply # NoReply \/ asks[k].retried)
    BY DEF Lose, IInv
  <1>2. RepliedBy(k, Failed, asks[k].retried) /\ asks[k].retried \in BOOLEAN
    BY <1>1, Replaced, Replying
  <1>3. faults' \in Nat
    BY <1>1 DEF Lose, Fault, TypeOK
  <1>4. /\ missed' \in BOOLEAN
        /\ missed => missed'
        /\ missed' = TRUE \/ (asks[k].reply = NoReply /\ asks[k].retried = FALSE)
    BY <1>1, <1>2 DEF TypeOK
  <1>. QED  BY <1>1, <1>2, <1>3, <1>4, FailedInv

LEMMA Retried == ASSUME IInv, NEW k \in Slots, Retry(k) PROVE IInv'
  <1>1. /\ TypeOK /\ asks[k] # NoRequest /\ UNCHANGED <<server, page, missed, clicks>>
        /\ asks' = [asks EXCEPT ![k].reply = NoReply, ![k].retried = TRUE]
    BY DEF Retry, IInv
  <1>2. RepliedBy(k, NoReply, TRUE)
    BY <1>1, Replaced
  <1>3. faults' \in Nat /\ missed' \in BOOLEAN /\ (missed => missed')
    BY <1>1 DEF Retry, Fault, TypeOK
  <1>4. UNCHANGED <<server, page, clicks>>
    BY <1>1
  <1>. QED  BY <1>1, <1>2, <1>3, <1>4, FailedInv

LEMMA ChangedElsewhere == ASSUME IInv, Elsewhere PROVE IInv'
  <1>1. Later /\ missed' /\ UNCHANGED <<page, asks, faults, clicks>>
    BY BecomesLater DEF Elsewhere, IInv
  <1>2. TypeOK'
    <2>1. missed' \in BOOLEAN
      BY DEF Elsewhere
    <2>. QED  BY <1>1, <2>1 DEF IInv, TypeOK, Later, page
  <1>3. BusyWhileAsking' /\ NewestIsMine' /\ ClosedIsBlank'
    BY <1>1 DEF IInv, BusyWhileAsking, NewestIsMine, ClosedIsBlank, page
  <1>4. RepliesAreLater'
    <2>1. server.seq \in Nat /\ server'.seq \in Nat /\ server'.seq >= server.seq
      BY <1>1 DEF IInv, TypeOK, Later, Statuses
    <2>2. shown # NoStatus => shown.seq \in Nat /\ shown.seq <= server.seq
      BY DEF IInv, TypeOK, RepliesAreLater, Statuses
    <2>3. ASSUME NEW i \in Slots, Awaited(i), asks[i].reply \in Statuses
          PROVE  /\ asks[i].reply.seq <= server'.seq
                 /\ shown # NoStatus => shown.seq <= asks[i].reply.seq
      <3>1. /\ asks[i].reply.seq \in Nat /\ asks[i].reply.seq <= server.seq
            /\ shown # NoStatus => shown.seq <= asks[i].reply.seq
        BY <2>3 DEF IInv, RepliesAreLater, Statuses
      <3>. QED  BY <2>1, <3>1
    <2>4. asks' = asks /\ shown' = shown
      BY <1>1 DEF page
    <2>. QED  BY <2>1, <2>2, <2>3, <2>4 DEF RepliesAreLater, Awaited
  <1>5. UpToDate'
    BY <1>1 DEF UpToDate
  <1>. QED  BY <1>2, <1>3, <1>4, <1>5 DEF IInv

-----------------------------------------------------------------------------
(* The answer, and the theorems. *)

LEMMA Received == ASSUME IInv, NEW k \in Slots, Receive(k) PROVE IInv'
  <1>. DEFINE a == asks[k]
  <1>1. /\ TypeOK /\ a # NoRequest /\ a.reply # NoReply
        /\ asks' = [asks EXCEPT ![k] = NoRequest]
        /\ UNCHANGED <<server, mounted, missed, faults, clicks>>
    BY DEF Receive, IInv
  <1>2. /\ a \in Asks
        /\ a.reply \in Statuses \union {Failed}
    BY <1>1, Replying DEF TypeOK
  <1>3. /\ asks' \in [Slots -> Asks \union {NoRequest}] /\ asks'[k] = NoRequest
        /\ \A i \in Slots \ {k} : asks'[i] = asks[i]
    BY <1>1 DEF TypeOK
  <1>4. \A i, j \in Slots : asks'[i] # NoRequest /\ asks'[j] # NoRequest
                            /\ asks'[i].newest /\ asks'[j].newest => i = j
    BY <1>3 DEF IInv, BusyWhileAsking
  <1>5. NewestIsMine'
    BY <1>3 DEF IInv, NewestIsMine
  <1>6. CASE Applies(a)
    <2>1. Awaited(k) /\ active /\ mounted
      BY <1>1, <1>6, AwaitedIsActive DEF Awaited
    <2>2. \A i \in Slots : ~Awaited(i)'
      BY <1>3, <2>1, OneAwaited DEF Awaited, Applies
    <2>3. active' = FALSE /\ operation' = "none"
      BY <1>6 DEF Receive, Ends
    <2>4. shown' = IF a.reply # Failed THEN a.reply ELSE shown
      BY <1>6 DEF Receive
    <2>5. TypeOK'
      <3>1. shown' \in Statuses \union {NoStatus}
        BY <1>1, <1>2, <2>4 DEF TypeOK
      <3>2. operation' \in Operations
        BY <2>3 DEF Operations
      <3>. QED  BY <1>1, <1>3, <2>3, <3>1, <3>2 DEF TypeOK
    <2>6. BusyWhileAsking' /\ ClosedIsBlank'
      BY <1>1, <1>4, <2>1, <2>2, <2>3 DEF BusyWhileAsking, ClosedIsBlank, Awaited
    <2>7. RepliesAreLater'
      BY <1>1, <1>2, <2>1, <2>2, <2>4 DEF IInv, RepliesAreLater
    <2>8. UpToDate'
      BY <1>1, <1>2, <2>1, <2>2, <2>4 DEF IInv, UpToDate
    <2>. QED  BY <1>5, <2>5, <2>6, <2>7, <2>8 DEF IInv
  <1>7. CASE ~Applies(a)
    <2>1. UNCHANGED <<active, operation, shown>>
      BY <1>7 DEF Receive, Ends
    <2>2. ASSUME NEW i \in Slots
          PROVE  Awaited(i)' <=> Awaited(i)
      BY <1>3, <1>7 DEF Awaited, Applies
    <2>3. \A i \in Slots : Awaited(i)' => asks'[i] = asks[i] /\ Awaited(i)
      BY <1>3, <2>2 DEF Awaited
    <2>4. TypeOK'
      BY <1>1, <1>3, <2>1 DEF TypeOK
    <2>5. BusyWhileAsking' /\ ClosedIsBlank'
      <3>1. (\E i \in Slots : asks[i] # NoRequest /\ Applies(asks[i]))'
              <=> \E i \in Slots : asks[i] # NoRequest /\ Applies(asks[i])
        BY <2>2 DEF Awaited
      <3>. QED  BY <1>1, <1>4, <2>1, <3>1 DEF IInv, BusyWhileAsking, ClosedIsBlank
    <2>6. RepliesAreLater' /\ UpToDate'
      BY <1>1, <2>1, <2>3 DEF IInv, RepliesAreLater, UpToDate
    <2>. QED  BY <1>5, <2>4, <2>5, <2>6 DEF IInv
  <1>. QED  BY <1>6, <1>7

LEMMA UserInv == ASSUME IInv, User PROVE IInv'
  <1>. USE DEF Kinds, Operations
  <1>1. CASE Refresh
    BY <1>1, Submitted DEF Refresh
  <1>2. CASE Connect
    BY <1>2, Submitted DEF Connect
  <1>3. CASE Verify
    BY <1>3, Submitted DEF Verify
  <1>4. CASE Disconnect
    BY <1>4, Submitted DEF Disconnect
  <1>. QED  BY <1>1, <1>2, <1>3, <1>4, Opened, OpenedTwice, Left DEF User

LEMMA NextInv == IInv /\ [Next]_vars => IInv'
  <1>. SUFFICES ASSUME IInv, [Next]_vars PROVE IInv'
    OBVIOUS
  <1>1. CASE Next
    BY <1>1, UserInv, ChangedElsewhere, Served, Lost, Retried, Received DEF Next
  <1>2. CASE UNCHANGED vars
    BY <1>2 DEF vars, page, IInv, TypeOK, BusyWhileAsking, NewestIsMine,
                ClosedIsBlank, RepliesAreLater, UpToDate, Awaited
  <1>. QED  BY <1>1, <1>2

LEMMA SpecInv == Spec => []IInv
  BY InitInv, NextInv, PTL DEF Spec

\* The variables of the page keep their types.
THEOREM ConnectTypesCorrect == Spec => []TypeOK
  <1>1. IInv => TypeOK
    BY DEF IInv
  <1>. QED  BY <1>1, SpecInv, PTL

\* active and operation go with the one request whose answer is taken.
THEOREM BusyMeansAsking == Spec => []BusyWhileAsking
  <1>1. IInv => BusyWhileAsking
    BY DEF IInv
  <1>. QED  BY <1>1, SpecInv, PTL

\* A page that awaits nothing and missed nothing shows the connection as it is.
THEOREM PageShowsTheServer == Spec => []ShowsTheServer
  <1>1. IInv => ShowsTheServer
    BY DEF IInv, UpToDate, ShowsTheServer
  <1>. QED  BY <1>1, SpecInv, PTL

\* requestIdRef keeps an older answer from replacing a newer one.
THEOREM AnswersAreInOrder == Spec => AnswersInOrder
  <1>. DEFINE Forward == shown # NoStatus /\ shown' # NoStatus => shown'.seq >= shown.seq
  <1>1. IInv /\ [Next]_vars => [Forward]_vars
    <2>. SUFFICES ASSUME IInv, Next PROVE Forward
      BY DEF vars
    <2>1. shown # NoStatus => shown.seq >= shown.seq
      BY DEF IInv, TypeOK, Statuses
    <2>2. CASE shown' = shown \/ shown' = NoStatus
      BY <2>1, <2>2
    <2>3. CASE shown' # shown /\ shown' # NoStatus
      <3>1. PICK k \in Slots : Receive(k)
        BY <2>3 DEF Next, User, Open, OpenTwice, Leave, Refresh, Connect, Verify,
                    Disconnect, Submit, Elsewhere, Serve, Lose, Retry, page
      <3>2. Awaited(k) /\ asks[k].reply # Failed /\ shown' = asks[k].reply
        BY <2>3, <3>1 DEF Receive, Awaited
      <3>3. asks[k].reply \in Statuses
        BY <3>1, <3>2, Replying DEF IInv, Receive
      <3>4. shown # NoStatus => /\ shown.seq <= asks[k].reply.seq
                               /\ shown.seq \in Nat /\ asks[k].reply.seq \in Nat
        BY <3>2, <3>3 DEF IInv, TypeOK, RepliesAreLater, Statuses
      <3>. QED  BY <3>2, <3>4
    <2>. QED  BY <2>2, <2>3
  <1>. QED  BY <1>1, SpecInv, PTL DEF Spec, AnswersInOrder
===============================================================================
