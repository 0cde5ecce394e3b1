------------------------ MODULE BrowserSession_proofs ------------------------
(***************************************************************************)
(* Proofs about BrowserSession, for any tabs and users.                    *)
(***************************************************************************)
EXTENDS BrowserSession, TLAPS

\* A check in the background was asked for by a tab with a known session: its
\* failure, which changes nothing, cannot leave a spinner behind.
ChecksAreSeen ==
  \A t \in Tabs : check[t] # NoRequest /\ check[t].background => status[t] # "loading"

\* Only a sign-out follows a deletion, and only a log-in is answered by a user.
OpsAreInOrder ==
  \A t \in Tabs : op[t] # NoRequest =>
    /\ op[t].deleted => op[t].kind = "logout"
    /\ op[t].reply \in Users => op[t].kind = "login"

IInv == TypeOK /\ NeverStuck /\ ChecksAreSeen /\ OpsAreInOrder

-----------------------------------------------------------------------------
USE BrowserAssumption, RequestAssumption

LEMMA InitInv == Init => IInv
  <1>. DEFINE first == [background |-> FALSE, broadcast |-> FALSE, reply |-> NoReply]
  <1>1. first \in Checks /\ first.background = FALSE
    BY DEF Checks, Answers
  <1>2. Init => check = [t \in Tabs |-> first]
    BY DEF Init
  <1>. HIDE DEF first
  <1>3. ASSUME Init PROVE TypeOK
    <2>1. /\ cookie \in Identities /\ lapsed \in BOOLEAN /\ messy \in BOOLEAN
          /\ status \in [Tabs -> Statuses] /\ user \in [Tabs -> Identities]
      BY <1>3 DEF Init, Identities, Statuses
    <2>2. /\ check \in [Tabs -> Checks \union {NoRequest}]
          /\ op \in [Tabs -> Ops \union {NoRequest}]
          /\ call \in [Tabs -> Calls \union {NoRequest}]
      BY <1>1, <1>2, <1>3 DEF Init
    <2>3. inbox \in [Tabs -> Seq(Broadcasts)]
      BY <1>3 DEF Init, Broadcasts
    <2>. QED  BY <2>1, <2>2, <2>3 DEF TypeOK
  <1>4. Init => NeverStuck
    BY <1>1, <1>2 DEF Init, NeverStuck
  <1>5. Init => ChecksAreSeen /\ OpsAreInOrder
    BY <1>1, <1>2 DEF Init, ChecksAreSeen, OpsAreInOrder
  <1>. QED  BY <1>3, <1>4, <1>5 DEF IInv

\* The effect of the helpers on one tab.
LEMMA ShowsOne ==
  ASSUME TypeOK, NEW t \in Tabs, NEW who \in Identities, Shows(t, who)
  PROVE  /\ status' \in [Tabs -> Statuses] /\ user' \in [Tabs -> Identities]
         /\ status'[t] = (IF who = Nobody THEN "anonymous" ELSE "authenticated")
         /\ user'[t] = who
         /\ \A u \in Tabs \ {t} : status'[u] = status[u] /\ user'[u] = user[u]
  BY DEF TypeOK, Shows, Statuses, Identities

LEMMA BumpOne ==
  ASSUME TypeOK, NEW t \in Tabs, Bump(t)
  PROVE  /\ check' \in [Tabs -> Checks \union {NoRequest}]
         /\ op' \in [Tabs -> Ops \union {NoRequest}]
         /\ check'[t] = NoRequest
         /\ \A u \in Tabs \ {t} : check'[u] = check[u] /\ op'[u] = op[u]
         /\ op'[t] # NoRequest <=> op[t] # NoRequest
         /\ op[t] # NoRequest => /\ op'[t].kind = op[t].kind
                                 /\ op'[t].reply = op[t].reply
                                 /\ op'[t].deleted = op[t].deleted
  <1>1. op[t] # NoRequest => [op[t] EXCEPT !.current = FALSE] \in Ops
    BY DEF TypeOK, Ops
  <1>. QED  BY <1>1 DEF TypeOK, Bump, Outdated, Ops

LEMMA LoadOne ==
  ASSUME TypeOK, NEW t \in Tabs, NEW b \in BOOLEAN, LoadSession(t, b)
  PROVE  /\ check' \in [Tabs -> Checks \union {NoRequest}]
         /\ op' \in [Tabs -> Ops \union {NoRequest}]
         /\ status' \in [Tabs -> Statuses] /\ messy' \in BOOLEAN /\ user' = user
         /\ check'[t] # NoRequest
         /\ check'[t].background <=> status[t] = "authenticated"
         /\ status'[t] = (IF status[t] = "authenticated" THEN "authenticated" ELSE "loading")
         /\ \A u \in Tabs \ {t} :
              check'[u] = check[u] /\ op'[u] = op[u] /\ status'[u] = status[u]
         /\ op'[t] # NoRequest <=> op[t] # NoRequest
         /\ op[t] # NoRequest => /\ op'[t].kind = op[t].kind
                                 /\ op'[t].reply = op[t].reply
                                 /\ op'[t].deleted = op[t].deleted
  <1>. DEFINE new == [background |-> status[t] = "authenticated", broadcast |-> b,
                      reply |-> NoReply]
  <1>1. op[t] # NoRequest => [op[t] EXCEPT !.current = FALSE] \in Ops
    BY DEF TypeOK, Ops
  <1>2. new \in Checks
    BY DEF Checks, Answers
  <1>3. check' = [check EXCEPT ![t] = new]
    BY DEF LoadSession
  <1>4. new.background <=> status[t] = "authenticated"
    OBVIOUS
  <1>. HIDE DEF new
  <1>5. /\ check' \in [Tabs -> Checks \union {NoRequest}] /\ check'[t] = new
        /\ \A u \in Tabs \ {t} : check'[u] = check[u]
    BY <1>2, <1>3 DEF TypeOK
  <1>6. /\ status' \in [Tabs -> Statuses] /\ messy' \in BOOLEAN /\ user' = user
        /\ status'[t] = (IF status[t] = "authenticated" THEN "authenticated" ELSE "loading")
        /\ \A u \in Tabs \ {t} : status'[u] = status[u]
    BY DEF LoadSession, TypeOK, Statuses
  <1>7. /\ op' \in [Tabs -> Ops \union {NoRequest}]
        /\ \A u \in Tabs \ {t} : op'[u] = op[u]
        /\ op'[t] # NoRequest <=> op[t] # NoRequest
        /\ op[t] # NoRequest => /\ op'[t].kind = op[t].kind
                                /\ op'[t].reply = op[t].reply
                                /\ op'[t].deleted = op[t].deleted
    BY <1>1 DEF TypeOK, LoadSession, Outdated, Ops
  <1>. QED  BY <1>2, <1>4, <1>5, <1>6, <1>7

LEMMA BroadcastTyped ==
  ASSUME TypeOK, NEW t \in Tabs, NEW m \in Broadcasts, Broadcast(t, m)
  PROVE  inbox' \in [Tabs -> Seq(Broadcasts)]
  BY DEF TypeOK, Broadcast, Others

LEMMA CheckReplied ==
  ASSUME TypeOK, NEW t \in Tabs, check[t] # NoRequest, NEW r \in Answers,
         check' = [check EXCEPT ![t].reply = r]
  PROVE  /\ check' \in [Tabs -> Checks \union {NoRequest}]
         /\ check'[t] # NoRequest /\ check'[t].background = check[t].background
         /\ \A u \in Tabs \ {t} : check'[u] = check[u]
  <1>. DEFINE old == check[t]
              new == [old EXCEPT !.reply = r]
  <1>1. old \in Checks
    BY DEF TypeOK
  <1>2. new \in Checks /\ new.background = old.background
    BY <1>1 DEF Checks
  <1>3. check' = [check EXCEPT ![t] = new]
    OBVIOUS
  <1>. HIDE DEF new
  <1>. QED  BY <1>2, <1>3 DEF TypeOK

\* What OpsAreInOrder says of one request.
InOrder(o) ==
  /\ o.deleted => o.kind = "logout"
  /\ o.reply \in Users => o.kind = "login"

LEMMA OpReplaced ==
  ASSUME IInv, NEW t \in Tabs, NEW new \in Ops, InOrder(new),
         op' = [op EXCEPT ![t] = new]
  PROVE  /\ op' \in [Tabs -> Ops \union {NoRequest}]
         /\ op'[t] = new /\ new # NoRequest
         /\ \A u \in Tabs \ {t} : op'[u] = op[u]
         /\ OpsAreInOrder'
  BY DEF IInv, TypeOK, OpsAreInOrder, InOrder

LEMMA OpReplied ==
  ASSUME IInv, NEW t \in Tabs, op[t] # NoRequest, NEW r \in Answers, Reply(t, r),
         r \in Users => op[t].kind = "login"
  PROVE  /\ op' \in [Tabs -> Ops \union {NoRequest}]
         /\ op'[t] # NoRequest /\ op'[t].deleted = op[t].deleted
         /\ \A u \in Tabs \ {t} : op'[u] = op[u]
         /\ OpsAreInOrder'
  <1>. DEFINE old == op[t]
              new == [old EXCEPT !.reply = r]
  <1>1. old \in Ops /\ InOrder(old)
    BY DEF IInv, TypeOK, OpsAreInOrder, InOrder
  <1>2. new \in Ops /\ InOrder(new) /\ new.deleted = old.deleted
    BY <1>1 DEF Ops, InOrder
  <1>3. op' = [op EXCEPT ![t] = new]
    BY DEF Reply
  <1>. HIDE DEF new
  <1>. QED  BY <1>2, <1>3, OpReplaced

LEMMA OpEnded ==
  ASSUME IInv, NEW t \in Tabs, Ends(t)
  PROVE  /\ op' \in [Tabs -> Ops \union {NoRequest}] /\ op'[t] = NoRequest
         /\ \A u \in Tabs \ {t} : op'[u] = op[u]
         /\ OpsAreInOrder'
  BY DEF IInv, TypeOK, OpsAreInOrder, Ends

LEMMA Cleared ==
  ASSUME IInv, NEW t \in Tabs, ClearsIdentity(t)
  PROVE  /\ Shows(t, Nobody) /\ inbox' \in [Tabs -> Seq(Broadcasts)]
         /\ lapsed' \in BOOLEAN
  BY BroadcastTyped DEF IInv, TypeOK, ClearsIdentity, Broadcasts

\* A tab that shows an identity is not stuck.
LEMMA ShownIsNotStuck ==
  ASSUME IInv, NEW t \in Tabs, NEW who \in Identities, Shows(t, who),
         \A u \in Tabs \ {t} : check'[u] = check[u] /\ op'[u] = op[u],
         check'[t] # NoRequest => check'[t] = check[t]
  PROVE  NeverStuck' /\ ChecksAreSeen'
  BY ShowsOne DEF IInv, NeverStuck, ChecksAreSeen, Identities

\* Nor is one that keeps its screen with a check or a sign-out still in flight.
LEMMA KeptIsNotStuck ==
  ASSUME IInv, NEW t \in Tabs, KeepIdentity,
         \A u \in Tabs \ {t} : check'[u] = check[u] /\ op'[u] = op[u],
         status[t] = "loading" =>
           check'[t] # NoRequest \/ (op'[t] # NoRequest /\ op'[t].deleted),
         check'[t] # NoRequest =>
           check[t] # NoRequest /\ check'[t].background = check[t].background
  PROVE  NeverStuck' /\ ChecksAreSeen'
  BY DEF IInv, NeverStuck, ChecksAreSeen, KeepIdentity

LEMMA LoadIsNotStuck ==
  ASSUME IInv, NEW t \in Tabs, NEW b \in BOOLEAN, LoadSession(t, b)
  PROVE  NeverStuck' /\ ChecksAreSeen' /\ OpsAreInOrder'
  <1>1. NeverStuck' /\ ChecksAreSeen'
    BY LoadOne DEF IInv, NeverStuck, ChecksAreSeen
  <1>2. OpsAreInOrder'
    BY LoadOne DEF IInv, OpsAreInOrder
  <1>. QED  BY <1>1, <1>2

-----------------------------------------------------------------------------
(* One lemma per group of actions *)

LEMMA ServedChecks ==
  ASSUME IInv, NEW t \in Tabs, ServeCheck(t) \/ LoseCheck(t)
  PROVE  IInv'
  <1>1. PICK r \in Answers : check' = [check EXCEPT ![t].reply = r]
    BY DEF IInv, TypeOK, ServeCheck, LoseCheck, Answers
  <1>2. check[t] # NoRequest
    BY DEF ServeCheck, LoseCheck
  <1>3. UNCHANGED <<cookie, status, user, op, call, inbox, lapsed, messy>>
    BY DEF ServeCheck, LoseCheck
  <1>4. /\ check' \in [Tabs -> Checks \union {NoRequest}]
        /\ check'[t] # NoRequest /\ check'[t].background = check[t].background
        /\ \A u \in Tabs \ {t} : check'[u] = check[u]
    BY <1>1, <1>2, CheckReplied DEF IInv
  <1>5. TypeOK' /\ OpsAreInOrder'
    BY <1>3, <1>4 DEF IInv, TypeOK, OpsAreInOrder
  <1>6. NeverStuck' /\ ChecksAreSeen'
    BY <1>2, <1>3, <1>4, KeptIsNotStuck DEF KeepIdentity
  <1>. QED  BY <1>5, <1>6 DEF IInv

LEMMA ReceivedCheck ==
  ASSUME IInv, NEW t \in Tabs, ReceiveCheck(t)
  PROVE  IInv'
  <1>1. /\ check[t] # NoRequest /\ check' = [check EXCEPT ![t] = NoRequest]
        /\ UNCHANGED <<cookie, op, call>>
    BY DEF ReceiveCheck
  <1>2. /\ check' \in [Tabs -> Checks \union {NoRequest}] /\ check'[t] = NoRequest
        /\ \A u \in Tabs \ {t} : check'[u] = check[u] /\ op'[u] = op[u]
        /\ OpsAreInOrder'
    BY <1>1 DEF IInv, TypeOK, OpsAreInOrder
  <1>3. check[t].broadcast \in BOOLEAN /\ lapsed \in BOOLEAN /\ messy \in BOOLEAN
    BY <1>1 DEF IInv, TypeOK, Checks
  <1>4. CASE CheckFindsUser(t)
    <2>1. PICK who \in Users : Shows(t, who)
      BY <1>4 DEF CheckFindsUser
    <2>2. inbox' \in [Tabs -> Seq(Broadcasts)]
      BY <1>4, BroadcastTyped DEF CheckFindsUser, IInv, TypeOK, Broadcasts
    <2>3. TypeOK'
      BY <1>1, <1>2, <1>4, <2>1, <2>2, ShowsOne DEF IInv, TypeOK, CheckFindsUser, Identities
    <2>4. NeverStuck' /\ ChecksAreSeen'
      BY <1>2, <2>1, ShownIsNotStuck DEF Identities
    <2>. QED  BY <1>2, <2>3, <2>4 DEF IInv
  <1>5. CASE CheckFindsNobody(t)
    <2>1. Shows(t, Nobody)
      BY <1>5 DEF CheckFindsNobody
    <2>2. /\ inbox' \in [Tabs -> Seq(Broadcasts)]
          /\ lapsed' \in BOOLEAN /\ messy' \in BOOLEAN
      BY <1>3, <1>5, BroadcastTyped DEF CheckFindsNobody, IInv, TypeOK, Broadcasts, Overlaps
    <2>3. TypeOK'
      BY <1>1, <1>2, <2>1, <2>2, ShowsOne DEF IInv, TypeOK, Identities
    <2>4. NeverStuck' /\ ChecksAreSeen'
      BY <1>2, <2>1, ShownIsNotStuck DEF Identities
    <2>. QED  BY <1>2, <2>3, <2>4 DEF IInv
  <1>6. CASE CheckFails(t)
    <2>1. CASE check[t].background
      <3>1. KeepIdentity /\ messy' = TRUE /\ UNCHANGED <<inbox, lapsed>>
        BY <1>6, <2>1 DEF CheckFails
      <3>2. status[t] # "loading"
        BY <1>1, <2>1 DEF IInv, ChecksAreSeen
      <3>3. TypeOK'
        BY <1>1, <1>2, <3>1 DEF IInv, TypeOK, KeepIdentity
      <3>4. NeverStuck' /\ ChecksAreSeen'
        BY <1>2, <3>1, <3>2, KeptIsNotStuck
      <3>. QED  BY <1>2, <3>3, <3>4 DEF IInv
    <2>2. CASE ~check[t].background
      <3>1. /\ status' = [status EXCEPT ![t] = "unavailable"]
            /\ user' = [user EXCEPT ![t] = Nobody]
            /\ UNCHANGED <<inbox, lapsed, messy>>
        BY <1>6, <2>2 DEF CheckFails
      <3>2. TypeOK'
        BY <1>1, <1>2, <3>1 DEF IInv, TypeOK, Statuses, Identities
      <3>3. NeverStuck' /\ ChecksAreSeen'
        BY <1>1, <1>2, <3>1 DEF IInv, TypeOK, NeverStuck, ChecksAreSeen
      <3>. QED  BY <1>2, <3>2, <3>3 DEF IInv
    <2>. QED  BY <2>1, <2>2
  <1>. QED  BY <1>4, <1>5, <1>6 DEF ReceiveCheck

LEMMA TriedAgain ==
  ASSUME IInv, NEW t \in Tabs, TryAgain(t)
  PROVE  IInv'
  <1>1. LoadSession(t, TRUE) /\ UNCHANGED <<cookie, call, inbox, lapsed>>
    BY DEF TryAgain
  <1>2. TypeOK'
    BY <1>1, LoadOne DEF IInv, TypeOK
  <1>. QED  BY <1>1, <1>2, LoadIsNotStuck DEF IInv

LEMMA BumpKeepsOrder ==
  ASSUME IInv, NEW t \in Tabs, Bump(t)
  PROVE  OpsAreInOrder'
  BY BumpOne DEF IInv, OpsAreInOrder

\* A request outdated by a sign-out goes on, but the tab shows nobody.
LEMMA SignedOutElsewhere ==
  ASSUME IInv, NEW t \in Tabs, Bump(t), Shows(t, Nobody)
  PROVE  NeverStuck' /\ ChecksAreSeen' /\ OpsAreInOrder'
  <1>1. NeverStuck' /\ ChecksAreSeen'
    BY BumpOne, ShownIsNotStuck DEF IInv, Identities
  <1>. QED  BY <1>1, BumpKeepsOrder

LEMMA Heard ==
  ASSUME IInv, NEW t \in Tabs, Hears(t)
  PROVE  IInv'
  <1>1. /\ inbox' = [inbox EXCEPT ![t] = Tail(@)] /\ inbox[t] # <<>>
        /\ UNCHANGED <<cookie, call, lapsed>>
    BY DEF Hears
  <1>2. inbox' \in [Tabs -> Seq(Broadcasts)]
    BY <1>1 DEF IInv, TypeOK
  <1>3. CASE Bump(t) /\ Shows(t, Nobody) /\ UNCHANGED messy
    <2>1. TypeOK'
      BY <1>1, <1>2, <1>3, BumpOne, ShowsOne DEF IInv, TypeOK, Identities
    <2>. QED  BY <1>3, <2>1, SignedOutElsewhere DEF IInv
  <1>4. CASE LoadSession(t, FALSE)
    <2>1. TypeOK'
      BY <1>1, <1>2, <1>4, LoadOne DEF IInv, TypeOK
    <2>. QED  BY <1>4, <2>1, LoadIsNotStuck DEF IInv
  <1>. QED  BY <1>3, <1>4 DEF Hears

LEMMA Requested ==
  ASSUME IInv, NEW t \in Tabs, NEW kind \in {"register", "login", "logout", "delete"},
         NEW who \in Identities, Request(t, kind, who),
         check' \in [Tabs -> Checks \union {NoRequest}],
         \A u \in Tabs \ {t} : check'[u] = check[u],
         check'[t] = check[t] \/ (check'[t] = NoRequest /\ status[t] # "loading")
  PROVE  IInv'
  <1>. DEFINE new == [kind |-> kind, user |-> who, current |-> TRUE,
                      deleted |-> FALSE, reply |-> NoReply]
  <1>1. /\ op' = [op EXCEPT ![t] = new] /\ op[t] = NoRequest /\ KeepIdentity
        /\ UNCHANGED <<cookie, call, inbox, lapsed>>
    BY DEF Request
  <1>2. new \in Ops /\ InOrder(new)
    BY DEF Ops, Answers, InOrder
  <1>3. messy' \in BOOLEAN
    BY DEF Request, IInv, TypeOK, Overlaps
  <1>. HIDE DEF new
  <1>4. /\ op' \in [Tabs -> Ops \union {NoRequest}]
        /\ \A u \in Tabs \ {t} : op'[u] = op[u]
        /\ OpsAreInOrder'
    BY <1>1, <1>2, OpReplaced
  <1>5. TypeOK'
    BY <1>1, <1>3, <1>4 DEF IInv, TypeOK, KeepIdentity
  <1>6. status[t] = "loading" => check[t] # NoRequest
    BY <1>1 DEF IInv, NeverStuck
  <1>7. NeverStuck' /\ ChecksAreSeen'
    BY <1>1, <1>4, <1>6, KeptIsNotStuck
  <1>. QED  BY <1>4, <1>5, <1>7 DEF IInv

LEMMA Asked ==
  ASSUME IInv, NEW t \in Tabs,
         \/ \E who \in Users : SignIn(t, "login", who) \/ SignIn(t, "register", who)
         \/ Logout(t) \/ DeleteAccount(t)
  PROVE  IInv'
  <1>1. CASE \E who \in Users : SignIn(t, "login", who) \/ SignIn(t, "register", who)
    BY <1>1, Requested DEF SignIn, IInv, TypeOK, Identities
  <1>2. CASE Logout(t)
    BY <1>2, Requested DEF Logout, IInv, TypeOK, Identities
  <1>3. CASE DeleteAccount(t)
    BY <1>3, Requested DEF DeleteAccount, IInv, TypeOK, Identities
  <1>. QED  BY <1>1, <1>2, <1>3

LEMMA Answered ==
  ASSUME IInv, NEW t \in Tabs, ServeOp(t) \/ LoseOp(t)
  PROVE  IInv'
  <1>1. op[t] # NoRequest /\ op[t] \in Ops
    BY DEF ServeOp, LoseOp, IInv, TypeOK
  <1>2. PICK r \in Answers : Reply(t, r) /\ (r \in Users => op[t].kind = "login")
    BY <1>1 DEF ServeOp, LoseOp, Answers, Ops
  <1>3. /\ UNCHANGED <<status, user, check, call, inbox, lapsed>>
        /\ cookie' \in Identities /\ messy' \in BOOLEAN
    BY <1>1 DEF ServeOp, LoseOp, IInv, TypeOK, Ops, Identities
  <1>4. /\ op' \in [Tabs -> Ops \union {NoRequest}]
        /\ op'[t] # NoRequest /\ op'[t].deleted = op[t].deleted
        /\ \A u \in Tabs \ {t} : op'[u] = op[u]
        /\ OpsAreInOrder'
    BY <1>1, <1>2, OpReplied
  <1>5. TypeOK'
    BY <1>3, <1>4 DEF IInv, TypeOK
  <1>6. status[t] = "loading" => check[t] # NoRequest \/ op[t].deleted
    BY DEF IInv, NeverStuck
  <1>7. NeverStuck' /\ ChecksAreSeen'
    BY <1>3, <1>4, <1>6, KeptIsNotStuck DEF KeepIdentity
  <1>. QED  BY <1>4, <1>5, <1>7 DEF IInv

\* What happens when the answer to an operation arrives, one case per outcome.
LEMMA ReceivedOp ==
  ASSUME IInv, NEW t \in Tabs, ReceiveOp(t)
  PROVE  IInv'
  <1>1. /\ op[t] # NoRequest /\ op[t] \in Ops /\ InOrder(op[t])
        /\ UNCHANGED <<cookie, call>>
    BY DEF ReceiveOp, IInv, TypeOK, OpsAreInOrder, InOrder
  <1>2. status[t] = "loading" => check[t] # NoRequest \/ op[t].deleted
    BY DEF IInv, NeverStuck
  <1>3. CASE Registered(t)
    <2>. DEFINE old == op[t]
                new == [old EXCEPT !.kind = "login", !.reply = NoReply]
    <2>1. old \in Ops /\ old.kind = "register" /\ InOrder(old)
      BY <1>1, <1>3 DEF Registered
    <2>2. new \in Ops /\ InOrder(new) /\ new.deleted = old.deleted
      BY <2>1 DEF Ops, Answers, InOrder
    <2>3. op' = [op EXCEPT ![t] = new] /\ KeepIdentity /\ UNCHANGED <<check, inbox, lapsed, messy>>
      BY <1>3 DEF Registered
    <2>. HIDE DEF new
    <2>4. /\ op' \in [Tabs -> Ops \union {NoRequest}] /\ op'[t] = new /\ new # NoRequest
          /\ \A u \in Tabs \ {t} : op'[u] = op[u]
          /\ OpsAreInOrder'
      BY <2>2, <2>3, OpReplaced
    <2>5. TypeOK'
      BY <1>1, <2>3, <2>4 DEF IInv, TypeOK, KeepIdentity
    <2>6. NeverStuck' /\ ChecksAreSeen'
      BY <1>2, <2>2, <2>3, <2>4, KeptIsNotStuck
    <2>. QED  BY <2>4, <2>5, <2>6 DEF IInv
  <1>4. CASE SignedIn(t)
    <2>1. Ends(t) /\ UNCHANGED <<check, lapsed>> /\ op[t].reply \in Users
      BY <1>4 DEF SignedIn
    <2>2. /\ op' \in [Tabs -> Ops \union {NoRequest}] /\ op'[t] = NoRequest
          /\ \A u \in Tabs \ {t} : op'[u] = op[u]
          /\ OpsAreInOrder'
      BY <2>1, OpEnded
    <2>3. status[t] = "loading" => check[t] # NoRequest
      BY <1>1, <1>2, <2>1 DEF InOrder, Ops
    <2>4. CASE op[t].current
      <3>1. PICK who \in Users : Shows(t, who)
        BY <2>1, <2>4, <1>4 DEF SignedIn
      <3>2. inbox' \in [Tabs -> Seq(Broadcasts)] /\ UNCHANGED messy
        BY <1>4, <2>4, BroadcastTyped DEF SignedIn, IInv, Broadcasts
      <3>3. TypeOK'
        BY <1>1, <2>1, <2>2, <3>1, <3>2, ShowsOne DEF IInv, TypeOK, Identities
      <3>4. NeverStuck' /\ ChecksAreSeen'
        BY <2>1, <2>2, <3>1, ShownIsNotStuck DEF Identities
      <3>. QED  BY <2>2, <3>3, <3>4 DEF IInv
    <2>5. CASE ~op[t].current
      <3>1. KeepIdentity /\ messy' = TRUE /\ UNCHANGED inbox
        BY <1>4, <2>5 DEF SignedIn
      <3>2. TypeOK'
        BY <1>1, <2>1, <2>2, <3>1 DEF IInv, TypeOK, KeepIdentity
      <3>3. NeverStuck' /\ ChecksAreSeen'
        BY <2>1, <2>2, <2>3, <3>1, KeptIsNotStuck
      <3>. QED  BY <2>2, <3>2, <3>3 DEF IInv
    <2>. QED  BY <2>4, <2>5
  <1>5. CASE Deleted(t)
    <2>. DEFINE old == op[t]
                new == [old EXCEPT !.kind = "logout", !.deleted = TRUE, !.reply = NoReply]
    <2>1. old \in Ops
      BY <1>1
    <2>2. new \in Ops /\ InOrder(new) /\ new.deleted
      BY <2>1 DEF Ops, Answers, InOrder
    <2>3. /\ op' = [op EXCEPT ![t] = new] /\ KeepIdentity /\ UNCHANGED <<inbox, lapsed, messy>>
          /\ check' = [check EXCEPT ![t] = NoRequest]
      BY <1>5 DEF Deleted
    <2>. HIDE DEF new
    <2>4. /\ op' \in [Tabs -> Ops \union {NoRequest}] /\ op'[t] = new /\ new # NoRequest
          /\ \A u \in Tabs \ {t} : op'[u] = op[u]
          /\ OpsAreInOrder'
      BY <2>2, <2>3, OpReplaced
    <2>5. /\ check' \in [Tabs -> Checks \union {NoRequest}] /\ check'[t] = NoRequest
          /\ \A u \in Tabs \ {t} : check'[u] = check[u]
      BY <2>3 DEF IInv, TypeOK
    <2>6. TypeOK'
      BY <1>1, <2>3, <2>4, <2>5 DEF IInv, TypeOK, KeepIdentity
    <2>7. NeverStuck' /\ ChecksAreSeen'
      BY <2>2, <2>3, <2>4, <2>5, KeptIsNotStuck
    <2>. QED  BY <2>4, <2>6, <2>7 DEF IInv
  <1>6. CASE SignedOut(t)
    <2>1. ClearsIdentity(t) /\ Ends(t) /\ UNCHANGED <<check, messy>>
      BY <1>6 DEF SignedOut
    <2>2. /\ op' \in [Tabs -> Ops \union {NoRequest}]
          /\ \A u \in Tabs \ {t} : op'[u] = op[u]
          /\ OpsAreInOrder'
      BY <2>1, OpEnded
    <2>3. /\ Shows(t, Nobody) /\ inbox' \in [Tabs -> Seq(Broadcasts)]
          /\ lapsed' \in BOOLEAN
      BY <2>1, Cleared
    <2>4. TypeOK'
      BY <1>1, <2>1, <2>2, <2>3, ShowsOne DEF IInv, TypeOK, Identities
    <2>5. NeverStuck' /\ ChecksAreSeen'
      BY <2>1, <2>2, <2>3, ShownIsNotStuck DEF Identities
    <2>. QED  BY <2>2, <2>4, <2>5 DEF IInv
  <1>7. CASE OpFails(t)
    <2>1. Ends(t) /\ UNCHANGED messy
      BY <1>7 DEF OpFails
    <2>2. /\ op' \in [Tabs -> Ops \union {NoRequest}]
          /\ \A u \in Tabs \ {t} : op'[u] = op[u]
          /\ OpsAreInOrder'
      BY <2>1, OpEnded
    <2>3. CASE op[t].deleted
      <3>1. ClearsIdentity(t) /\ check' = [check EXCEPT ![t] = NoRequest]
        BY <1>7, <2>3 DEF OpFails
      <3>2. /\ Shows(t, Nobody) /\ inbox' \in [Tabs -> Seq(Broadcasts)]
            /\ lapsed' \in BOOLEAN
        BY <3>1, Cleared
      <3>3. /\ check' \in [Tabs -> Checks \union {NoRequest}] /\ check'[t] = NoRequest
            /\ \A u \in Tabs \ {t} : check'[u] = check[u]
        BY <3>1 DEF IInv, TypeOK
      <3>4. TypeOK'
        BY <1>1, <2>1, <2>2, <3>2, <3>3, ShowsOne DEF IInv, TypeOK, Identities
      <3>5. NeverStuck' /\ ChecksAreSeen'
        BY <2>2, <3>2, <3>3, ShownIsNotStuck DEF Identities
      <3>. QED  BY <2>2, <3>4, <3>5 DEF IInv
    <2>4. CASE ~op[t].deleted
      <3>1. KeepIdentity /\ UNCHANGED <<check, inbox, lapsed>>
        BY <1>7, <2>4 DEF OpFails
      <3>2. TypeOK'
        BY <1>1, <2>1, <2>2, <3>1 DEF IInv, TypeOK, KeepIdentity
      <3>3. NeverStuck' /\ ChecksAreSeen'
        BY <1>2, <2>2, <2>4, <3>1, KeptIsNotStuck
      <3>. QED  BY <2>2, <3>2, <3>3 DEF IInv
    <2>. QED  BY <2>3, <2>4
  <1>. QED  BY <1>3, <1>4, <1>5, <1>6, <1>7 DEF ReceiveOp

LEMMA Called ==
  ASSUME IInv, NEW t \in Tabs,
         Call(t, "page") \/ Call(t, "profile") \/ ServeCall(t)
  PROVE  IInv'
  <1>1. UNCHANGED <<cookie, check, op, inbox, lapsed, messy>> /\ KeepIdentity
    BY DEF Call, ServeCall
  <1>2. call' \in [Tabs -> Calls \union {NoRequest}]
    <2>1. CASE Call(t, "page") \/ Call(t, "profile")
      <3>1. PICK kind \in {"page", "profile"} :
              call' = [call EXCEPT ![t] = [kind |-> kind, reply |-> NoReply]]
        BY <2>1 DEF Call
      <3>2. [kind |-> kind, reply |-> NoReply] \in Calls
        BY DEF Calls, Answers
      <3>. QED  BY <3>1, <3>2 DEF IInv, TypeOK
    <2>2. CASE ServeCall(t)
      <3>. DEFINE old == call[t]
      <3>1. old \in Calls
        BY <2>2 DEF ServeCall, IInv, TypeOK
      <3>2. PICK r \in Answers : call' = [call EXCEPT ![t] = [old EXCEPT !.reply = r]]
        BY <2>2 DEF ServeCall, Answers
      <3>3. [old EXCEPT !.reply = r] \in Calls
        BY <3>1, <3>2 DEF Calls
      <3>. QED  BY <3>2, <3>3 DEF IInv, TypeOK
    <2>. QED  BY <2>1, <2>2
  <1>. QED  BY <1>1, <1>2 DEF IInv, TypeOK, NeverStuck, ChecksAreSeen, OpsAreInOrder,
              KeepIdentity

LEMMA ReceivedCall ==
  ASSUME IInv, NEW t \in Tabs, ReceiveCall(t)
  PROVE  IInv'
  <1>1. /\ call' = [call EXCEPT ![t] = NoRequest] /\ call[t] # NoRequest
        /\ UNCHANGED cookie
    BY DEF ReceiveCall
  <1>2. call' \in [Tabs -> Calls \union {NoRequest}]
    BY <1>1 DEF IInv, TypeOK
  <1>3. CASE CallRefused(t)
    <2>1. Bump(t) /\ ClearsIdentity(t)
      BY <1>3 DEF CallRefused
    <2>2. messy' \in BOOLEAN
      BY <1>3 DEF CallRefused, IInv, TypeOK, Overlaps
    <2>3. /\ Shows(t, Nobody) /\ inbox' \in [Tabs -> Seq(Broadcasts)]
          /\ lapsed' \in BOOLEAN
      BY <2>1, Cleared
    <2>4. TypeOK'
      BY <1>1, <1>2, <2>1, <2>2, <2>3, BumpOne, ShowsOne DEF IInv, TypeOK, Identities
    <2>. QED  BY <2>1, <2>3, <2>4, SignedOutElsewhere DEF IInv
  <1>4. CASE CallSucceeds(t)
    <2>1. UNCHANGED <<inbox, lapsed>>
      BY <1>4 DEF CallSucceeds
    <2>2. CASE LoadSession(t, TRUE)
      <3>1. TypeOK'
        BY <1>1, <1>2, <2>1, <2>2, LoadOne DEF IInv, TypeOK
      <3>. QED  BY <2>2, <3>1, LoadIsNotStuck DEF IInv
    <2>3. CASE KeepIdentity /\ UNCHANGED <<check, op, messy>>
      BY <1>1, <1>2, <2>1, <2>3 DEF IInv, TypeOK, NeverStuck, ChecksAreSeen,
         OpsAreInOrder, KeepIdentity
    <2>. QED  BY <1>4, <2>2, <2>3 DEF CallSucceeds
  <1>. QED  BY <1>3, <1>4 DEF ReceiveCall

-----------------------------------------------------------------------------
(* The invariant, and what it gives *)

LEMMA NextInv == IInv /\ [Next]_vars => IInv'
  <1>. SUFFICES ASSUME IInv, [Next]_vars
                PROVE  IInv'
    OBVIOUS
  <1>1. CASE Lapse
    BY <1>1 DEF Lapse, IInv, TypeOK, NeverStuck, ChecksAreSeen, OpsAreInOrder,
       KeepIdentity, Identities
  <1>2. ASSUME NEW t \in Tabs, TabStep(t)
        PROVE  IInv'
    <2>1. CASE ServeCheck(t) \/ LoseCheck(t)
      BY <2>1, ServedChecks
    <2>2. CASE ReceiveCheck(t) \/ TryAgain(t) \/ Hears(t)
      BY <2>2, ReceivedCheck, TriedAgain, Heard
    <2>3. CASE \/ \E who \in Users : SignIn(t, "login", who) \/ SignIn(t, "register", who)
               \/ Logout(t) \/ DeleteAccount(t)
      BY <2>3, Asked
    <2>4. CASE ServeOp(t) \/ LoseOp(t) \/ ReceiveOp(t)
      BY <2>4, Answered, ReceivedOp
    <2>5. CASE Call(t, "page") \/ Call(t, "profile") \/ ServeCall(t) \/ ReceiveCall(t)
      BY <2>5, Called, ReceivedCall
    <2>. QED  BY <1>2, <2>1, <2>2, <2>3, <2>4, <2>5 DEF TabStep
  <1>3. CASE UNCHANGED vars
    BY <1>3 DEF vars, IInv, TypeOK, NeverStuck, ChecksAreSeen, OpsAreInOrder
  <1>. QED  BY <1>1, <1>2, <1>3 DEF Next

LEMMA SpecInv == Spec => []IInv
  BY InitInv, NextInv, PTL DEF Spec

\* The state of every tab, request and broadcast keeps its type.
THEOREM BrowserTypesCorrect == Spec => []TypeOK
  <1>1. IInv => TypeOK
    BY DEF IInv
  <1>. QED  BY <1>1, SpecInv, PTL

\* For any tabs and users: requestVersion may discard the answer to any request,
\* yet a tab never waits for nothing, and it names a user exactly while it
\* counts as signed in (auth-provider.tsx).
THEOREM TabsAreNeverStuck == Spec => []NeverStuck
  <1>1. IInv => NeverStuck
    BY DEF IInv
  <1>. QED  BY <1>1, SpecInv, PTL

-----------------------------------------------------------------------------
(***************************************************************************)
(* Why the tabs agree.  While nothing overlaps, a tab that shows a user    *)
(* who is no longer signed in has the news of the sign-out in its inbox,   *)
(* or the sign-out is still in flight; and a tab that shows nobody while   *)
(* somebody is signed in has unread news, or the log-in is in flight.      *)
(***************************************************************************)

\* The messages of an inbox tell of a sign-out.
Tells(q) == \E i \in 1..Len(q) : q[i] = "signed-out"

\* What a request in flight is doing to the cookie.
SigningOut(o) ==
  o # NoRequest /\ (o.deleted \/ (o.kind \in {"logout", "delete"} /\ o.reply = Done))
SigningIn(o) == o # NoRequest /\ o.reply \in Users
Entering(o) == o # NoRequest /\ o.kind \in {"login", "register"} /\ o.reply \notin Users

\* A tab that has who for the user is right, or will be told otherwise.
Knows(t, who) ==
  who = cookie \/ Tells(inbox[t]) \/ \E u \in Tabs : SigningOut(op[u])

\* An operation in flight is current, alone, and for a tab without a check.
OpsAlone ==
  \A t \in Tabs : op[t] # NoRequest =>
    /\ op[t].current /\ check[t] = NoRequest
    /\ op[t].kind \in {"logout", "delete"} => status[t] = "authenticated"
    /\ \A u \in Tabs : ~Tells(inbox[u]) /\ (op[u] # NoRequest => u = t)

\* Nobody is signed in when a sign-out is announced or a log-in not yet served.
CookieGone ==
  \A t \in Tabs :
    Tells(inbox[t]) \/ SigningOut(op[t]) \/ Entering(op[t]) => cookie = Nobody

\* The tab shows nobody, or is about to.
FindsNobody(t) ==
  IF check[t] = NoRequest THEN status[t] = "anonymous" ELSE check[t].reply = Nobody

NobodyIsTrue ==
  \A t \in Tabs :
    /\ check[t] # NoRequest => status[t] \in {"authenticated", "loading"}
    /\ FindsNobody(t) =>
         cookie = Nobody \/ inbox[t] # <<>> \/ \E u \in Tabs : SigningIn(op[u])

UsersAreTrue ==
  \A t \in Tabs :
    /\ SigningIn(op[t]) => op[t].reply = cookie
    /\ status[t] = "authenticated" => Knows(t, user[t])
    /\ check[t] # NoRequest /\ check[t].reply \in Users => Knows(t, check[t].reply)

Agreement == OpsAlone /\ CookieGone /\ NobodyIsTrue /\ (~lapsed => UsersAreTrue)

LEMMA TellsAppend ==
  ASSUME NEW q \in Seq(Broadcasts), NEW m \in Broadcasts
  PROVE  /\ Append(q, m) # <<>>
         /\ Tells(Append(q, m)) <=> Tells(q) \/ m = "signed-out"
  <1>. DEFINE r == Append(q, m)
  <1>1. /\ r \in Seq(Broadcasts) /\ Len(r) = Len(q) + 1 /\ Len(q) \in Nat
        /\ r[Len(q) + 1] = m
        /\ \A i \in 1..Len(q) : r[i] = q[i]
    OBVIOUS
  <1>2. r # <<>>
    BY <1>1
  <1>. HIDE DEF r
  <1>3. Tells(r) <=> Tells(q) \/ m = "signed-out"
    BY <1>1 DEF Tells
  <1>. QED  BY <1>2, <1>3 DEF r

LEMMA TellsTail ==
  ASSUME NEW q \in Seq(Broadcasts), q # <<>>
  PROVE  /\ Tail(q) \in Seq(Broadcasts)
         /\ Tells(Tail(q)) => Tells(q)
         /\ Head(q) = "signed-out" => Tells(q)
         /\ Head(q) # "signed-out" => (Tells(Tail(q)) <=> Tells(q))
  <1>. DEFINE r == Tail(q)
  <1>1. /\ r \in Seq(Broadcasts) /\ Len(q) = Len(r) + 1 /\ Len(r) \in Nat
        /\ \A i \in 1..Len(r) : r[i] = q[i + 1]
        /\ Head(q) = q[1]
    OBVIOUS
  <1>. HIDE DEF r
  <1>2. Tells(r) => Tells(q)
    BY <1>1 DEF Tells
  <1>3. Head(q) = "signed-out" => Tells(q)
    BY <1>1 DEF Tells
  <1>4. ASSUME Tells(q), Head(q) # "signed-out"  PROVE Tells(r)
    <2>1. PICK i \in 1..Len(q) : q[i] = "signed-out"
      BY <1>4 DEF Tells
    <2>2. i - 1 \in 1..Len(r) /\ r[i - 1] = q[i]
      BY <1>1, <1>4, <2>1
    <2>. QED  BY <2>1, <2>2 DEF Tells
  <1>. QED  BY <1>1, <1>2, <1>3, <1>4 DEF r

LEMMA BroadcastOne ==
  ASSUME TypeOK, NEW t \in Tabs, NEW m \in Broadcasts, Broadcast(t, m)
  PROVE  /\ inbox'[t] = inbox[t]
         /\ \A u \in Tabs \ {t} :
              /\ inbox'[u] # <<>>
              /\ Tells(inbox'[u]) <=> Tells(inbox[u]) \/ m = "signed-out"
  <1>1. inbox \in [Tabs -> Seq(Broadcasts)]
    BY DEF TypeOK
  <1>2. ASSUME NEW u \in Tabs \ {t}
        PROVE  /\ inbox'[u] # <<>>
               /\ Tells(inbox'[u]) <=> Tells(inbox[u]) \/ m = "signed-out"
    <2>1. inbox'[u] = Append(inbox[u], m)
      BY DEF Broadcast, Others
    <2>. QED  BY <1>1, <2>1, TellsAppend
  <1>3. inbox'[t] = inbox[t]
    BY DEF Broadcast, Others
  <1>. QED  BY <1>2, <1>3

LEMMA InitAgrees == Init => Agreement
  <1>1. Init => \A t \in Tabs : /\ op[t] = NoRequest /\ check[t] # NoRequest /\ inbox[t] = <<>>
                                /\ check[t].reply = NoReply /\ status[t] = "loading"
    <2>. DEFINE first == [background |-> FALSE, broadcast |-> FALSE, reply |-> NoReply]
    <2>1. first \in Checks /\ first.reply = NoReply
      BY DEF Checks, Answers
    <2>2. Init => check = [t \in Tabs |-> first]
      BY DEF Init
    <2>. HIDE DEF first
    <2>. QED  BY <2>1, <2>2 DEF Init
  <1>2. ~Tells(<<>>)
    BY DEF Tells
  <1>. QED  BY <1>1, <1>2 DEF Agreement, OpsAlone, CookieGone, NobodyIsTrue, FindsNobody,
              UsersAreTrue, SigningOut, SigningIn, Entering

-----------------------------------------------------------------------------
(* Each step keeps the agreement, unless it overlaps with another *)

\* Steps that change neither the cookie nor an operation, nor what is told.
LEMMA AgreementKept ==
  ASSUME Agreement, cookie' = cookie, lapsed' = lapsed, op' = op,
         \A u \in Tabs : /\ Tells(inbox'[u]) <=> Tells(inbox[u])
                         /\ inbox[u] # <<>> => inbox'[u] # <<>>,
         NEW t \in Tabs,
         \A u \in Tabs \ {t} :
           check'[u] = check[u] /\ status'[u] = status[u] /\ user'[u] = user[u],
         op[t] # NoRequest => check'[t] = NoRequest /\ status'[t] = status[t],
         check'[t] # NoRequest => status'[t] \in {"authenticated", "loading"},
         FindsNobody(t)' => cookie = Nobody \/ FindsNobody(t),
         ~lapsed /\ status'[t] = "authenticated" =>
           Knows(t, user'[t]),
         ~lapsed /\ check'[t] # NoRequest /\ check'[t].reply \in Users =>
           Knows(t, check'[t].reply)
  PROVE  Agreement'
  <1>1. OpsAlone'
    BY DEF Agreement, OpsAlone
  <1>2. CookieGone'
    BY DEF Agreement, CookieGone
  <1>3. NobodyIsTrue'
    BY DEF Agreement, NobodyIsTrue, FindsNobody
  <1>4. ~lapsed' => UsersAreTrue'
    BY DEF Agreement, UsersAreTrue, Knows
  <1>. QED  BY <1>1, <1>2, <1>3, <1>4 DEF Agreement

LEMMA ServedChecksAgree ==
  ASSUME IInv, Agreement, NEW t \in Tabs, ServeCheck(t) \/ LoseCheck(t)
  PROVE  Agreement'
  <1>1. PICK r \in Answers : /\ check' = [check EXCEPT ![t].reply = r]
                             /\ r = cookie \/ r = Failed
    BY DEF IInv, TypeOK, ServeCheck, LoseCheck, Answers
  <1>2. check[t] # NoRequest /\ check[t] \in Checks /\ cookie \in Identities
    BY DEF IInv, TypeOK, ServeCheck, LoseCheck
  <1>3. UNCHANGED <<cookie, status, user, op, inbox, lapsed>>
    BY DEF ServeCheck, LoseCheck
  <1>4. /\ check'[t] # NoRequest /\ check'[t].reply = r
        /\ \A u \in Tabs \ {t} : check'[u] = check[u]
    BY <1>1, <1>2, CheckReplied DEF IInv, TypeOK, Checks
  <1>5. r = Nobody => cookie = Nobody
    BY <1>1
  <1>6. r \in Users => Knows(t, r)
    BY <1>1 DEF Knows
  <1>7. op[t] = NoRequest /\ status[t] \in {"authenticated", "loading"}
    BY <1>2 DEF Agreement, OpsAlone, NobodyIsTrue
  <1>8. ~lapsed /\ status[t] = "authenticated" => Knows(t, user[t])
    BY DEF Agreement, UsersAreTrue
  <1>. QED  BY <1>3, <1>4, <1>5, <1>6, <1>7, <1>8, AgreementKept DEF FindsNobody

\* A session check asked for when no operation of the tab is in flight.
LEMMA LoadAgrees ==
  ASSUME IInv, Agreement, NEW t \in Tabs, NEW b \in BOOLEAN, LoadSession(t, b), ~messy',
         UNCHANGED <<cookie, lapsed>>,
         \A u \in Tabs : Tells(inbox'[u]) <=> Tells(inbox[u]),
         \A u \in Tabs \ {t} : inbox'[u] = inbox[u]
  PROVE  Agreement'
  <1>1. op[t] = NoRequest /\ user' = user
    BY DEF LoadSession
  <1>2. op' = op
    BY <1>1 DEF LoadSession, Outdated, IInv, TypeOK
  <1>3. /\ check'[t] # NoRequest /\ check'[t].reply = NoReply
        /\ \A u \in Tabs \ {t} : check'[u] = check[u] /\ status'[u] = status[u]
        /\ status'[t] = (IF status[t] = "authenticated" THEN "authenticated" ELSE "loading")
    <2>. DEFINE new == [background |-> status[t] = "authenticated", broadcast |-> b,
                        reply |-> NoReply]
    <2>1. check' = [check EXCEPT ![t] = new] /\ new.reply = NoReply
      BY DEF LoadSession
    <2>. HIDE DEF new
    <2>2. check'[t] = new
      BY <2>1 DEF IInv, TypeOK
    <2>. QED  BY <2>1, <2>2, LoadOne DEF IInv
  <1>4. OpsAlone'
    BY <1>1, <1>2, <1>3 DEF Agreement, OpsAlone
  <1>5. CookieGone'
    BY <1>2 DEF Agreement, CookieGone
  <1>6. NobodyIsTrue'
    BY <1>2, <1>3 DEF Agreement, NobodyIsTrue, FindsNobody
  <1>7. ~lapsed' => UsersAreTrue'
    BY <1>1, <1>2, <1>3 DEF Agreement, UsersAreTrue, Knows
  <1>. QED  BY <1>4, <1>5, <1>6, <1>7 DEF Agreement

\* A sign-out told to all the other tabs when no operation remains in flight.
LEMMA SignOutAgrees ==
  ASSUME IInv, Agreement, NEW t \in Tabs, Shows(t, Nobody),
         cookie = Nobody, cookie' = cookie,
         \A u \in Tabs : op'[u] = NoRequest,
         check'[t] = NoRequest,
         \A u \in Tabs \ {t} : check'[u] = check[u],
         \/ Broadcast(t, "signed-out")
         \/ /\ inbox' = inbox /\ lapsed' = lapsed
            /\ \A u \in Tabs : ~SigningOut(op[u])
  PROVE  Agreement'
  <1>1. /\ status'[t] = "anonymous"
        /\ \A u \in Tabs \ {t} : status'[u] = status[u] /\ user'[u] = user[u]
    BY ShowsOne DEF IInv, Identities
  <1>2. OpsAlone' /\ CookieGone'
    BY DEF OpsAlone, CookieGone, SigningOut, Entering
  <1>3. NobodyIsTrue'
    BY <1>1 DEF Agreement, NobodyIsTrue
  <1>4. ASSUME ~lapsed'  PROVE UsersAreTrue'
    <2>1. \A u \in Tabs : ~SigningIn(op[u])'
      BY DEF SigningIn
    <2>2. CASE Broadcast(t, "signed-out")
      <3>1. \A u \in Tabs \ {t} : Tells(inbox'[u])
        BY <2>2, BroadcastOne DEF IInv, Broadcasts
      <3>. QED  BY <1>1, <2>1, <3>1 DEF UsersAreTrue, Knows
    <2>3. CASE /\ inbox' = inbox /\ lapsed' = lapsed
               /\ \A u \in Tabs : ~SigningOut(op[u])
      BY <1>1, <1>4, <2>1, <2>3 DEF Agreement, UsersAreTrue, Knows
    <2>. QED  BY <2>2, <2>3
  <1>. QED  BY <1>2, <1>3, <1>4 DEF Agreement

\* Nobody is signed in, as far as a tab that shows nobody can tell.
LEMMA NobodyFound ==
  ASSUME Agreement, NEW t \in Tabs, FindsNobody(t), ~Overlaps
  PROVE  cookie = Nobody
  BY DEF Agreement, NobodyIsTrue, Overlaps, SigningIn

LEMMA ReceivedCheckAgrees ==
  ASSUME IInv, Agreement, NEW t \in Tabs, ReceiveCheck(t), ~messy'
  PROVE  Agreement'
  <1>1. /\ check[t] # NoRequest /\ check' = [check EXCEPT ![t] = NoRequest]
        /\ UNCHANGED <<cookie, op>>
    BY DEF ReceiveCheck
  <1>2. /\ check'[t] = NoRequest /\ \A u \in Tabs \ {t} : check'[u] = check[u]
        /\ op[t] = NoRequest
    BY <1>1 DEF IInv, TypeOK, Agreement, OpsAlone
  <1>3. CASE CheckFindsUser(t)
    <2>1. PICK who \in Users : who = check[t].reply /\ Shows(t, who)
      BY <1>3 DEF CheckFindsUser
    <2>2. \A u \in Tabs : /\ Tells(inbox'[u]) <=> Tells(inbox[u])
                          /\ inbox[u] # <<>> => inbox'[u] # <<>>
      <3>1. CASE Broadcast(t, "session-changed")
        BY <3>1, BroadcastOne DEF IInv, Broadcasts
      <3>2. CASE UNCHANGED inbox
        BY <3>2
      <3>. QED  BY <1>3, <3>1, <3>2 DEF CheckFindsUser
    <2>3. lapsed' = lapsed
      BY <1>3 DEF CheckFindsUser
    <2>4. ~lapsed => Knows(t, who)
      BY <1>1, <2>1 DEF Agreement, UsersAreTrue
    <2>5. /\ status'[t] = "authenticated" /\ user'[t] = who
          /\ \A u \in Tabs \ {t} : status'[u] = status[u] /\ user'[u] = user[u]
      BY <2>1, ShowsOne DEF IInv, Identities
    <2>6. ~FindsNobody(t)'
      BY <1>2, <2>5 DEF FindsNobody
    <2>. QED  BY <1>1, <1>2, <2>2, <2>3, <2>4, <2>5, <2>6, AgreementKept
  <1>4. CASE CheckFindsNobody(t)
    <2>1. Shows(t, Nobody) /\ FindsNobody(t)
      BY <1>1, <1>4 DEF CheckFindsNobody, FindsNobody
    <2>2. /\ status'[t] = "anonymous" /\ user'[t] = Nobody
          /\ \A u \in Tabs \ {t} : status'[u] = status[u] /\ user'[u] = user[u]
      BY <2>1, ShowsOne DEF IInv, Identities
    <2>3. CASE check[t].broadcast /\ Identified(t)
      <3>1. Broadcast(t, "signed-out") /\ ~Overlaps
        BY <1>4, <2>3 DEF CheckFindsNobody
      <3>2. cookie = Nobody /\ \A u \in Tabs : op'[u] = NoRequest
        BY <1>1, <2>1, <3>1, NobodyFound DEF Overlaps
      <3>. QED  BY <1>1, <1>2, <2>1, <3>1, <3>2, SignOutAgrees
    <2>4. CASE ~(check[t].broadcast /\ Identified(t))
      <3>1. UNCHANGED <<inbox, lapsed>>
        BY <1>4, <2>4 DEF CheckFindsNobody
      <3>. QED  BY <1>1, <1>2, <2>1, <2>2, <3>1, AgreementKept
    <2>. QED  BY <2>3, <2>4
  <1>5. CASE CheckFails(t)
    <2>1. /\ status' = [status EXCEPT ![t] = "unavailable"]
          /\ user' = [user EXCEPT ![t] = Nobody]
          /\ UNCHANGED <<inbox, lapsed>>
      BY <1>5 DEF CheckFails
    <2>2. /\ status'[t] = "unavailable"
          /\ \A u \in Tabs \ {t} : status'[u] = status[u] /\ user'[u] = user[u]
      BY <2>1 DEF IInv, TypeOK
    <2>3. ~FindsNobody(t)'
      BY <1>2, <2>2 DEF FindsNobody
    <2>. QED  BY <1>1, <1>2, <2>1, <2>2, <2>3, AgreementKept
  <1>. QED  BY <1>3, <1>4, <1>5 DEF ReceiveCheck

LEMMA TriedAgainAgrees ==
  ASSUME IInv, Agreement, NEW t \in Tabs, TryAgain(t), ~messy'
  PROVE  Agreement'
  BY LoadAgrees DEF TryAgain

LEMMA HeardAgrees ==
  ASSUME IInv, Agreement, NEW t \in Tabs, Hears(t), ~messy'
  PROVE  Agreement'
  <1>1. /\ inbox[t] # <<>> /\ inbox[t] \in Seq(Broadcasts) /\ inbox'[t] = Tail(inbox[t])
        /\ \A u \in Tabs \ {t} : inbox'[u] = inbox[u]
        /\ UNCHANGED <<cookie, lapsed>>
    BY DEF Hears, IInv, TypeOK
  <1>2. CASE /\ Head(inbox[t]) = "signed-out"
             /\ Bump(t) /\ Shows(t, Nobody)
             /\ UNCHANGED messy
    <2>1. Tells(inbox[t]) /\ \A u \in Tabs : Tells(inbox'[u]) => Tells(inbox[u])
      BY <1>1, <1>2, TellsTail
    <2>2. cookie = Nobody /\ \A u \in Tabs : op[u] = NoRequest
      BY <2>1 DEF Agreement, OpsAlone, CookieGone
    <2>3. /\ \A u \in Tabs : op'[u] = NoRequest
          /\ check'[t] = NoRequest /\ \A u \in Tabs \ {t} : check'[u] = check[u]
      BY <1>2, <2>2, BumpOne DEF IInv
    <2>4. /\ status'[t] = "anonymous"
          /\ \A u \in Tabs \ {t} : status'[u] = status[u] /\ user'[u] = user[u]
      BY <1>2, ShowsOne DEF IInv, Identities
    <2>5. OpsAlone' /\ CookieGone'
      BY <1>1, <2>2, <2>3 DEF OpsAlone, CookieGone
    <2>6. NobodyIsTrue'
      BY <1>1, <2>2, <2>3, <2>4 DEF Agreement, NobodyIsTrue
    <2>7. ~lapsed' => UsersAreTrue'
      BY <1>1, <2>2, <2>3, <2>4 DEF Agreement, UsersAreTrue, Knows, SigningOut, SigningIn
    <2>. QED  BY <2>5, <2>6, <2>7 DEF Agreement
  <1>3. CASE /\ Head(inbox[t]) = "session-changed"
             /\ LoadSession(t, FALSE)
    <2>1. \A u \in Tabs : Tells(inbox'[u]) <=> Tells(inbox[u])
      BY <1>1, <1>3, TellsTail
    <2>. QED  BY <1>1, <1>3, <2>1, LoadAgrees
  <1>. QED  BY <1>2, <1>3 DEF Hears

\* A request begins: nothing else is in flight and there is no news to be heard.
LEMMA RequestedAgrees ==
  ASSUME IInv, Agreement, NEW t \in Tabs,
         NEW kind \in {"register", "login", "logout", "delete"},
         NEW who \in Identities, Request(t, kind, who), ~messy',
         kind \in {"register", "login"} => cookie = Nobody \/ Overlaps,
         kind \in {"logout", "delete"} => status[t] = "authenticated",
         check'[t] = NoRequest, \A u \in Tabs \ {t} : check'[u] = check[u],
         FindsNobody(t)' => FindsNobody(t)
  PROVE  Agreement'
  <1>. DEFINE new == [kind |-> kind, user |-> who, current |-> TRUE,
                      deleted |-> FALSE, reply |-> NoReply]
  <1>1. /\ op' = [op EXCEPT ![t] = new] /\ ~Overlaps
        /\ UNCHANGED <<cookie, inbox, lapsed, status, user>>
    BY DEF Request, KeepIdentity
  <1>2. /\ new.kind = kind /\ new.current = TRUE /\ new.deleted = FALSE
        /\ new.reply = NoReply
    OBVIOUS
  <1>. HIDE DEF new
  <1>3. op'[t] = new /\ \A u \in Tabs \ {t} : op'[u] = op[u] /\ op[u] = NoRequest
    BY <1>1 DEF IInv, TypeOK, Overlaps
  <1>4. /\ \A u \in Tabs : inbox[u] = <<>> /\ ~Tells(inbox[u]) /\ op[u] = NoRequest
    BY <1>1 DEF Overlaps, Tells
  <1>5. ~SigningOut(new) /\ ~SigningIn(new)
        /\ (Entering(new) => kind \in {"login", "register"})
    BY <1>2 DEF SigningOut, SigningIn, Entering
  <1>6. OpsAlone'
    BY <1>1, <1>2, <1>3, <1>4 DEF OpsAlone
  <1>7. CookieGone'
    BY <1>1, <1>3, <1>4, <1>5 DEF CookieGone, SigningOut, Entering
  <1>8. \A u \in Tabs : ~SigningIn(op[u]) /\ ~SigningIn(op'[u]) /\ ~SigningOut(op[u])
    BY <1>3, <1>4, <1>5 DEF SigningIn, SigningOut
  <1>9. NobodyIsTrue'
    BY <1>1, <1>4, <1>8 DEF Agreement, NobodyIsTrue, FindsNobody
  <1>10. ~lapsed' => UsersAreTrue'
    BY <1>1, <1>4, <1>8 DEF Agreement, UsersAreTrue, Knows
  <1>. QED  BY <1>6, <1>7, <1>9, <1>10 DEF Agreement

LEMMA AskedAgrees ==
  ASSUME IInv, Agreement, NEW t \in Tabs, ~messy',
         \/ \E who \in Users : SignIn(t, "login", who) \/ SignIn(t, "register", who)
         \/ Logout(t) \/ DeleteAccount(t)
  PROVE  Agreement'
  <1>1. CASE \E who \in Users : SignIn(t, "login", who) \/ SignIn(t, "register", who)
    <2>1. PICK who \in Users, kind \in {"login", "register"} : SignIn(t, kind, who)
      BY <1>1
    <2>2. /\ status[t] = "anonymous" /\ Request(t, kind, who)
          /\ check' = [check EXCEPT ![t] = NoRequest]
      BY <2>1 DEF SignIn
    <2>3. FindsNobody(t)
      BY <2>2 DEF Agreement, NobodyIsTrue, FindsNobody
    <2>4. cookie = Nobody \/ Overlaps
      BY <2>3, NobodyFound
    <2>5. check'[t] = NoRequest /\ \A u \in Tabs \ {t} : check'[u] = check[u]
      BY <2>2 DEF IInv, TypeOK
    <2>. QED  BY <2>2, <2>3, <2>4, <2>5, RequestedAgrees DEF Identities
  <1>2. CASE Logout(t)
    <2>1. /\ status[t] = "authenticated" /\ Request(t, "logout", Nobody)
          /\ check' = [check EXCEPT ![t] = NoRequest]
      BY <1>2 DEF Logout
    <2>2. check'[t] = NoRequest /\ \A u \in Tabs \ {t} : check'[u] = check[u]
      BY <2>1 DEF IInv, TypeOK
    <2>3. ~FindsNobody(t)'
      BY <2>1, <2>2 DEF FindsNobody, Request, KeepIdentity
    <2>. QED  BY <2>1, <2>2, <2>3, RequestedAgrees DEF Identities
  <1>3. CASE DeleteAccount(t)
    <2>1. /\ status[t] = "authenticated" /\ Request(t, "delete", Nobody)
          /\ UNCHANGED check
      BY <1>3 DEF DeleteAccount
    <2>2. check[t] = NoRequest
      BY <2>1 DEF Request
    <2>3. ~FindsNobody(t)'
      BY <2>1, <2>2 DEF FindsNobody, Request, KeepIdentity
    <2>. QED  BY <2>1, <2>2, <2>3, RequestedAgrees DEF Identities
  <1>. QED  BY <1>1, <1>2, <1>3

\* The fields of an operation that is answered.
LEMMA RepliedOne ==
  ASSUME IInv, NEW t \in Tabs, op[t] # NoRequest, NEW r \in Answers, Reply(t, r)
  PROVE  /\ op'[t] # NoRequest /\ op'[t].reply = r
         /\ op'[t].kind = op[t].kind /\ op'[t].current = op[t].current
         /\ op'[t].deleted = op[t].deleted
         /\ \A u \in Tabs \ {t} : op'[u] = op[u]
  <1>. DEFINE old == op[t]
              new == [old EXCEPT !.reply = r]
  <1>1. old \in Ops
    BY DEF IInv, TypeOK
  <1>2. /\ new \in Ops /\ new.reply = r /\ new.kind = old.kind
        /\ new.current = old.current /\ new.deleted = old.deleted
    BY <1>1 DEF Ops
  <1>3. op' = [op EXCEPT ![t] = new]
    BY DEF Reply
  <1>. HIDE DEF new
  <1>4. op'[t] = new /\ \A u \in Tabs \ {t} : op'[u] = op[u]
    BY <1>3 DEF IInv, TypeOK
  <1>. QED  BY <1>2, <1>4

LEMMA AnsweredAgrees ==
  ASSUME IInv, Agreement, NEW t \in Tabs, ServeOp(t) \/ LoseOp(t), ~messy'
  PROVE  Agreement'
  <1>1. /\ op[t] # NoRequest /\ op[t] \in Ops /\ op[t].reply = NoReply
        /\ UNCHANGED <<status, user, check, inbox, lapsed>>
        /\ op[t].deleted => op[t].kind = "logout"
    BY DEF ServeOp, LoseOp, IInv, TypeOK, OpsAreInOrder
  <1>2. PICK r \in Answers :
          /\ Reply(t, r)
          /\ \/ /\ cookie' = cookie
                /\ r = Failed \/ (op[t].kind = "register" /\ r = Done)
             \/ op[t].kind = "login" /\ r \in Identities /\ cookie' = r
             \/ op[t].kind \in {"logout", "delete"} /\ r = Done /\ cookie' = Nobody
    BY <1>1 DEF ServeOp, LoseOp, Answers, Ops
  <1>3. /\ op'[t] # NoRequest /\ op'[t].reply = r
        /\ op'[t].kind = op[t].kind /\ op'[t].current = op[t].current
        /\ op'[t].deleted = op[t].deleted
        /\ \A u \in Tabs \ {t} : op'[u] = op[u]
    BY <1>1, <1>2, RepliedOne
  <1>4. /\ \A u \in Tabs : ~Tells(inbox[u])
        /\ \A u \in Tabs \ {t} : op[u] = NoRequest /\ op'[u] = NoRequest
    BY <1>1, <1>3 DEF Agreement, OpsAlone
  <1>5. OpsAlone'
    BY <1>1, <1>3, <1>4 DEF Agreement, OpsAlone
  <1>6. /\ SigningOut(op[t]) \/ Entering(op[t]) => cookie = Nobody
        /\ ~SigningIn(op[t])
    BY <1>1 DEF Agreement, CookieGone, SigningIn
  <1>7. \A u \in Tabs \ {t} : /\ ~SigningOut(op[u]) /\ ~SigningIn(op[u]) /\ ~Entering(op[u])
                              /\ ~SigningOut(op'[u]) /\ ~SigningIn(op'[u]) /\ ~Entering(op'[u])
    BY <1>4 DEF SigningOut, SigningIn, Entering
  <1>8. /\ SigningOut(op'[t]) \/ Entering(op'[t]) => cookie' = Nobody
        /\ SigningIn(op'[t]) => r = cookie'
        /\ SigningOut(op[t]) => SigningOut(op'[t])
        /\ cookie' # Nobody => cookie' = cookie \/ SigningIn(op'[t])
        /\ cookie' = cookie \/ cookie = Nobody \/ SigningOut(op'[t])
    <2>1. CASE /\ cookie' = cookie
               /\ r = Failed \/ (op[t].kind = "register" /\ r = Done)
      BY <1>1, <1>3, <1>6, <2>1 DEF SigningOut, SigningIn, Entering
    <2>2. CASE op[t].kind = "login" /\ r \in Identities /\ cookie' = r
      BY <1>1, <1>3, <1>6, <2>2 DEF SigningOut, SigningIn, Entering, Identities
    <2>3. CASE op[t].kind \in {"logout", "delete"} /\ r = Done /\ cookie' = Nobody
      BY <1>1, <1>3, <1>6, <2>3 DEF SigningOut, SigningIn, Entering
    <2>. QED  BY <1>2, <2>1, <2>2, <2>3
  <1>9. CookieGone'
    BY <1>1, <1>4, <1>7, <1>8 DEF CookieGone
  <1>10. NobodyIsTrue'
    BY <1>1, <1>6, <1>7, <1>8 DEF Agreement, NobodyIsTrue, FindsNobody
  <1>11. ASSUME ~lapsed'  PROVE UsersAreTrue'
    <2>1. \A u \in Tabs, who \in Users : Knows(u, who) => Knows(u, who)'
      BY <1>1, <1>4, <1>7, <1>8 DEF Knows
    <2>2. \A u \in Tabs : status[u] = "authenticated" => user[u] \in Users
      BY DEF IInv, TypeOK, NeverStuck, Identities
    <2>3. \A u \in Tabs : SigningIn(op'[u]) => op'[u].reply = cookie'
      BY <1>3, <1>7, <1>8
    <2>4. \A u \in Tabs : status'[u] = "authenticated" => Knows(u, user[u])'
      BY <1>1, <1>11, <2>1, <2>2 DEF Agreement, UsersAreTrue
    <2>5. \A u \in Tabs : check'[u] # NoRequest /\ check'[u].reply \in Users =>
                            Knows(u, check[u].reply)'
      BY <1>1, <1>11, <2>1 DEF Agreement, UsersAreTrue
    <2>. QED  BY <2>3, <2>4, <2>5 DEF UsersAreTrue
  <1>. QED  BY <1>5, <1>9, <1>10, <1>11 DEF Agreement

\* A registration that goes on, or a deletion that does: no news for anybody.
LEMMA ContinuedAgrees ==
  ASSUME IInv, Agreement, NEW t \in Tabs, op[t] # NoRequest,
         UNCHANGED <<cookie, inbox, lapsed, status, user>>,
         \A u \in Tabs \ {t} : op'[u] = op[u],
         \A u \in Tabs : check'[u] = check[u],
         op'[t] # NoRequest, op'[t].current = op[t].current, op'[t].reply = NoReply,
         op'[t].kind \in {"logout", "delete"} => op[t].kind \in {"logout", "delete"},
         SigningOut(op'[t]) <=> SigningOut(op[t]),
         Entering(op'[t]) => Entering(op[t]),
         ~SigningIn(op[t])
  PROVE  Agreement'
  <1>1. OpsAlone'
    BY DEF Agreement, OpsAlone
  <1>2. CookieGone'
    BY DEF Agreement, CookieGone
  <1>3. \A u \in Tabs : /\ SigningIn(op'[u]) <=> SigningIn(op[u])
                        /\ SigningOut(op'[u]) <=> SigningOut(op[u])
    BY DEF SigningIn
  <1>4. NobodyIsTrue'
    BY <1>3 DEF Agreement, NobodyIsTrue, FindsNobody
  <1>5. ~lapsed' => UsersAreTrue'
    BY <1>3 DEF Agreement, UsersAreTrue, Knows, SigningIn
  <1>. QED  BY <1>1, <1>2, <1>4, <1>5 DEF Agreement

LEMMA ReceivedOpAgrees ==
  ASSUME IInv, Agreement, NEW t \in Tabs, ReceiveOp(t), ~messy'
  PROVE  Agreement'
  <1>1. /\ op[t] # NoRequest /\ op[t] \in Ops /\ InOrder(op[t])
        /\ cookie' = cookie
    BY DEF ReceiveOp, IInv, TypeOK, OpsAreInOrder, InOrder
  <1>2. /\ op[t].current /\ check[t] = NoRequest
        /\ op[t].kind \in {"logout", "delete"} => status[t] = "authenticated"
        /\ \A u \in Tabs : ~Tells(inbox[u])
        /\ \A u \in Tabs \ {t} : op[u] = NoRequest
    BY <1>1 DEF Agreement, OpsAlone
  <1>3. Ends(t) => \A u \in Tabs : op'[u] = NoRequest
    BY <1>2 DEF IInv, TypeOK, Ends
  <1>4. SigningOut(op[t]) => cookie = Nobody
    BY DEF Agreement, CookieGone
  <1>5. CASE Registered(t)
    <2>. DEFINE old == op[t]
                new == [old EXCEPT !.kind = "login", !.reply = NoReply]
    <2>1. old \in Ops /\ old.kind = "register" /\ old.reply = Done /\ ~old.deleted
      BY <1>1, <1>5 DEF Registered, InOrder
    <2>2. /\ new \in Ops /\ new.kind = "login" /\ new.deleted = old.deleted
          /\ new.reply = NoReply /\ new.current = old.current
      BY <2>1 DEF Ops, Answers
    <2>3. /\ op' = [op EXCEPT ![t] = new]
          /\ UNCHANGED <<status, user, check, inbox, lapsed>>
      BY <1>5 DEF Registered, KeepIdentity
    <2>. HIDE DEF new
    <2>4. op'[t] = new /\ new # NoRequest /\ \A u \in Tabs \ {t} : op'[u] = op[u]
      BY <2>2, <2>3 DEF IInv, TypeOK
    <2>5. /\ ~SigningOut(op[t]) /\ ~SigningOut(op'[t])
          /\ Entering(op[t]) /\ ~SigningIn(op[t])
      BY <1>1, <2>1, <2>2, <2>4 DEF SigningOut, SigningIn, Entering
    <2>. QED  BY <1>1, <2>2, <2>3, <2>4, <2>5, ContinuedAgrees
  <1>6. CASE SignedIn(t)
    <2>1. PICK who \in Users : /\ who = op[t].reply /\ Shows(t, who)
                               /\ Broadcast(t, "session-changed")
      BY <1>2, <1>6 DEF SignedIn
    <2>2. /\ Ends(t) /\ UNCHANGED <<check, lapsed>>
      BY <1>6 DEF SignedIn
    <2>3. /\ status'[t] = "authenticated" /\ user'[t] = who
          /\ \A u \in Tabs \ {t} : status'[u] = status[u] /\ user'[u] = user[u]
      BY <2>1, ShowsOne DEF IInv, Identities
    <2>4. \A u \in Tabs : ~Tells(inbox'[u]) /\ (u # t => inbox'[u] # <<>>)
      BY <1>2, <2>1, BroadcastOne DEF IInv, Broadcasts
    <2>5. OpsAlone' /\ CookieGone'
      BY <1>3, <2>2, <2>4 DEF OpsAlone, CookieGone, SigningOut, Entering
    <2>6. NobodyIsTrue'
      BY <1>2, <2>2, <2>3, <2>4 DEF Agreement, NobodyIsTrue, FindsNobody
    <2>7. \A u \in Tabs : ~SigningOut(op[u]) /\ ~SigningIn(op'[u])
      BY <1>1, <1>2, <1>3, <2>1, <2>2 DEF SigningOut, SigningIn, InOrder
    <2>8. ASSUME ~lapsed'  PROVE UsersAreTrue'
      <3>1. who = cookie
        BY <1>1, <2>1, <2>2, <2>8 DEF Agreement, UsersAreTrue, SigningIn
      <3>4. \A u \in Tabs \ {t} : status[u] = "authenticated" => Knows(u, user[u])
        BY <2>2, <2>8 DEF Agreement, UsersAreTrue
      <3>5. \A u \in Tabs : check[u] # NoRequest /\ check[u].reply \in Users =>
                              Knows(u, check[u].reply)
        BY <2>2, <2>8 DEF Agreement, UsersAreTrue
      <3>. QED  BY <1>1, <1>2, <2>2, <2>3, <2>7, <3>1, <3>4, <3>5 DEF UsersAreTrue, Knows
    <2>. QED  BY <2>5, <2>6, <2>8 DEF Agreement
  <1>7. CASE Deleted(t)
    <2>. DEFINE old == op[t]
                new == [old EXCEPT !.kind = "logout", !.deleted = TRUE, !.reply = NoReply]
    <2>1. old \in Ops /\ old.kind = "delete" /\ old.reply = Done
      BY <1>1, <1>7 DEF Deleted
    <2>2. /\ new \in Ops /\ new.kind = "logout" /\ new.deleted
          /\ new.reply = NoReply /\ new.current = old.current
      BY <2>1 DEF Ops, Answers
    <2>3. /\ op' = [op EXCEPT ![t] = new] /\ check' = [check EXCEPT ![t] = NoRequest]
          /\ UNCHANGED <<status, user, inbox, lapsed>>
      BY <1>7 DEF Deleted, KeepIdentity
    <2>. HIDE DEF new
    <2>4. /\ op'[t] = new /\ new # NoRequest /\ \A u \in Tabs \ {t} : op'[u] = op[u]
          /\ \A u \in Tabs : check'[u] = check[u]
      BY <1>2, <2>2, <2>3 DEF IInv, TypeOK
    <2>5. /\ SigningOut(op[t]) /\ SigningOut(op'[t])
          /\ ~Entering(op'[t]) /\ ~SigningIn(op[t])
      BY <1>1, <2>1, <2>2, <2>4 DEF SigningOut, SigningIn, Entering
    <2>. QED  BY <1>1, <2>1, <2>2, <2>3, <2>4, <2>5, ContinuedAgrees
  <1>8. CASE SignedOut(t)
    <2>1. /\ op[t].kind = "logout" /\ op[t].reply = Done
          /\ Ends(t) /\ check' = check
          /\ ClearsIdentity(t)
      BY <1>8 DEF SignedOut
    <2>2. Broadcast(t, "signed-out") /\ Shows(t, Nobody)
      BY <1>2, <2>1 DEF ClearsIdentity, Identified
    <2>3. cookie = Nobody
      BY <1>1, <1>4, <2>1 DEF SigningOut
    <2>. QED  BY <1>1, <1>2, <1>3, <2>1, <2>2, <2>3, SignOutAgrees
  <1>9. CASE OpFails(t)
    <2>1. op[t].reply = Failed /\ Ends(t)
      BY <1>9 DEF OpFails
    <2>2. CASE op[t].deleted
      <3>1. ClearsIdentity(t) /\ check' = [check EXCEPT ![t] = NoRequest]
        BY <1>9, <2>2 DEF OpFails
      <3>2. Broadcast(t, "signed-out") /\ Shows(t, Nobody)
        BY <1>1, <1>2, <2>2, <3>1 DEF ClearsIdentity, Identified, InOrder
      <3>3. cookie = Nobody
        BY <1>1, <1>4, <2>2 DEF SigningOut
      <3>4. check'[t] = NoRequest /\ \A u \in Tabs \ {t} : check'[u] = check[u]
        BY <3>1 DEF IInv, TypeOK
      <3>. QED  BY <1>1, <1>3, <2>1, <3>2, <3>3, <3>4, SignOutAgrees
    <2>3. CASE ~op[t].deleted
      <3>1. UNCHANGED <<status, user, check, inbox, lapsed>>
        BY <1>9, <2>3 DEF OpFails, KeepIdentity
      <3>2. \A u \in Tabs : /\ ~SigningOut(op[u]) /\ ~SigningIn(op[u])
                            /\ ~SigningOut(op'[u]) /\ ~SigningIn(op'[u]) /\ ~Entering(op'[u])
        BY <1>2, <1>3, <2>1, <2>3 DEF SigningOut, SigningIn, Entering
      <3>3. OpsAlone' /\ CookieGone'
        BY <1>1, <1>2, <1>3, <2>1, <3>1, <3>2 DEF OpsAlone, CookieGone
      <3>4. NobodyIsTrue'
        BY <1>1, <3>1, <3>2 DEF Agreement, NobodyIsTrue, FindsNobody
      <3>5. ~lapsed' => UsersAreTrue'
        BY <1>1, <3>1, <3>2 DEF Agreement, UsersAreTrue, Knows
      <3>. QED  BY <3>3, <3>4, <3>5 DEF Agreement
    <2>. QED  BY <2>2, <2>3
  <1>. QED  BY <1>5, <1>6, <1>7, <1>8, <1>9 DEF ReceiveOp

LEMMA ReceivedCallAgrees ==
  ASSUME IInv, Agreement, NEW t \in Tabs, ReceiveCall(t), ~messy'
  PROVE  Agreement'
  <1>1. cookie' = cookie
    BY DEF ReceiveCall
  <1>2. CASE CallRefused(t)
    <2>1. /\ Bump(t) /\ ClearsIdentity(t) /\ cookie = Nobody /\ ~Overlaps
      BY <1>2 DEF CallRefused
    <2>2. \A u \in Tabs : op[u] = NoRequest
      BY <2>1 DEF Overlaps
    <2>3. /\ \A u \in Tabs : op'[u] = NoRequest
          /\ check'[t] = NoRequest /\ \A u \in Tabs \ {t} : check'[u] = check[u]
      BY <2>1, <2>2, BumpOne DEF IInv
    <2>4. \A u \in Tabs : ~SigningOut(op[u])
      BY <2>2 DEF SigningOut
    <2>. QED  BY <1>1, <2>1, <2>3, <2>4, SignOutAgrees DEF ClearsIdentity
  <1>3. CASE CallSucceeds(t)
    <2>1. UNCHANGED <<inbox, lapsed>>
      BY <1>3 DEF CallSucceeds
    <2>2. CASE LoadSession(t, TRUE)
      BY <1>1, <2>1, <2>2, LoadAgrees
    <2>3. CASE KeepIdentity /\ UNCHANGED <<check, op, messy>>
      BY <1>1, <2>1, <2>3 DEF Agreement, OpsAlone, CookieGone, NobodyIsTrue, FindsNobody,
         UsersAreTrue, Knows, KeepIdentity
    <2>. QED  BY <1>3, <2>2, <2>3 DEF CallSucceeds
  <1>. QED  BY <1>2, <1>3 DEF ReceiveCall

LEMMA LapseAgrees ==
  ASSUME IInv, Agreement, Lapse
  PROVE  Agreement'
  BY DEF Lapse, KeepIdentity, Agreement, OpsAlone, CookieGone, NobodyIsTrue, FindsNobody

\* Once operations overlapped the agreement is no longer claimed.
LEMMA MessyForGood ==
  ASSUME IInv, [Next]_vars, ~messy'
  PROVE  ~messy
  <1>1. ASSUME NEW t \in Tabs, TabStep(t)  PROVE ~messy
    BY <1>1 DEF IInv, TypeOK, TabStep, ServeCheck, LoseCheck, ReceiveCheck, CheckFindsUser,
       CheckFindsNobody, CheckFails, TryAgain, LoadSession, Hears, SignIn, Request, Logout,
       DeleteAccount, ServeOp, LoseOp, ReceiveOp, Registered, SignedIn, Deleted, SignedOut,
       OpFails, Call, ServeCall, ReceiveCall, CallRefused, CallSucceeds
  <1>. QED  BY <1>1 DEF Next, Lapse, vars

LEMMA NextAgrees ==
  ASSUME IInv, ~messy => Agreement, [Next]_vars, ~messy'
  PROVE  Agreement'
  <1>1. Agreement
    BY MessyForGood
  <1>2. ASSUME NEW t \in Tabs, TabStep(t)
        PROVE  Agreement'
    <2>1. CASE ServeCheck(t) \/ LoseCheck(t)
      BY <1>1, <2>1, ServedChecksAgree
    <2>2. CASE ReceiveCheck(t) \/ TryAgain(t) \/ Hears(t)
      BY <1>1, <2>2, ReceivedCheckAgrees, TriedAgainAgrees, HeardAgrees
    <2>3. CASE \/ \E who \in Users : SignIn(t, "login", who) \/ SignIn(t, "register", who)
               \/ Logout(t) \/ DeleteAccount(t)
      BY <1>1, <2>3, AskedAgrees
    <2>4. CASE ServeOp(t) \/ LoseOp(t) \/ ReceiveOp(t)
      BY <1>1, <2>4, AnsweredAgrees, ReceivedOpAgrees
    <2>5. CASE Call(t, "page") \/ Call(t, "profile") \/ ServeCall(t)
      <3>1. UNCHANGED <<cookie, check, op, inbox, lapsed, messy>> /\ KeepIdentity
        BY <2>5 DEF Call, ServeCall
      <3>. QED  BY <1>1, <3>1 DEF Agreement, OpsAlone, CookieGone, NobodyIsTrue,
                  FindsNobody, UsersAreTrue, Knows, KeepIdentity
    <2>6. CASE ReceiveCall(t)
      BY <1>1, <2>6, ReceivedCallAgrees
    <2>. QED  BY <1>2, <2>1, <2>2, <2>3, <2>4, <2>5, <2>6 DEF TabStep
  <1>3. CASE Lapse
    BY <1>1, <1>3, LapseAgrees
  <1>4. CASE UNCHANGED vars
    BY <1>1, <1>4 DEF vars, Agreement, OpsAlone, CookieGone, NobodyIsTrue, FindsNobody,
       UsersAreTrue, Knows
  <1>. QED  BY <1>2, <1>3, <1>4 DEF Next

LEMMA AgreementAtRest ==
  ASSUME IInv, ~messy => Agreement
  PROVE  TabsAgree
  <1>. SUFFICES ASSUME Quiet, ~messy, ~lapsed, NEW t \in Tabs, status[t] # "unavailable"
                PROVE  user[t] = cookie
    BY DEF TabsAgree
  <1>1. /\ \A u \in Tabs : ~SigningOut(op[u]) /\ ~SigningIn(op[u])
        /\ inbox[t] = <<>> /\ ~Tells(inbox[t]) /\ check[t] = NoRequest
    BY DEF Quiet, SigningOut, SigningIn, Tells
  <1>2. status[t] \in {"anonymous", "authenticated"}
    BY DEF Quiet, IInv, TypeOK, NeverStuck, Statuses
  <1>3. CASE status[t] = "anonymous"
    BY <1>1, <1>3 DEF IInv, TypeOK, NeverStuck, Agreement, NobodyIsTrue, FindsNobody
  <1>4. CASE status[t] = "authenticated"
    BY <1>1, <1>4 DEF Agreement, UsersAreTrue, Knows
  <1>. QED  BY <1>2, <1>3, <1>4

\* For any tabs and users, however their requests and broadcasts interleave: when
\* everything is delivered, every tab that could reach the server shows the user
\* of the cookie, provided that sign-ins and sign-outs did not overlap and no
\* session ended unannounced (auth-provider.tsx: requestVersion and the
\* broadcasts over the BroadcastChannel).
THEOREM TabsAgreeAtRest == Spec => []TabsAgree
  <1>1. Init => (~messy => Agreement)
    BY InitAgrees
  <1>2. IInv /\ (~messy => Agreement) /\ [Next]_vars => (~messy => Agreement)'
    BY NextAgrees
  <1>3. IInv /\ (~messy => Agreement) => TabsAgree
    BY AgreementAtRest
  <1>. QED  BY <1>1, <1>2, <1>3, SpecInv, PTL DEF Spec

=============================================================================
