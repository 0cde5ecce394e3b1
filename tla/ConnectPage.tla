------------------------------ MODULE ConnectPage ------------------------------
(***************************************************************************)
(* The page that connects Telegram (connect-page.tsx with its forms and    *)
(* api/auth.ts): one request of the page in flight at a time, whose answer *)
(* decides which form is shown next.  A page that is left takes no more    *)
(* answers, but what it sent may still be carried out after the user has   *)
(* come back.                                                              *)
(*                                                                         *)
(* The status of the server is a state with a sequence number of its own,  *)
(* which is not in the code: it dates what an answer carries.              *)
(***************************************************************************)
EXTENDS Naturals

CONSTANTS
  MaxRequests, \* bound: requests in flight, of this visit and of earlier ones
  MaxSeq,      \* bound: changes of the connection
  MaxFaults,   \* bound: lost and retried requests
  MaxClicks,   \* bound: clicks
  NoStatus,    \* connection === null
  NoRequest,
  NoReply, Failed

ASSUME ConnectAssumption ==
  MaxRequests \in Nat /\ MaxSeq \in Nat /\ MaxFaults \in Nat /\ MaxClicks \in Nat

States == {"disconnected", "code_required", "password_required", "connected"}
Statuses == [state : States, seq : 0..MaxSeq]

ASSUME RepliesAssumption ==
  {NoStatus, NoReply, Failed} \intersect Statuses = {} /\ NoReply # Failed

VARIABLES
  server,    \* what GET would answer
  mounted,   \* the page is open
  shown,     \* connection
  operation, \* operation, null as "none"
  active,    \* activeRequestRef
  asks,      \* the requests in flight
  missed,    \* history: the connection changed behind the page's back
  faults,    \* bound: faults so far
  clicks     \* bound: clicks so far

page == <<mounted, shown, operation, active>>
vars == <<server, page, asks, missed, faults, clicks>>

Slots == 1..MaxRequests
Kinds == {"fetch", "connect", "code", "password", "disconnect"}
Operations == {"none", "loading", "refreshing", "connecting", "verifying", "disconnecting"}

\* mine: of this visit.  newest: its requestId is requestIdRef's.
Asks == [kind : Kinds, mine : BOOLEAN, newest : BOOLEAN, retried : BOOLEAN,
         reply : Statuses \union {NoReply, Failed}]

ASSUME RequestAssumption == NoRequest \notin Asks

TypeOK ==
  /\ server \in Statuses
  /\ mounted \in BOOLEAN /\ active \in BOOLEAN /\ missed \in BOOLEAN
  /\ shown \in Statuses \union {NoStatus}
  /\ operation \in Operations
  /\ asks \in [Slots -> Asks \union {NoRequest}]
  /\ faults \in Nat /\ clicks \in Nat

-----------------------------------------------------------------------------
(* What the user does *)

Click == clicks < MaxClicks /\ clicks' = clicks + 1
Fault == faults < MaxFaults /\ faults' = faults + 1

NewAsk(kind, newest) ==
  [kind |-> kind, mine |-> TRUE, newest |-> newest, retried |-> FALSE,
   reply |-> NoReply]

Outdated(a) == IF a = NoRequest THEN a ELSE [a EXCEPT !.newest = FALSE]
Abandoned(a) == IF a = NoRequest THEN a ELSE [a EXCEPT !.newest = FALSE, !.mine = FALSE]

Free(k) == asks[k] = NoRequest /\ \A i \in 1..(k - 1) : asks[i] # NoRequest

\* ++requestIdRef: the answers to earlier requests are outdated.
Ask(kind, doing) ==
  /\ \E k \in Slots :
       /\ Free(k)
       /\ asks' = [i \in Slots |-> IF i = k THEN NewAsk(kind, TRUE) ELSE Outdated(asks[i])]
  /\ active' = TRUE
  /\ operation' = doing
  /\ UNCHANGED <<server, missed, faults>>

Submit(kind, doing) ==
  /\ mounted /\ ~active
  /\ Click
  /\ Ask(kind, doing)
  /\ UNCHANGED <<mounted, shown>>

\* The page opens with a load.
Open ==
  /\ ~mounted /\ mounted' = TRUE
  /\ Click
  /\ Ask("fetch", "loading")
  /\ UNCHANGED shown

\* StrictMode runs the effects of a new page, their cleanup, and the effects
\* again: the first load is outdated at once.
OpenTwice ==
  /\ ~mounted /\ mounted' = TRUE
  /\ Click
  /\ \E j, k \in Slots :
       /\ Free(j) /\ k > j /\ asks[k] = NoRequest
       /\ \A i \in (j + 1)..(k - 1) : asks[i] # NoRequest
       /\ asks' = [asks EXCEPT ![j] = NewAsk("fetch", FALSE),
                               ![k] = NewAsk("fetch", TRUE)]
  /\ active' = TRUE /\ operation' = "loading"
  /\ UNCHANGED <<server, shown, missed, faults>>

Leave ==
  /\ mounted /\ mounted' = FALSE
  /\ Click
  /\ asks' = [k \in Slots |-> Abandoned(asks[k])]
  /\ shown' = NoStatus /\ active' = FALSE /\ operation' = "none"
  /\ UNCHANGED <<server, missed, faults>>

Shows(states) == shown # NoStatus /\ shown.state \in states

\* "Refresh status" and "Try again".
Refresh == operation = "none" /\ Submit("fetch", "refreshing")

\* The form stays enabled during a refresh; submitting it then does nothing.
Connect ==
  /\ Shows({"disconnected"}) /\ operation # "connecting"
  /\ Submit("connect", "connecting")

\* The form asks for a code or for a password.
Verify ==
  /\ operation # "verifying"
  /\ \/ Shows({"code_required"}) /\ Submit("code", "verifying")
     \/ Shows({"password_required"}) /\ Submit("password", "verifying")

\* "Disconnect Telegram" and "Use a different number", confirmed.
Disconnect ==
  /\ Shows(States \ {"disconnected"}) /\ operation = "none"
  /\ Submit("disconnect", "disconnecting")

-----------------------------------------------------------------------------
(* The server *)

Becomes(state) ==
  \/ server.state = state /\ UNCHANGED server
  \/ /\ server.state # state /\ server.seq < MaxSeq
     /\ server' = [state |-> state, seq |-> server.seq + 1]

\* The answer is what the connection has become.
Answered(k) ==
  /\ asks' = [asks EXCEPT ![k].reply = server']
  /\ missed' = IF asks[k].newest THEN FALSE ELSE missed \/ server' # server

Fetched(k) == asks[k].kind = "fetch" /\ UNCHANGED server /\ Answered(k)

\* A code is sent, again if there is one, unless the session of the connection
\* turns out to be authorized.
Started(k) ==
  /\ asks[k].kind = "connect"
  /\ \/ Becomes("code_required")
     \/ server.state # "disconnected" /\ Becomes("connected")
  /\ Answered(k)

\* Mutant: a verification of a connected account meets no challenge and
\* erases the connection.
VerifiedOnce(k) ==
  \/ /\ asks[k].kind = "code" /\ server.state \in {"code_required", "password_required"}
     /\ Becomes("connected") \/ Becomes("password_required")
     /\ Answered(k)
  \/ /\ asks[k].kind = "password" /\ server.state = "password_required"
     /\ Becomes("connected")
     /\ Answered(k)
  \/ /\ asks[k].kind \in {"code", "password"} /\ server.state = "connected"
     /\ Becomes("disconnected")
     /\ asks' = [asks EXCEPT ![k].reply = Failed]
     /\ UNCHANGED missed

\* With two-step verification a code leads to the password.  A verification
\* of a connected account, sent again by a proxy, succeeds.
Verified(k) ==
  \/ /\ asks[k].kind = "code" /\ server.state \in {"code_required", "password_required"}
     /\ Becomes("connected") \/ Becomes("password_required")
     /\ Answered(k)
  \/ /\ asks[k].kind = "password" /\ server.state = "password_required"
     /\ Becomes("connected")
     /\ Answered(k)
  \/ /\ asks[k].kind \in {"code", "password"} /\ server.state = "connected"
     /\ UNCHANGED server
     /\ Answered(k)

Disconnected(k) == asks[k].kind = "disconnect" /\ Becomes("disconnected") /\ Answered(k)

\* A wrong number, code or password, another number than the connected one, a
\* challenge that is gone, too many attempts.
Refused(k) ==
  /\ asks[k].kind \in {"connect", "code", "password"}
  /\ asks' = [asks EXCEPT ![k].reply = Failed]
  /\ missed' = (missed \/ asks[k].retried)
  /\ UNCHANGED server

Serve(k) ==
  /\ asks[k] # NoRequest /\ asks[k].reply = NoReply
  /\ Fetched(k) \/ Started(k) \/ Verified(k) \/ Disconnected(k) \/ Refused(k)
  /\ UNCHANGED <<page, faults, clicks>>

\* The request or its answer is lost.
Lose(k) ==
  /\ asks[k] # NoRequest /\ asks[k].reply # Failed
  /\ Fault
  /\ asks' = [asks EXCEPT ![k].reply = Failed]
  /\ missed' = (missed \/ asks[k].reply # NoReply \/ asks[k].retried)
  /\ UNCHANGED <<server, page, clicks>>

\* The browser or a proxy sends a request again that was carried out.
Retry(k) ==
  /\ asks[k] # NoRequest /\ asks[k].reply \in Statuses
  /\ Fault
  /\ asks' = [asks EXCEPT ![k].reply = NoReply, ![k].retried = TRUE]
  /\ UNCHANGED <<server, page, missed, clicks>>

\* A challenge expires, the account is disconnected from another client, or a
\* tab elsewhere goes through the same steps.
Elsewhere ==
  /\ \E state \in States : Becomes(state)
  /\ server' # server
  /\ missed' = TRUE
  /\ UNCHANGED <<page, asks, faults, clicks>>

-----------------------------------------------------------------------------
(* The answer *)

\* Mutant: the requestId is not compared.
AppliesToPage(a) == a.mine

Applies(a) == a.mine /\ a.newest

\* Mutant: only a success ends the operation.
EndsIfAnswered(a) ==
  IF Applies(a) /\ a.reply # Failed THEN active' = FALSE /\ operation' = "none"
  ELSE UNCHANGED <<active, operation>>

Ends(a) ==
  IF Applies(a) THEN active' = FALSE /\ operation' = "none"
  ELSE UNCHANGED <<active, operation>>

\* An error leaves the connection as it is shown.
Receive(k) ==
  LET a == asks[k]
  IN  /\ a # NoRequest /\ a.reply # NoReply
      /\ shown' = IF Applies(a) /\ a.reply # Failed THEN a.reply ELSE shown
      /\ Ends(a)
      /\ asks' = [asks EXCEPT ![k] = NoRequest]
      /\ UNCHANGED <<server, mounted, missed, faults, clicks>>

-----------------------------------------------------------------------------

Init ==
  /\ \E state \in States : server = [state |-> state, seq |-> 0]
  /\ mounted = FALSE /\ shown = NoStatus
  /\ operation = "none" /\ active = FALSE
  /\ asks = [k \in Slots |-> NoRequest]
  /\ missed = FALSE
  /\ faults = 0 /\ clicks = 0

User == Open \/ OpenTwice \/ Leave \/ Refresh \/ Connect \/ Verify \/ Disconnect

Next ==
  \/ User \/ Elsewhere
  \/ \E k \in Slots : Serve(k) \/ Lose(k) \/ Retry(k) \/ Receive(k)

Spec == Init /\ [][Next]_vars

-----------------------------------------------------------------------------
(* Properties *)

\* The page is busy exactly while it awaits the one answer it will take: no
\* failure, no second run of its effects and no way of leaving and coming back
\* leaves it waiting for nothing, or free to send a second request.
BusyWhileAsking ==
  /\ active <=> operation # "none"
  /\ active <=> \E k \in Slots : asks[k] # NoRequest /\ Applies(asks[k])
  /\ \A j, k \in Slots :
       asks[j] # NoRequest /\ asks[k] # NoRequest /\ asks[j].newest /\ asks[k].newest
         => j = k

\* What is shown is never replaced by an older state of the connection.
AnswersInOrder ==
  [][shown # NoStatus /\ shown' # NoStatus => shown'.seq >= shown.seq]_vars

\* A page that awaits nothing shows the connection as it is, with the form for
\* the step it is at, unless something else changed it or an answer was lost: a
\* verification that is delivered twice shows the account it connected.
ShowsTheServer ==
  mounted /\ ~active /\ shown # NoStatus /\ ~missed => shown = server
=============================================================================
