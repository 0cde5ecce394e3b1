--------------------------- MODULE BrowserSession ---------------------------
(***************************************************************************)
(* Who is signed in, as the tabs of one browser see it (auth-provider.tsx, *)
(* api/client.ts and the pages that sign in and out).  The tabs share one  *)
(* cookie and tell each other of changes over a BroadcastChannel.          *)
(*                                                                         *)
(* requestVersion is represented by what it decides: a tab keeps only the  *)
(* session check whose version is current, and a sign-in in flight knows   *)
(* whether its version still is.                                           *)
(***************************************************************************)
EXTENDS Naturals, Sequences

CONSTANTS
  Tabs,
  Users,
  Nobody,    \* no user
  NoRequest, \* nothing in flight
  NoReply, Failed, Unauthorized, Done,
  MaxFaults, \* bound: failed requests
  MaxClicks  \* bound: clicks, and sessions that lapse

ASSUME BrowserAssumption ==
  /\ Nobody \notin Users
  /\ MaxFaults \in Nat /\ MaxClicks \in Nat
  /\ Users \intersect {NoReply, Failed, Unauthorized, Done} = {}
  /\ Nobody \notin {NoReply, Failed, Unauthorized, Done}
  /\ NoReply \notin {Failed, Unauthorized, Done} /\ Failed \notin {Unauthorized, Done}

VARIABLES
  cookie, \* the user of the session the browser's cookie names
  status, \* status and statusRef of each tab
  user,   \* user of each tab
  check,  \* the current loadSession of each tab
  op,     \* the sign-in, sign-out or deletion in flight of each tab
  call,   \* an API request in flight of each tab
  inbox,  \* broadcasts on their way to each tab
  lapsed, \* history: the session ended and no tab announced it yet
  messy,  \* history: operations overlapped, or a reply was lost
  faults, \* bound: faults so far
  clicks  \* bound: clicks so far

vars == <<cookie, status, user, check, op, call, inbox, lapsed, messy, faults,
          clicks>>

Statuses == {"loading", "authenticated", "anonymous", "unavailable"}
Identities == Users \union {Nobody}
Answers == Identities \union {NoReply, Failed, Unauthorized, Done}
Broadcasts == {"session-changed", "signed-out"}

Checks == [background : BOOLEAN, broadcast : BOOLEAN, reply : Answers]
Ops == [kind : {"register", "login", "logout", "delete"}, user : Identities,
        current : BOOLEAN, deleted : BOOLEAN, reply : Answers]
Calls == [kind : {"page", "profile"}, reply : Answers]

ASSUME RequestAssumption == NoRequest \notin Checks \union Ops \union Calls

TypeOK ==
  /\ cookie \in Identities
  /\ status \in [Tabs -> Statuses]
  /\ user \in [Tabs -> Identities]
  /\ check \in [Tabs -> Checks \union {NoRequest}]
  /\ op \in [Tabs -> Ops \union {NoRequest}]
  /\ call \in [Tabs -> Calls \union {NoRequest}]
  /\ inbox \in [Tabs -> Seq(Broadcasts)]
  /\ lapsed \in BOOLEAN /\ messy \in BOOLEAN

-----------------------------------------------------------------------------
(* Helpers *)

Click == clicks < MaxClicks /\ clicks' = clicks + 1

Others(t) == Tabs \ {t}
Broadcast(t, message) ==
  inbox' = [u \in Tabs |-> IF u \in Others(t) THEN Append(inbox[u], message)
                           ELSE inbox[u]]

Shows(t, who) ==
  /\ status' = [status EXCEPT ![t] = IF who = Nobody THEN "anonymous"
                                     ELSE "authenticated"]
  /\ user' = [user EXCEPT ![t] = who]

\* ++requestVersion: what is in flight is outdated.
Outdated(o) == IF o = NoRequest THEN o ELSE [o EXCEPT !.current = FALSE]
Bump(t) ==
  /\ check' = [check EXCEPT ![t] = NoRequest]
  /\ op' = [op EXCEPT ![t] = Outdated(@)]

Identified(t) == status[t] # "anonymous"

\* Mutant: a check asked for by another tab is announced as well.
LoadSessionEchoed(t, broadcast) ==
  /\ check' = [check EXCEPT ![t] =
       [background |-> status[t] = "authenticated", broadcast |-> TRUE,
        reply |-> NoReply]]
  /\ op' = [op EXCEPT ![t] = Outdated(@)]
  /\ status' = [status EXCEPT ![t] = IF @ = "authenticated" THEN @ ELSE "loading"]
  /\ messy' = (messy \/ op[t] # NoRequest)
  /\ UNCHANGED user

\* loadSession: a refresh of a known session keeps the screen.
LoadSession(t, broadcast) ==
  /\ check' = [check EXCEPT ![t] =
       [background |-> status[t] = "authenticated", broadcast |-> broadcast,
        reply |-> NoReply]]
  /\ op' = [op EXCEPT ![t] = Outdated(@)]
  /\ status' = [status EXCEPT ![t] = IF @ = "authenticated" THEN @ ELSE "loading"]
  /\ messy' = (messy \/ op[t] # NoRequest)
  /\ UNCHANGED user

KeepIdentity == UNCHANGED <<status, user>>

\* Another operation is in flight, or its news is not yet delivered.
Overlaps == \E t \in Tabs : op[t] # NoRequest \/ inbox[t] # <<>>

-----------------------------------------------------------------------------
(* loadSession *)

ServeCheck(t) ==
  /\ check[t] # NoRequest /\ check[t].reply = NoReply
  /\ check' = [check EXCEPT ![t].reply = cookie]
  /\ UNCHANGED <<cookie, status, user, op, call, inbox, lapsed, messy, faults,
                 clicks>>

LoseCheck(t) ==
  /\ faults < MaxFaults /\ faults' = faults + 1
  /\ check[t] # NoRequest /\ check[t].reply # Failed
  /\ check' = [check EXCEPT ![t].reply = Failed]
  /\ UNCHANGED <<cookie, status, user, op, call, inbox, lapsed, messy, clicks>>

CheckFindsUser(t) ==
  /\ check[t].reply \in Users
  /\ Shows(t, check[t].reply)
  /\ IF check[t].broadcast THEN Broadcast(t, "session-changed") ELSE UNCHANGED inbox
  /\ UNCHANGED <<lapsed, messy>>

CheckFindsNobody(t) ==
  /\ check[t].reply = Nobody
  /\ Shows(t, Nobody)
  /\ IF check[t].broadcast /\ Identified(t)
     THEN /\ Broadcast(t, "signed-out") /\ lapsed' = FALSE
          /\ messy' = (messy \/ Overlaps)
     ELSE UNCHANGED <<inbox, lapsed, messy>>

CheckFails(t) ==
  /\ check[t].reply = Failed
  /\ IF check[t].background
     THEN KeepIdentity /\ messy' = TRUE
     ELSE /\ status' = [status EXCEPT ![t] = "unavailable"]
          /\ user' = [user EXCEPT ![t] = Nobody]
          /\ UNCHANGED messy
  /\ UNCHANGED <<inbox, lapsed>>

ReceiveCheck(t) ==
  /\ check[t] # NoRequest
  /\ CheckFindsUser(t) \/ CheckFindsNobody(t) \/ CheckFails(t)
  /\ check' = [check EXCEPT ![t] = NoRequest]
  /\ UNCHANGED <<cookie, op, call, faults, clicks>>

\* "Try again" when the server was unavailable.
TryAgain(t) ==
  /\ status[t] = "unavailable" /\ Click
  /\ LoadSession(t, TRUE)
  /\ UNCHANGED <<cookie, call, inbox, lapsed, faults>>

-----------------------------------------------------------------------------
(* Messages from the other tabs *)

Hears(t) ==
  /\ inbox[t] # <<>>
  /\ inbox' = [inbox EXCEPT ![t] = Tail(@)]
  /\ \/ /\ Head(inbox[t]) = "signed-out"
        /\ Bump(t) /\ Shows(t, Nobody)
        /\ UNCHANGED messy
     \/ /\ Head(inbox[t]) = "session-changed"
        /\ LoadSession(t, FALSE)
  /\ UNCHANGED <<cookie, call, lapsed, faults, clicks>>

-----------------------------------------------------------------------------
(* login, register, logout and the deletion of the account *)

\* The pages exist only for the status they are for.
Request(t, kind, who) ==
  /\ op[t] = NoRequest /\ Click
  /\ op' = [op EXCEPT ![t] =
       [kind |-> kind, user |-> who, current |-> TRUE, deleted |-> FALSE,
        reply |-> NoReply]]
  /\ messy' = (messy \/ Overlaps \/ (kind = "delete" /\ check[t] # NoRequest))
  /\ KeepIdentity
  /\ UNCHANGED <<cookie, call, inbox, lapsed, faults>>

SignIn(t, kind, who) ==
  /\ status[t] = "anonymous"
  /\ Request(t, kind, who)
  /\ check' = [check EXCEPT ![t] = NoRequest]

Logout(t) ==
  /\ status[t] = "authenticated"
  /\ Request(t, "logout", Nobody)
  /\ check' = [check EXCEPT ![t] = NoRequest]

DeleteAccount(t) ==
  /\ status[t] = "authenticated"
  /\ Request(t, "delete", Nobody)
  /\ UNCHANGED check

Reply(t, r) == op' = [op EXCEPT ![t].reply = r]

\* Credentials may be wrong, and a password may be refused.
ServeOp(t) ==
  /\ op[t] # NoRequest /\ op[t].reply = NoReply
  /\ \/ Reply(t, Failed) /\ UNCHANGED cookie
     \/ op[t].kind = "register" /\ Reply(t, Done) /\ UNCHANGED cookie
     \/ op[t].kind = "login" /\ Reply(t, op[t].user) /\ cookie' = op[t].user
     \/ op[t].kind = "logout" /\ Reply(t, Done) /\ cookie' = Nobody
     \/ op[t].kind = "delete" /\ cookie # Nobody /\ Reply(t, Done) /\ cookie' = Nobody
  /\ UNCHANGED <<status, user, check, call, inbox, lapsed, messy, faults, clicks>>

LoseOp(t) ==
  /\ faults < MaxFaults /\ faults' = faults + 1
  /\ op[t] # NoRequest /\ op[t].reply # Failed
  /\ Reply(t, Failed)
  /\ messy' = TRUE
  /\ UNCHANGED <<cookie, status, user, check, call, inbox, lapsed, clicks>>

Ends(t) == op' = [op EXCEPT ![t] = NoRequest]

\* A registration goes on with a sign-in of the same version.
Registered(t) ==
  /\ op[t].kind = "register" /\ op[t].reply = Done
  /\ op' = [op EXCEPT ![t].kind = "login", ![t].reply = NoReply]
  /\ KeepIdentity
  /\ UNCHANGED <<check, inbox, lapsed, messy>>

\* A sign-in that is no longer current is not shown.
SignedIn(t) ==
  /\ op[t].reply \in Users
  /\ IF op[t].current
     THEN Shows(t, op[t].reply) /\ Broadcast(t, "session-changed") /\ UNCHANGED messy
     ELSE KeepIdentity /\ messy' = TRUE /\ UNCHANGED inbox
  /\ Ends(t)
  /\ UNCHANGED <<check, lapsed>>

\* The sign-out of a deleted account; the deletion itself leaves the version.
Deleted(t) ==
  /\ op[t].kind = "delete" /\ op[t].reply = Done
  /\ op' = [op EXCEPT ![t].kind = "logout", ![t].deleted = TRUE, ![t].reply = NoReply]
  /\ check' = [check EXCEPT ![t] = NoRequest]
  /\ KeepIdentity
  /\ UNCHANGED <<inbox, lapsed, messy>>

\* Mutant: the other tabs are not told.
ClearsIdentityAlone(t) == Shows(t, Nobody) /\ UNCHANGED <<inbox, lapsed>>

ClearsIdentity(t) ==
  /\ Shows(t, Nobody)
  /\ IF Identified(t) THEN Broadcast(t, "signed-out") /\ lapsed' = FALSE
                      ELSE UNCHANGED <<inbox, lapsed>>

SignedOut(t) ==
  /\ op[t].kind = "logout" /\ op[t].reply = Done
  /\ ClearsIdentity(t)
  /\ Ends(t)
  /\ UNCHANGED <<check, messy>>

\* Mutant: the failed sign-out after a deletion is not noticed.
OpFailsUnnoticed(t) ==
  /\ op[t].reply = Failed
  /\ Ends(t)
  /\ KeepIdentity
  /\ UNCHANGED <<check, inbox, lapsed, messy>>

\* After a deletion a failed sign-out clears the identity all the same.
OpFails(t) ==
  /\ op[t].reply = Failed
  /\ Ends(t)
  /\ IF op[t].deleted
     THEN ClearsIdentity(t) /\ check' = [check EXCEPT ![t] = NoRequest]
     ELSE KeepIdentity /\ UNCHANGED <<check, inbox, lapsed>>
  /\ UNCHANGED messy

ReceiveOp(t) ==
  /\ op[t] # NoRequest
  /\ Registered(t) \/ SignedIn(t) \/ Deleted(t) \/ SignedOut(t) \/ OpFails(t)
  /\ UNCHANGED <<cookie, call, faults, clicks>>

-----------------------------------------------------------------------------
(* API requests of the signed-in pages *)

Call(t, kind) ==
  /\ status[t] = "authenticated" /\ call[t] = NoRequest /\ Click
  /\ call' = [call EXCEPT ![t] = [kind |-> kind, reply |-> NoReply]]
  /\ UNCHANGED <<cookie, check, op, inbox, lapsed, messy, faults>>
  /\ KeepIdentity

ServeCall(t) ==
  /\ call[t] # NoRequest /\ call[t].reply = NoReply
  /\ call' = [call EXCEPT ![t].reply = IF cookie = Nobody THEN Unauthorized ELSE Done]
  /\ UNCHANGED <<cookie, check, op, inbox, lapsed, messy, faults, clicks>>
  /\ KeepIdentity

\* handleUnauthorized: a 401 signs out, whatever was signed in since.
CallRefused(t) ==
  /\ call[t].reply = Unauthorized
  /\ Bump(t) /\ ClearsIdentity(t)
  /\ messy' = (messy \/ cookie # Nobody \/ Overlaps)

\* A saved profile refreshes the session, here and in the other tabs.
CallSucceeds(t) ==
  /\ call[t].reply = Done
  /\ IF call[t].kind = "profile" THEN LoadSession(t, TRUE)
     ELSE KeepIdentity /\ UNCHANGED <<check, op, messy>>
  /\ UNCHANGED <<inbox, lapsed>>

ReceiveCall(t) ==
  /\ call[t] # NoRequest
  /\ CallRefused(t) \/ CallSucceeds(t)
  /\ call' = [call EXCEPT ![t] = NoRequest]
  /\ UNCHANGED <<cookie, faults, clicks>>

\* The session expires, or is revoked from another browser.
Lapse ==
  /\ cookie # Nobody /\ Click
  /\ cookie' = Nobody /\ lapsed' = TRUE
  /\ UNCHANGED <<check, op, call, inbox, messy, faults>>
  /\ KeepIdentity

-----------------------------------------------------------------------------

Init ==
  /\ cookie \in Identities
  /\ status = [t \in Tabs |-> "loading"]
  /\ user = [t \in Tabs |-> Nobody]
  /\ check = [t \in Tabs |->
       [background |-> FALSE, broadcast |-> FALSE, reply |-> NoReply]]
  /\ op = [t \in Tabs |-> NoRequest]
  /\ call = [t \in Tabs |-> NoRequest]
  /\ inbox = [t \in Tabs |-> <<>>]
  /\ lapsed = FALSE /\ messy = FALSE
  /\ faults = 0 /\ clicks = 0

TabStep(t) ==
  \/ ServeCheck(t) \/ LoseCheck(t) \/ ReceiveCheck(t) \/ TryAgain(t) \/ Hears(t)
  \/ \E who \in Users : SignIn(t, "login", who) \/ SignIn(t, "register", who)
  \/ Logout(t) \/ DeleteAccount(t) \/ ServeOp(t) \/ LoseOp(t) \/ ReceiveOp(t)
  \/ Call(t, "page") \/ Call(t, "profile") \/ ServeCall(t) \/ ReceiveCall(t)

Next == Lapse \/ \E t \in Tabs : TabStep(t)

Spec == Init /\ [][Next]_vars

\* Every request ends and every message is delivered.
Fairness ==
  \A t \in Tabs :
    /\ WF_vars(ServeCheck(t)) /\ WF_vars(ReceiveCheck(t)) /\ WF_vars(Hears(t))
    /\ WF_vars(ServeOp(t)) /\ WF_vars(ReceiveOp(t))
    /\ WF_vars(ServeCall(t)) /\ WF_vars(ReceiveCall(t))

FairSpec == Spec /\ Fairness

-----------------------------------------------------------------------------
(* Properties *)

\* A tab names a user exactly while it counts as signed in, and a tab that
\* shows the spinner waits for a session check, or for the sign-out that
\* follows the deletion of its account: no superseded request leaves it there.
NeverStuck ==
  \A t \in Tabs :
    /\ user[t] # Nobody <=> status[t] = "authenticated"
    /\ status[t] = "loading" =>
         check[t] # NoRequest \/ (op[t] # NoRequest /\ op[t].deleted)

Quiet ==
  \A t \in Tabs : check[t] = NoRequest /\ op[t] = NoRequest /\ call[t] = NoRequest
                  /\ inbox[t] = <<>>

\* When everything is delivered all the tabs that could reach the server show
\* the user of the cookie, if sign-ins and sign-outs did not overlap.
TabsAgree ==
  Quiet /\ ~messy /\ ~lapsed =>
    \A t \in Tabs : status[t] = "unavailable" \/ user[t] = cookie

\* The tabs do not keep each other busy: broadcasts come to an end.
ComesToRest == <>[]Quiet
=============================================================================
