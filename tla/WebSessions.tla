---------------------------- MODULE WebSessions ----------------------------
(***************************************************************************)
(* One account: its password, its lockout and its web sessions              *)
(* (accounts/service.py).                                                   *)
(*                                                                          *)
(* login() works under a lock on the row of the user.  Requests that come   *)
(* with a session read its row, and the user's, without a lock, decide, and *)
(* write later; change_password() takes the user's lock with its first      *)
(* write.  The lockout is counted in units of the first delay (30 s); an    *)
(* expiry of a session is past or not.  The names that StreamSlots has too   *)
(* begin with WS here: AccountLimits_proofs extends both.                    *)
(***************************************************************************)
EXTENDS Naturals, FiniteSets

CONSTANTS
  Sessions,   \* web sessions, each with its token
  Requests,   \* requests in progress at the same time
  Threshold,  \* LOGIN_LOCK_THRESHOLD
  MaxActive,  \* settings.max_active_sessions
  MaxChanges, \* bound on password changes
  None

ASSUME NoneAssumption == None \notin Sessions \union Requests
ASSUME SessionsAssumption == IsFiniteSet(Sessions)
ASSUME LimitsAssumption ==
  /\ Threshold \in Nat \ {0}
  /\ MaxActive \in Nat \ {0}
  /\ MaxChanges \in Nat

VARIABLES
  user,     \* users: the columns of the account
  lock,     \* the request that holds that row locked
  session,  \* web_sessions
  req,      \* the locals of each request
  tried     \* history: wrong passwords tried since the last log-in or lockout

wsVars == <<user, lock, session, req, tried>>

\* Lockouts of 30 * 2^k seconds, at most LOGIN_LOCK_MAX_SECONDS.
Delays == <<1, 2, 4, 8, 16, 30>>
LongestDelay == 30
Delay(n) ==
  LET k == n - Threshold
  IN  Delays[1 + IF k < 5 THEN k ELSE 5]

UserType ==
  [there    : BOOLEAN,          \* the account has not been deleted
   password : 0 .. MaxChanges,  \* how often password_hash was changed
   attempts : Nat,              \* failed_login_attempts
   locked   : BOOLEAN,          \* locked_until is set
   left     : 0 .. LongestDelay]  \* time until locked_until

SessionType ==
  [row      : BOOLEAN,         \* there is a row
   revoked  : BOOLEAN,         \* revoked_at is set
   idle     : BOOLEAN,         \* idle_expires_at is past
   over     : BOOLEAN,         \* expires_at is past
   password : 0 .. MaxChanges, \* the password it was issued under
   lapsed   : BOOLEAN]         \* history: one of them has been past

NoSession == [row |-> FALSE, revoked |-> FALSE, idle |-> FALSE, over |-> FALSE,
              password |-> 0, lapsed |-> FALSE]
Issued(password) == [NoSession EXCEPT !.row = TRUE, !.password = password]

Steps == {"idle", "login", "issue", "expire", "touch", "in"}

RequestType ==
  [pc      : Steps,
   session : Sessions \union {None},  \* the session it came with
   read    : UserType,                \* the user as login() read it
   alive   : SUBSET Sessions]         \* sessions not expired by the clock of login()

Registered == [there |-> TRUE, password |-> 0, attempts |-> 0, locked |-> FALSE,
               left |-> 0]

Idle == [pc |-> "idle", session |-> None, read |-> Registered, alive |-> {}]

\* register() has just committed.
WSInit ==
  /\ user = Registered
  /\ lock = None
  /\ session = [s \in Sessions |-> NoSession]
  /\ req = [r \in Requests |-> Idle]
  /\ tried = 0

Doing(r, pc) == req[r].pc = pc
Its(r) == req[r].session
Unlocked == lock = None

\* Mutant: a SELECT without FOR UPDATE.
LockNothing(r) == r \in Requests /\ lock' = None

Lock(r) == lock' = r

Done(r) ==
  /\ req' = [req EXCEPT ![r] = Idle]
  /\ lock' = IF lock = r THEN None ELSE lock

Unexpired(s) == session[s].row /\ ~session[s].idle /\ ~session[s].over
Unrevoked(s) == session[s].row /\ ~session[s].revoked

-----------------------------------------------------------------------------
(* login().                                                                  *)

LoginRead(r) ==
  /\ Doing(r, "idle") /\ Unlocked /\ user.there
  /\ Lock(r)
  /\ req' = [req EXCEPT ![r] = [Idle EXCEPT !.pc = "login", !.read = user]]
  /\ UNCHANGED <<user, session, tried>>

\* The password has been verified against what was read; now is now.
IsLocked(r)  == req[r].read.locked /\ user.left > 0

\* "A completed lockout is a fresh attempt window."
Fresh(r) == req[r].read.locked /\ user.left = 0

LoginLocked(r) ==
  /\ Doing(r, "login") /\ IsLocked(r)
  /\ Done(r)
  /\ UNCHANGED <<user, session, tried>>

Attempts(r) == (IF Fresh(r) THEN 0 ELSE req[r].read.attempts) + 1

\* Mutant: `>` instead of `>=`.
LocksAfter(n) == n > Threshold

Locks(n) == n >= Threshold

LoginFails(r) ==
  LET n == Attempts(r)
  IN  /\ Doing(r, "login") /\ ~IsLocked(r)
      /\ user' = [user EXCEPT !.attempts = n, !.locked = Locks(n),
                              !.left = IF Locks(n) THEN Delay(n) ELSE 0]
      /\ tried' = tried + 1
      /\ Done(r)
      /\ UNCHANGED session

LoginPasses(r) ==
  /\ Doing(r, "login") /\ ~IsLocked(r)
  /\ req' = [req EXCEPT ![r].pc = "issue", ![r].alive = {s \in Sessions : Unexpired(s)}]
  /\ UNCHANGED <<user, lock, session, tried>>

\* The active sessions as the query of _prepare_for_new_session finds them.
Active(r) == {s \in Sessions : Unrevoked(s) /\ (Unexpired(s) \/ s \in req[r].alive)}

\* Mutant: no slot is reserved for the session about to be issued.
KeepWithoutReserve(active, kept) ==
  Cardinality(kept) <= MaxActive
    /\ (kept # active => Cardinality(kept) = MaxActive)

\* All of them, or as many as leave a slot free; which ones, the most recently
\* seen, is not kept.
Keep(active, kept) ==
  Cardinality(kept) <= MaxActive - 1
    /\ (kept # active => Cardinality(kept) = MaxActive - 1)

\* Rows that may be older than SESSION_HISTORY_RETENTION.  No request takes
\* that long.
Old(s) == /\ session[s].row /\ (session[s].revoked \/ session[s].over)
          /\ \A r \in Requests : Its(r) # s

LoginIssues(r) ==
  /\ Doing(r, "issue")
  /\ user' = [user EXCEPT !.attempts = 0, !.locked = FALSE, !.left = 0]
  /\ tried' = 0
  /\ \E kept \in SUBSET Active(r), pruned \in SUBSET {s \in Sessions : Old(s)},
        new \in {s \in Sessions : ~session[s].row} :
       /\ Keep(Active(r), kept)
       /\ session' = [s \in Sessions |->
            IF s = new THEN Issued(req[r].read.password)
            ELSE IF s \in pruned THEN NoSession
            ELSE [session[s] EXCEPT !.revoked = @ \/ s \in Active(r) \ kept]]
  /\ Done(r)

-----------------------------------------------------------------------------
(* resolve_session(), and the requests that come with a session.             *)

Resolve(r, s) ==
  /\ Doing(r, "idle") /\ user.there /\ Unrevoked(s)
  /\ \E pc \in IF Unexpired(s) THEN {"touch", "in"} ELSE {"expire"} :
       req' = [req EXCEPT ![r] = [Idle EXCEPT !.pc = pc, !.session = s]]
  /\ UNCHANGED <<user, lock, session, tried>>

SetRevoked(s) == session' = [session EXCEPT ![s].revoked = TRUE]

Expire(r) ==
  /\ Doing(r, "expire") /\ session[Its(r)].row
  /\ SetRevoked(Its(r))
  /\ Done(r)
  /\ UNCHANGED <<user, tried>>

\* Mutant: the whole row is written back as it was read.
TouchedAsRead(c) == [c EXCEPT !.idle = c.over, !.revoked = FALSE]

\* The mapper writes last_seen_at and idle_expires_at, which is never beyond
\* expires_at, and no other column.
Touched(c) == [c EXCEPT !.idle = c.over]

Touch(r) ==
  /\ Doing(r, "touch") /\ session[Its(r)].row
  /\ session' = [session EXCEPT ![Its(r)] = Touched(session[Its(r)])]
  /\ req' = [req EXCEPT ![r].pc = "in"]
  /\ UNCHANGED <<user, lock, tried>>

\* logout() of its own session, revoke_session() of any.
Revoke(r, s) ==
  /\ Doing(r, "in") /\ session[s].row
  /\ s = Its(r) \/ Unrevoked(s)
  /\ SetRevoked(s)
  /\ Done(r)
  /\ UNCHANGED <<user, tried>>

\* Mutant: only sessions that are active need to be ended.
EndedByChangeIfLive(s) == Unexpired(s)

EndedByChange(s) == Unrevoked(s)

\* The current password was verified against the user as resolved.  The new
\* one is flushed, which takes the lock, before the sessions are ended.
ChangePassword(r) ==
  /\ Doing(r, "in") /\ Unlocked /\ user.there /\ user.password < MaxChanges
  /\ user' = [user EXCEPT !.password = @ + 1]
  /\ \E new \in {s \in Sessions : ~session[s].row} :
       session' = [s \in Sessions |->
                     IF s = new THEN Issued(user.password + 1)
                     ELSE [session[s] EXCEPT !.revoked = @ \/ EndedByChange(s)]]
  /\ Done(r)
  /\ UNCHANGED tried

\* The sessions of the account are deleted with it.
DeleteAccount(r) ==
  /\ Doing(r, "in") /\ Unlocked /\ user.there
  /\ user' = [user EXCEPT !.there = FALSE]
  /\ session' = [s \in Sessions |-> NoSession]
  /\ Done(r)
  /\ UNCHANGED tried

\* A request that is done, or fails at any point.
Fail(r) ==
  /\ ~Doing(r, "idle")
  /\ Done(r)
  /\ UNCHANGED <<user, session, tried>>

-----------------------------------------------------------------------------
(* Time.                                                                     *)

TimePasses ==
  /\ user.left > 0
  /\ user' = [user EXCEPT !.left = @ - 1]
  /\ tried' = IF user.left = 1 THEN 0 ELSE tried
  /\ UNCHANGED <<lock, session, req>>

Lapse(s) ==
  /\ session[s].row
  /\ \/ ~session[s].idle
        /\ session' = [session EXCEPT ![s].idle = TRUE, ![s].lapsed = TRUE]
     \/ ~session[s].over
        /\ session' = [session EXCEPT ![s].idle = TRUE, ![s].over = TRUE,
                                      ![s].lapsed = TRUE]
  /\ UNCHANGED <<user, lock, req, tried>>

WSNext ==
  \/ \E r \in Requests :
       \/ LoginRead(r) \/ LoginLocked(r) \/ LoginFails(r) \/ LoginPasses(r)
       \/ LoginIssues(r)
       \/ Expire(r) \/ Touch(r) \/ ChangePassword(r) \/ DeleteAccount(r) \/ Fail(r)
       \/ \E s \in Sessions : Resolve(r, s) \/ Revoke(r, s)
  \/ TimePasses
  \/ \E s \in Sessions : Lapse(s)

WSSpec == WSInit /\ [][WSNext]_wsVars

-----------------------------------------------------------------------------
(* Properties.                                                               *)

\* Every variable keeps its type, and only a log-in holds the lock.
WSTypeOK ==
  /\ user \in UserType
  /\ lock \in Requests \union {None}
  /\ session \in [Sessions -> SessionType]
  /\ req \in [Requests -> RequestType]
  /\ tried \in Nat
  /\ lock # None => req[lock].pc \in {"login", "issue"}

\* max_active_sessions bounds the active sessions.  A touch that is committed
\* after its session has run out may revive it: such a session is not counted.
SessionLimit ==
  Cardinality({s \in Sessions : Unrevoked(s) /\ ~session[s].lapsed}) <= MaxActive

\* After a change of the password no session issued under an older one is
\* left, nor issued by a log-in that had verified it, nor revived.
SessionsAreOfThePassword ==
  \A s \in Sessions : Unrevoked(s) => session[s].password = user.password

\* A session that was ended is never active again.
EndedSessionsStayEnded ==
  [][\A s \in Sessions :
       session[s].row /\ session[s].revoked
         => ~session'[s].row \/ session'[s].revoked]_wsVars

\* However many log-ins overlap, no more than LOGIN_LOCK_THRESHOLD passwords
\* are tried before a lockout, and as many after it.
AttemptsAreLimited == tried <= Threshold

\* While the account is locked no log-in succeeds, and none moves the end of
\* the lockout.
LockoutHolds ==
  [][user.locked /\ user.left > 0
       => user'.locked /\ user'.left \in {user.left, user.left - 1}]_wsVars

\* Each lockout is as short as the first: the count of attempts never grows
\* over several lockouts.
LockoutsStayShort == user.left <= Delay(Threshold)
=============================================================================
