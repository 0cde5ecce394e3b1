--------------------------- MODULE TelegramLogin ---------------------------
(***************************************************************************)
(* The Telegram connections of several accounts (auth/service.py, with the  *)
(* disconnect and the lost authorization of telegram/client.py and the      *)
(* check of telegram/service.py before a scan).                             *)
(*                                                                          *)
(* start() and verify() keep the row of the connection locked while they    *)
(* talk to Telegram.  status() takes no lock: it decides on a row that it   *)
(* has read and writes it back later; so does start() once it has           *)
(* invalidated an unreadable connection, for that commit drops its lock.    *)
(* The mapper writes only the columns that differ from what was read, so a  *)
(* late write is mixed with what others have written meanwhile.             *)
(***************************************************************************)
EXTENDS Naturals, FiniteSets

CONSTANTS
  Users,     \* application accounts
  Ids,       \* Telegram accounts, each with its telephone number
  Keys,      \* authorization keys of Telegram sessions
  Requests,  \* requests in progress at the same time
  MaxGen,    \* bound on generations
  None

ASSUME NoneAssumption == None \notin Users \union Ids \union Keys \union Requests
ASSUME MaxGenAssumption == MaxGen \in Nat

VARIABLES
  conn,    \* telegram_connections, one row per user
  lock,    \* the request that holds a row of conn locked
  req,     \* the locals of each request
  owner,   \* Telegram: the account each key is authorized for
  scan     \* the generation and identity of the active scan of each user

vars == <<conn, lock, req, owner, scan>>

States == {"disconnected", "pending", "connected", "error"}

RowType ==
  [state    : States,
   identity : Ids \union {None},        \* telegram_user_id
   phone    : Ids \union {None},        \* phone_encrypted
   key      : Keys \union {None},       \* session, api_id, api_hash _encrypted
   code     : {"none", "live", "over"}, \* the pending_ columns, and the clock
   password : BOOLEAN,                  \* password_required
   opens    : BOOLEAN,                  \* the ciphertexts can be decrypted
   gen      : 0 .. MaxGen]              \* generation

\* The columns of a connection that holds no secret.
Blank(state, gen) ==
  [state |-> state, identity |-> None, phone |-> None, key |-> None,
   code |-> "none", password |-> FALSE, opens |-> TRUE, gen |-> gen]

\* A user without a row is like one whose row is blank.
NoConnection == Blank("disconnected", 0)

Steps == {"idle", "expired", "corrupt", "invalid", "dial", "signin", "bind",
          "commit", "logout"}

RequestType ==
  [pc    : Steps,
   user  : Users \union {None},
   phone : Ids \union {None},    \* the telephone number asked for
   key   : Keys \union {None},   \* the session of its Telegram client
   read  : RowType,              \* the row as last read or written by it
   new   : RowType]              \* the row it is about to commit

Idle == [pc |-> "idle", user |-> None, phone |-> None, key |-> None,
         read |-> NoConnection, new |-> NoConnection]

Init ==
  /\ conn = [u \in Users |-> NoConnection]
  /\ lock = [u \in Users |-> None]
  /\ req = [r \in Requests |-> Idle]
  /\ owner = [k \in Keys |-> None]
  /\ scan = [u \in Users |-> None]

At(r, pc) == req[r].pc = pc
User(r) == req[r].user

\* A new StringSession: its key is one that nobody has.
Fresh == {k \in Keys : /\ owner[k] = None
                       /\ \A u \in Users : conn[u].key # k
                       /\ \A r \in Requests : req[r].key # k}

\* The columns in which `new` differs from `read`.  A ciphertext and an expiry
\* differ from what they replace even if they mean the same.
Changed(read, new) ==
  {c \in DOMAIN NoConnection : new[c] # read[c]}
    \union IF new.key # None THEN {"key", "phone", "opens"} ELSE {}
    \union IF new.code = "live" THEN {"code"} ELSE {}

\* An UPDATE of those columns; the others stay as they are by then.
Write(u, read, new) ==
  conn' = [conn EXCEPT ![u] =
             [c \in DOMAIN NoConnection |->
                IF c \in Changed(read, new) THEN new[c] ELSE conn[u][c]]]

Unlocked(u) == lock[u] = None

\* Mutant: a SELECT without FOR UPDATE.
LockNothing(r, u) == lock' = [lock EXCEPT ![u] = None]

Lock(r, u) == lock' = [lock EXCEPT ![u] = r]

Done(r) == /\ req' = [req EXCEPT ![r] = Idle]
           /\ lock' = [u \in Users |-> IF lock[u] = r THEN None ELSE lock[u]]

Cancel(u) == scan' = [scan EXCEPT ![u] = None]

-----------------------------------------------------------------------------
(* What status() makes of a row.                                             *)

HasMaterial(c) ==
  c.identity # None \/ c.phone # None \/ c.key # None \/ c.code # "none" \/ c.password

Dead(c) == c.state \notin {"pending", "connected"}

Incomplete(c) ==
  \/ c.key = None \/ c.phone = None
  \/ c.state = "pending" /\ (c.code = "none" \/ c.identity # None)
  \/ c.state = "connected" /\ (c.identity = None \/ c.code # "none" \/ c.password)

Expired(c) == c.state = "pending" /\ c.code = "over"

Corrupt(c) ==
  \/ Dead(c) /\ HasMaterial(c)
  \/ ~Dead(c) /\ Incomplete(c)
  \/ ~Dead(c) /\ ~Expired(c) /\ ~c.opens

\* _erase_expired_challenge and _invalidate_corrupt_connection.
Erased(c)  == Blank("disconnected", c.gen)
Invalid(c) == Blank("error", c.gen + 1)

\* status() reads without a lock.  Only what makes it write is of interest.
Status(r, u) ==
  /\ At(r, "idle")
  /\ \/ Corrupt(conn[u]) /\ conn[u].gen < MaxGen
        /\ req' = [req EXCEPT ![r] = [Idle EXCEPT !.pc = "corrupt", !.user = u,
                                                  !.read = conn[u]]]
     \/ ~Corrupt(conn[u]) /\ Expired(conn[u])
        /\ req' = [req EXCEPT ![r] = [Idle EXCEPT !.pc = "expired", !.user = u,
                                                  !.read = conn[u]]]
  /\ UNCHANGED <<conn, lock, owner, scan>>

StatusErases(r) ==
  /\ At(r, "expired") /\ Unlocked(User(r))
  /\ Write(User(r), req[r].read, Erased(req[r].read))
  /\ Done(r)
  /\ UNCHANGED <<owner, scan>>

\* _cancel_active_scans comes first, and has no need of the connection's row.
StatusCancels(r) ==
  /\ At(r, "corrupt")
  /\ Cancel(User(r))
  /\ req' = [req EXCEPT ![r].pc = "invalid"]
  /\ UNCHANGED <<conn, lock, owner>>

StatusInvalidates(r) ==
  /\ At(r, "invalid") /\ Unlocked(User(r))
  /\ Write(User(r), req[r].read, Invalid(req[r].read))
  /\ Done(r)
  /\ UNCHANGED <<owner, scan>>

-----------------------------------------------------------------------------
(* start(): under the lock of the row, unless the row had to be invalidated. *)

MustInvalidate(c) == (Dead(c) /\ HasMaterial(c)) \/ (~Dead(c) /\ ~c.opens)

Dial(r, u, p, k, c) ==
  req' = [req EXCEPT ![r] = [Idle EXCEPT !.pc = "dial", !.user = u, !.phone = p,
                                         !.key = k, !.read = c]]

Start(r, u, p) ==
  LET c == conn[u]
  IN  /\ At(r, "idle") /\ Unlocked(u)
      /\ \/ /\ MustInvalidate(c) /\ c.gen < MaxGen
            /\ conn' = [conn EXCEPT ![u] = Invalid(c)]
            /\ Cancel(u)
            /\ \E k \in Fresh : Dial(r, u, p, k, Invalid(c))
            /\ UNCHANGED lock
         \/ /\ ~MustInvalidate(c)
            /\ Lock(r, u)
            /\ \/ ~Dead(c) /\ c.key # None /\ Dial(r, u, p, c.key, c)
               \/ /\ Dead(c) \/ c.key = None
                  /\ \E k \in Fresh : Dial(r, u, p, k, c)
            /\ UNCHANGED <<conn, scan>>
      /\ UNCHANGED owner

\* The session is authorized already: the telephone number must be its own.
StartAuthorized(r) ==
  LET c == req[r].read
  IN  /\ At(r, "dial") /\ owner[req[r].key] # None
      /\ IF c.phone \notin {None, req[r].phone}
         THEN Done(r)
         ELSE req' = [req EXCEPT ![r].pc = "bind"] /\ UNCHANGED lock
      /\ UNCHANGED <<conn, owner, scan>>

Pending(r) ==
  [state |-> "pending", identity |-> None, phone |-> req[r].phone,
   key |-> req[r].key, code |-> "live", password |-> FALSE, opens |-> TRUE,
   gen |-> req[r].read.gen + 1]

\* A code is sent.  The scans are cancelled in the transaction that writes the
\* row, under its lock: the mapper writes the row before that statement.
SendCode(r) ==
  /\ At(r, "dial") /\ owner[req[r].key] = None
  /\ lock[User(r)] \in {None, r} /\ req[r].read.gen < MaxGen
  /\ Write(User(r), req[r].read, Pending(r))
  /\ Cancel(User(r))
  /\ Done(r)
  /\ UNCHANGED owner

-----------------------------------------------------------------------------
(* verify(): under the lock of the row to its end.                           *)

Verify(r, u) ==
  LET c == conn[u]
  IN  /\ At(r, "idle") /\ Unlocked(u)
      /\ c.key # None /\ c.state = "pending"
      /\ \/ /\ c.code # "live"
            /\ conn' = [conn EXCEPT ![u] = Erased(c)]
            /\ UNCHANGED <<lock, req, scan>>
         \/ /\ c.code = "live" /\ ~c.opens /\ c.gen < MaxGen
            /\ conn' = [conn EXCEPT ![u] = Invalid(c)]
            /\ Cancel(u)
            /\ UNCHANGED <<lock, req>>
         \/ /\ c.code = "live" /\ c.opens
            /\ Lock(r, u)
            /\ req' = [req EXCEPT ![r] =
                         [Idle EXCEPT !.pc = "signin", !.user = u,
                                      !.key = c.key, !.read = c]]
            /\ UNCHANGED <<conn, scan>>
      /\ UNCHANGED owner

\* Telegram accepts the code: from then on the key is authorized, whatever
\* becomes of the request.
SignIn(r) ==
  /\ At(r, "signin") /\ req[r].read.phone # None
  /\ owner' = [owner EXCEPT ![req[r].key] = req[r].read.phone]
  /\ req' = [req EXCEPT ![r].pc = "bind"]
  /\ UNCHANGED <<conn, lock, scan>>

AskPassword(r) ==
  /\ At(r, "signin") /\ owner[req[r].key] = None
  /\ conn' = [conn EXCEPT ![User(r)].password = TRUE]
  /\ Done(r)
  /\ UNCHANGED <<owner, scan>>

-----------------------------------------------------------------------------
(* _bind_authorized_principal and the commit.                                *)

\* Mutant: forgets user_id != self.
TakenByAnyone(u, id) == \E v \in Users : conn[v].identity = id /\ u \in Users

TakenByAnother(u, id) == \E v \in Users \ {u} : conn[v].identity = id

\* Mutant: looks at the state only.
NewGenerationUnlessPending(c, id) == c.identity # id /\ c.state # "pending"

\* A connection that was verified for another principal is a new generation;
\* a pending one got its generation with its code.
NewGeneration(c, id) == c.identity # id /\ (c.identity # None \/ c.state # "pending")

\* Mutant: an identity once known is kept.
BoundToTheFirst(r, id) ==
  LET c == req[r].read
  IN  [state |-> "connected", phone |-> c.phone, key |-> req[r].key,
       identity |-> IF c.identity # None THEN c.identity ELSE id,
       code |-> "none", password |-> FALSE, opens |-> TRUE, gen |-> c.gen]

Bound(r, id) ==
  LET c == req[r].read
  IN  [state |-> "connected", identity |-> id, phone |-> c.phone,
       key |-> req[r].key, code |-> "none", password |-> FALSE, opens |-> TRUE,
       gen |-> IF NewGeneration(c, id) THEN c.gen + 1 ELSE c.gen]

Bind(r) ==
  LET id == owner[req[r].key]
  IN  /\ At(r, "bind") /\ id # None
      /\ NewGeneration(req[r].read, id) => req[r].read.gen < MaxGen
      /\ ~TakenByAnother(User(r), id)
      /\ req' = [req EXCEPT ![r].pc = "commit", ![r].new = Bound(r, id)]
      /\ UNCHANGED <<conn, lock, owner, scan>>

\* The identity belongs to another account: the new session is logged out.
BindConflicts(r) ==
  LET id == owner[req[r].key]
  IN  /\ At(r, "bind") /\ id # None
      /\ TakenByAnother(User(r), id)
      /\ owner' = [owner EXCEPT ![req[r].key] = None]
      /\ Done(r)
      /\ UNCHANGED <<conn, scan>>

\* The unique index on telegram_user_id decides at the commit.
UniqueIndexAllows(u, id) == ~TakenByAnother(u, id)

Commit(r) ==
  LET new == req[r].new
  IN  /\ At(r, "commit")
      /\ IF UniqueIndexAllows(User(r), new.identity)
         THEN /\ Write(User(r), req[r].read, new)
              /\ IF new.gen # req[r].read.gen THEN Cancel(User(r)) ELSE UNCHANGED scan
         ELSE UNCHANGED <<conn, scan>>
      /\ Done(r)
      /\ UNCHANGED owner

-----------------------------------------------------------------------------
(* revoke_telegram_connection: erase first, log out afterwards, if possible. *)

Disconnect(r, u) ==
  LET c == conn[u]
  IN  /\ At(r, "idle") /\ Unlocked(u) /\ c.gen < MaxGen
      /\ c # NoConnection
      /\ Cancel(u)
      /\ conn' = [conn EXCEPT ![u] = Blank("disconnected", c.gen + 1)]
      /\ IF c.key # None /\ c.opens
         THEN req' = [req EXCEPT ![r] = [Idle EXCEPT !.pc = "logout", !.user = u,
                                                     !.key = c.key]]
         ELSE UNCHANGED req
      /\ UNCHANGED <<lock, owner>>

LogOut(r) ==
  /\ At(r, "logout")
  /\ owner' = [owner EXCEPT ![req[r].key] = None]
  /\ Done(r)
  /\ UNCHANGED <<conn, scan>>

\* Telegram refuses or times out, or the process dies: the transaction is
\* rolled back.
Fail(r) ==
  /\ ~At(r, "idle")
  /\ Done(r)
  /\ UNCHANGED <<conn, owner, scan>>

-----------------------------------------------------------------------------
(* The scans and deletions that use a connection, under the row's lock.      *)

Usable(c) == c.state = "connected" /\ c.key # None

\* TelegramScanService.start: checks the login with Telegram, and adopts the
\* identity if the row has none.
StartScan(u) ==
  LET c == conn[u]
      id == owner[c.key]
      checked == IF c.identity = id THEN c
                 ELSE IF c.identity = None THEN [c EXCEPT !.identity = id, !.gen = c.gen + 1]
                 ELSE Blank("error", c.gen + 1)
  IN  /\ Usable(c) /\ Unlocked(u) /\ scan[u] = None
      /\ c.opens /\ id # None
      /\ c.identity # id => c.gen < MaxGen
      /\ Usable(checked) => UniqueIndexAllows(u, id)
      /\ conn' = [conn EXCEPT ![u] = checked]
      /\ scan' = IF Usable(checked)
                 THEN [scan EXCEPT ![u] = [gen |-> checked.gen, identity |-> id]]
                 ELSE scan
      /\ UNCHANGED <<lock, req, owner>>

\* A scan or a deletion finds the session unreadable or no longer authorized.
LoseAuthorization(u) ==
  LET c == conn[u]
  IN  /\ Usable(c) /\ Unlocked(u) /\ c.gen < MaxGen
      /\ ~c.opens \/ owner[c.key] = None
      /\ \E state \in {"disconnected", "error"} :
           conn' = [conn EXCEPT ![u] = Blank(state, c.gen + 1)]
      /\ Cancel(u)
      /\ UNCHANGED <<lock, req, owner>>

EndScan(u) ==
  /\ scan[u] # None
  /\ Cancel(u)
  /\ UNCHANGED <<conn, lock, req, owner>>

-----------------------------------------------------------------------------
(* Time, Telegram, and the operator of the server.                           *)

ChallengeExpires(u) ==
  /\ conn[u].code = "live"
  /\ conn' = [conn EXCEPT ![u].code = "over"]
  /\ UNCHANGED <<lock, req, owner, scan>>

\* The user ends the session from another Telegram client.
EndedRemotely(k) ==
  /\ owner[k] # None
  /\ owner' = [owner EXCEPT ![k] = None]
  /\ UNCHANGED <<conn, lock, req, scan>>

\* The master key is replaced or the ciphertexts are damaged.
LoseSecrets(u) ==
  /\ conn[u].key # None /\ conn[u].opens /\ Unlocked(u)
  /\ conn' = [conn EXCEPT ![u].opens = FALSE]
  /\ UNCHANGED <<lock, req, owner, scan>>

RequestStep(r) ==
  \/ StatusErases(r) \/ StatusCancels(r) \/ StatusInvalidates(r)
  \/ StartAuthorized(r) \/ SendCode(r) \/ SignIn(r) \/ AskPassword(r)
  \/ Bind(r) \/ BindConflicts(r) \/ Commit(r) \/ LogOut(r) \/ Fail(r)

Next ==
  \/ \E r \in Requests :
       \/ RequestStep(r)
       \/ \E u \in Users : \/ Status(r, u) \/ Verify(r, u) \/ Disconnect(r, u)
                           \/ \E p \in Ids : Start(r, u, p)
  \/ \E u \in Users : \/ StartScan(u) \/ LoseAuthorization(u) \/ EndScan(u)
                      \/ ChallengeExpires(u) \/ LoseSecrets(u)
  \/ \E k \in Keys : EndedRemotely(k)

Spec == Init /\ [][Next]_vars

-----------------------------------------------------------------------------
(* Properties.                                                               *)

\* Every variable keeps its type, and a lock belongs to a request of its user.
TypeOK ==
  /\ conn \in [Users -> RowType]
  /\ lock \in [Users -> Requests \union {None}]
  /\ req \in [Requests -> RequestType]
  /\ owner \in [Keys -> Ids \union {None}]
  /\ scan \in [Users -> [gen : 0 .. MaxGen, identity : Ids] \union {None}]
  /\ \A u \in Users : lock[u] # None => User(lock[u]) = u

Verified(c) == Usable(c) /\ c.identity # None

\* A verified connection never works with the session of another Telegram
\* account than the one its messages and scans are recorded under.
SessionMatchesIdentity ==
  \A u \in Users :
    LET c == conn[u]
    IN  Verified(c) => owner[c.key] \in {c.identity, None}

\* A log-out that is still to come, of a disconnect or of a conflict, is never
\* that of a session some connection works with.
LogOutSparesConnected ==
  [][\A r \in Requests :
       (LogOut(r) \/ BindConflicts(r))
         => \A u \in Users : Verified(conn[u]) => conn[u].key # req[r].key]_vars

\* A connection passes from one principal to another only with a new
\* generation.
PrincipalsHaveGenerations ==
  [][\A u \in Users :
       LET a == conn[u].identity b == conn'[u].identity
       IN  a # b /\ None \notin {a, b} => conn'[u].gen # conn[u].gen]_vars

\* _erase_expired_challenge: "Crypto-erase stale unauthorized session and phone
\* material".
ErasesOnlyUnauthorized ==
  [][\A r \in Requests : StatusErases(r) => conn[User(r)].state # "connected"]_vars

=============================================================================
