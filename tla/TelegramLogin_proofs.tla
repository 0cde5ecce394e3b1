------------------------ MODULE TelegramLogin_proofs ------------------------
(***************************************************************************)
(* Proofs about TelegramLogin, for any users, accounts, keys and requests. *)
(***************************************************************************)
EXTENDS TelegramLogin, TLAPS

Columns == {"state", "identity", "phone", "key", "code", "password", "opens", "gen"}

Holding == {"dial", "signin", "bind", "commit"}

\* The row is locked, so it still is what was read of it, but for the clock.
Holds(r) ==
  /\ lock[User(r)] = r
  /\ conn[User(r)].key = req[r].key
  /\ conn[User(r)].identity = req[r].read.identity
  /\ conn[User(r)].gen = req[r].read.gen

\* The new key of a request is nobody else's.
Exclusive(r) ==
  /\ owner[req[r].key] = None
  /\ \A u \in Users : conn[u].key # req[r].key
  /\ \A s \in Requests \ {r} : req[s].key # req[r].key

\* What a request has in hand.
HolderOK(r) ==
  req[r].pc \in Holding =>
    /\ req[r].key \in Keys
    /\ Holds(r) \/ (At(r, "dial") /\ Exclusive(r))

SignInOK(r) == At(r, "signin") => conn[User(r)].state = "pending"

CommitOK(r) ==
  LET new == req[r].new
      old == req[r].read
  IN  At(r, "commit") =>
        /\ new.key = req[r].key
        /\ new.identity \in Ids
        /\ owner[new.key] \in {new.identity, None}
        /\ old.identity \in {None, new.identity} \/ new.gen # old.gen

LogOutOK(r) ==
  At(r, "logout") =>
    req[r].key \in Keys /\ \A u \in Users : conn[u].key # req[r].key

RequestOK(r) ==
  /\ At(r, "idle") <=> req[r].user = None
  /\ req[r].pc \in {"corrupt", "invalid"} => req[r].read.gen < MaxGen
  /\ HolderOK(r) /\ SignInOK(r) /\ CommitOK(r) /\ LogOutOK(r)

RequestsInv == \A r \in Requests : RequestOK(r)

\* No two users share a key or a Telegram account.
KeysInv ==
  \A u, v \in Users : conn[u].key # None /\ conn[u].key = conn[v].key => u = v
IdentitiesInv ==
  \A u, v \in Users :
    conn[u].identity # None /\ conn[u].identity = conn[v].identity => u = v

IInv == TypeOK /\ RequestsInv /\ KeysInv /\ IdentitiesInv /\ SessionMatchesIdentity

-----------------------------------------------------------------------------
(* What a step may do to the rows, the keys and the requests.                *)

USE NoneAssumption, MaxGenAssumption

Unmoved(r) == req'[r] = req[r]

SameRow(u) ==
  /\ conn'[u].key = conn[u].key /\ conn'[u].identity = conn[u].identity
  /\ conn'[u].gen = conn[u].gen /\ conn'[u].state = conn[u].state

\* What a request has locked is left alone by the others.
LocksKept ==
  \A s \in Requests : Unmoved(s) =>
    \A u \in Users : lock[u] = s => lock'[u] = s /\ SameRow(u)

\* A row gets its key from the request that has it in hand.
KeyStep ==
  \A u \in Users :
    \/ conn'[u].key \in {conn[u].key, None}
    \/ \E r \in Requests : /\ ~Unmoved(r) /\ req[r].pc \in Holding
                           /\ User(r) = u /\ conn'[u].key = req[r].key

IdentityStep ==
  \A u \in Users :
    \/ conn'[u].identity \in {conn[u].identity, None}
    \/ \A v \in Users \ {u} : /\ conn[v].identity # conn'[u].identity
                              /\ conn'[v].identity = conn[v].identity

SessionStep ==
  \A u \in Users : Verified(conn'[u]) =>
    \/ /\ Verified(conn[u])
       /\ conn'[u].key = conn[u].key /\ conn'[u].identity = conn[u].identity
    \/ owner' = owner /\ owner[conn'[u].key] \in {conn'[u].identity, None}

\* Only a sign-in authorizes a key.
OwnerStep ==
  \A k \in Keys :
    \/ owner'[k] \in {owner[k], None}
    \/ \E r \in Requests : ~Unmoved(r) /\ At(r, "signin") /\ req[r].key = k

KeysStep ==
  \A r \in Requests :
    \/ req'[r].key \in {req[r].key, None} \/ req'[r].key \in Fresh
    \/ \E u \in Users : req'[r].key = conn[u].key

MoversOK == \A r \in Requests : Unmoved(r) \/ RequestOK(r)'

Steady == /\ LocksKept /\ KeyStep /\ IdentityStep /\ SessionStep
          /\ OwnerStep /\ KeysStep /\ MoversOK

\* A locked row has one user and its lock one request.
LEMMA HeldOnce ==
  ASSUME IInv, NEW r \in Requests, NEW s \in Requests,
         req[r].pc \in Holding, req[s].pc \in Holding,
         req[r].key = req[s].key
  PROVE  r = s
  <1>1. HolderOK(r) /\ HolderOK(s)
    BY DEF IInv, RequestsInv, RequestOK
  <1>2. User(r) \in Users /\ User(s) \in Users /\ req[r].key # None
    <2>1. req[r] \in RequestType /\ req[s] \in RequestType
      BY DEF IInv, TypeOK
    <2>2. ~At(r, "idle") /\ ~At(s, "idle")
      BY DEF Holding, At
    <2>3. (At(r, "idle") <=> req[r].user = None) /\ (At(s, "idle") <=> req[s].user = None)
      BY DEF IInv, RequestsInv, RequestOK
    <2>. QED  BY <1>1, <2>1, <2>2, <2>3 DEF RequestType, User, HolderOK
  <1>3. CASE Holds(r) /\ Holds(s)
    <2>1. User(r) = User(s)
      BY <1>2, <1>3 DEF Holds, IInv, KeysInv
    <2>. QED  BY <1>3, <2>1 DEF Holds
  <1>4. CASE Exclusive(r) \/ Exclusive(s)
    BY <1>4 DEF Exclusive
  <1>. QED  BY <1>1, <1>3, <1>4 DEF HolderOK

LEMMA UserOf ==
  ASSUME IInv, NEW r \in Requests, ~At(r, "idle")
  PROVE  User(r) \in Users /\ req[r] \in RequestType
  <1>1. req[r] \in RequestType /\ (At(r, "idle") <=> req[r].user = None)
    BY DEF IInv, TypeOK, RequestsInv, RequestOK
  <1>. QED  BY <1>1 DEF RequestType, User

\* A request that does not move keeps what it has in hand.
LEMMA UnmovedOK ==
  ASSUME IInv, LocksKept, KeyStep, OwnerStep, KeysStep, TypeOK',
         NEW s \in Requests, Unmoved(s)
  PROVE  RequestOK(s)'
  <1>1. RequestOK(s) /\ HolderOK(s) /\ req'[s] = req[s]
    BY DEF IInv, RequestsInv, Unmoved, RequestOK
  <1>2. HolderOK(s)'
    <2>1. SUFFICES ASSUME req[s].pc \in Holding
                   PROVE  /\ req[s].key \in Keys
                          /\ Holds(s)' \/ (At(s, "dial")' /\ Exclusive(s)')
      BY <1>1 DEF HolderOK
    <2>2. req[s].key \in Keys /\ User(s) \in Users /\ req[s].key # None
      <3>1. ~At(s, "idle")
        BY <2>1 DEF Holding, At
      <3>. QED  BY <1>1, <2>1, <3>1, UserOf DEF HolderOK
    <2>3. CASE Holds(s)
      <3>1. lock'[User(s)] = s /\ SameRow(User(s))
        BY <2>2, <2>3 DEF LocksKept, Holds
      <3>. QED  BY <1>1, <2>2, <2>3, <3>1 DEF Holds, SameRow, User
    <2>4. CASE At(s, "dial") /\ Exclusive(s)
      <3>1. owner'[req[s].key] = None
        BY <2>1, <2>2, <2>4, HeldOnce DEF OwnerStep, Exclusive, Holding, At
      <3>2. ASSUME NEW u \in Users PROVE conn'[u].key # req[s].key
        BY <2>1, <2>2, <2>4, HeldOnce DEF KeyStep, Exclusive
      <3>3. ASSUME NEW r \in Requests \ {s} PROVE req'[r].key # req[s].key
        BY <2>2, <2>4 DEF KeysStep, Exclusive, Fresh
      <3>4. Exclusive(s)'
        BY <1>1, <3>1, <3>2, <3>3 DEF Exclusive
      <3>. QED  BY <1>1, <2>2, <2>4, <3>4 DEF At
    <2>. QED  BY <1>1, <2>1, <2>2, <2>3, <2>4 DEF HolderOK
  <1>3. SignInOK(s)' /\ CommitOK(s)'
    <2>1. ASSUME At(s, "signin") \/ At(s, "commit")
          PROVE  /\ Holds(s) /\ User(s) \in Users /\ SameRow(User(s))
                 /\ req[s].key \in Keys /\ req[s].pc \in Holding
      <3>1. User(s) \in Users /\ Holds(s) /\ req[s].key \in Keys /\ req[s].pc \in Holding
        BY <1>1, <2>1, UserOf DEF RequestOK, HolderOK, Holding, At
      <3>. QED  BY <3>1 DEF LocksKept, Holds
    <2>2. SignInOK(s)'
      BY <1>1, <2>1 DEF RequestOK, SignInOK, SameRow, At, User
    <2>3. ASSUME At(s, "commit")
          PROVE  owner'[req[s].new.key] \in {req[s].new.identity, None}
      <3>1. req[s].new.key = req[s].key /\ owner[req[s].key] \in {req[s].new.identity, None}
        BY <1>1, <2>3 DEF RequestOK, CommitOK
      <3>2. \/ owner'[req[s].key] \in {owner[req[s].key], None}
            \/ \E r \in Requests : ~Unmoved(r) /\ At(r, "signin") /\ req[r].key = req[s].key
        BY <2>1, <2>3 DEF OwnerStep
      <3>3. \A r \in Requests : At(r, "signin") => req[r].key # req[s].key
        <4>1. ASSUME NEW r \in Requests, At(r, "signin"), req[r].key = req[s].key
              PROVE  FALSE
          <5>1. r = s
            BY <2>1, <2>3, <4>1, HeldOnce DEF Holding, At
          <5>. QED  BY <2>3, <4>1, <5>1 DEF At
        <4>. QED  BY <4>1
      <3>. QED  BY <3>1, <3>2, <3>3
    <2>4. CommitOK(s)'
      BY <1>1, <2>3 DEF RequestOK, CommitOK, At
    <2>. QED  BY <2>2, <2>4
  <1>4. LogOutOK(s)'
    <2>1. SUFFICES ASSUME At(s, "logout"), NEW u \in Users, conn'[u].key = req[s].key
                   PROVE  FALSE
      BY <1>1 DEF RequestOK, LogOutOK, At
    <2>2. req[s].key \in Keys /\ \A v \in Users : conn[v].key # req[s].key
      BY <1>1, <2>1 DEF RequestOK, LogOutOK
    <2>3. req[s].key # None
      BY <2>2
    <2>4. CASE \E r \in Requests : /\ req[r].pc \in Holding
                                   /\ User(r) = u /\ req[r].key = req[s].key
      <3>1. PICK r \in Requests : /\ req[r].pc \in Holding
                                  /\ User(r) = u /\ req[r].key = req[s].key
        BY <2>4
      <3>2. r # s
        BY <2>1, <3>1 DEF At, Holding
      <3>3. HolderOK(r)
        BY DEF IInv, RequestsInv, RequestOK
      <3>. QED  BY <2>1, <2>2, <3>1, <3>2, <3>3 DEF HolderOK, Holds, Exclusive
    <2>. QED  BY <2>1, <2>2, <2>3, <2>4 DEF KeyStep
  <1>. QED  BY <1>1, <1>2, <1>3, <1>4 DEF RequestOK, At

LEMMA KeysKept ==
  ASSUME IInv, KeyStep PROVE KeysInv'
  <1>1. SUFFICES ASSUME NEW u \in Users, NEW v \in Users, u # v,
                        conn'[u].key # None, conn'[u].key = conn'[v].key
                 PROVE  FALSE
    BY DEF KeysInv
  <1>. DEFINE k == conn'[u].key
             Own(w) == conn[w].key = k
             Given(w) == \E r \in Requests :
                /\ req[r].pc \in Holding /\ User(r) = w /\ req[r].key = k
  <1>2. (Own(u) \/ Given(u)) /\ (Own(v) \/ Given(v))
    BY <1>1 DEF KeyStep
  <1>3. ASSUME NEW w \in Users, NEW x \in Users, w # x, Own(w)
        PROVE  ~Own(x) /\ ~Given(x)
    <2>1. ~Own(x)
      BY <1>1, <1>3 DEF IInv, KeysInv
    <2>2. ASSUME NEW r \in Requests, req[r].pc \in Holding, User(r) = x,
                 req[r].key = k
          PROVE  FALSE
      <3>1. HolderOK(r)
        BY DEF IInv, RequestsInv, RequestOK
      <3>. QED  BY <1>1, <1>3, <2>1, <2>2, <3>1 DEF HolderOK, Holds, Exclusive
    <2>. QED  BY <2>1, <2>2
  <1>4. ~(Given(u) /\ Given(v))
    BY <1>1, HeldOnce
  <1>. QED  BY <1>1, <1>2, <1>3, <1>4

LEMMA IdentitiesKept ==
  ASSUME IInv, IdentityStep PROVE IdentitiesInv'
  BY DEF IInv, IdentitiesInv, IdentityStep

LEMMA SessionKept ==
  ASSUME IInv, TypeOK', OwnerStep, SessionStep PROVE SessionMatchesIdentity'
  <1>1. SUFFICES ASSUME NEW u \in Users, Verified(conn'[u])
                 PROVE  owner'[conn'[u].key] \in {conn'[u].identity, None}
    BY DEF SessionMatchesIdentity, Verified, Usable
  <1>2. CASE owner' = owner /\ owner[conn'[u].key] \in {conn'[u].identity, None}
    BY <1>2
  <1>3. CASE /\ Verified(conn[u])
             /\ conn'[u].key = conn[u].key /\ conn'[u].identity = conn[u].identity
    <2>. DEFINE k == conn[u].key
    <2>1. owner[k] \in {conn[u].identity, None}
      BY <1>3 DEF IInv, SessionMatchesIdentity
    <2>2. k \in Keys /\ conn[u].state = "connected" /\ k # None
      <3>1. conn[u] \in RowType
        BY DEF IInv, TypeOK
      <3>. QED  BY <1>3, <3>1 DEF Verified, Usable, RowType
    <2>3. ASSUME NEW r \in Requests, At(r, "signin"), req[r].key = k
          PROVE  FALSE
      <3>1. HolderOK(r) /\ SignInOK(r)
        BY DEF IInv, RequestsInv, RequestOK
      <3>2. Holds(r) /\ conn[User(r)].state = "pending"
        BY <2>3, <3>1 DEF HolderOK, SignInOK, At, Holding
      <3>3. User(r) \in Users
        BY <2>3, UserOf DEF At
      <3>4. User(r) = u
        BY <2>2, <2>3, <3>2, <3>3 DEF Holds, IInv, KeysInv
      <3>. QED  BY <2>2, <3>2, <3>4
    <2>. QED  BY <1>3, <2>1, <2>2, <2>3 DEF OwnerStep
  <1>. QED  BY <1>1, <1>2, <1>3 DEF SessionStep

LEMMA SteadyInv ==
  ASSUME IInv, TypeOK', Steady PROVE IInv'
  <1>1. ASSUME NEW r \in Requests PROVE RequestOK(r)'
    <2>1. CASE Unmoved(r)
      BY <2>1, UnmovedOK DEF Steady
    <2>2. CASE RequestOK(r)'
      BY <2>2
    <2>. QED  BY <2>1, <2>2 DEF Steady, MoversOK
  <1>2. RequestsInv'
    BY <1>1 DEF RequestsInv
  <1>. QED  BY <1>2, KeysKept, IdentitiesKept, SessionKept DEF Steady, IInv

-----------------------------------------------------------------------------
(* The pieces that steps are made of: one row, and one request.              *)

LEMMA RowFields ==
  ASSUME NEW c \in RowType
  PROVE  /\ c.state \in States /\ c.identity \in Ids \union {None}
         /\ c.phone \in Ids \union {None} /\ c.key \in Keys \union {None}
         /\ c.code \in {"none", "live", "over"} /\ c.password \in BOOLEAN
         /\ c.opens \in BOOLEAN /\ c.gen \in 0 .. MaxGen /\ c.gen \in Nat
  BY DEF RowType

LEMMA BlankTyped ==
  ASSUME NEW state \in States, NEW gen \in 0 .. MaxGen
  PROVE  /\ Blank(state, gen) \in RowType
         /\ Blank(state, gen).key = None /\ Blank(state, gen).identity = None
         /\ Blank(state, gen).state = state /\ Blank(state, gen).gen = gen
  BY DEF Blank, RowType

RowsTyped == conn \in [Users -> RowType]
LocksTyped ==
  /\ lock \in [Users -> Requests \union {None}]
  /\ \A u \in Users : lock[u] # None => User(lock[u]) = u
RequestsTyped == req \in [Requests -> RequestType]
OwnersTyped == owner \in [Keys -> Ids \union {None}]
ScansTyped == scan \in [Users -> [gen : 0 .. MaxGen, identity : Ids] \union {None}]

LEMMA Types ==
  TypeOK <=> RowsTyped /\ LocksTyped /\ RequestsTyped /\ OwnersTyped /\ ScansTyped
  BY DEF TypeOK, RowsTyped, LocksTyped, RequestsTyped, OwnersTyped, ScansTyped

RowsOK == RowsTyped' /\ KeyStep /\ IdentityStep /\ SessionStep

\* A row that may lose its key, its identity, or its connection.
Weaker(w, c) ==
  /\ w.key \in {c.key, None} /\ w.identity \in {c.identity, None}
  /\ w.state = "connected" => c.state = "connected"

LEMMA RowsKept ==
  ASSUME IInv, conn' = conn PROVE RowsOK /\ \A u \in Users : SameRow(u)
  BY DEF IInv, TypeOK, RowsTyped, RowsOK, KeyStep, IdentityStep, SessionStep, SameRow

LEMMA RowWeakened ==
  ASSUME IInv, NEW u \in Users, NEW w \in RowType, Weaker(w, conn[u]),
         conn' = [conn EXCEPT ![u] = w]
  PROVE  /\ RowsOK /\ conn'[u] = w
         /\ \A v \in Users \ {u} : conn'[v] = conn[v] /\ SameRow(v)
  <1>1. /\ conn' \in [Users -> RowType] /\ conn'[u] = w
        /\ \A v \in Users \ {u} : conn'[v] = conn[v]
    BY DEF IInv, TypeOK
  <1>2. \A v \in Users : Weaker(conn'[v], conn[v])
    BY <1>1 DEF Weaker
  <1>3. KeyStep /\ IdentityStep
    BY <1>2 DEF Weaker, KeyStep, IdentityStep
  <1>4. SessionStep
    BY <1>2 DEF Weaker, SessionStep, Verified, Usable
  <1>. QED  BY <1>1, <1>3, <1>4 DEF RowsOK, RowsTyped, SameRow

\* Which columns an UPDATE of the mapper changes.
LEMMA Written ==
  ASSUME IInv, NEW u \in Users, NEW read \in RowType, NEW new \in RowType,
         Write(u, read, new)
  PROVE  /\ conn' = [conn EXCEPT ![u] = conn'[u]] /\ conn'[u] \in RowType
         /\ conn'[u].key = IF new.key # None \/ new.key # read.key
                           THEN new.key ELSE conn[u].key
         /\ conn'[u].identity = IF new.identity # read.identity
                                THEN new.identity ELSE conn[u].identity
         /\ conn'[u].state = IF new.state # read.state
                             THEN new.state ELSE conn[u].state
         /\ conn'[u].gen = IF new.gen # read.gen THEN new.gen ELSE conn[u].gen
  <1>. DEFINE C == Changed(read, new)
              w == [c \in Columns |-> IF c \in C THEN new[c] ELSE conn[u][c]]
  <1>1. DOMAIN NoConnection = Columns
    BY DEF NoConnection, Blank, Columns
  <1>2. conn \in [Users -> RowType]
    BY DEF IInv, TypeOK
  <1>3. conn' = [conn EXCEPT ![u] = w]
    BY <1>1 DEF Write
  <1>4. conn'[u] = w
    BY <1>2, <1>3
  <1>5. /\ "key" \in C <=> new.key # read.key \/ new.key # None
        /\ "identity" \in C <=> new.identity # read.identity
        /\ "state" \in C <=> new.state # read.state
        /\ "gen" \in C <=> new.gen # read.gen
    BY <1>1 DEF Changed, Columns
  <1>. HIDE DEF C
  <1>6. w \in RowType
    BY <1>2 DEF RowType, Columns
  <1>7. /\ w.key = IF "key" \in C THEN new.key ELSE conn[u].key
        /\ w.identity = IF "identity" \in C THEN new.identity ELSE conn[u].identity
        /\ w.state = IF "state" \in C THEN new.state ELSE conn[u].state
        /\ w.gen = IF "gen" \in C THEN new.gen ELSE conn[u].gen
    BY DEF Columns
  <1>. QED  BY <1>3, <1>4, <1>5, <1>6, <1>7

OthersWait(r) == \A s \in Requests \ {r} : Unmoved(s)
LocksLast(r) ==
  \A s \in Requests \ {r} : \A u \in Users : lock[u] = s => lock'[u] = s

\* Request r goes on, comes to its end, or begins.
Turn(r) ==
  /\ RequestsTyped' /\ LocksTyped'
  /\ OthersWait(r) /\ LocksLast(r) /\ KeysStep

LEMMA IdleTyped == Idle \in RequestType /\ Idle.pc = "idle" /\ Idle.user = None
                   /\ Idle.key = None /\ Idle.read \in RowType /\ Idle.new \in RowType
  <1>1. NoConnection \in RowType
    BY BlankTyped DEF NoConnection, States
  <1>. QED  BY <1>1 DEF Idle, RequestType, Steps

LEMMA GoesOn ==
  ASSUME IInv, NEW r \in Requests, NEW x \in RequestType,
         x.user = req[r].user, x.key = req[r].key,
         req' = [req EXCEPT ![r] = x], lock' = lock
  PROVE  Turn(r) /\ req'[r] = x
  <1>1. /\ req' \in [Requests -> RequestType] /\ req'[r] = x
        /\ \A s \in Requests \ {r} : req'[s] = req[s]
    BY DEF IInv, TypeOK
  <1>2. \A s \in Requests : req'[s].user = req[s].user /\ req'[s].key = req[s].key
    BY <1>1
  <1>3. LocksTyped'
    BY <1>2 DEF LocksTyped, IInv, TypeOK, User
  <1>. QED
    BY <1>1, <1>2, <1>3 DEF Turn, RequestsTyped, OthersWait, LocksLast, KeysStep, Unmoved

LEMMA Ends ==
  ASSUME IInv, NEW r \in Requests, Done(r)
  PROVE  /\ Turn(r) /\ req'[r] = Idle /\ RequestOK(r)'
         /\ \A u \in Users : lock[u] # r => lock'[u] = lock[u]
  <1>1. /\ req' \in [Requests -> RequestType] /\ req'[r] = Idle
        /\ \A s \in Requests \ {r} : req'[s] = req[s]
    BY IdleTyped DEF IInv, TypeOK, Done
  <1>2. \A u \in Users : lock'[u] = IF lock[u] = r THEN None ELSE lock[u]
    BY DEF Done
  <1>3. lock' \in [Users -> Requests \union {None}]
    BY DEF Done, IInv, TypeOK
  <1>4. LocksTyped'
    <2>1. ASSUME NEW u \in Users, lock'[u] # None
          PROVE  req'[lock'[u]].user = u
      <3>1. lock'[u] = lock[u] /\ lock[u] \in Requests \ {r} /\ req[lock[u]].user = u
        BY <1>2, <1>3, <2>1 DEF IInv, TypeOK, User
      <3>. QED  BY <1>1, <3>1
    <2>. QED  BY <1>3, <2>1 DEF LocksTyped, User
  <1>5. RequestOK(r)'
    BY <1>1, IdleTyped DEF RequestOK, HolderOK, SignInOK, CommitOK, LogOutOK, At, Holding
  <1>6. KeysStep
    BY <1>1, IdleTyped DEF KeysStep
  <1>. QED
    BY <1>1, <1>2, <1>4, <1>5, <1>6 DEF Turn, RequestsTyped, OthersWait, LocksLast, Unmoved

\* The keys that a request may begin with.
KnownKey(k) == k = None \/ k \in Fresh \/ \E v \in Users : k = conn[v].key

LocksAtMost(r, u) ==
  lock' = lock \/ (lock[u] = None /\ lock' = [lock EXCEPT ![u] = r])

Becomes(r, x) == req' = [req EXCEPT ![r] = x]

LEMMA Begins ==
  ASSUME IInv, NEW r \in Requests, At(r, "idle"), NEW u \in Users,
         NEW x \in RequestType, x.user = u, KnownKey(x.key),
         Becomes(r, x), LocksAtMost(r, u)
  PROVE  Turn(r) /\ req'[r] = x /\ \A v \in Users : lock[v] # r
  <1>1. /\ req' \in [Requests -> RequestType] /\ req'[r] = x
        /\ \A s \in Requests \ {r} : req'[s] = req[s]
    BY DEF IInv, TypeOK, Becomes
  <1>2. \A v \in Users : lock[v] # r
    <2>1. req[r].user = None
      BY DEF IInv, RequestsInv, RequestOK
    <2>. QED  BY <2>1 DEF IInv, TypeOK, User
  <1>3. /\ lock' \in [Users -> Requests \union {None}]
        /\ \A v \in Users : lock'[v] = lock[v] \/ (v = u /\ lock[v] = None /\ lock'[v] = r)
    BY DEF IInv, TypeOK, LocksAtMost
  <1>4. LocksTyped'
    <2>1. ASSUME NEW v \in Users, lock'[v] # None
          PROVE  req'[lock'[v]].user = v
      <3>1. CASE lock'[v] = lock[v]
        <4>1. lock[v] \in Requests \ {r} /\ req[lock[v]].user = v
          BY <1>2, <2>1, <3>1 DEF IInv, TypeOK, User
        <4>. QED  BY <1>1, <3>1, <4>1
      <3>2. CASE v = u /\ lock'[v] = r
        BY <1>1, <3>2
      <3>. QED  BY <1>3, <3>1, <3>2
    <2>. QED  BY <1>3, <2>1 DEF LocksTyped, User
  <1>5. KeysStep
    BY <1>1 DEF KeysStep, KnownKey
  <1>6. LocksLast(r)
    BY <1>3 DEF LocksLast
  <1>. QED
    BY <1>1, <1>2, <1>4, <1>5, <1>6 DEF Turn, RequestsTyped, OthersWait, Unmoved

LEMMA NobodyMoves ==
  ASSUME IInv, req' = req, lock' = lock
  PROVE  /\ RequestsTyped' /\ LocksTyped' /\ KeysStep
         /\ \A r \in Requests : Unmoved(r)
  BY DEF IInv, TypeOK, RequestsTyped, LocksTyped, KeysStep, Unmoved, User

LEMMA OwnersKept ==
  ASSUME IInv, \/ owner' = owner
               \/ \E k \in Keys : owner' = [owner EXCEPT ![k] = None]
  PROVE  OwnerStep /\ OwnersTyped'
  BY DEF IInv, TypeOK, OwnerStep, OwnersTyped

LEMMA ScansKept ==
  ASSUME IInv, scan' = scan \/ \E u \in Users : Cancel(u)
  PROVE  ScansTyped'
  BY DEF IInv, TypeOK, ScansTyped, Cancel

\* A step of one request, or of none, that leaves the locked rows of others.
LEMMA TurnInv ==
  ASSUME IInv, NEW r \in Requests, Turn(r), RequestOK(r)', RowsOK, OwnerStep,
         OwnersTyped', ScansTyped',
         \A u \in Users : SameRow(u) \/ lock[u] \in {None, r},
         \A u \in Users : Unmoved(r) => SameRow(u) /\ lock'[u] = lock[u]
  PROVE  IInv'
  <1>1. LocksKept
    <2>1. ASSUME NEW s \in Requests, Unmoved(s), NEW u \in Users, lock[u] = s
          PROVE  lock'[u] = s /\ SameRow(u)
      <3>1. CASE s = r
        BY <2>1, <3>1
      <3>2. CASE s # r
        BY <2>1, <3>2 DEF Turn, LocksLast
      <3>. QED  BY <3>1, <3>2
    <2>. QED  BY <2>1 DEF LocksKept
  <1>2. MoversOK
    BY DEF MoversOK, Turn, OthersWait
  <1>3. TypeOK'
    BY Types, PTL DEF Turn, RowsOK
  <1>. QED  BY <1>1, <1>2, <1>3, SteadyInv DEF Steady, Turn, RowsOK

LEMMA StillInv ==
  ASSUME IInv, req' = req, lock' = lock, RowsOK, OwnerStep, OwnersTyped', ScansTyped',
         \A u \in Users : SameRow(u) \/ Unlocked(u)
  PROVE  IInv'
  <1>1. /\ RequestsTyped' /\ LocksTyped' /\ KeysStep
        /\ \A r \in Requests : Unmoved(r)
    BY NobodyMoves
  <1>2. LocksKept
    BY DEF LocksKept, Unlocked
  <1>3. MoversOK
    BY <1>1 DEF MoversOK
  <1>4. TypeOK'
    BY <1>1, Types, PTL DEF RowsOK
  <1>. QED  BY <1>1, <1>2, <1>3, <1>4, SteadyInv DEF Steady, RowsOK

-----------------------------------------------------------------------------
(* The requests, one step after the other.                                   *)

LEMMA InHand ==
  ASSUME IInv, NEW r \in Requests, ~At(r, "idle")
  PROVE  /\ User(r) \in Users /\ req[r] \in RequestType /\ RequestOK(r)
         /\ req[r].read \in RowType /\ req[r].new \in RowType
         /\ req[r].user # None
  <1>1. User(r) \in Users /\ req[r] \in RequestType /\ RequestOK(r)
    BY UserOf DEF IInv, RequestsInv
  <1>. QED  BY <1>1 DEF RequestType, User

LEMMA ErasedTyped ==
  ASSUME NEW c \in RowType
  PROVE  /\ Erased(c) \in RowType /\ Erased(c).key = None /\ Erased(c).identity = None
         /\ Erased(c).state = "disconnected"
         /\ c.gen < MaxGen =>
              /\ Invalid(c) \in RowType /\ Invalid(c).key = None
              /\ Invalid(c).identity = None /\ Invalid(c).state = "error"
  <1>1. c.gen \in 0 .. MaxGen /\ (c.gen < MaxGen => c.gen + 1 \in 0 .. MaxGen)
    BY RowFields
  <1>. QED  BY <1>1, BlankTyped DEF Erased, Invalid, States

\* A late write of a row without secrets.
LEMMA WrittenBlank ==
  ASSUME IInv, NEW u \in Users, NEW read \in RowType, NEW new \in RowType,
         new.key = None, new.identity = None, new.state \in {"disconnected", "error"},
         Write(u, read, new)
  PROVE  RowsOK /\ \A v \in Users \ {u} : SameRow(v)
  <1>. DEFINE w == conn'[u]
  <1>1. /\ conn' = [conn EXCEPT ![u] = w] /\ w \in RowType
        /\ w.key \in {conn[u].key, None} /\ w.identity \in {conn[u].identity, None}
        /\ w.state \in {conn[u].state, "disconnected", "error"}
    BY Written
  <1>2. Weaker(w, conn[u])
    BY <1>1 DEF Weaker
  <1>. HIDE DEF w
  <1>. QED  BY <1>1, <1>2, RowWeakened

LEMMA StatusErasesInv ==
  ASSUME IInv, NEW r \in Requests, StatusErases(r) PROVE IInv'
  <1>1. /\ At(r, "expired") /\ Unlocked(User(r)) /\ Done(r)
        /\ Write(User(r), req[r].read, Erased(req[r].read))
        /\ owner' = owner /\ scan' = scan
    BY DEF StatusErases
  <1>2. User(r) \in Users /\ req[r].read \in RowType
    BY <1>1, InHand DEF At
  <1>3. RowsOK /\ \A v \in Users \ {User(r)} : SameRow(v)
    BY <1>1, <1>2, WrittenBlank, ErasedTyped
  <1>4. Turn(r) /\ RequestOK(r)' /\ req'[r].pc = "idle"
    BY <1>1, Ends, IdleTyped
  <1>5. ~Unmoved(r)
    BY <1>1, <1>4 DEF Unmoved, At
  <1>. QED
    BY <1>1, <1>2, <1>3, <1>4, <1>5, OwnersKept, ScansKept, TurnInv DEF Unlocked

LEMMA StatusInvalidatesInv ==
  ASSUME IInv, NEW r \in Requests, StatusInvalidates(r) PROVE IInv'
  <1>1. /\ At(r, "invalid") /\ Unlocked(User(r)) /\ Done(r)
        /\ Write(User(r), req[r].read, Invalid(req[r].read))
        /\ owner' = owner /\ scan' = scan
    BY DEF StatusInvalidates
  <1>2. User(r) \in Users /\ req[r].read \in RowType /\ req[r].read.gen < MaxGen
    BY <1>1, InHand DEF At, RequestOK
  <1>3. RowsOK /\ \A v \in Users \ {User(r)} : SameRow(v)
    BY <1>1, <1>2, WrittenBlank, ErasedTyped
  <1>4. Turn(r) /\ RequestOK(r)' /\ req'[r].pc = "idle"
    BY <1>1, Ends, IdleTyped
  <1>5. ~Unmoved(r)
    BY <1>1, <1>4 DEF Unmoved, At
  <1>. QED
    BY <1>1, <1>2, <1>3, <1>4, <1>5, OwnersKept, ScansKept, TurnInv DEF Unlocked

\* A request moves to another step and nothing else moves.
LEMMA StepInv ==
  ASSUME IInv, NEW r \in Requests, ~At(r, "idle"), NEW x \in RequestType,
         x.user = req[r].user, x.key = req[r].key, x.pc # req[r].pc,
         req' = [req EXCEPT ![r] = x], RequestOK(r)',
         lock' = lock, conn' = conn, OwnerStep, OwnersTyped', ScansTyped'
  PROVE  IInv'
  <1>1. Turn(r) /\ req'[r] = x
    BY GoesOn
  <1>2. ~Unmoved(r)
    BY <1>1 DEF Unmoved
  <1>. QED  BY <1>1, <1>2, RowsKept, TurnInv

\* A request ends and the rows stay as they are.
LEMMA EndInv ==
  ASSUME IInv, NEW r \in Requests, ~At(r, "idle"), Done(r), conn' = conn,
         OwnerStep, OwnersTyped', ScansTyped'
  PROVE  IInv'
  <1>1. Turn(r) /\ RequestOK(r)' /\ req'[r].pc = "idle"
    BY Ends, IdleTyped
  <1>2. ~Unmoved(r)
    BY <1>1 DEF Unmoved, At
  <1>. QED  BY <1>1, <1>2, RowsKept, TurnInv

LEMMA StatusCancelsInv ==
  ASSUME IInv, NEW r \in Requests, StatusCancels(r) PROVE IInv'
  <1>. DEFINE x == [req[r] EXCEPT !.pc = "invalid"]
  <1>1. /\ At(r, "corrupt") /\ Cancel(User(r)) /\ req' = [req EXCEPT ![r] = x]
        /\ conn' = conn /\ lock' = lock /\ owner' = owner
    BY DEF StatusCancels
  <1>2. User(r) \in Users /\ req[r] \in RequestType /\ RequestOK(r) /\ ~At(r, "idle")
    BY <1>1, InHand DEF At
  <1>3. /\ x \in RequestType /\ x.user = req[r].user /\ x.key = req[r].key
        /\ x.pc = "invalid" /\ x.read = req[r].read
    BY <1>2 DEF RequestType, Steps
  <1>. HIDE DEF x
  <1>4. req'[r] = x
    BY <1>1 DEF IInv, TypeOK
  <1>5. RequestOK(r)'
    BY <1>1, <1>2, <1>3, <1>4
       DEF RequestOK, HolderOK, SignInOK, CommitOK, LogOutOK, At, Holding
  <1>6. OwnerStep /\ OwnersTyped' /\ ScansTyped'
    BY <1>1, <1>2, OwnersKept, ScansKept
  <1>7. x.pc # req[r].pc
    BY <1>1, <1>3 DEF At
  <1>. QED  BY <1>1, <1>2, <1>3, <1>5, <1>6, <1>7, StepInv

\* A request that has the row locked and moves on to its binding.
LEMMA ReadyToBind ==
  ASSUME IInv, NEW r \in Requests, req[r].pc \in Holding, Holds(r),
         req' = [req EXCEPT ![r].pc = "bind"], lock' = lock, conn' = conn
  PROVE  RequestOK(r)'
  <1>. DEFINE x == [req[r] EXCEPT !.pc = "bind"]
  <1>1. ~At(r, "idle")
    BY DEF At, Holding
  <1>2. /\ User(r) \in Users /\ req[r] \in RequestType /\ HolderOK(r)
        /\ req[r].user # None
    BY <1>1, InHand DEF RequestOK
  <1>3. /\ x.user = req[r].user /\ x.key = req[r].key /\ x.pc = "bind"
        /\ x.read = req[r].read
    BY <1>2 DEF RequestType
  <1>4. req'[r] = x
    BY DEF IInv, TypeOK
  <1>. HIDE DEF x
  <1>5. Holds(r)' /\ req'[r].key \in Keys
    BY <1>2, <1>3, <1>4 DEF Holds, User, HolderOK
  <1>. QED
    BY <1>2, <1>3, <1>4, <1>5
       DEF RequestOK, HolderOK, SignInOK, CommitOK, LogOutOK, At

LEMMA StartAuthorizedInv ==
  ASSUME IInv, NEW r \in Requests, StartAuthorized(r) PROVE IInv'
  <1>. DEFINE x == [req[r] EXCEPT !.pc = "bind"]
  <1>1. /\ At(r, "dial") /\ ~At(r, "idle") /\ owner[req[r].key] # None
        /\ conn' = conn /\ owner' = owner /\ scan' = scan
        /\ Done(r) \/ (req' = [req EXCEPT ![r] = x] /\ lock' = lock)
    BY DEF StartAuthorized, At
  <1>2. OwnerStep /\ OwnersTyped' /\ ScansTyped'
    BY <1>1, OwnersKept, ScansKept
  <1>3. CASE Done(r)
    BY <1>1, <1>2, <1>3, EndInv
  <1>4. CASE req' = [req EXCEPT ![r] = x] /\ lock' = lock
    <2>1. req[r] \in RequestType /\ HolderOK(r) /\ req[r].pc \in Holding
      BY <1>1, InHand DEF RequestOK, At, Holding
    <2>2. Holds(r)
      BY <1>1, <2>1 DEF HolderOK, Exclusive
    <2>3. RequestOK(r)'
      BY <1>1, <1>4, <2>1, <2>2, ReadyToBind
    <2>4. /\ x \in RequestType /\ x.user = req[r].user /\ x.key = req[r].key
          /\ x.pc # req[r].pc
      BY <1>1, <2>1 DEF RequestType, Steps, At
    <2>. HIDE DEF x
    <2>. QED  BY <1>1, <1>2, <1>4, <2>3, <2>4, StepInv
  <1>. QED  BY <1>1, <1>3, <1>4

LEMMA SignInInv ==
  ASSUME IInv, NEW r \in Requests, SignIn(r) PROVE IInv'
  <1>. DEFINE x == [req[r] EXCEPT !.pc = "bind"]
  <1>1. /\ At(r, "signin") /\ ~At(r, "idle") /\ req[r].read.phone # None
        /\ owner' = [owner EXCEPT ![req[r].key] = req[r].read.phone]
        /\ req' = [req EXCEPT ![r] = x]
        /\ conn' = conn /\ lock' = lock /\ scan' = scan
    BY DEF SignIn, At
  <1>2. /\ req[r] \in RequestType /\ HolderOK(r) /\ req[r].pc \in Holding
        /\ req[r].read \in RowType
    BY <1>1, InHand DEF RequestOK, At, Holding
  <1>3. Holds(r) /\ req[r].key \in Keys /\ req[r].read.phone \in Ids
    BY <1>1, <1>2, RowFields DEF HolderOK, At
  <1>4. RequestOK(r)'
    BY <1>1, <1>2, <1>3, ReadyToBind
  <1>5. /\ x \in RequestType /\ x.user = req[r].user /\ x.key = req[r].key
        /\ x.pc # req[r].pc
    BY <1>1, <1>2 DEF RequestType, Steps, At
  <1>6. req'[r] # req[r]
    BY <1>1, <1>5 DEF IInv, TypeOK
  <1>. HIDE DEF x
  <1>7. OwnersTyped' /\ OwnerStep
    BY <1>1, <1>3, <1>6 DEF OwnersTyped, OwnerStep, Unmoved, IInv, TypeOK
  <1>. QED  BY <1>1, <1>4, <1>5, <1>7, ScansKept, StepInv

LEMMA AskPasswordInv ==
  ASSUME IInv, NEW r \in Requests, AskPassword(r) PROVE IInv'
  <1>1. /\ At(r, "signin") /\ ~At(r, "idle") /\ Done(r)
        /\ conn' = [conn EXCEPT ![User(r)].password = TRUE]
        /\ owner' = owner /\ scan' = scan
    BY DEF AskPassword, At
  <1>2. User(r) \in Users
    BY <1>1, InHand
  <1>. DEFINE w == [conn[User(r)] EXCEPT !.password = TRUE]
  <1>3. /\ w \in RowType /\ w.key = conn[User(r)].key
        /\ w.identity = conn[User(r)].identity /\ w.state = conn[User(r)].state
        /\ w.gen = conn[User(r)].gen
    <2>1. conn[User(r)] \in RowType
      BY <1>2 DEF IInv, TypeOK
    <2>. QED  BY <2>1 DEF RowType
  <1>4. conn' = [conn EXCEPT ![User(r)] = w]
    BY <1>1
  <1>. HIDE DEF w
  <1>5. Weaker(w, conn[User(r)])
    BY <1>3 DEF Weaker
  <1>6. RowsOK /\ \A v \in Users : SameRow(v)
    BY <1>2, <1>3, <1>4, <1>5, RowWeakened DEF SameRow
  <1>7. Turn(r) /\ RequestOK(r)' /\ req'[r].pc = "idle"
    BY <1>1, Ends, IdleTyped
  <1>8. ~Unmoved(r)
    BY <1>1, <1>7 DEF Unmoved, At
  <1>. QED  BY <1>1, <1>6, <1>7, <1>8, OwnersKept, ScansKept, TurnInv

LEMMA BoundTyped ==
  ASSUME NEW r \in Requests, req[r] \in RequestType, req[r].read \in RowType,
         NEW id \in Ids, req[r].key \in Keys,
         NewGeneration(req[r].read, id) => req[r].read.gen < MaxGen
  PROVE  /\ Bound(r, id) \in RowType /\ Bound(r, id).key = req[r].key
         /\ Bound(r, id).identity = id /\ Bound(r, id).state = "connected"
         /\ req[r].read.identity \in {None, id} \/ Bound(r, id).gen # req[r].read.gen
  <1>. DEFINE c == req[r].read
  <1>1. c.gen \in 0 .. MaxGen /\ c.gen \in Nat /\ c.phone \in Ids \union {None}
    BY RowFields
  <1>2. CASE NewGeneration(c, id)
    <2>1. c.gen + 1 \in 0 .. MaxGen /\ c.gen + 1 # c.gen
      BY <1>1, <1>2
    <2>. QED  BY <1>1, <1>2, <2>1 DEF Bound, RowType, States
  <1>3. CASE ~NewGeneration(c, id)
    <2>1. c.identity \in {None, id}
      BY <1>3 DEF NewGeneration
    <2>. QED  BY <1>1, <1>3, <2>1 DEF Bound, RowType, States
  <1>. QED  BY <1>2, <1>3

LEMMA BindInv ==
  ASSUME IInv, NEW r \in Requests, Bind(r) PROVE IInv'
  <1>. DEFINE id == owner[req[r].key]
              x == [req[r] EXCEPT !.pc = "commit", !.new = Bound(r, id)]
  <1>1. /\ At(r, "bind") /\ ~At(r, "idle") /\ id # None
        /\ NewGeneration(req[r].read, id) => req[r].read.gen < MaxGen
        /\ req' = [req EXCEPT ![r] = x]
        /\ conn' = conn /\ lock' = lock /\ scan' = scan /\ owner' = owner
    BY DEF Bind, At
  <1>2. /\ req[r] \in RequestType /\ HolderOK(r) /\ req[r].pc \in Holding
        /\ req[r].read \in RowType /\ User(r) \in Users /\ req[r].user # None
    BY <1>1, InHand DEF RequestOK, At, Holding
  <1>3. Holds(r) /\ req[r].key \in Keys
    BY <1>1, <1>2 DEF HolderOK, At
  <1>4. id \in Ids
    BY <1>1, <1>3 DEF IInv, TypeOK
  <1>5. /\ Bound(r, id) \in RowType /\ Bound(r, id).key = req[r].key
        /\ Bound(r, id).identity = id
        /\ req[r].read.identity \in {None, id} \/ Bound(r, id).gen # req[r].read.gen
    BY <1>1, <1>2, <1>3, <1>4, BoundTyped
  <1>6. /\ x \in RequestType /\ x.user = req[r].user /\ x.key = req[r].key
        /\ x.pc = "commit" /\ x.read = req[r].read /\ x.new = Bound(r, id)
    BY <1>2, <1>5 DEF RequestType, Steps
  <1>7. x.pc # req[r].pc
    BY <1>1, <1>6 DEF At
  <1>8. req'[r] = x
    BY <1>1 DEF IInv, TypeOK
  <1>. HIDE DEF x
  <1>9. Holds(r)'
    BY <1>1, <1>3, <1>6, <1>8 DEF Holds, User
  <1>10. CommitOK(r)'
    BY <1>1, <1>4, <1>5, <1>6, <1>8 DEF CommitOK
  <1>11. RequestOK(r)'
    BY <1>2, <1>3, <1>6, <1>8, <1>9, <1>10
       DEF RequestOK, HolderOK, SignInOK, LogOutOK, At
  <1>. QED  BY <1>1, <1>6, <1>7, <1>11, OwnersKept, ScansKept, StepInv

LEMMA QuietEndInv ==
  ASSUME IInv, NEW r \in Requests, BindConflicts(r) \/ LogOut(r) \/ Fail(r)
  PROVE  IInv'
  <1>1. ~At(r, "idle") /\ Done(r) /\ conn' = conn /\ scan' = scan
    BY DEF BindConflicts, LogOut, Fail, At
  <1>2. RequestOK(r)
    BY <1>1, InHand
  <1>3. owner' = owner \/ \E k \in Keys : owner' = [owner EXCEPT ![k] = None]
    BY <1>2 DEF BindConflicts, LogOut, Fail, RequestOK, HolderOK, LogOutOK, At, Holding
  <1>. QED  BY <1>1, <1>3, OwnersKept, ScansKept, EndInv

\* A request writes the row of its user with the key that it has in hand.
LEMMA RowGiven ==
  ASSUME IInv, NEW r \in Requests, ~Unmoved(r), req[r].pc \in Holding,
         User(r) \in Users, NEW w \in RowType,
         conn' = [conn EXCEPT ![User(r)] = w], owner' = owner,
         w.key = req[r].key, owner[w.key] \in {w.identity, None},
         \/ w.identity \in {conn[User(r)].identity, None}
         \/ \A v \in Users \ {User(r)} : conn[v].identity # w.identity
  PROVE  RowsOK /\ \A v \in Users \ {User(r)} : SameRow(v)
  <1>. DEFINE u == User(r)
  <1>1. /\ conn' \in [Users -> RowType] /\ conn'[u] = w
        /\ \A v \in Users \ {u} : conn'[v] = conn[v]
    BY DEF IInv, TypeOK
  <1>2. \A v \in Users \ {u} : SameRow(v)
    BY <1>1 DEF SameRow
  <1>3. KeyStep
    BY <1>1 DEF KeyStep
  <1>4. IdentityStep
    BY <1>1 DEF IdentityStep
  <1>5. SessionStep
    BY <1>1 DEF SessionStep
  <1>. QED  BY <1>1, <1>2, <1>3, <1>4, <1>5 DEF RowsOK, RowsTyped

LEMMA PendingTyped ==
  ASSUME NEW r \in Requests, req[r] \in RequestType, req[r].read \in RowType,
         req[r].key \in Keys, req[r].read.gen < MaxGen
  PROVE  /\ Pending(r) \in RowType /\ Pending(r).key = req[r].key
         /\ Pending(r).identity = None
  <1>1. req[r].read.gen + 1 \in 0 .. MaxGen
    BY RowFields
  <1>2. req[r].phone \in Ids \union {None}
    BY DEF RequestType
  <1>. QED  BY <1>1, <1>2 DEF Pending, RowType, States

LEMMA SendCodeInv ==
  ASSUME IInv, NEW r \in Requests, SendCode(r) PROVE IInv'
  <1>. DEFINE u == User(r)
              new == Pending(r)
              w == conn'[u]
  <1>1. /\ At(r, "dial") /\ ~At(r, "idle") /\ owner[req[r].key] = None
        /\ lock[u] \in {None, r} /\ req[r].read.gen < MaxGen
        /\ Write(u, req[r].read, new) /\ Cancel(u) /\ Done(r) /\ owner' = owner
    BY DEF SendCode, At
  <1>2. /\ req[r] \in RequestType /\ req[r].key \in Keys /\ req[r].pc \in Holding
        /\ req[r].read \in RowType /\ u \in Users
    BY <1>1, InHand DEF RequestOK, HolderOK, At, Holding
  <1>3. new \in RowType /\ new.key = req[r].key /\ new.identity = None
    BY <1>1, <1>2, PendingTyped
  <1>4. Turn(r) /\ RequestOK(r)' /\ req'[r].pc = "idle"
    BY <1>1, Ends, IdleTyped
  <1>5. ~Unmoved(r)
    BY <1>1, <1>4 DEF Unmoved, At
  <1>. HIDE DEF u, new
  <1>6. /\ conn' = [conn EXCEPT ![u] = w] /\ w \in RowType /\ w.key = req[r].key
        /\ w.identity \in {conn[u].identity, None}
    BY <1>1, <1>2, <1>3, Written
  <1>. HIDE DEF w
  <1>7. RowsOK /\ \A v \in Users \ {u} : SameRow(v)
    BY <1>1, <1>2, <1>5, <1>6, RowGiven DEF u
  <1>8. OwnerStep /\ OwnersTyped' /\ ScansTyped'
    BY <1>1, <1>2, OwnersKept, ScansKept
  <1>. QED  BY <1>1, <1>4, <1>5, <1>7, <1>8, TurnInv

LEMMA CommitInv ==
  ASSUME IInv, NEW r \in Requests, Commit(r) PROVE IInv'
  <1>. DEFINE u == User(r)
              new == req[r].new
              w == conn'[u]
  <1>1. /\ At(r, "commit") /\ ~At(r, "idle") /\ Done(r) /\ owner' = owner
        /\ scan' = scan \/ Cancel(u)
        /\ \/ Write(u, req[r].read, new) /\ ~TakenByAnother(u, new.identity)
           \/ conn' = conn
    BY DEF Commit, At, UniqueIndexAllows
  <1>2. /\ HolderOK(r) /\ CommitOK(r) /\ req[r].pc \in Holding
        /\ req[r].read \in RowType /\ new \in RowType /\ u \in Users
    BY <1>1, InHand DEF RequestOK, At, Holding
  <1>3. /\ Holds(r) /\ req[r].key \in Keys /\ new.key = req[r].key
        /\ owner[new.key] \in {new.identity, None}
    BY <1>1, <1>2 DEF HolderOK, CommitOK, At
  <1>4. OwnerStep /\ OwnersTyped' /\ ScansTyped'
    BY <1>1, <1>2, OwnersKept, ScansKept
  <1>5. CASE conn' = conn
    BY <1>1, <1>4, <1>5, EndInv
  <1>6. CASE Write(u, req[r].read, new) /\ ~TakenByAnother(u, new.identity)
    <2>1. Turn(r) /\ RequestOK(r)' /\ req'[r].pc = "idle"
      BY <1>1, Ends, IdleTyped
    <2>2. ~Unmoved(r)
      BY <1>1, <2>1 DEF Unmoved, At
    <2>3. lock[u] = r /\ conn[u].identity = req[r].read.identity
      BY <1>3 DEF Holds
    <2>4. \A v \in Users \ {u} : conn[v].identity # new.identity
      BY <1>6 DEF TakenByAnother
    <2>. HIDE DEF u, new
    <2>5. /\ conn' = [conn EXCEPT ![u] = w] /\ w \in RowType /\ w.key = req[r].key
          /\ w.identity = new.identity
      BY <1>2, <1>3, <1>6, <2>3, Written
    <2>. HIDE DEF w
    <2>6. RowsOK /\ \A v \in Users \ {u} : SameRow(v)
      BY <1>1, <1>2, <1>3, <2>2, <2>4, <2>5, RowGiven DEF u
    <2>. QED  BY <1>4, <2>1, <2>2, <2>3, <2>6, TurnInv
  <1>. QED  BY <1>1, <1>5, <1>6

-----------------------------------------------------------------------------
(* Steps that no request takes, and the first step of a request.             *)

LEMMA RowOf ==
  ASSUME IInv, NEW u \in Users
  PROVE  /\ conn[u] \in RowType /\ conn[u].gen \in 0 .. MaxGen
         /\ conn[u].gen < MaxGen => conn[u].gen + 1 \in 0 .. MaxGen
  <1>1. conn[u] \in RowType
    BY DEF IInv, TypeOK
  <1>2. conn[u].gen \in 0 .. MaxGen /\ conn[u].gen \in Nat
    BY <1>1, RowFields
  <1>. QED  BY <1>1, <1>2

\* A row that nobody has locked, or of which only the clock is changed.
LEMMA QuietRowInv ==
  ASSUME IInv, NEW u \in Users, NEW w \in RowType, Weaker(w, conn[u]),
         conn' = [conn EXCEPT ![u] = w], req' = req, lock' = lock, owner' = owner,
         scan' = scan \/ Cancel(u),
         \/ Unlocked(u)
         \/ /\ w.key = conn[u].key /\ w.identity = conn[u].identity
            /\ w.gen = conn[u].gen /\ w.state = conn[u].state
  PROVE  IInv'
  <1>1. /\ RowsOK /\ conn'[u] = w
        /\ \A v \in Users \ {u} : conn'[v] = conn[v] /\ SameRow(v)
    BY RowWeakened
  <1>2. \A v \in Users : SameRow(v) \/ Unlocked(v)
    BY <1>1 DEF SameRow
  <1>. QED  BY <1>1, <1>2, OwnersKept, ScansKept, StillInv

LEMMA BlankWeaker ==
  ASSUME NEW c, NEW w, w.key = None, w.identity = None, w.state # "connected"
  PROVE  Weaker(w, c)
  BY DEF Weaker

LEMMA ChallengeExpiresInv ==
  ASSUME IInv, NEW u \in Users, ChallengeExpires(u) PROVE IInv'
  <1>. DEFINE w == [conn[u] EXCEPT !.code = "over"]
  <1>1. conn[u] \in RowType
    BY RowOf
  <1>2. /\ w \in RowType /\ w.key = conn[u].key /\ w.identity = conn[u].identity
        /\ w.gen = conn[u].gen /\ w.state = conn[u].state
    BY <1>1 DEF RowType
  <1>3. /\ conn' = [conn EXCEPT ![u] = w] /\ req' = req /\ lock' = lock
        /\ owner' = owner /\ scan' = scan
    BY DEF ChallengeExpires
  <1>. HIDE DEF w
  <1>4. Weaker(w, conn[u])
    BY <1>2 DEF Weaker
  <1>. QED  BY <1>2, <1>3, <1>4, QuietRowInv

LEMMA LoseSecretsInv ==
  ASSUME IInv, NEW u \in Users, LoseSecrets(u) PROVE IInv'
  <1>. DEFINE w == [conn[u] EXCEPT !.opens = FALSE]
  <1>1. conn[u] \in RowType
    BY RowOf
  <1>2. /\ w \in RowType /\ w.key = conn[u].key /\ w.identity = conn[u].identity
        /\ w.gen = conn[u].gen /\ w.state = conn[u].state
    BY <1>1 DEF RowType
  <1>3. /\ conn' = [conn EXCEPT ![u] = w] /\ req' = req /\ lock' = lock
        /\ owner' = owner /\ scan' = scan
    BY DEF LoseSecrets
  <1>. HIDE DEF w
  <1>4. Weaker(w, conn[u])
    BY <1>2 DEF Weaker
  <1>. QED  BY <1>2, <1>3, <1>4, QuietRowInv

LEMMA LoseAuthorizationInv ==
  ASSUME IInv, NEW u \in Users, LoseAuthorization(u) PROVE IInv'
  <1>1. PICK state \in {"disconnected", "error"} :
          conn' = [conn EXCEPT ![u] = Blank(state, conn[u].gen + 1)]
    BY DEF LoseAuthorization
  <1>2. /\ Unlocked(u) /\ conn[u].gen + 1 \in 0 .. MaxGen /\ Cancel(u)
        /\ req' = req /\ lock' = lock /\ owner' = owner
    BY RowOf DEF LoseAuthorization
  <1>. DEFINE w == Blank(state, conn[u].gen + 1)
  <1>3. /\ w \in RowType /\ w.key = None /\ w.identity = None /\ w.state # "connected"
    BY <1>2, BlankTyped DEF States
  <1>. HIDE DEF w
  <1>. QED  BY <1>1, <1>2, <1>3, BlankWeaker, QuietRowInv DEF w

LEMMA EndsAloneInv ==
  ASSUME IInv, \/ \E u \in Users : EndScan(u)
               \/ \E k \in Keys : EndedRemotely(k)
  PROVE  IInv'
  <1>1. /\ conn' = conn /\ req' = req /\ lock' = lock
        /\ scan' = scan \/ \E u \in Users : Cancel(u)
        /\ owner' = owner \/ \E k \in Keys : owner' = [owner EXCEPT ![k] = None]
    BY DEF EndScan, EndedRemotely
  <1>. QED  BY <1>1, RowsKept, OwnersKept, ScansKept, StillInv

\* The check before a scan adopts an identity that no other account has.
LEMMA StartScanInv ==
  ASSUME IInv, NEW u \in Users, StartScan(u) PROVE IInv'
  <1>. DEFINE c == conn[u]
              id == owner[c.key]
              w == IF c.identity = id THEN c
                   ELSE IF c.identity = None
                        THEN [c EXCEPT !.identity = id, !.gen = c.gen + 1]
                        ELSE Blank("error", c.gen + 1)
  <1>1. /\ Usable(c) /\ Unlocked(u) /\ id # None
        /\ c.identity # id => c.gen < MaxGen
        /\ Usable(w) => ~TakenByAnother(u, id)
        /\ conn' = [conn EXCEPT ![u] = w]
        /\ scan' = IF Usable(w) THEN [scan EXCEPT ![u] = [gen |-> w.gen, identity |-> id]]
                   ELSE scan
        /\ req' = req /\ lock' = lock /\ owner' = owner
    BY DEF StartScan, UniqueIndexAllows
  <1>2. /\ c \in RowType /\ c.gen \in 0 .. MaxGen
        /\ c.gen < MaxGen => c.gen + 1 \in 0 .. MaxGen
    BY RowOf
  <1>3. c.key \in Keys /\ c.state = "connected" /\ id \in Ids
    <2>1. c.key \in Keys /\ c.state = "connected"
      BY <1>1, <1>2, RowFields DEF Usable
    <2>. QED  BY <1>1, <2>1 DEF IInv, TypeOK
  <1>4. CASE c.identity # id /\ c.identity # None
    <2>1. w = Blank("error", c.gen + 1)
      BY <1>4
    <2>2. /\ w \in RowType /\ w.key = None /\ w.identity = None
          /\ w.state # "connected"
      BY <1>1, <1>2, <1>4, <2>1, BlankTyped DEF States
    <2>3. scan' = scan
      BY <1>1, <2>2 DEF Usable
    <2>. HIDE DEF w
    <2>. QED  BY <1>1, <2>2, <2>3, BlankWeaker, QuietRowInv
  <1>5. CASE c.identity = id \/ c.identity = None
    <2>1. /\ w \in RowType /\ w.key = c.key /\ w.identity = id /\ w.state = "connected"
          /\ w.gen \in 0 .. MaxGen
      BY <1>1, <1>2, <1>3, <1>5 DEF RowType
    <2>. HIDE DEF w
    <2>2. \A v \in Users \ {u} : conn[v].identity # id
      BY <1>1, <1>3, <2>1 DEF Usable, TakenByAnother
    <2>3. /\ conn' \in [Users -> RowType] /\ conn'[u] = w
          /\ \A v \in Users \ {u} : conn'[v] = conn[v]
      BY <1>1, <2>1 DEF IInv, TypeOK
    <2>. HIDE DEF id
    <2>4. KeyStep /\ IdentityStep
      BY <2>1, <2>2, <2>3 DEF KeyStep, IdentityStep
    <2>5. owner[w.key] = id
      BY <2>1 DEF id
    <2>6. SessionStep
      BY <1>1, <2>1, <2>3, <2>5 DEF SessionStep
    <2>7. RowsOK /\ \A v \in Users : SameRow(v) \/ Unlocked(v)
      BY <1>1, <2>3, <2>4, <2>6 DEF RowsOK, RowsTyped, SameRow
    <2>8. ScansTyped'
      BY <1>1, <1>3, <2>1 DEF ScansTyped, IInv, TypeOK
    <2>. QED  BY <1>1, <2>7, <2>8, OwnersKept, StillInv
  <1>. QED  BY <1>4, <1>5

LEMMA StatusInv ==
  ASSUME IInv, NEW r \in Requests, NEW u \in Users, Status(r, u) PROVE IInv'
  <1>1. PICK pc \in {"corrupt", "expired"} :
          /\ At(r, "idle")
          /\ pc = "corrupt" => conn[u].gen < MaxGen
          /\ req' = [req EXCEPT ![r] = [Idle EXCEPT !.pc = pc, !.user = u,
                                                    !.read = conn[u]]]
          /\ conn' = conn /\ lock' = lock /\ owner' = owner /\ scan' = scan
    BY DEF Status
  <1>. DEFINE x == [Idle EXCEPT !.pc = pc, !.user = u, !.read = conn[u]]
  <1>2. /\ x \in RequestType /\ x.pc = pc /\ x.user = u /\ x.key = None
        /\ x.read = conn[u]
    <2>1. conn[u] \in RowType
      BY RowOf
    <2>. QED  BY <2>1, IdleTyped DEF RequestType, Steps, Idle
  <1>. HIDE DEF x
  <1>3. Turn(r) /\ req'[r] = x
    <2>1. KnownKey(x.key) /\ LocksAtMost(r, u) /\ Becomes(r, x)
      BY <1>1, <1>2 DEF KnownKey, LocksAtMost, Becomes, x
    <2>. QED  BY <1>1, <1>2, <2>1, Begins
  <1>4. RequestOK(r)'
    BY <1>1, <1>2, <1>3
       DEF RequestOK, HolderOK, SignInOK, CommitOK, LogOutOK, At, Holding
  <1>5. ~Unmoved(r)
    BY <1>1, <1>2, <1>3 DEF Unmoved, At
  <1>. QED  BY <1>1, <1>3, <1>4, <1>5, RowsKept, OwnersKept, ScansKept, TurnInv

\* A request begins with the row locked and the key that the row has.
LEMMA BeginsWithKey ==
  ASSUME IInv, NEW r \in Requests, NEW u \in Users, At(r, "idle"), Unlocked(u),
         Lock(r, u), NEW x \in RequestType, Becomes(r, x),
         x.user = u, x.read = conn[u],
         \/ x.pc \in {"dial", "signin"} /\ x.key = conn[u].key /\ x.key # None
         \/ x.pc = "dial" /\ x.key \in Fresh,
         x.pc = "signin" => conn[u].state = "pending",
         conn' = conn, owner' = owner, scan' = scan
  PROVE  IInv'
  <1>1. Turn(r) /\ req'[r] = x
    <2>1. KnownKey(x.key)
      BY DEF KnownKey
    <2>2. LocksAtMost(r, u)
      BY DEF LocksAtMost, Lock, Unlocked
    <2>. QED  BY <2>1, <2>2, Begins
  <1>2. lock'[u] = r
    BY DEF IInv, TypeOK, Lock
  <1>3. x.key \in Keys
    BY RowOf, RowFields DEF Fresh
  <1>4. Holds(r)' \/ (x.pc = "dial" /\ Exclusive(r)')
    <2>1. CASE x.key = conn[u].key
      BY <1>1, <1>2, <2>1 DEF Holds, User
    <2>2. CASE x.pc = "dial" /\ x.key \in Fresh
      <3>1. \A s \in Requests \ {r} : req'[s].key # x.key
        BY <1>1, <2>2 DEF Turn, OthersWait, Unmoved, Fresh
      <3>2. owner[x.key] = None /\ \A v \in Users : conn[v].key # x.key
        BY <2>2 DEF Fresh
      <3>. QED  BY <1>1, <2>2, <3>1, <3>2 DEF Exclusive
    <2>. QED  BY <2>1, <2>2
  <1>5. RequestOK(r)'
    <2>1. x.pc \in {"dial", "signin"} /\ x.user # None
      OBVIOUS
    <2>2. HolderOK(r)'
      BY <1>1, <1>3, <1>4 DEF HolderOK, At
    <2>3. SignInOK(r)'
      BY <1>1 DEF SignInOK, At, User
    <2>. QED  BY <1>1, <2>1, <2>2, <2>3 DEF RequestOK, CommitOK, LogOutOK, At
  <1>6. ~Unmoved(r)
    BY <1>1 DEF Unmoved, At
  <1>. QED  BY <1>1, <1>5, <1>6, RowsKept, OwnersKept, ScansKept, TurnInv

LEMMA VerifyInv ==
  ASSUME IInv, NEW r \in Requests, NEW u \in Users, Verify(r, u) PROVE IInv'
  <1>. DEFINE c == conn[u]
              x == [Idle EXCEPT !.pc = "signin", !.user = u, !.key = c.key, !.read = c]
  <1>1. /\ At(r, "idle") /\ Unlocked(u) /\ c.key # None /\ c.state = "pending"
        /\ owner' = owner /\ c \in RowType
    BY RowOf DEF Verify
  <1>2. CASE /\ conn' = [conn EXCEPT ![u] = Erased(c)]
             /\ lock' = lock /\ req' = req /\ scan' = scan
    <2>. DEFINE w == Erased(c)
    <2>1. w \in RowType /\ w.key = None /\ w.identity = None /\ w.state # "connected"
      BY <1>1, ErasedTyped
    <2>. HIDE DEF w
    <2>. QED  BY <1>1, <1>2, <2>1, BlankWeaker, QuietRowInv DEF w
  <1>3. CASE /\ conn' = [conn EXCEPT ![u] = Invalid(c)] /\ c.gen < MaxGen
             /\ Cancel(u) /\ lock' = lock /\ req' = req
    <2>. DEFINE w == Invalid(c)
    <2>1. w \in RowType /\ w.key = None /\ w.identity = None /\ w.state # "connected"
      BY <1>1, <1>3, ErasedTyped
    <2>. HIDE DEF w
    <2>. QED  BY <1>1, <1>3, <2>1, BlankWeaker, QuietRowInv DEF w
  <1>4. CASE /\ Lock(r, u) /\ Becomes(r, x)
             /\ conn' = conn /\ scan' = scan
    <2>1. /\ x \in RequestType /\ x.pc = "signin" /\ x.user = u /\ x.key = c.key
          /\ x.read = c
      BY <1>1, IdleTyped, RowFields DEF RequestType, Steps, Idle
    <2>. HIDE DEF x
    <2>. QED  BY <1>1, <1>4, <2>1, BeginsWithKey
  <1>. QED  BY <1>2, <1>3, <1>4 DEF Verify, Becomes

LEMMA DialTyped ==
  ASSUME IInv, NEW r \in Requests, NEW u \in Users, NEW p \in Ids, NEW k \in Keys,
         NEW c \in RowType, Dial(r, u, p, k, c)
  PROVE  \E x \in RequestType :
           /\ Becomes(r, x) /\ x.pc = "dial" /\ x.user = u
           /\ x.key = k /\ x.read = c
  <1>. DEFINE x == [Idle EXCEPT !.pc = "dial", !.user = u, !.phone = p,
                                !.key = k, !.read = c]
  <1>1. /\ x \in RequestType /\ x.pc = "dial" /\ x.user = u
        /\ x.key = k /\ x.read = c
    BY IdleTyped DEF RequestType, Steps, Idle
  <1>2. Becomes(r, x)
    BY DEF Dial, Becomes
  <1>. HIDE DEF x
  <1>. QED  BY <1>1, <1>2

LEMMA StartInv ==
  ASSUME IInv, NEW r \in Requests, NEW u \in Users, NEW p \in Ids, Start(r, u, p)
  PROVE  IInv'
  <1>. DEFINE c == conn[u]
  <1>1. At(r, "idle") /\ Unlocked(u) /\ owner' = owner /\ c \in RowType
    BY RowOf DEF Start
  <1>2. CASE /\ c.gen < MaxGen /\ conn' = [conn EXCEPT ![u] = Invalid(c)] /\ Cancel(u)
             /\ \E k \in Fresh : Dial(r, u, p, k, Invalid(c))
             /\ lock' = lock
    <2>. DEFINE w == Invalid(c)
    <2>1. w \in RowType /\ w.key = None /\ w.identity = None /\ w.state # "connected"
      BY <1>1, <1>2, ErasedTyped
    <2>. HIDE DEF w
    <2>2. PICK k \in Fresh : Dial(r, u, p, k, w)
      BY <1>2 DEF w
    <2>3. k \in Keys /\ owner[k] = None
          /\ (\A v \in Users : conn[v].key # k) /\ (\A s \in Requests : req[s].key # k)
      BY <2>2 DEF Fresh
    <2>4. PICK x \in RequestType :
            /\ Becomes(r, x) /\ x.pc = "dial" /\ x.user = u
            /\ x.key = k /\ x.read = w
      BY <2>1, <2>2, <2>3, DialTyped
    <2>5. Turn(r) /\ req'[r] = x
      <3>1. KnownKey(x.key) /\ LocksAtMost(r, u)
        BY <1>2, <2>2, <2>4 DEF KnownKey, LocksAtMost
      <3>. QED  BY <1>1, <2>4, <3>1, Begins
    <2>6. /\ RowsOK /\ conn'[u] = w
          /\ \A v \in Users \ {u} : conn'[v] = conn[v] /\ SameRow(v)
      BY <1>2, <2>1, BlankWeaker, RowWeakened DEF w
    <2>7. Exclusive(r)'
      <3>1. \A s \in Requests \ {r} : req'[s].key # k
        BY <2>3, <2>5 DEF Turn, OthersWait, Unmoved
      <3>2. \A v \in Users : conn'[v].key # k
        BY <2>1, <2>3, <2>6
      <3>. QED  BY <1>1, <2>3, <2>4, <2>5, <3>1, <3>2 DEF Exclusive
    <2>8. RequestOK(r)'
      <3>1. u # None
        OBVIOUS
      <3>. QED
        BY <2>3, <2>4, <2>5, <2>7, <3>1
           DEF RequestOK, HolderOK, SignInOK, CommitOK, LogOutOK, At
    <2>9. ~Unmoved(r)
      BY <1>1, <2>4, <2>5 DEF Unmoved, At
    <2>. QED
      BY <1>1, <1>2, <2>5, <2>6, <2>8, <2>9, OwnersKept, ScansKept, TurnInv DEF Unlocked
  <1>3. CASE /\ Lock(r, u) /\ conn' = conn /\ scan' = scan
             /\ \/ c.key # None /\ Dial(r, u, p, c.key, c)
                \/ \E k \in Fresh : Dial(r, u, p, k, c)
    <2>1. PICK k \in Keys : /\ (k = c.key /\ k # None) \/ k \in Fresh
                            /\ Dial(r, u, p, k, c)
      BY <1>1, <1>3, RowFields DEF Fresh
    <2>2. PICK x \in RequestType :
            /\ Becomes(r, x) /\ x.pc = "dial" /\ x.user = u
            /\ x.key = k /\ x.read = c
      BY <1>1, <2>1, DialTyped
    <2>. QED  BY <1>1, <1>3, <2>1, <2>2, BeginsWithKey
  <1>. QED  BY <1>2, <1>3 DEF Start

LEMMA DisconnectInv ==
  ASSUME IInv, NEW r \in Requests, NEW u \in Users, Disconnect(r, u) PROVE IInv'
  <1>. DEFINE c == conn[u]
              w == Blank("disconnected", c.gen + 1)
              x == [Idle EXCEPT !.pc = "logout", !.user = u, !.key = c.key]
  <1>1. /\ At(r, "idle") /\ Unlocked(u) /\ c.gen < MaxGen /\ Cancel(u)
        /\ conn' = [conn EXCEPT ![u] = w] /\ lock' = lock /\ owner' = owner
        /\ (c.key # None /\ Becomes(r, x)) \/ req' = req
    BY DEF Disconnect, Becomes
  <1>2. c \in RowType /\ c.gen + 1 \in 0 .. MaxGen
    BY <1>1, RowOf
  <1>3. w \in RowType /\ w.key = None /\ w.identity = None /\ w.state # "connected"
    BY <1>2, BlankTyped DEF States
  <1>. HIDE DEF w
  <1>4. CASE req' = req
    BY <1>1, <1>3, <1>4, BlankWeaker, QuietRowInv
  <1>5. CASE c.key # None /\ Becomes(r, x)
    <2>1. c.key \in Keys
      BY <1>2, <1>5, RowFields
    <2>2. x \in RequestType /\ x.pc = "logout" /\ x.user = u /\ x.key = c.key
      BY <2>1, IdleTyped DEF RequestType, Steps, Idle
    <2>. HIDE DEF x
    <2>3. Turn(r) /\ req'[r] = x
      <3>1. KnownKey(x.key) /\ LocksAtMost(r, u)
        BY <1>1, <2>2 DEF KnownKey, LocksAtMost
      <3>. QED  BY <1>1, <1>5, <2>2, <3>1, Begins
    <2>4. /\ RowsOK /\ conn'[u] = w
          /\ \A v \in Users \ {u} : conn'[v] = conn[v] /\ SameRow(v)
      BY <1>1, <1>3, BlankWeaker, RowWeakened
    <2>5. ASSUME NEW v \in Users PROVE conn'[v].key # c.key
      <3>1. CASE v = u
        BY <1>3, <1>5, <2>4, <3>1
      <3>2. CASE v # u
        BY <1>5, <2>4, <3>2 DEF IInv, KeysInv
      <3>. QED  BY <3>1, <3>2
    <2>6. RequestOK(r)'
      <3>1. u # None
        OBVIOUS
      <3>2. LogOutOK(r)'
        BY <2>1, <2>2, <2>3, <2>5 DEF LogOutOK
      <3>. QED
        BY <2>2, <2>3, <3>1, <3>2
           DEF RequestOK, HolderOK, SignInOK, CommitOK, At, Holding
    <2>7. ~Unmoved(r)
      BY <1>1, <2>2, <2>3 DEF Unmoved, At
    <2>. QED
      BY <1>1, <2>3, <2>4, <2>6, <2>7, OwnersKept, ScansKept, TurnInv DEF Unlocked
  <1>. QED  BY <1>1, <1>4, <1>5

-----------------------------------------------------------------------------
(* The invariant, and what follows from it.                                  *)

LEMMA InitInv == Init => IInv
  <1>. SUFFICES ASSUME Init PROVE IInv
    OBVIOUS
  <1>1. NoConnection \in RowType /\ NoConnection.key = None /\ NoConnection.identity = None
    BY BlankTyped DEF NoConnection, States
  <1>2. TypeOK
    BY <1>1, IdleTyped DEF Init, TypeOK
  <1>3. \A u \in Users : conn[u].key = None /\ conn[u].identity = None
    BY <1>1 DEF Init
  <1>4. \A r \in Requests : req[r].pc = "idle" /\ req[r].user = None
    BY IdleTyped DEF Init
  <1>5. RequestsInv
    BY <1>4 DEF RequestsInv, RequestOK, HolderOK, SignInOK, CommitOK, LogOutOK, At, Holding
  <1>6. KeysInv /\ IdentitiesInv /\ SessionMatchesIdentity
    BY <1>3 DEF KeysInv, IdentitiesInv, SessionMatchesIdentity, Verified
  <1>. QED  BY <1>2, <1>5, <1>6 DEF IInv

LEMMA StutterInv == IInv /\ UNCHANGED vars => IInv'
  BY DEF vars, IInv, TypeOK, RequestsInv, RequestOK, HolderOK, SignInOK, CommitOK,
         LogOutOK, Holds, Exclusive, At, User, KeysInv, IdentitiesInv,
         SessionMatchesIdentity, Verified, Usable

LEMMA NextInv == IInv /\ [Next]_vars => IInv'
  <1>. SUFFICES ASSUME IInv, [Next]_vars PROVE IInv'
    OBVIOUS
  <1>1. ASSUME NEW r \in Requests, RequestStep(r) PROVE IInv'
    BY <1>1, StatusErasesInv, StatusCancelsInv, StatusInvalidatesInv,
       StartAuthorizedInv, SendCodeInv, SignInInv, AskPasswordInv, BindInv,
       QuietEndInv, CommitInv DEF RequestStep
  <1>2. ASSUME NEW r \in Requests, NEW u \in Users,
               Status(r, u) \/ Verify(r, u) \/ Disconnect(r, u)
                 \/ \E p \in Ids : Start(r, u, p)
        PROVE  IInv'
    BY <1>2, StatusInv, VerifyInv, DisconnectInv, StartInv
  <1>3. ASSUME NEW u \in Users,
               \/ StartScan(u) \/ LoseAuthorization(u) \/ EndScan(u)
               \/ ChallengeExpires(u) \/ LoseSecrets(u)
        PROVE  IInv'
    BY <1>3, StartScanInv, LoseAuthorizationInv, EndsAloneInv, ChallengeExpiresInv,
       LoseSecretsInv
  <1>4. CASE \E k \in Keys : EndedRemotely(k)
    BY <1>4, EndsAloneInv
  <1>5. CASE UNCHANGED vars
    BY <1>5, StutterInv
  <1>. QED  BY <1>1, <1>2, <1>3, <1>4, <1>5 DEF Next

LEMMA Invariant == Spec => []IInv
  BY InitInv, NextInv, PTL DEF Spec

\* Every variable keeps its type, and a lock belongs to a request of its user.
THEOREM LoginTypesCorrect == Spec => []TypeOK
  BY Invariant, PTL DEF IInv

\* A verified connection never works with the session of another Telegram
\* account than the one it is recorded under: _bind_authorized_principal reads
\* the identity from the session whose key it stores, under the row's lock.
THEOREM SessionsMatchIdentities == Spec => []SessionMatchesIdentity
  BY Invariant, PTL DEF IInv

LEMMA SparedByLogOut ==
  ASSUME IInv, NEW r \in Requests, LogOut(r) \/ BindConflicts(r),
         NEW u \in Users, Verified(conn[u])
  PROVE  conn[u].key # req[r].key
  <1>1. CASE LogOut(r)
    BY <1>1 DEF LogOut, IInv, RequestsInv, RequestOK, LogOutOK
  <1>2. CASE BindConflicts(r)
    <2>. DEFINE id == owner[req[r].key]
    <2>1. At(r, "bind") /\ ~At(r, "idle") /\ id # None /\ TakenByAnother(User(r), id)
      BY <1>2 DEF BindConflicts, At
    <2>2. User(r) \in Users /\ HolderOK(r)
      BY <2>1, InHand DEF RequestOK
    <2>3. Holds(r) /\ req[r].key \in Keys
      BY <2>1, <2>2 DEF HolderOK, At, Holding
    <2>4. SUFFICES ASSUME conn[u].key = req[r].key PROVE FALSE
      OBVIOUS
    <2>5. u = User(r)
      BY <2>2, <2>3, <2>4 DEF Holds, IInv, KeysInv
    <2>6. conn[u].identity = id
      BY <2>1, <2>4 DEF IInv, SessionMatchesIdentity
    <2>7. PICK v \in Users \ {u} : conn[v].identity = id
      BY <2>1, <2>5 DEF TakenByAnother
    <2>. QED  BY <2>1, <2>6, <2>7 DEF IInv, IdentitiesInv
  <1>. QED  BY <1>1, <1>2

\* Neither the log-out that follows a disconnect (revoke_telegram_connection)
\* nor that of a session whose account is taken (_bind_authorized_principal)
\* ends a session that some connection works with.
THEOREM LogOutsSpareConnected == Spec => LogOutSparesConnected
  <1>. DEFINE Spares ==
         \A r \in Requests :
           (LogOut(r) \/ BindConflicts(r))
             => \A u \in Users : Verified(conn[u]) => conn[u].key # req[r].key
  <1>1. IInv => [Spares]_vars
    BY SparedByLogOut
  <1>. QED  BY <1>1, Invariant, PTL DEF Spec, LogOutSparesConnected

\* A row whose principal, if it had one, stays, goes, or gets a new generation.
PrincipalStep ==
  \A u \in Users :
    \/ conn'[u].identity \in {conn[u].identity, None} \/ conn[u].identity = None
    \/ conn'[u].gen # conn[u].gen

LEMMA OneRow ==
  ASSUME IInv, NEW u \in Users, NEW w, conn' = [conn EXCEPT ![u] = w],
         \/ w.identity \in {conn[u].identity, None} \/ conn[u].identity = None
         \/ w.gen # conn[u].gen
  PROVE  PrincipalStep
  <1>1. conn'[u] = w /\ \A v \in Users \ {u} : conn'[v] = conn[v]
    BY DEF IInv, TypeOK
  <1>. QED  BY <1>1 DEF PrincipalStep

\* A late write of a row without an identity.
LEMMA LateWrite ==
  ASSUME IInv, NEW u \in Users, NEW read \in RowType, NEW new \in RowType,
         new.identity = None, Write(u, read, new)
  PROVE  PrincipalStep
  <1>. DEFINE w == conn'[u]
  <1>1. conn' = [conn EXCEPT ![u] = w] /\ w.identity \in {conn[u].identity, None}
    BY Written
  <1>. HIDE DEF w
  <1>. QED  BY <1>1, OneRow

LEMMA CommitPrincipal ==
  ASSUME IInv, NEW r \in Requests, Commit(r) PROVE PrincipalStep
  <1>. DEFINE u == User(r)
              new == req[r].new
              old == req[r].read
              w == conn'[u]
  <1>1. At(r, "commit") /\ ~At(r, "idle") /\ (Write(u, old, new) \/ conn' = conn)
    BY DEF Commit, At
  <1>2. /\ HolderOK(r) /\ CommitOK(r) /\ old \in RowType /\ new \in RowType
        /\ u \in Users
    BY <1>1, InHand DEF RequestOK
  <1>3. /\ conn[u].identity = old.identity /\ conn[u].gen = old.gen
        /\ old.identity \in {None, new.identity} \/ new.gen # old.gen
    BY <1>1, <1>2 DEF HolderOK, CommitOK, Holds, At, Holding
  <1>4. CASE Write(u, old, new)
    <2>. HIDE DEF u, old, new
    <2>1. /\ conn' = [conn EXCEPT ![u] = w]
          /\ w.identity = new.identity /\ w.gen = new.gen
      BY <1>2, <1>3, <1>4, Written
    <2>. HIDE DEF w
    <2>. QED  BY <1>2, <1>3, <2>1, OneRow
  <1>5. CASE conn' = conn
    BY <1>5 DEF PrincipalStep
  <1>. QED  BY <1>1, <1>4, <1>5

LEMMA RequestPrincipal ==
  ASSUME IInv, NEW r \in Requests, RequestStep(r) PROVE PrincipalStep
  <1>1. CASE StatusErases(r) \/ StatusInvalidates(r) \/ SendCode(r)
    <2>1. ~At(r, "idle")
      BY <1>1 DEF StatusErases, StatusInvalidates, SendCode, At
    <2>2. User(r) \in Users /\ req[r].read \in RowType /\ RequestOK(r)
          /\ req[r] \in RequestType
      BY <2>1, InHand
    <2>3. CASE StatusErases(r)
      BY <2>2, <2>3, ErasedTyped, LateWrite DEF StatusErases
    <2>4. CASE StatusInvalidates(r)
      <3>1. req[r].read.gen < MaxGen
        BY <2>2, <2>4 DEF StatusInvalidates, RequestOK, At
      <3>. QED  BY <2>2, <2>4, <3>1, ErasedTyped, LateWrite DEF StatusInvalidates
    <2>5. CASE SendCode(r)
      <3>1. req[r].key \in Keys /\ req[r].read.gen < MaxGen
        BY <2>2, <2>5 DEF SendCode, RequestOK, HolderOK, At, Holding
      <3>2. Write(User(r), req[r].read, Pending(r))
        BY <2>5 DEF SendCode
      <3>. QED  BY <2>2, <3>1, <3>2, PendingTyped, LateWrite
    <2>. QED  BY <1>1, <2>3, <2>4, <2>5
  <1>2. CASE AskPassword(r)
    <2>. DEFINE w == [conn[User(r)] EXCEPT !.password = TRUE]
    <2>1. User(r) \in Users
      BY <1>2, InHand DEF AskPassword, At
    <2>2. conn[User(r)] \in RowType
      BY <2>1, RowOf
    <2>3. w.identity = conn[User(r)].identity
      BY <2>2 DEF RowType
    <2>4. conn' = [conn EXCEPT ![User(r)] = w]
      BY <1>2 DEF AskPassword
    <2>. HIDE DEF w
    <2>. QED  BY <2>1, <2>3, <2>4, OneRow
  <1>3. CASE Commit(r)
    BY <1>3, CommitPrincipal
  <1>4. CASE conn' = conn
    BY <1>4 DEF PrincipalStep
  <1>5. \/ StatusErases(r) \/ StatusInvalidates(r) \/ SendCode(r)
        \/ AskPassword(r) \/ Commit(r) \/ conn' = conn
    BY DEF RequestStep, StatusCancels, StartAuthorized, SignIn, Bind, BindConflicts,
           LogOut, Fail
  <1>. QED  BY <1>1, <1>2, <1>3, <1>4, <1>5

\* The steps that write a row at once.
LEMMA RowPrincipal ==
  ASSUME IInv, NEW u \in Users, NEW w, conn' = [conn EXCEPT ![u] = w],
         w = Erased(conn[u]) \/ w = Invalid(conn[u])
           \/ \E state \in States : w = Blank(state, conn[u].gen + 1)
  PROVE  PrincipalStep
  <1>1. w.identity = None
    BY DEF Erased, Invalid, Blank
  <1>. QED  BY <1>1, OneRow

LEMMA ScanPrincipal ==
  ASSUME IInv, NEW u \in Users, StartScan(u) PROVE PrincipalStep
  <1>. DEFINE c == conn[u]
              id == owner[c.key]
              w == IF c.identity = id THEN c
                   ELSE IF c.identity = None
                        THEN [c EXCEPT !.identity = id, !.gen = c.gen + 1]
                        ELSE Blank("error", c.gen + 1)
  <1>1. conn' = [conn EXCEPT ![u] = w]
    BY DEF StartScan
  <1>2. \/ w.identity \in {c.identity, None} \/ c.identity = None
    BY DEF Blank
  <1>. HIDE DEF w
  <1>. QED  BY <1>1, <1>2, OneRow

LEMMA NextPrincipal == IInv /\ [Next]_vars => PrincipalStep
  <1>. SUFFICES ASSUME IInv, [Next]_vars PROVE PrincipalStep
    OBVIOUS
  <1>1. ASSUME NEW r \in Requests, NEW u \in Users,
               Status(r, u) \/ Verify(r, u) \/ Disconnect(r, u)
                 \/ \E p \in Ids : Start(r, u, p)
        PROVE  PrincipalStep
    <2>1. \/ conn' = conn
          \/ conn' = [conn EXCEPT ![u] = Erased(conn[u])]
          \/ conn' = [conn EXCEPT ![u] = Invalid(conn[u])]
          \/ conn' = [conn EXCEPT ![u] = Blank("disconnected", conn[u].gen + 1)]
      BY <1>1 DEF Status, Verify, Disconnect, Start
    <2>. QED  BY <2>1, RowPrincipal DEF PrincipalStep, States
  <1>2. ASSUME NEW u \in Users, LoseAuthorization(u) PROVE PrincipalStep
    BY <1>2, RowPrincipal DEF LoseAuthorization, States
  <1>3. ASSUME NEW u \in Users, ChallengeExpires(u) \/ LoseSecrets(u)
        PROVE  PrincipalStep
    <2>1. conn[u] \in RowType
      BY RowOf
    <2>2. PICK w : /\ conn' = [conn EXCEPT ![u] = w] /\ w.identity = conn[u].identity
      BY <1>3, <2>1 DEF ChallengeExpires, LoseSecrets, RowType
    <2>. QED  BY <2>2, OneRow
  <1>4. CASE \/ \E u \in Users : EndScan(u)
             \/ \E k \in Keys : EndedRemotely(k)
             \/ UNCHANGED vars
    BY <1>4 DEF EndScan, EndedRemotely, vars, PrincipalStep
  <1>. QED
    BY <1>1, <1>2, <1>3, <1>4, RequestPrincipal, ScanPrincipal DEF Next

\* A connection passes from one Telegram account to another only with a new
\* generation, so that what was begun for the first (a scan, a deletion) can
\* tell: _bind_authorized_principal counts on the row that the lock holds.
THEOREM PrincipalsChangeGenerations == Spec => PrincipalsHaveGenerations
  <1>. DEFINE Kept ==
         \A u \in Users :
           LET a == conn[u].identity b == conn'[u].identity
           IN  a # b /\ None \notin {a, b} => conn'[u].gen # conn[u].gen
  <1>1. IInv /\ [Next]_vars => [Kept]_vars
    BY NextPrincipal DEF PrincipalStep
  <1>. QED  BY <1>1, Invariant, PTL DEF Spec, PrincipalsHaveGenerations

=============================================================================
