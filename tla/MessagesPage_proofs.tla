------------------------- MODULE MessagesPage_proofs -------------------------
(***************************************************************************)
(* Proofs about MessagesPage, for any messages, filters, page size and     *)
(* number of changes in flight.                                            *)
(***************************************************************************)
EXTENDS MessagesPage, FiniteSetTheorems, TLAPS

\* A change the server carried out and whose reply the page has yet to see.
Owing(k) ==
  Answered(k) /\ ops[k].kind # "create" /\ ops[k].reply \notin {Failed, Conflict}

\* What the page makes of a message with the reply: Updated, on any record.
Patch(op, r) ==
  CASE op.kind = "move" -> op.reply
    [] op.kind \in {"addTag", "removeTag"} -> [r EXCEPT !.tags = op.reply.tags]
    [] OTHER -> Changed(op, r)

Singles == {"move", "delete", "deleteLocal"} \union TagKinds
Receipts == {"move", "addTag", "removeTag"}

\* A single change is about one message, and a reply fits its change.
Whole(op) ==
  /\ op.kind \in Singles => \E m \in Messages : op.on = {m}
  /\ op.kind \in {"move", "bulkMove"} => op.arg \in Categories
  /\ op.kind \in TagKinds \union {"bulkTag"} => op.arg \in Tags
  /\ op.kind # "create" /\ op.reply \notin {NoReply, Failed, Conflict} =>
       IF op.kind \in Receipts THEN op.reply \in Records ELSE op.reply = Done

OpsAreWhole == \A k \in Slots : ops[k] # NoOp => Whole(ops[k])

Types == TypeOK /\ OpsAreWhole

-----------------------------------------------------------------------------
(* The data *)

USE MessagesAssumption, LinksAssumption, RepliesAssumption, RequestAssumption

LEMMA IsList ==
  ASSUME NEW S, S \subseteq Messages, NEW f \in [S -> Records] PROVE f \in Lists
  BY DEF Lists

LEMMA ListIs ==
  ASSUME NEW f \in Lists
  PROVE  DOMAIN f \subseteq Messages /\ f \in [DOMAIN f -> Records]
  BY DEF Lists

LEMMA EmptyList == <<>> \in Lists
  <1>1. <<>> \in [{} -> Records]
    OBVIOUS
  <1>. QED  BY <1>1, IsList

\* A reply that fails, or has not come, is not an answer.
LEMMA LoadIs ==
  ASSUME NEW l \in Loads
  PROVE  /\ l # NoLoad /\ l.url \in Urls /\ l.dirty \subseteq Messages
         /\ l.reply \in Answers \union {NoReply, Failed}
         /\ l.reply \notin {NoReply, Failed} =>
              l.reply \in Answers /\ l.reply.items \in Lists /\ l.reply.total \in Nat
  BY DEF Loads, Answers

LEMMA NewLoadIs ==
  ASSUME NEW u \in Urls
  PROVE  [url |-> u, reply |-> NoReply, dirty |-> {}] \in Loads
  BY DEF Loads

LEMMA OpIs ==
  ASSUME NEW op \in Ops
  PROVE  /\ op # NoOp /\ op.kind \in Kinds /\ op.on \subseteq Messages
         /\ op.arg \in Labels /\ op.filtered \in BOOLEAN
         /\ op.reply \in Records \union {NoReply, Failed, Conflict, Done}
  BY DEF Ops

\* The number of pages is never zero.
LEMMA SomePage ==
  ASSUME NEW t \in Nat PROVE Pages(t) \in Nat \ {0}
  BY DEF Pages

LEMMA ClampedIs ==
  ASSUME NEW u \in Urls, NEW t \in Nat, NEW ready
  PROVE  Clamped(u, t, ready) \in Urls
  <1>1. CASE ready /\ u.page > Pages(t)
    <2>1. u.page \in 1 .. MaxPage
      BY DEF Urls
    <2>2. Pages(t) \in 1 .. MaxPage
      BY <1>1, <2>1, SomePage
    <2>3. Clamped(u, t, ready) = [u EXCEPT !.page = Pages(t)]
      BY <1>1 DEF Clamped
    <2>. QED  BY <2>2, <2>3 DEF Urls
  <1>2. CASE ~(ready /\ u.page > Pages(t))
    BY <1>2 DEF Clamped
  <1>. QED  BY <1>1, <1>2

\* A change of the filter or of the text goes back to the first page.
LEMMA FirstPage ==
  ASSUME NEW u \in Urls
  PROVE  /\ \A label : [u EXCEPT !.label = label] \in Urls =>
                        [u EXCEPT !.label = label, !.page = 1] \in Urls
         /\ \A q : [u EXCEPT !.q = q] \in Urls => [u EXCEPT !.q = q, !.page = 1] \in Urls
  <1>1. \A v \in Urls : [v EXCEPT !.page = 1] \in Urls
    BY DEF Urls
  <1>2. ASSUME NEW label, [u EXCEPT !.label = label] \in Urls
        PROVE  [u EXCEPT !.label = label, !.page = 1] \in Urls
    <2>1. [u EXCEPT !.label = label, !.page = 1] =
            [[u EXCEPT !.label = label] EXCEPT !.page = 1]
      OBVIOUS
    <2>. QED  BY <1>1, <1>2, <2>1
  <1>3. ASSUME NEW q, [u EXCEPT !.q = q] \in Urls
        PROVE  [u EXCEPT !.q = q, !.page = 1] \in Urls
    <2>1. [u EXCEPT !.q = q, !.page = 1] = [[u EXCEPT !.q = q] EXCEPT !.page = 1]
      OBVIOUS
    <2>. QED  BY <1>1, <1>3, <2>1
  <1>. QED  BY <1>2, <1>3

\* A step that follows the URL starts a load of it or leaves all as it was.
LEMMA Follows ==
  ASSUME NEW u \in Urls, NEW t \in Nat, NEW live \in Loads \union {NoLoad},
         NEW reload, NEW failed,
         Follow(u, t, live, reload, failed)
  PROVE  /\ url' \in Urls /\ total' = t /\ error' \in BOOLEAN
         /\ load' \in Loads \union {NoLoad}
         /\ \/ load' = [url |-> url', reply |-> NoReply, dirty |-> {}] /\ ~error'
            \/ load' = live /\ u = url /\ url' = url /\ ~reload /\ (error' <=> failed)
  <1>. PICK v : v = Clamped(u, t, completed')
    OBVIOUS
  <1>1. v \in Urls
    BY ClampedIs
  <1>2. /\ url' = v /\ total' = t
        /\ load' = IF reload \/ u # url \/ v # u
                   THEN [url |-> v, reply |-> NoReply, dirty |-> {}] ELSE live
        /\ error' = (failed /\ ~(reload \/ u # url \/ v # u))
    BY DEF Follow
  <1>3. [url |-> v, reply |-> NoReply, dirty |-> {}] \in Loads
    BY <1>1, NewLoadIs
  <1>4. CASE reload \/ u # url \/ v # u
    BY <1>1, <1>2, <1>3, <1>4
  <1>5. CASE ~(reload \/ u # url \/ v # u)
    BY <1>1, <1>2, <1>5
  <1>. QED  BY <1>4, <1>5

\* What a change makes of a stored message, and that it does it only once.
LEMMA ChangedIs ==
  ASSUME NEW op \in Ops, Whole(op), NEW r \in Records, op.kind # "create"
  PROVE  /\ op.kind \in DeleteKinds => Changed(op, r) = Gone
         /\ op.kind \notin DeleteKinds => Changed(op, r) \in Records
         /\ op.kind \in {"move", "bulkMove"} => Changed(op, r) = [r EXCEPT !.cat = op.arg]
         /\ op.kind \in {"addTag", "bulkTag"} =>
              Changed(op, r) = [r EXCEPT !.tags = @ \union {op.arg}]
         /\ op.kind = "removeTag" => Changed(op, r) = [r EXCEPT !.tags = @ \ {op.arg}]
  <1>1. op.kind \in Kinds
    BY OpIs
  <1>2. /\ op.kind \in DeleteKinds => Changed(op, r) = Gone
        /\ op.kind \in {"move", "bulkMove"} => Changed(op, r) = [r EXCEPT !.cat = op.arg]
        /\ op.kind \in {"addTag", "bulkTag"} =>
             Changed(op, r) = [r EXCEPT !.tags = @ \union {op.arg}]
        /\ op.kind = "removeTag" => Changed(op, r) = [r EXCEPT !.tags = @ \ {op.arg}]
    BY DEF Changed, DeleteKinds
  <1>3. ASSUME op.kind \notin DeleteKinds PROVE Changed(op, r) \in Records
    <2>1. CASE op.kind \in {"move", "bulkMove"}
      <3>1. op.arg \in Categories
        BY <2>1 DEF Whole
      <3>. QED  BY <1>2, <2>1, <3>1 DEF Records
    <2>2. CASE op.kind \in {"addTag", "bulkTag", "removeTag"}
      <3>1. op.arg \in Tags
        BY <2>2 DEF Whole, TagKinds
      <3>. QED  BY <1>2, <2>2, <3>1 DEF Records
    <2>. QED  BY <1>1, <1>3, <2>1, <2>2 DEF Kinds, DeleteKinds, BulkKinds, TagKinds
  <1>. QED  BY <1>2, <1>3

-----------------------------------------------------------------------------
(* Types *)

\* A step that carries out no change and shows none: it may give one up, and
\* says so, and may start a load of the URL.
Steady ==
  /\ UNCHANGED <<stored, items, total, answered>>
  /\ raced \subseteq raced' /\ (drift => drift')
  /\ \A k \in Slots :
       /\ Owing(k)' => Owing(k) /\ ops'[k] = ops[k]
       /\ Owing(k) => Owing(k)' \/ (ops[k].on \subseteq raced' /\ drift')
  /\ \/ load' = [url |-> url', reply |-> NoReply, dirty |-> {}] /\ ~error'
     \/ UNCHANGED <<load, url, error>>

LEMMA OpOf ==
  ASSUME Types, NEW k \in Slots, ops[k] # NoOp
  PROVE  ops[k] \in Ops /\ Whole(ops[k])
  BY DEF Types, TypeOK, OpsAreWhole

LEMMA OneOp ==
  ASSUME Types, NEW k \in Slots, NEW op \in Ops \union {NoOp}, op # NoOp => Whole(op),
         ops' = [ops EXCEPT ![k] = op]
  PROVE  /\ ops' \in [Slots -> Ops \union {NoOp}] /\ OpsAreWhole'
         /\ ops'[k] = op /\ \A i \in Slots \ {k} : ops'[i] = ops[i]
  <1>1. /\ ops' \in [Slots -> Ops \union {NoOp}]
        /\ ops'[k] = op /\ \A i \in Slots \ {k} : ops'[i] = ops[i]
    BY DEF Types, TypeOK
  <1>2. ASSUME NEW i \in Slots, ops'[i] # NoOp PROVE Whole(ops'[i])
    BY <1>1, <1>2, OpOf
  <1>3. OpsAreWhole'
    BY <1>2 DEF OpsAreWhole
  <1>. QED  BY <1>1, <1>3

\* A step on one change that is not owed before or after it owes the same.
LEMMA OwesTheSame ==
  ASSUME NEW k \in Slots, ~Owing(k), ~Owing(k)',
         \A i \in Slots \ {k} : ops'[i] = ops[i], NEW i \in Slots
  PROVE  /\ Owing(i)' => Owing(i) /\ ops'[i] = ops[i]
         /\ Owing(i) => Owing(i)'
  BY DEF Owing, Answered

LEMMA InitTypes == Init => Types
  <1>. SUFFICES ASSUME Init PROVE Types
    OBVIOUS
  <1>1. url \in Urls /\ load \in Loads
    BY NewLoadIs DEF Init
  <1>2. box \in BOOLEAN
    BY <1>1 DEF Init, Urls
  <1>3. stored \in [Messages -> Records \union {Gone}] /\ items \in Lists
    BY EmptyList DEF Init
  <1>4. ops = [k \in Slots |-> NoOp]
    BY DEF Init
  <1>5. /\ ops \in [Slots -> Ops \union {NoOp}] /\ OpsAreWhole
    BY <1>4 DEF OpsAreWhole
  <1>6. /\ total \in Nat /\ answered = NoLoad /\ completed = FALSE /\ error = FALSE
        /\ deleting = NoMessage /\ selected = {} /\ raced = {} /\ drift = FALSE
        /\ faults \in 0 .. MaxFaults /\ clicks \in 0 .. MaxClicks
    BY DEF Init
  <1>7. TypeOK
    BY <1>1, <1>2, <1>3, <1>5, <1>6 DEF TypeOK
  <1>. QED  BY <1>5, <1>7 DEF Types

LEMMA Visits ==
  ASSUME Types, NEW u \in Urls, NEW typed \in BOOLEAN, Visit(u, typed),
         clicks' \in 0 .. MaxClicks
  PROVE  Types' /\ Steady
  <1>1. /\ UNCHANGED <<completed, stored, items, ops, deleting, selected, answered,
                       raced, drift, faults>>
        /\ Follow(u, total, load, FALSE, error) /\ SyncBox(typed)
    BY DEF Visit
  <1>2. /\ total \in Nat /\ load \in Loads \union {NoLoad} /\ error \in BOOLEAN
    BY DEF Types, TypeOK
  <1>3. /\ url' \in Urls /\ total' = total /\ error' \in BOOLEAN
        /\ load' \in Loads \union {NoLoad}
        /\ \/ load' = [url |-> url', reply |-> NoReply, dirty |-> {}] /\ ~error'
           \/ load' = load /\ u = url /\ url' = url /\ error' = error
    BY ZenonT(60), <1>1, <1>2, Follows
  <1>4. box' \in BOOLEAN
    BY <1>1, <1>3 DEF SyncBox, Urls
  <1>5. TypeOK'
    BY <1>1, <1>3, <1>4 DEF Types, TypeOK
  <1>6. OpsAreWhole'
    BY <1>1 DEF Types, OpsAreWhole
  <1>7. \A k \in Slots : Owing(k)' <=> Owing(k)
    BY <1>1 DEF Owing, Answered
  <1>8. Steady
    BY <1>1, <1>3, <1>7 DEF Steady
  <1>. QED  BY <1>5, <1>6, <1>8 DEF Types

LEMMA ClickIs == ASSUME TypeOK, Click PROVE clicks' \in 0 .. MaxClicks
  BY DEF TypeOK, Click

\* The filters, the pages, the links and the search box.
LEMMA Browses ==
  ASSUME Types,
         \/ \E label \in Labels : SetFilter(label)
         \/ \E page \in 1 .. MaxPage : GoToPage(page)
         \/ \E u \in Links : Navigate(u)
         \/ ClearFilters \/ Debounce
  PROVE  Types' /\ Steady
  <1>1. url \in Urls /\ box \in BOOLEAN /\ TypeOK
    BY DEF Types, TypeOK
  <1>2. ASSUME NEW label \in Labels, SetFilter(label) PROVE Types' /\ Steady
    <2>1. [url EXCEPT !.label = label] \in Urls
      BY <1>1 DEF Urls
    <2>2. [url EXCEPT !.label = label, !.page = 1] \in Urls
      BY <1>1, <2>1, FirstPage
    <2>. QED  BY <1>1, <1>2, <2>2, Visits, ClickIs DEF SetFilter
  <1>3. ASSUME NEW page \in 1 .. MaxPage, GoToPage(page) PROVE Types' /\ Steady
    <2>1. [url EXCEPT !.page = page] \in Urls
      BY <1>1 DEF Urls
    <2>. QED  BY <1>1, <1>3, <2>1, Visits, ClickIs DEF GoToPage
  <1>4. ASSUME NEW u \in Links, Navigate(u) PROVE Types' /\ Steady
    BY <1>1, <1>4, Visits, ClickIs DEF Navigate
  <1>5. ASSUME ClearFilters PROVE Types' /\ Steady
    <2>1. [label |-> Any, q |-> FALSE, page |-> 1] \in Urls
      BY DEF Urls, Labels
    <2>. QED  BY <1>1, <1>5, <2>1, Visits, ClickIs DEF ClearFilters
  <1>6. ASSUME Debounce PROVE Types' /\ Steady
    <2>1. [url EXCEPT !.q = box] \in Urls
      BY <1>1 DEF Urls
    <2>3. [url EXCEPT !.q = box, !.page = 1] \in Urls
      BY <1>1, <2>1, FirstPage
    <2>2. clicks' \in 0 .. MaxClicks
      BY <1>1, <1>6 DEF Debounce, TypeOK
    <2>. QED  BY <1>1, <1>6, <2>2, <2>3, Visits DEF Debounce
  <1>. QED  BY <1>2, <1>3, <1>4, <1>5, <1>6

LEMMA TryAgainTypes == ASSUME Types, TryAgain PROVE Types' /\ Steady
  <1>1. /\ UNCHANGED <<completed, stored, items, ops, deleting, selected, answered,
                       raced, drift, faults>>
        /\ Follow(url, total, load, TRUE, FALSE) /\ SyncBox(box)
    BY DEF TryAgain
  <1>2. /\ url \in Urls /\ total \in Nat /\ load \in Loads \union {NoLoad}
        /\ box \in BOOLEAN /\ TypeOK
    BY DEF Types, TypeOK
  <1>3. /\ url' \in Urls /\ total' = total /\ error' \in BOOLEAN
        /\ load' \in Loads \union {NoLoad}
        /\ load' = [url |-> url', reply |-> NoReply, dirty |-> {}] /\ ~error'
    BY <1>1, <1>2, Follows
  <1>4. box' \in BOOLEAN
    BY <1>1, <1>2, <1>3 DEF SyncBox, Urls
  <1>5. clicks' \in 0 .. MaxClicks
    BY <1>2, ClickIs DEF TryAgain
  <1>6. TypeOK'
    BY <1>1, <1>2, <1>3, <1>4, <1>5 DEF TypeOK
  <1>7. OpsAreWhole'
    BY <1>1 DEF Types, OpsAreWhole
  <1>8. \A k \in Slots : Owing(k)' <=> Owing(k)
    BY <1>1 DEF Owing, Answered
  <1>9. Steady
    BY <1>1, <1>3, <1>8 DEF Steady
  <1>. QED  BY <1>6, <1>7, <1>9 DEF Types

\* A keystroke, a check mark, or no step at all.
LEMMA Rests ==
  ASSUME Types, TypeSearch \/ SelectionChange \/ UNCHANGED vars PROVE Types' /\ Steady
  <1>1. TypeOK /\ DOMAIN items \subseteq Messages
    BY ListIs DEF Types, TypeOK
  <1>2. /\ UNCHANGED <<stored, items, total, url, load, completed, error, ops,
                       deleting, answered, raced, drift, faults>>
        /\ box' \in BOOLEAN /\ selected' \subseteq Messages /\ clicks' \in 0 .. MaxClicks
    <2>1. CASE TypeSearch
      BY <1>1, <2>1, ClickIs DEF TypeSearch, TypeOK
    <2>2. CASE SelectionChange
      <3>1. \/ \E m \in DOMAIN items : \/ Select(selected \union {m})
                                       \/ Select(selected \ {m})
            \/ Select(DOMAIN items) \/ Select({})
        BY <2>2 DEF SelectionChange
      <3>2. ASSUME NEW chosen, Select(chosen), chosen \subseteq DOMAIN items \union selected
            PROVE  /\ UNCHANGED <<stored, items, total, url, load, completed, error, ops,
                                  deleting, answered, raced, drift, faults>>
                   /\ box' \in BOOLEAN /\ selected' \subseteq Messages
                   /\ clicks' \in 0 .. MaxClicks
        BY <1>1, <3>2 DEF Select, TypeOK
      <3>. QED  BY <3>1, <3>2
    <2>3. CASE UNCHANGED vars
      BY <1>1, <2>3 DEF vars, TypeOK
    <2>. QED  BY <2>1, <2>2, <2>3
  <1>3. TypeOK'
    BY <1>1, <1>2 DEF TypeOK
  <1>4. OpsAreWhole'
    BY <1>2 DEF Types, OpsAreWhole
  <1>5. \A k \in Slots : Owing(k)' <=> Owing(k)
    BY <1>2 DEF Owing, Answered
  <1>6. Steady
    BY <1>2, <1>5 DEF Steady
  <1>. QED  BY <1>3, <1>4, <1>6 DEF Types

\* A request waits for its reply in a slot that was free.
LEMMA Issues ==
  ASSUME Types, NEW kind \in Kinds, NEW on, on \subseteq Messages, NEW arg \in Labels,
         kind \in Singles => \E m \in Messages : on = {m},
         kind \in {"move", "bulkMove"} => arg \in Categories,
         kind \in TagKinds \union {"bulkTag"} => arg \in Tags,
         Issue(kind, on, arg),
         clicks' \in 0 .. MaxClicks, deleting' \in Messages \union {NoMessage}
  PROVE  Types' /\ Steady
  <1>1. PICK op : op = [kind |-> kind, on |-> on, arg |-> arg,
                        filtered |-> HasActiveFilters(box, url.label), reply |-> NoReply]
    OBVIOUS
  <1>2. PICK k \in Slots : /\ ops[k] = NoOp
                           /\ ops' = [ops EXCEPT ![k] = op]
    BY <1>1 DEF Issue, Free
  <1>3. op \in Ops /\ op.reply = NoReply
    <2>1. HasActiveFilters(box, url.label) \in BOOLEAN
      BY DEF HasActiveFilters, Types, TypeOK
    <2>. QED  BY <1>1, <2>1 DEF Ops
  <1>4. Whole(op)
    BY <1>1 DEF Whole
  <1>5. /\ UNCHANGED <<stored, items, total, url, box, load, completed, error,
                       selected, answered, raced, drift, faults>>
    BY DEF Issue
  <1>6. /\ ops' \in [Slots -> Ops \union {NoOp}] /\ OpsAreWhole'
        /\ ops'[k] = op /\ \A i \in Slots \ {k} : ops'[i] = ops[i]
    BY <1>2, <1>3, <1>4, OneOp
  <1>7. TypeOK'
    BY <1>5, <1>6 DEF Types, TypeOK
  <1>8. ~Owing(k) /\ ~Owing(k)'
    BY <1>2, <1>3, <1>6 DEF Owing, Answered
  <1>9. Steady
    BY <1>5, <1>6, <1>8, OwesTheSame DEF Steady
  <1>. QED  BY <1>6, <1>7, <1>9 DEF Types

LEMMA Asks ==
  ASSUME Types,
         \/ \E m \in Messages : \/ \E c \in Categories : Move(m, c)
                                \/ \E t \in Tags : ChangeTag(m, t)
                                \/ Delete(m)
         \/ BulkAction
  PROVE  Types' /\ Steady
  <1>1. /\ TypeOK /\ selected \subseteq Messages
        /\ deleting \in Messages \union {NoMessage}
        /\ Categories \subseteq Labels /\ Tags \subseteq Labels /\ Any \in Labels
    BY DEF Types, TypeOK, Labels
  <1>2. ASSUME NEW m \in Messages, NEW c \in Categories, Move(m, c)
        PROVE  Types' /\ Steady
    <2>1. clicks' \in 0 .. MaxClicks /\ Issue("move", {m}, c) /\ deleting' = deleting
      BY <1>1, <1>2, ClickIs DEF Move, Target
    <2>2. "move" \in Kinds \ (TagKinds \union {"bulkTag"})
      BY DEF Kinds, TagKinds
    <2>. QED  BY <1>1, <2>1, <2>2, Issues
  <1>3. ASSUME NEW m \in Messages, NEW t \in Tags, ChangeTag(m, t)
        PROVE  Types' /\ Steady
    <2>1. clicks' \in 0 .. MaxClicks /\ deleting' = deleting
      BY <1>1, <1>3, ClickIs DEF ChangeTag, Target
    <2>2. PICK kind \in TagKinds : Issue(kind, {m}, t)
      BY <1>3 DEF ChangeTag, TagKinds
    <2>3. kind \in Kinds \ {"move", "bulkMove"}
      BY DEF Kinds, TagKinds
    <2>. QED  BY <1>1, <2>1, <2>2, <2>3, Issues
  <1>4. ASSUME NEW m \in Messages, Delete(m) PROVE Types' /\ Steady
    <2>1. clicks' \in 0 .. MaxClicks /\ Issue("delete", {m}, Any) /\ deleting' = m
      BY <1>1, <1>4, ClickIs DEF Delete, Target
    <2>2. "delete" \in Kinds \ (TagKinds \union {"move", "bulkMove", "bulkTag"})
      BY DEF Kinds, DeleteKinds, TagKinds
    <2>. QED  BY <1>1, <2>1, <2>2, Issues
  <1>5. ASSUME BulkAction PROVE Types' /\ Steady
    <2>1. PICK kind \in {"bulkMove", "bulkTag", "bulkDelete"}, arg \in Labels :
            /\ Bulk(kind, arg)
            /\ kind = "bulkMove" => arg \in Categories
            /\ kind = "bulkTag" => arg \in Tags
      BY <1>1, <1>5 DEF BulkAction
    <2>2. /\ clicks' \in 0 .. MaxClicks /\ Issue(kind, selected, arg)
          /\ deleting' = deleting
      BY <1>1, <2>1, ClickIs DEF Bulk
    <2>3. kind \in Kinds \ (Singles \union TagKinds \union {"move"})
      BY DEF Kinds, BulkKinds, Singles, TagKinds
    <2>. QED  BY <1>1, <2>1, <2>2, <2>3, Issues
  <1>. QED  BY <1>2, <1>3, <1>4, <1>5

\* What a served load holds: listed as stored, and all that matches counted.
LEMMA AnswerIs ==
  ASSUME TypeOK, NEW u \in Urls
  PROVE  /\ Matching(u) \subseteq Messages /\ IsFiniteSet(Matching(u))
         /\ Cardinality(Matching(u)) \in Nat
         /\ Answer(u) \in Answers
         /\ \A m \in DOMAIN Answer(u).items : Answer(u).items[m] = stored[m] /\ Matches(u, m)
         /\ Answer(u).total = Cardinality(Matching(u))
  <1>1. Matching(u) \subseteq Messages
    BY DEF Matching
  <1>2. IsFiniteSet(Matching(u)) /\ Cardinality(Matching(u)) \in Nat
    BY <1>1, FS_Subset, FS_CardinalityType
  <1>. DEFINE S == {n \in Matching(u) : OnPage(u, n)}
              list == [m \in S |-> stored[m]]
  <1>3. \A m \in S : m \in Messages /\ Matches(u, m) /\ stored[m] \in Records
    <2>1. \A m \in S : m \in Messages /\ Matches(u, m)
      BY DEF Matching
    <2>2. \A m \in Messages : Matches(u, m) => stored[m] # Gone
      BY DEF Matches
    <2>. QED  BY <2>1, <2>2 DEF TypeOK
  <1>4. list \in [S -> Records] /\ S \subseteq Messages
    BY <1>3
  <1>5. Answer(u) = [items |-> list, total |-> Cardinality(Matching(u))]
    BY DEF Answer
  <1>6. DOMAIN list = S /\ \A m \in S : list[m] = stored[m]
    OBVIOUS
  <1>. HIDE DEF S, list
  <1>7. list \in Lists
    BY <1>4, IsList
  <1>. QED  BY <1>1, <1>2, <1>3, <1>5, <1>6, <1>7 DEF Answers

LEMMA ServeLoadTypes == ASSUME Types, ServeLoad PROVE Types'
  <1>1. load \in Loads /\ load.url \in Urls /\ TypeOK
    BY LoadIs DEF ServeLoad, Types, TypeOK
  <1>2. PICK answer : answer = Answer(load.url)
    OBVIOUS
  <1>3. load' = [load EXCEPT !.reply = answer] /\ answer \in Answers
    BY <1>1, <1>2, AnswerIs DEF ServeLoad
  <1>4. load' \in Loads
    BY <1>1, <1>3 DEF Loads
  <1>5. TypeOK'
    BY <1>1, <1>4 DEF ServeLoad, TypeOK
  <1>6. OpsAreWhole'
    BY DEF ServeLoad, Types, OpsAreWhole
  <1>. QED  BY <1>5, <1>6 DEF Types

LEMMA LoseLoadTypes == ASSUME Types, LoseLoad PROVE Types'
  <1>1. load \in Loads /\ TypeOK
    BY DEF LoseLoad, Types, TypeOK
  <1>2. load' \in Loads
    BY <1>1 DEF LoseLoad, Loads
  <1>3. faults' \in 0 .. MaxFaults
    BY <1>1 DEF LoseLoad, TypeOK
  <1>4. TypeOK'
    BY <1>1, <1>2, <1>3 DEF LoseLoad, TypeOK
  <1>5. OpsAreWhole'
    BY DEF LoseLoad, Types, OpsAreWhole
  <1>. QED  BY <1>4, <1>5 DEF Types

\* What an answer to the load on the screen leaves.
LEMMA LoadArrived ==
  ASSUME Types, ReceiveLoad, LoadArrives
  PROVE  /\ load \in Loads /\ load.reply \in Answers /\ load.reply \notin {NoReply, Failed}
         /\ items' = load.reply.items /\ items' \in Lists
         /\ total' = load.reply.total /\ total' \in Nat /\ answered' = load.url
         /\ raced' = load.dirty \union (raced \intersect Overdue)
         /\ drift' = (load.dirty # {})
         /\ UNCHANGED <<stored, ops>>
         /\ url' \in Urls /\ error' \in BOOLEAN /\ load' \in Loads \union {NoLoad}
         /\ \/ load' = [url |-> url', reply |-> NoReply, dirty |-> {}] /\ ~error'
            \/ load' = NoLoad /\ url' = url /\ ~error'
  <1>1. load \in Loads /\ load.reply \notin {NoReply, Failed} /\ url \in Urls
    BY DEF ReceiveLoad, LoadArrives, Types, TypeOK
  <1>2. /\ load.reply \in Answers /\ load.reply.items \in Lists /\ load.reply.total \in Nat
    BY <1>1, LoadIs
  <1>3. Follow(url, load.reply.total, NoLoad, FALSE, FALSE)
    BY DEF LoadArrives
  <1>4. /\ url' \in Urls /\ total' = load.reply.total /\ error' \in BOOLEAN
        /\ load' \in Loads \union {NoLoad}
        /\ \/ load' = [url |-> url', reply |-> NoReply, dirty |-> {}] /\ ~error'
           \/ load' = NoLoad /\ url' = url /\ ~error'
    BY <1>1, <1>2, <1>3, Follows
  <1>5. /\ items' = load.reply.items /\ answered' = load.url
        /\ raced' = load.dirty \union (raced \intersect Overdue)
        /\ drift' = (load.dirty # {}) /\ UNCHANGED <<stored, ops>>
    BY DEF LoadArrives, ReceiveLoad, List
  <1>. QED  BY <1>1, <1>2, <1>4, <1>5

\* A load that fails puts up the error, unless the URL had to change.
LEMMA LoadFailed ==
  ASSUME Types, ReceiveLoad, LoadFails
  PROVE  /\ items' \in Lists /\ total' \in Nat
         /\ UNCHANGED <<stored, ops, answered, raced, drift>>
         /\ url' \in Urls /\ error' \in BOOLEAN /\ load' \in Loads \union {NoLoad}
         /\ \/ load' = [url |-> url', reply |-> NoReply, dirty |-> {}] /\ ~error'
            \/ load' = NoLoad /\ error'
  <1>1. url \in Urls /\ total \in Nat /\ items \in Lists
    BY DEF Types, TypeOK
  <1>2. PICK t : t = IF completed THEN total ELSE 0
    OBVIOUS
  <1>3. Follow(url, t, NoLoad, FALSE, TRUE) /\ t \in Nat
    BY <1>1, <1>2 DEF LoadFails
  <1>4. /\ url' \in Urls /\ total' = t /\ error' \in BOOLEAN
        /\ load' \in Loads \union {NoLoad}
        /\ \/ load' = [url |-> url', reply |-> NoReply, dirty |-> {}] /\ ~error'
           \/ load' = NoLoad /\ error'
    BY <1>1, <1>3, Follows
  <1>5. items' = items \/ items' = <<>>
    BY DEF LoadFails, List
  <1>6. UNCHANGED <<stored, ops, answered, raced, drift>>
    BY DEF LoadFails, ReceiveLoad
  <1>. QED  BY <1>1, <1>3, <1>4, <1>5, <1>6, EmptyList

LEMMA ReceiveLoadTypes == ASSUME Types, ReceiveLoad PROVE Types'
  <1>1. TypeOK
    BY DEF Types
  <1>2. /\ stored' = stored /\ ops' = ops /\ deleting' = deleting
        /\ faults' = faults /\ clicks' = clicks /\ completed' = TRUE
    BY DEF ReceiveLoad
  <1>3. /\ url' \in Urls /\ total' \in Nat /\ error' \in BOOLEAN /\ items' \in Lists
        /\ load' \in Loads \union {NoLoad}
        /\ answered' \in Urls \union {NoLoad} /\ raced' \subseteq Messages
        /\ drift' \in BOOLEAN
    <2>1. CASE LoadArrives
      <3>1. answered' \in Urls /\ raced' \subseteq Messages /\ drift' \in BOOLEAN
        BY <1>1, <2>1, LoadArrived, LoadIs DEF TypeOK
      <3>. QED  BY <2>1, <3>1, LoadArrived
    <2>2. CASE LoadFails
      BY <1>1, <2>2, LoadFailed DEF TypeOK
    <2>. QED  BY <2>1, <2>2 DEF ReceiveLoad
  <1>4. selected' \subseteq Messages
    BY <1>1 DEF ReceiveLoad, LoadArrives, LoadFails, List, TypeOK
  <1>5. box' \in BOOLEAN
    BY <1>1, <1>3 DEF ReceiveLoad, SyncBox, Urls, TypeOK
  <1>6. TypeOK'
    BY <1>1, <1>2, <1>3, <1>4, <1>5 DEF TypeOK
  <1>7. OpsAreWhole'
    BY <1>2 DEF Types, OpsAreWhole
  <1>. QED  BY <1>6, <1>7 DEF Types

\* What a change that the server carries out leaves.
LEMMA Committed ==
  ASSUME Types, NEW k \in Slots, Waiting(k), Commit(k)
  PROVE  /\ ops[k] \in Ops /\ Whole(ops[k]) /\ ops[k].kind # "create"
         /\ ops[k].reply = NoReply
         /\ stored' \in [Messages -> Records \union {Gone}]
         /\ \A m \in Messages \ ops[k].on : stored'[m] = stored[m]
         /\ \A m \in ops[k].on : /\ m \in Messages /\ stored[m] \in Records
                                 /\ stored'[m] = Changed(ops[k], stored[m])
         /\ ops' \in [Slots -> Ops \union {NoOp}] /\ OpsAreWhole'
         /\ ops'[k] \in Ops /\ Whole(ops'[k])
         /\ ops'[k].kind = ops[k].kind /\ ops'[k].on = ops[k].on
         /\ ops'[k].arg = ops[k].arg /\ ops'[k].filtered = ops[k].filtered
         /\ IF ops[k].kind \in Receipts
            THEN \E m \in Messages : /\ ops[k].on = {m} /\ stored'[m] \in Records
                                     /\ ops'[k].reply = stored'[m]
            ELSE ops'[k].reply = Done
         /\ \A i \in Slots \ {k} : ops'[i] = ops[i]
  <1>. PICK op : op = ops[k]
    OBVIOUS
  <1>1. op \in Ops /\ Whole(op) /\ op.kind # "create" /\ op.reply = NoReply
    BY OpOf DEF Waiting, Commit
  <1>2. op.on \subseteq Messages /\ op.kind \in Kinds
    BY <1>1, OpIs
  <1>3. \A m \in op.on : m \in Messages /\ stored[m] \in Records
    BY <1>2 DEF Commit, Exists, Types, TypeOK
  <1>4. stored' = [m \in Messages |-> IF m \in op.on THEN Changed(op, stored[m])
                                      ELSE stored[m]]
    BY DEF Commit
  <1>5. \A m \in op.on : Changed(op, stored[m]) \in Records \union {Gone}
    BY <1>1, <1>3, ChangedIs
  <1>6. /\ stored' \in [Messages -> Records \union {Gone}]
        /\ \A m \in Messages \ op.on : stored'[m] = stored[m]
        /\ \A m \in op.on : stored'[m] = Changed(op, stored[m])
    BY <1>2, <1>4, <1>5 DEF Types, TypeOK
  <1>. PICK r : r = Receipt(op)
    OBVIOUS
  <1>. PICK answer : answer = [op EXCEPT !.reply = r]
    OBVIOUS
  <1>7. ops' = [ops EXCEPT ![k] = answer]
    BY DEF Commit, Reply
  <1>8. IF op.kind \in Receipts
        THEN \E m \in Messages : op.on = {m} /\ stored'[m] \in Records /\ r = stored'[m]
        ELSE r = Done
    <2>1. CASE op.kind \in Receipts
      <3>1. PICK m \in Messages : op.on = {m}
        BY <1>1, <2>1 DEF Whole, Singles, Receipts, TagKinds
      <3>2. r = stored'[m]
        BY <2>1, <3>1 DEF Receipt, Receipts
      <3>3. stored'[m] \in Records
        BY <1>1, <1>3, <1>6, <2>1, <3>1, ChangedIs DEF Receipts, DeleteKinds
      <3>. QED  BY <2>1, <3>1, <3>2, <3>3
    <2>2. CASE op.kind \notin Receipts
      BY <2>2 DEF Receipt, Receipts
    <2>. QED  BY <2>1, <2>2
  <1>9. /\ answer.kind = op.kind /\ answer.on = op.on /\ answer.arg = op.arg
        /\ answer.filtered = op.filtered /\ answer.reply = r /\ answer \in Ops
    <2>1. r \in Records \union {Done}
      BY <1>8
    <2>. QED  BY <1>1, <2>1 DEF Ops
  <1>10. Whole(answer)
    BY <1>1, <1>8, <1>9 DEF Whole
  <1>11. /\ ops' \in [Slots -> Ops \union {NoOp}] /\ OpsAreWhole'
         /\ ops'[k] = answer /\ \A i \in Slots \ {k} : ops'[i] = ops[i]
    BY <1>7, <1>9, <1>10, OneOp
  <1>. QED  BY <1>1, <1>3, <1>6, <1>8, <1>9, <1>10, <1>11

LEMMA CommitTypes == ASSUME Types, NEW k \in Slots, ServeOp(k), Commit(k) PROVE Types'
  <1>1. Waiting(k) /\ TypeOK
    BY DEF ServeOp, Types
  <1>2. /\ stored' \in [Messages -> Records \union {Gone}]
        /\ ops' \in [Slots -> Ops \union {NoOp}] /\ OpsAreWhole'
        /\ ops[k] \in Ops
    BY <1>1, Committed
  <1>3. ops[k].on \subseteq Messages
    BY <1>2, OpIs
  <1>4. raced' \subseteq Messages
    BY <1>1, <1>3 DEF Commit, TypeOK
  <1>5. load' \in Loads \union {NoLoad} /\ drift' \in BOOLEAN
    <2>1. CASE load # NoLoad /\ load.reply # NoReply
      <3>1. load \in Loads /\ load' = [load EXCEPT !.dirty = @ \union ops[k].on] /\ drift' = TRUE
        BY <1>1, <2>1 DEF Commit, TypeOK
      <3>. QED  BY <1>3, <3>1 DEF Loads
    <2>2. CASE ~(load # NoLoad /\ load.reply # NoReply)
      BY <1>1, <2>2 DEF Commit, TypeOK
    <2>. QED  BY <2>1, <2>2
  <1>6. TypeOK'
    BY <1>1, <1>2, <1>4, <1>5 DEF ServeOp, TypeOK
  <1>. QED  BY <1>2, <1>6 DEF Types

LEMMA RefuseTypes ==
  ASSUME Types, NEW k \in Slots, ServeOp(k), Refuse(k) PROVE Types' /\ Steady
  <1>. PICK op : op = ops[k]
    OBVIOUS
  <1>1. op \in Ops /\ Whole(op) /\ op.reply = NoReply
    BY OpOf DEF ServeOp, Waiting
  <1>2. PICK r \in {Done, Failed, Conflict} : /\ ops' = [ops EXCEPT ![k].reply = r]
                                              /\ r = Done => op.kind = "create"
    BY DEF Refuse, Reply
  <1>. PICK answer : answer = [op EXCEPT !.reply = r]
    OBVIOUS
  <1>3. /\ answer.kind = op.kind /\ answer.on = op.on /\ answer.arg = op.arg
        /\ answer.reply = r /\ answer \in Ops
    BY <1>1 DEF Ops
  <1>4. Whole(answer)
    BY <1>1, <1>2, <1>3 DEF Whole
  <1>5. ops' = [ops EXCEPT ![k] = answer]
    BY <1>2
  <1>6. /\ ops' \in [Slots -> Ops \union {NoOp}] /\ OpsAreWhole'
        /\ ops'[k] = answer /\ \A i \in Slots \ {k} : ops'[i] = ops[i]
    BY <1>3, <1>4, <1>5, OneOp
  <1>7. /\ UNCHANGED <<stored, raced, load, drift, items, total, url, box, completed,
                       error, deleting, selected, answered, faults, clicks>>
    BY DEF ServeOp, Refuse
  <1>8. TypeOK'
    BY <1>6, <1>7 DEF Types, TypeOK
  <1>9. ~Owing(k) /\ ~Owing(k)'
    BY <1>1, <1>2, <1>3, <1>6 DEF Owing, Answered
  <1>10. Steady
    BY <1>6, <1>7, <1>9, OwesTheSame DEF Steady
  <1>. QED  BY <1>6, <1>8, <1>10 DEF Types

LEMMA LoseOpTypes == ASSUME Types, NEW k \in Slots, LoseOp(k) PROVE Types' /\ Steady
  <1>. PICK op : op = ops[k]
    OBVIOUS
  <1>1. op \in Ops /\ Whole(op) /\ TypeOK
    BY OpOf DEF LoseOp, Types
  <1>. PICK lost : lost = [op EXCEPT !.reply = Failed]
    OBVIOUS
  <1>2. /\ lost.kind = op.kind /\ lost.on = op.on /\ lost.arg = op.arg
        /\ lost.reply = Failed /\ lost \in Ops
    BY <1>1 DEF Ops
  <1>3. Whole(lost)
    BY <1>1, <1>2 DEF Whole
  <1>4. ops' = [ops EXCEPT ![k] = lost]
    BY DEF LoseOp, Reply
  <1>5. /\ ops' \in [Slots -> Ops \union {NoOp}] /\ OpsAreWhole'
        /\ ops'[k] = lost /\ \A i \in Slots \ {k} : ops'[i] = ops[i]
    BY <1>2, <1>3, <1>4, OneOp
  <1>6. /\ UNCHANGED <<stored, items, total, url, box, load, completed, error,
                       deleting, selected, answered, clicks>>
        /\ faults' \in 0 .. MaxFaults
        /\ raced' = raced \union (IF Answered(k) THEN op.on ELSE {})
        /\ drift' = (drift \/ Answered(k))
    BY <1>1 DEF LoseOp, TypeOK
  <1>7. raced' \subseteq Messages /\ drift' \in BOOLEAN
    BY <1>1, <1>6, OpIs DEF TypeOK
  <1>8. TypeOK'
    BY <1>1, <1>5, <1>6, <1>7 DEF TypeOK
  <1>9. ~Owing(k)'
    BY <1>2, <1>5 DEF Owing
  <1>10. ASSUME NEW i \in Slots
         PROVE  /\ Owing(i)' => Owing(i) /\ ops'[i] = ops[i]
                /\ Owing(i) => Owing(i)' \/ (ops[i].on \subseteq raced' /\ drift')
    <2>1. CASE i = k
      BY <1>6, <1>9, <2>1 DEF Owing
    <2>2. CASE i # k
      BY <1>5, <2>2 DEF Owing, Answered
    <2>. QED  BY <2>1, <2>2
  <1>11. Steady
    BY <1>6, <1>10 DEF Steady
  <1>. QED  BY <1>5, <1>8, <1>11 DEF Types

LEMMA ReceivedTypes ==
  ASSUME Types, NEW k \in Slots, ReceiveOp(k),
         items' \in Lists, selected' \subseteq Messages, url' \in Urls, total' \in Nat,
         error' \in BOOLEAN, load' \in Loads \union {NoLoad},
         ops' \in [Slots -> Ops \union {NoOp}], OpsAreWhole',
         deleting' \in Messages \union {NoMessage}, raced' \subseteq Messages,
         drift' \in BOOLEAN
  PROVE  Types'
  <1>1. /\ UNCHANGED <<completed, stored, answered, faults, clicks>>
        /\ SyncBox(box) /\ TypeOK
    BY DEF ReceiveOp, Types
  <1>2. box' \in BOOLEAN
    BY <1>1 DEF SyncBox, Urls, TypeOK
  <1>3. TypeOK'
    BY <1>1, <1>2 DEF TypeOK
  <1>. QED  BY <1>3 DEF Types

\* The slot of a change that has ended.
LEMMA Ended ==
  ASSUME Types, NEW k \in Slots, End(k)
  PROVE  /\ ops' \in [Slots -> Ops \union {NoOp}] /\ OpsAreWhole' /\ ~Owing(k)'
         /\ ops'[k] = NoOp /\ \A i \in Slots \ {k} : ops'[i] = ops[i]
  <1>1. ops' = [ops EXCEPT ![k] = NoOp]
    BY DEF End
  <1>2. /\ ops' \in [Slots -> Ops \union {NoOp}] /\ OpsAreWhole'
        /\ ops'[k] = NoOp /\ \A i \in Slots \ {k} : ops'[i] = ops[i]
    BY <1>1, OneOp
  <1>. QED  BY <1>2 DEF Owing, Answered

\* What a reply that patches the list leaves.
LEMMA ChangeArrived ==
  ASSUME Types, NEW k \in Slots, ReceiveOp(k), ChangeArrives(k)
  PROVE  /\ Owing(k) /\ ops[k] \in Ops /\ Whole(ops[k])
         /\ ops[k].kind \notin DeleteKinds \union {"create"}
         /\ items' \in Lists /\ DOMAIN items' = DOMAIN items
         /\ \A m \in DOMAIN items :
              items'[m] = IF m \in ops[k].on THEN Patch(ops[k], items[m]) ELSE items[m]
         /\ selected' \subseteq Messages
         /\ UNCHANGED <<stored, total, answered, deleting>>
         /\ url' \in Urls /\ error' \in BOOLEAN /\ load' \in Loads \union {NoLoad}
         /\ \/ load' = [url |-> url', reply |-> NoReply, dirty |-> {}] /\ ~error'
            \/ load' = load /\ url' = url /\ ~Reloads(ops[k]) /\ error' = error
         /\ ops' \in [Slots -> Ops \union {NoOp}] /\ OpsAreWhole' /\ ~Owing(k)'
         /\ \A i \in Slots \ {k} : ops'[i] = ops[i]
  <1>. PICK op : op = ops[k]
    OBVIOUS
  <1>1. /\ op \in Ops /\ Whole(op) /\ op.kind \notin DeleteKinds \union {"create"}
        /\ op.reply \notin {NoReply, Failed, Conflict} /\ Owing(k)
    BY OpOf DEF ReceiveOp, Answered, ChangeArrives, Owing
  <1>2. /\ url \in Urls /\ total \in Nat /\ load \in Loads \union {NoLoad}
        /\ error \in BOOLEAN /\ items \in Lists /\ selected \subseteq Messages
    BY DEF Types, TypeOK
  <1>3. DOMAIN items \subseteq Messages /\ \A m \in DOMAIN items : items[m] \in Records
    BY <1>2, ListIs
  <1>4. \A m : Updated(op, m) = Patch(op, items[m])
    BY DEF Updated, Patch
  <1>5. ASSUME NEW r \in Records PROVE Patch(op, r) \in Records
    <2>1. CASE op.kind \in Receipts
      <3>1. op.reply \in Records
        BY <1>1, <2>1 DEF Whole
      <3>. QED  BY <2>1, <3>1 DEF Patch, Receipts, Records
    <2>2. CASE op.kind \notin Receipts
      <3>1. Patch(op, r) = Changed(op, r)
        BY <2>2 DEF Patch, Receipts
      <3>. QED  BY <1>1, <3>1, ChangedIs
    <2>. QED  BY <2>1, <2>2
  <1>. PICK next : next = Patched(op)
    OBVIOUS
  <1>6. next = [m \in DOMAIN items |-> IF m \in op.on THEN Patch(op, items[m]) ELSE items[m]]
    BY <1>4 DEF Patched
  <1>7. /\ next \in Lists /\ DOMAIN next = DOMAIN items
        /\ \A m \in DOMAIN items :
             next[m] = IF m \in op.on THEN Patch(op, items[m]) ELSE items[m]
    <2>1. next \in [DOMAIN items -> Records]
      BY <1>3, <1>5, <1>6
    <2>. QED  BY <1>3, <1>6, <2>1, IsList
  <1>8. items' = next /\ selected' \subseteq Messages
    BY <1>2 DEF ChangeArrives, List
  <1>9. /\ Follow(url, total, load, Reloads(op), error) /\ End(k)
        /\ UNCHANGED <<stored, answered, deleting>>
    BY DEF ChangeArrives, ReceiveOp
  <1>. PICK again : again = Reloads(op)
    OBVIOUS
  <1>10. /\ url' \in Urls /\ total' = total /\ error' \in BOOLEAN
         /\ load' \in Loads \union {NoLoad}
         /\ \/ load' = [url |-> url', reply |-> NoReply, dirty |-> {}] /\ ~error'
            \/ load' = load /\ url' = url /\ ~again /\ (error' <=> error)
    <2>1. Follow(url, total, load, again, error)
      BY <1>9
    <2>. QED  BY <1>2, <2>1, Follows
  <1>11. /\ ops' \in [Slots -> Ops \union {NoOp}] /\ OpsAreWhole' /\ ~Owing(k)'
         /\ \A i \in Slots \ {k} : ops'[i] = ops[i]
    BY <1>9, Ended
  <1>. QED  BY <1>1, <1>2, <1>7, <1>8, <1>9, <1>10, <1>11

LEMMA ChangeArrivesTypes ==
  ASSUME Types, NEW k \in Slots, ReceiveOp(k), ChangeArrives(k) PROVE Types'
  <1>1. /\ items' \in Lists /\ selected' \subseteq Messages /\ url' \in Urls
        /\ total' = total /\ deleting' = deleting
        /\ error' \in BOOLEAN /\ load' \in Loads \union {NoLoad}
        /\ ops' \in [Slots -> Ops \union {NoOp}] /\ OpsAreWhole' /\ ops[k] \in Ops
    BY ChangeArrived
  <1>2. /\ total \in Nat /\ deleting \in Messages \union {NoMessage} /\ drift \in BOOLEAN
        /\ raced \subseteq Messages
    BY DEF Types, TypeOK
  <1>3. ops[k].on \subseteq Messages
    BY <1>1, OpIs
  <1>4. raced' = raced \/ raced' = raced \union ops[k].on
    BY DEF ChangeArrives
  <1>5. drift' \in BOOLEAN
    BY <1>2 DEF ChangeArrives
  <1>. QED  BY <1>1, <1>2, <1>3, <1>4, <1>5, ReceivedTypes

\* What a reply to a deletion leaves.
LEMMA DeletionArrived ==
  ASSUME Types, NEW k \in Slots, ReceiveOp(k), DeletionArrives(k)
  PROVE  /\ Owing(k) /\ ops[k] \in Ops /\ ops[k].kind \in DeleteKinds
         /\ ops[k].on \subseteq Messages /\ IsFiniteSet(ops[k].on)
         /\ items' \in Lists /\ DOMAIN items' = DOMAIN items \ ops[k].on
         /\ \A m \in DOMAIN items' : items'[m] = items[m]
         /\ selected' \subseteq Messages
         /\ UNCHANGED <<stored, answered, raced>>
         /\ total' = TotalWithout(ops[k].on) /\ total' \in Nat
         /\ url' \in Urls /\ error' \in BOOLEAN /\ load' \in Loads \union {NoLoad}
         /\ \/ load' = [url |-> url', reply |-> NoReply, dirty |-> {}] /\ ~error'
            \/ load' = load /\ url' = url /\ error' = error
         /\ ops' \in [Slots -> Ops \union {NoOp}] /\ OpsAreWhole' /\ ~Owing(k)'
         /\ \A i \in Slots \ {k} : ops'[i] = ops[i]
  <1>. PICK op : op = ops[k]
    OBVIOUS
  <1>1. /\ op \in Ops /\ op.kind \in DeleteKinds /\ op.reply = Done /\ Owing(k)
    BY OpOf DEF ReceiveOp, Answered, DeletionArrives, Owing, DeleteKinds
  <1>2. op.on \subseteq Messages /\ IsFiniteSet(op.on) /\ Cardinality(op.on) \in Nat
    BY <1>1, OpIs, FS_Subset, FS_CardinalityType
  <1>3. /\ url \in Urls /\ total \in Nat /\ load \in Loads \union {NoLoad}
        /\ error \in BOOLEAN /\ items \in Lists /\ selected \subseteq Messages
    BY DEF Types, TypeOK
  <1>4. DOMAIN items \subseteq Messages /\ \A m \in DOMAIN items : items[m] \in Records
    BY <1>3, ListIs
  <1>. PICK left : left = [m \in DOMAIN items \ op.on |-> items[m]]
    OBVIOUS
  <1>5. /\ left \in Lists /\ DOMAIN left = DOMAIN items \ op.on
        /\ \A m \in DOMAIN left : left[m] = items[m]
    <2>1. left \in [DOMAIN items \ op.on -> Records]
      BY <1>4
    <2>. QED  BY <1>4, <2>1, IsList
  <1>6. items' = left /\ selected' \subseteq Messages
    BY <1>3 DEF DeletionArrives, List
  <1>. PICK t : t = TotalWithout(op.on)
    OBVIOUS
  <1>7. t \in Nat
    BY <1>2, <1>3 DEF TotalWithout
  <1>8. /\ Follow(url, t, load, FALSE, error) /\ End(k)
        /\ UNCHANGED <<stored, answered, raced>>
    BY DEF DeletionArrives, ReceiveOp
  <1>9. /\ url' \in Urls /\ total' = t /\ error' \in BOOLEAN
        /\ load' \in Loads \union {NoLoad}
        /\ \/ load' = [url |-> url', reply |-> NoReply, dirty |-> {}] /\ ~error'
           \/ load' = load /\ url' = url /\ (error' <=> error)
    BY <1>3, <1>7, <1>8, Follows
  <1>10. /\ ops' \in [Slots -> Ops \union {NoOp}] /\ OpsAreWhole' /\ ~Owing(k)'
         /\ \A i \in Slots \ {k} : ops'[i] = ops[i]
    BY <1>8, Ended
  <1>11. (error' <=> error) => error' = error
    BY <1>3, <1>9
  <1>. QED  BY <1>1, <1>2, <1>5, <1>6, <1>7, <1>8, <1>9, <1>10, <1>11

LEMMA DeletionArrivesTypes ==
  ASSUME Types, NEW k \in Slots, ReceiveOp(k), DeletionArrives(k) PROVE Types'
  <1>1. /\ items' \in Lists /\ selected' \subseteq Messages /\ url' \in Urls
        /\ total' \in Nat /\ raced' = raced
        /\ error' \in BOOLEAN /\ load' \in Loads \union {NoLoad}
        /\ ops' \in [Slots -> Ops \union {NoOp}] /\ OpsAreWhole'
    BY DeletionArrived
  <1>2. /\ deleting \in Messages \union {NoMessage} /\ drift \in BOOLEAN
        /\ raced \subseteq Messages
    BY DEF Types, TypeOK
  <1>3. drift' \in BOOLEAN /\ deleting' \in Messages \union {NoMessage}
    BY <1>2 DEF DeletionArrives
  <1>. QED  BY <1>1, <1>2, <1>3, ReceivedTypes

\* The second confirmation, the tag that now exists, and the changes that failed:
\* the page owes what it owed.
LEMMA Turns ==
  ASSUME Types, NEW k \in Slots, ReceiveOp(k),
         Follow(url, total, load, FALSE, error), UNCHANGED <<items, selected, raced, drift>>,
         NEW op \in Ops \union {NoOp}, op # NoOp => Whole(op) /\ op.reply = NoReply,
         ops' = [ops EXCEPT ![k] = op],
         ~Owing(k), deleting' \in Messages \union {NoMessage}
  PROVE  Types' /\ Steady
  <1>1. /\ url \in Urls /\ total \in Nat /\ load \in Loads \union {NoLoad}
        /\ error \in BOOLEAN /\ items \in Lists /\ selected \subseteq Messages
        /\ raced \subseteq Messages /\ drift \in BOOLEAN
    BY DEF Types, TypeOK
  <1>2. /\ url' \in Urls /\ total' = total /\ error' \in BOOLEAN
        /\ load' \in Loads \union {NoLoad}
        /\ \/ load' = [url |-> url', reply |-> NoReply, dirty |-> {}] /\ ~error'
           \/ load' = load /\ url' = url /\ (error' <=> error)
    BY <1>1, Follows
  <1>3. /\ ops' \in [Slots -> Ops \union {NoOp}] /\ OpsAreWhole'
        /\ ops'[k] = op /\ \A i \in Slots \ {k} : ops'[i] = ops[i]
    BY OneOp
  <1>4. ~Owing(k)'
    BY <1>3 DEF Owing, Answered
  <1>5. Types'
    BY <1>1, <1>2, <1>3, ReceivedTypes
  <1>6. UNCHANGED <<stored, answered>>
    BY DEF ReceiveOp
  <1>7. error' = error \/ (load' = [url |-> url', reply |-> NoReply, dirty |-> {}] /\ ~error')
    BY <1>1, <1>2
  <1>8. Steady
    BY <1>2, <1>3, <1>4, <1>6, <1>7, OwesTheSame DEF Steady
  <1>. QED  BY <1>5, <1>8

LEMMA TurnsTypes ==
  ASSUME Types, NEW k \in Slots, ReceiveOp(k),
         DeleteLocally(k) \/ AttachCreated(k) \/ ChangeFails(k)
  PROVE  Types' /\ Steady
  <1>. PICK op : op = ops[k]
    OBVIOUS
  <1>1. /\ op \in Ops /\ Whole(op) /\ op.on \subseteq Messages
        /\ deleting \in Messages \union {NoMessage}
    BY OpOf, OpIs DEF ReceiveOp, Answered, Types, TypeOK
  <1>2. CASE DeleteLocally(k)
    <2>. PICK again : again = [op EXCEPT !.kind = IF @ = "delete" THEN "deleteLocal"
                                                  ELSE "bulkDeleteLocal",
                                         !.reply = NoReply]
      OBVIOUS
    <2>1. ops' = [ops EXCEPT ![k] = again]
      BY <1>2 DEF DeleteLocally
    <2>2. /\ again.on = op.on /\ again.reply = NoReply
          /\ again.kind = IF op.kind = "delete" THEN "deleteLocal" ELSE "bulkDeleteLocal"
      BY <1>1 DEF Ops
    <2>3. again \in Ops
      BY <1>1 DEF Ops, Kinds, DeleteKinds
    <2>4. op.kind = "delete" => \E m \in Messages : op.on = {m}
      BY <1>1 DEF Whole, Singles
    <2>5. Whole(again)
      BY <2>2, <2>4 DEF Whole, Singles, TagKinds
    <2>6. deleting' \in Messages \union {NoMessage}
      BY <1>1, <1>2, <2>4 DEF DeleteLocally
    <2>7. ~Owing(k)
      BY <1>2 DEF DeleteLocally, Owing
    <2>. QED  BY <1>2, <2>1, <2>2, <2>3, <2>5, <2>6, <2>7, Turns DEF DeleteLocally
  <1>3. CASE AttachCreated(k)
    <2>. PICK again : again = [op EXCEPT !.kind = "addTag", !.reply = NoReply]
      OBVIOUS
    <2>1. ops' = [ops EXCEPT ![k] = again] /\ op.kind = "create" /\ deleting' = deleting
      BY <1>3 DEF AttachCreated
    <2>2. again.on = op.on /\ again.reply = NoReply /\ again.kind = "addTag"
          /\ again.arg = op.arg
      BY <1>1 DEF Ops
    <2>3. again \in Ops
      BY <1>1 DEF Ops, Kinds, TagKinds
    <2>4. op.arg \in Tags /\ \E m \in Messages : op.on = {m}
      BY <1>1, <2>1 DEF Whole, Singles, TagKinds
    <2>5. Whole(again)
      BY <2>2, <2>4 DEF Whole
    <2>6. ~Owing(k)
      BY <2>1 DEF Owing
    <2>. QED  BY ZenonT(60), <1>1, <1>3, <2>1, <2>2, <2>3, <2>5, <2>6, Turns DEF AttachCreated
  <1>4. CASE ChangeFails(k)
    <2>1. ops' = [ops EXCEPT ![k] = NoOp]
      BY <1>4 DEF ChangeFails, End
    <2>2. deleting' \in Messages \union {NoMessage}
      BY <1>1, <1>4 DEF ChangeFails
    <2>3. ~Owing(k)
      BY <1>4 DEF ChangeFails, Owing
    <2>. QED  BY <1>4, <2>1, <2>2, <2>3, Turns DEF ChangeFails
  <1>. QED  BY <1>2, <1>3, <1>4

\* The steps that carry out a change, show one, or end a load.
Telling ==
  \/ ServeLoad \/ LoseLoad \/ ReceiveLoad
  \/ \E k \in Slots : \/ ServeOp(k) /\ Commit(k)
                      \/ ReceiveOp(k) /\ ChangeArrives(k)
                      \/ ReceiveOp(k) /\ DeletionArrives(k)

LEMMA NextTypes ==
  ASSUME Types, [Next]_vars PROVE Types' /\ (Steady \/ Telling)
  <1>1. CASE UNCHANGED vars
    BY <1>1, Rests
  <1>2. CASE User \/ Debounce
    BY <1>2, Browses, TryAgainTypes, Rests, Asks DEF User
  <1>3. CASE ServeLoad \/ LoseLoad \/ ReceiveLoad
    BY <1>3, ServeLoadTypes, LoseLoadTypes, ReceiveLoadTypes DEF Telling
  <1>4. ASSUME NEW k \in Slots, ServeOp(k) \/ LoseOp(k) \/ ReceiveOp(k)
        PROVE  Types' /\ (Steady \/ Telling)
    <2>1. CASE ServeOp(k)
      BY <2>1, CommitTypes, RefuseTypes DEF ServeOp, Telling
    <2>2. CASE LoseOp(k)
      BY <2>2, LoseOpTypes
    <2>3. CASE ReceiveOp(k)
      <3>1. \/ ChangeArrives(k) \/ DeletionArrives(k)
            \/ DeleteLocally(k) \/ AttachCreated(k) \/ ChangeFails(k)
        BY <2>3 DEF ReceiveOp
      <3>. QED  BY <2>3, <3>1, ChangeArrivesTypes, DeletionArrivesTypes, TurnsTypes DEF Telling
    <2>. QED  BY <1>4, <2>1, <2>2, <2>3
  <1>. QED  BY <1>1, <1>2, <1>3, <1>4 DEF Next

\* The messages on the screen are the user's, a load is of a URL of the list,
\* and a reply is one that its request can have.
THEOREM MessagesTypesCorrect == Spec => []TypeOK
  <1>1. Types => TypeOK
    BY DEF Types
  <1>. QED  BY <1>1, InitTypes, NextTypes, PTL DEF Spec

-----------------------------------------------------------------------------
(* The inductive invariant *)

OwedOn(k, m) == Owing(k) /\ m \in ops[k].on

\* Two changes that the page has yet to see are not about one message, unless
\* the message is marked as raced.
EndsAreAlone ==
  \A j, k \in Slots : \A m \in Messages :
    OwedOn(j, m) /\ OwedOn(k, m) /\ j # k => m \in raced

\* A reply would not change the message it is about as the server has it.
ReceiptsHold ==
  \A k \in Slots : \A m \in Messages \ raced :
    OwedOn(k, m) => Patch(ops[k], stored[m]) = stored[m]

\* A message is deleted once.
DeletedOnce ==
  /\ \A k \in Slots : \A m \in Messages :
       OwedOn(k, m) /\ ops[k].kind \in DeleteKinds => stored[m] = Gone
  /\ \A j, k \in Slots : \A m \in Messages :
       /\ OwedOn(j, m) /\ ops[j].kind \in DeleteKinds
       /\ OwedOn(k, m) /\ ops[k].kind \in DeleteKinds
       => j = k

Owes == EndsAreAlone /\ ReceiptsHold /\ DeletedOnce

AtRest == load = NoLoad /\ ~error

LoadIsOfUrl == load # NoLoad => load.url = url

Served == load # NoLoad /\ load.reply \notin {NoReply, Failed}

\* An answer under way is right, but for what was changed since it was made.
ReplyHolds ==
  Served =>
    /\ \A m \in DOMAIN load.reply.items \ load.dirty :
         load.reply.items[m] = stored[m] /\ Matches(load.url, m)
    /\ load.dirty = {} => load.reply.total = Cardinality(Matching(load.url))

\* A listed message is as stored, or will be with the one reply it waits for.
Shown(m) ==
  /\ (\A k \in Slots : ~OwedOn(k, m)) => items[m] = stored[m]
  /\ \A k \in Slots : OwedOn(k, m) => Patch(ops[k], items[m]) = stored[m]
  /\ (\A k \in Slots : OwedOn(k, m) => ops[k].kind = "bulkTag") => Matches(url, m)

ListHolds == AtRest => \A m \in DOMAIN items \ raced : Shown(m)

Filtered == HasActiveFilters(url.q, url.label)

\* A reply that is going to start a load, or to leave the total behind.
Unsettled(k) ==
  /\ Owing(k)
  /\ \/ ops[k].kind \in DeleteKinds /\ ~(ops[k].on \subseteq DOMAIN items)
     \/ /\ ops[k].kind = "bulkTag" /\ Filtered
        /\ ~ops[k].filtered \/ ~(ops[k].on \subseteq DOMAIN items)
     \/ /\ ops[k].kind \notin DeleteKinds \union {"bulkTag"}
        /\ ops[k].filtered \/ Filtered

\* Messages the server has deleted and the page has yet to take off the total.
Doomed ==
  {m \in Messages : \E k \in Slots : OwedOn(k, m) /\ ops[k].kind \in DeleteKinds}

\* What the total counts.
Counted == Matching(url) \union Doomed

TotalHolds ==
  AtRest /\ ~drift /\ (\A k \in Slots : ~Unsettled(k)) =>
    /\ total = Cardinality(Counted)
    /\ \A m \in DOMAIN items : stored[m] = Gone \/ Matches(url, m)

Screen == ListAnswersUrl /\ LoadIsOfUrl /\ ReplyHolds /\ ListHolds /\ TotalHolds

IInv == Types /\ Owes /\ Screen

-----------------------------------------------------------------------------

\* A load that has just started leaves nothing to show for.
LEMMA Restarted ==
  ASSUME url' \in Urls, load' = [url |-> url', reply |-> NoReply, dirty |-> {}]
  PROVE  Screen' /\ ~AtRest'
  <1>1. load' # NoLoad /\ load'.url = url' /\ load'.reply = NoReply
    BY NewLoadIs
  <1>2. ~AtRest' /\ ~Served'
    BY <1>1 DEF AtRest, Served
  <1>3. ListAnswersUrl' /\ LoadIsOfUrl'
    BY <1>1 DEF ListAnswersUrl, LoadIsOfUrl
  <1>4. ReplyHolds' /\ ListHolds' /\ TotalHolds'
    BY <1>2 DEF ReplyHolds, ListHolds, TotalHolds
  <1>. QED  BY <1>2, <1>3, <1>4 DEF Screen

LEMMA MatchesStays ==
  ASSUME NEW u, NEW m, stored'[m] = stored[m] PROVE Matches(u, m)' <=> Matches(u, m)
  BY DEF Matches

\* A message with one more tag still belongs to the filters it belonged to.
LEMMA TagStays ==
  ASSUME NEW u, NEW m, NEW t, stored[m] \in Records, stored'[m] \in Records,
         stored'[m] = [stored[m] EXCEPT !.tags = @ \union {t}], Matches(u, m)
  PROVE  Matches(u, m)'
  <1>1. stored'[m].cat = stored[m].cat /\ stored[m].tags \subseteq stored'[m].tags
    BY DEF Records
  <1>2. stored'[m] # Gone
    OBVIOUS
  <1>. QED  BY <1>1, <1>2 DEF Matches

\* Without a filter every message matches that is there.
LEMMA Unfiltered ==
  ASSUME NEW u, ~HasActiveFilters(u.q, u.label), NEW m
  PROVE  Matches(u, m) <=> stored[m] # Gone
  BY DEF HasActiveFilters, Matches

LEMMA InitInv == Init => IInv
  <1>. SUFFICES ASSUME Init PROVE IInv
    OBVIOUS
  <1>1. Types /\ url \in Urls /\ load = [url |-> url, reply |-> NoReply, dirty |-> {}]
    BY InitTypes DEF Init
  <1>2. load # NoLoad /\ load.url = url /\ load.reply = NoReply
    BY <1>1, NewLoadIs
  <1>3. Screen
    BY <1>2 DEF Screen, ListAnswersUrl, LoadIsOfUrl, ReplyHolds, Served, ListHolds, TotalHolds, AtRest
  <1>4. ops = [k \in Slots |-> NoOp]
    BY DEF Init
  <1>5. \A k \in Slots : ~Owing(k)
    BY <1>4 DEF Owing, Answered
  <1>6. Owes
    BY <1>5 DEF Owes, EndsAreAlone, ReceiptsHold, DeletedOnce, OwedOn
  <1>. QED  BY <1>1, <1>3, <1>6 DEF IInv

\* Whatever a step forgets of the changes that are owed, the rest stays right.
LEMMA OwesLess ==
  ASSUME Types, Owes, stored' = stored,
         \A k \in Slots : Owing(k)' => Owing(k) /\ ops'[k] = ops[k],
         \A m \in Messages : m \in raced /\ (\E k \in Slots : OwedOn(k, m)') => m \in raced'
  PROVE  Owes'
  <1>1. \A k \in Slots, m \in Messages :
          OwedOn(k, m)' => OwedOn(k, m) /\ ops'[k] = ops[k]
    BY DEF OwedOn
  <1>2. EndsAreAlone'
    BY <1>1 DEF Owes, EndsAreAlone
  <1>3. ReceiptsHold'
    <2>. SUFFICES ASSUME NEW k \in Slots, NEW m \in Messages, m \notin raced', OwedOn(k, m)'
                  PROVE  Patch(ops'[k], stored[m]) = stored[m]
      BY DEF ReceiptsHold, Patch, Changed
    <2>. QED  BY <1>1 DEF Owes, ReceiptsHold
  <1>4. DeletedOnce'
    BY <1>1 DEF Owes, DeletedOnce
  <1>. QED  BY <1>2, <1>3, <1>4 DEF Owes

LEMMA SteadyInv ==
  ASSUME IInv, Types', Steady PROVE Owes' /\ Screen'
  <1>1. /\ Types /\ Owes /\ Screen
        /\ stored' = stored /\ items' = items /\ total' = total /\ answered' = answered
        /\ raced \subseteq raced' /\ (drift => drift')
    BY DEF IInv, Steady
  <1>2. \A k \in Slots : /\ Owing(k)' => Owing(k) /\ ops'[k] = ops[k]
                         /\ Owing(k) => Owing(k)' \/ (ops[k].on \subseteq raced' /\ drift')
    BY DEF Steady
  <1>3. Owes'
    BY <1>1, <1>2, OwesLess
  <1>4. CASE load' = [url |-> url', reply |-> NoReply, dirty |-> {}]
    BY <1>3, <1>4, Restarted DEF Types, TypeOK
  <1>5. CASE load' = load /\ url' = url /\ error' = error
    <2>1. AtRest' <=> AtRest
      BY <1>5 DEF AtRest
    <2>2. \A u, m : Matches(u, m)' <=> Matches(u, m)
      BY <1>1, MatchesStays
    <2>3. \A u : Matching(u)' = Matching(u)
      BY <2>2 DEF Matching
    <2>4. ListAnswersUrl' /\ LoadIsOfUrl'
      BY <1>1, <1>5 DEF Screen, ListAnswersUrl, LoadIsOfUrl
    <2>5. ReplyHolds'
      BY <1>1, <1>5, <2>2, <2>3 DEF Screen, ReplyHolds, Served
    <2>6. ListHolds'
      <3>. SUFFICES ASSUME AtRest, NEW m \in DOMAIN items, m \notin raced' PROVE Shown(m)'
        BY <1>1, <2>1 DEF ListHolds
      <3>1. \A k \in Slots : OwedOn(k, m)' <=> OwedOn(k, m)
        BY <1>2 DEF OwedOn
      <3>2. \A k \in Slots : OwedOn(k, m)' => ops'[k] = ops[k]
        BY <1>2 DEF OwedOn
      <3>3. Shown(m)
        BY <1>1 DEF Screen, ListHolds
      <3>4. (\A k \in Slots : ~OwedOn(k, m)') => items'[m] = stored'[m]
        BY <1>1, <3>1, <3>3 DEF Shown
      <3>5. ASSUME NEW k \in Slots, OwedOn(k, m)'
            PROVE  Patch(ops'[k], items[m]) = stored[m]
        BY <3>1, <3>2, <3>3, <3>5 DEF Shown
      <3>6. (\A k \in Slots : OwedOn(k, m)' => ops'[k].kind = "bulkTag") => Matches(url, m)
        BY <3>1, <3>2, <3>3 DEF Shown
      <3>. QED  BY <1>1, <1>5, <2>2, <3>4, <3>5, <3>6 DEF Shown, Patch, Changed
    <2>7. TotalHolds'
      <3>. SUFFICES ASSUME AtRest, ~drift', \A k \in Slots : ~Unsettled(k)'
                    PROVE  /\ total = Cardinality(Counted')
                           /\ \A m \in DOMAIN items : stored[m] = Gone \/ Matches(url, m)
        BY <1>1, <1>5, <2>1, <2>2 DEF TotalHolds
      <3>1. \A k \in Slots : (Owing(k)' <=> Owing(k)) /\ (Owing(k) => ops'[k] = ops[k])
        BY <1>2
      <3>2. \A k \in Slots : ~Unsettled(k)
        BY <1>1, <1>5, <3>1 DEF Unsettled, Filtered
      <3>3. Doomed' = Doomed
        BY <3>1 DEF Doomed, OwedOn
      <3>4. Counted' = Counted
        BY <1>5, <2>3, <3>3 DEF Counted
      <3>. QED  BY <1>1, <3>2, <3>4 DEF Screen, TotalHolds
    <2>. QED  BY <1>3, <2>4, <2>5, <2>6, <2>7 DEF Screen
  <1>. QED  BY <1>4, <1>5 DEF Steady

\* The server answers the load, or the answer is lost.
LEMMA LoadInv ==
  ASSUME IInv, Types', ServeLoad \/ LoseLoad PROVE Owes' /\ Screen'
  <1>1. /\ Types /\ Owes /\ Screen /\ TypeOK /\ load # NoLoad /\ load \in Loads
        /\ stored' = stored /\ ops' = ops /\ raced' = raced /\ url' = url /\ error' = error
    BY DEF IInv, Types, TypeOK, ServeLoad, LoseLoad
  <1>2. Owes'
    BY <1>1, OwesLess DEF Owing, Answered
  <1>3. PICK r : load' = [load EXCEPT !.reply = r] /\ (r = Answer(load.url) \/ r = Failed)
    BY DEF ServeLoad, LoseLoad
  <1>4. /\ load'.url = load.url /\ load'.reply = r /\ load.url \in Urls /\ load.url = url
    BY <1>1, <1>3, LoadIs DEF Loads, Screen, LoadIsOfUrl
  <1>5. load' # NoLoad
    <2>1. r \in Answers \union {Failed}
      BY <1>1, <1>3, <1>4, AnswerIs
    <2>2. load' \in Loads
      BY <1>1, <1>3, <2>1 DEF Loads
    <2>. QED  BY <2>2
  <1>6. ListAnswersUrl' /\ LoadIsOfUrl' /\ ListHolds' /\ TotalHolds'
    BY <1>1, <1>4, <1>5 DEF ListAnswersUrl, LoadIsOfUrl, ListHolds, TotalHolds, AtRest
  <1>7. ReplyHolds'
    <2>1. \A u, m : Matches(u, m)' <=> Matches(u, m)
      BY <1>1, MatchesStays
    <2>2. \A u : Matching(u)' = Matching(u)
      BY <2>1 DEF Matching
    <2>3. CASE r = Failed
      BY <1>4, <2>3 DEF ReplyHolds, Served
    <2>4. CASE r = Answer(load.url)
      <3>1. /\ \A m \in DOMAIN r.items : r.items[m] = stored[m] /\ Matches(load.url, m)
            /\ r.total = Cardinality(Matching(load.url))
        BY <1>1, <1>4, <2>4, AnswerIs
      <3>. QED  BY <1>1, <1>4, <2>1, <2>2, <3>1 DEF ReplyHolds
    <2>. QED  BY <1>3, <2>3, <2>4
  <1>. QED  BY <1>2, <1>6, <1>7 DEF Screen

LEMMA LoadArrivesInv ==
  ASSUME IInv, Types', ReceiveLoad, LoadArrives PROVE Owes' /\ Screen'
  <1>1. Types /\ Owes /\ Screen /\ TypeOK
    BY DEF IInv, Types
  <1>2. /\ load \in Loads /\ load.reply \in Answers /\ Served
        /\ items' = load.reply.items /\ total' = load.reply.total /\ answered' = load.url
        /\ raced' = load.dirty \union (raced \intersect Overdue)
        /\ drift' = (load.dirty # {})
        /\ stored' = stored /\ ops' = ops
        /\ url' \in Urls
    BY <1>1, LoadArrived, LoadIs DEF Served
  <1>3. \A k \in Slots : Owing(k)' <=> Owing(k)
    BY <1>2 DEF Owing, Answered
  <1>4. \A m : \A k \in Slots : (OwedOn(k, m)' <=> OwedOn(k, m)) /\ (OwedOn(k, m) => m \in Overdue)
    BY <1>2, <1>3 DEF OwedOn, Overdue, Owing
  <1>5. Owes'
    BY <1>1, <1>2, <1>3, <1>4, OwesLess
  <1>6. CASE load' = [url |-> url', reply |-> NoReply, dirty |-> {}]
    BY <1>2, <1>5, <1>6, Restarted
  <1>7. CASE load' = NoLoad /\ url' = url /\ ~error'
    <2>1. load.url = url
      BY <1>1, <1>2 DEF Screen, LoadIsOfUrl, Served
    <2>2. \A u, m : Matches(u, m)' <=> Matches(u, m)
      BY <1>2, MatchesStays
    <2>3. /\ \A m \in DOMAIN items' \ load.dirty : items'[m] = stored[m] /\ Matches(url, m)
          /\ load.dirty = {} => total' = Cardinality(Matching(url))
      BY <1>1, <1>2, <2>1 DEF Screen, ReplyHolds
    <2>4. ListAnswersUrl' /\ LoadIsOfUrl' /\ ReplyHolds'
      BY <1>2, <1>7, <2>1 DEF ListAnswersUrl, LoadIsOfUrl, ReplyHolds, Served
    <2>5. DOMAIN items' \subseteq Messages
      BY ListIs DEF Types, TypeOK
    <2>6. ListHolds'
      <3>. SUFFICES ASSUME NEW m \in DOMAIN items', m \notin raced' PROVE Shown(m)'
        BY DEF ListHolds
      <3>1. m \in Messages /\ items'[m] = stored[m] /\ Matches(url, m)
        BY <1>2, <2>3, <2>5
      <3>2. ASSUME NEW k \in Slots, OwedOn(k, m) PROVE Patch(ops[k], items'[m]) = stored[m]
        <4>1. m \notin raced
          BY <1>2, <1>4, <3>2
        <4>. QED  BY <1>1, <3>1, <3>2, <4>1 DEF Owes, ReceiptsHold
      <3>. QED  BY <1>2, <1>4, <1>7, <2>2, <3>1, <3>2 DEF Shown, Patch, Changed
    <2>7. TotalHolds'
      <3>. SUFFICES ASSUME load.dirty = {}, \A k \in Slots : ~Unsettled(k)'
                    PROVE  /\ total' = Cardinality(Counted')
                           /\ \A m \in DOMAIN items' : stored[m] = Gone \/ Matches(url, m)
        BY <1>2, <1>7, <2>2 DEF TotalHolds
      <3>1. \A k \in Slots, m \in Messages :
              ~(OwedOn(k, m) /\ ops[k].kind \in DeleteKinds)
        <4>. SUFFICES ASSUME NEW k \in Slots, NEW m \in Messages,
                             OwedOn(k, m), ops[k].kind \in DeleteKinds
                      PROVE  FALSE
          OBVIOUS
        <4>1. m \in DOMAIN items'
          BY <1>2, <1>3 DEF Unsettled, OwedOn
        <4>2. stored[m] # Gone
          BY <2>3, <4>1 DEF Matches
        <4>. QED  BY <1>1, <4>2 DEF Owes, DeletedOnce
      <3>2. Doomed' = {}
        BY <1>2, <1>4, <3>1 DEF Doomed
      <3>3. Matching(url)' = Matching(url)
        BY <1>7, <2>2 DEF Matching
      <3>4. Counted' = Matching(url)
        BY <3>2, <3>3 DEF Counted
      <3>. QED  BY <2>3, <3>4
    <2>. QED  BY <1>5, <2>4, <2>6, <2>7 DEF Screen
  <1>. QED  BY <1>1, <1>6, <1>7, LoadArrived

LEMMA LoadFailsInv ==
  ASSUME IInv, Types', ReceiveLoad, LoadFails PROVE Owes' /\ Screen'
  <1>1. Types /\ Owes
    BY DEF IInv
  <1>2. /\ stored' = stored /\ ops' = ops /\ raced' = raced /\ url' \in Urls
        /\ \/ load' = [url |-> url', reply |-> NoReply, dirty |-> {}]
           \/ load' = NoLoad /\ error'
    BY <1>1, LoadFailed
  <1>3. Owes'
    BY <1>1, <1>2, OwesLess DEF Owing, Answered
  <1>4. CASE load' = NoLoad /\ error'
    <2>1. ~AtRest' /\ ~Served'
      BY <1>4 DEF AtRest, Served
    <2>. QED  BY <1>3, <1>4, <2>1 DEF Screen, ListAnswersUrl, LoadIsOfUrl, ReplyHolds,
                                      ListHolds, TotalHolds
  <1>. QED  BY <1>2, <1>3, <1>4, Restarted

\* The server carries a change out: the reply that is now owed accounts for it.
LEMMA CommitOwes ==
  ASSUME IInv, Types', NEW k \in Slots, ServeOp(k), Commit(k)
  PROVE  /\ Owes'
         /\ raced \subseteq raced'
         /\ ~Owing(k) /\ Owing(k)'
         /\ \A i \in Slots \ {k} : (Owing(i)' <=> Owing(i)) /\ ops'[i] = ops[i]
         /\ \A i \in Slots : \A m \in ops[k].on : OwedOn(i, m) => m \in raced'
         /\ \A m \in ops[k].on : Patch(ops'[k], stored'[m]) = stored'[m]
         /\ \A m \in ops[k].on : Patch(ops'[k], stored[m]) = stored'[m]
  <1>. PICK op : op = ops[k]
    OBVIOUS
  <1>. PICK answer : answer = ops'[k]
    OBVIOUS
  <1>1. /\ op \in Ops /\ Whole(op) /\ op.kind # "create" /\ op.reply = NoReply
        /\ op.on \subseteq Messages
        /\ \A m \in Messages \ op.on : stored'[m] = stored[m]
        /\ \A m \in op.on : /\ m \in Messages /\ stored[m] \in Records
                            /\ stored'[m] = Changed(op, stored[m])
        /\ answer \in Ops /\ Whole(answer)
        /\ answer.kind = op.kind /\ answer.on = op.on /\ answer.arg = op.arg
        /\ IF op.kind \in Receipts
           THEN \E m \in Messages : /\ op.on = {m} /\ stored'[m] \in Records
                                    /\ answer.reply = stored'[m]
           ELSE answer.reply = Done
        /\ \A i \in Slots \ {k} : ops'[i] = ops[i]
    <2>1. Types /\ Waiting(k)
      BY DEF ServeOp, IInv
    <2>2. op \in Ops => op.on \subseteq Messages
      BY OpIs
    <2>. QED  BY ZenonT(60), <2>1, <2>2, Committed
  <1>2. ~Owing(k)
    BY <1>1 DEF Owing, Answered
  <1>3. Owing(k)'
    <2>1. answer.reply \notin {NoReply, Failed, Conflict}
      BY <1>1
    <2>2. answer # NoOp
      BY <1>1
    <2>. QED  BY <1>1, <2>1, <2>2 DEF Owing, Answered
  <1>4. \A i \in Slots \ {k} : (Owing(i)' <=> Owing(i)) /\ ops'[i] = ops[i]
    BY <1>1 DEF Owing, Answered
  <1>5. raced' = raced \union (op.on \intersect UNION {ops[i].on : i \in {j \in Slots : Answered(j)}})
    BY DEF Commit
  <1>6. ASSUME NEW i \in Slots, NEW m \in op.on, OwedOn(i, m) PROVE m \in raced'
    BY <1>5, <1>6 DEF OwedOn, Owing
  <1>7. \A r \in Records : op.kind \notin Receipts => Patch(answer, r) = Changed(op, r)
    BY <1>1 DEF Patch, Receipts, Changed
  <1>8. ASSUME NEW m \in op.on
        PROVE  Patch(answer, stored'[m]) = stored'[m] /\ Patch(answer, stored[m]) = stored'[m]
    <2>1. m \in Messages /\ stored[m] \in Records /\ stored'[m] = Changed(op, stored[m])
      BY <1>1
    <2>2. CASE op.kind = "move"
      BY <1>1, <2>2 DEF Patch, Receipts
    <2>3. CASE op.kind \in {"addTag", "removeTag"}
      <3>1. answer.reply = stored'[m] /\ stored'[m] \in Records
        BY <1>1, <2>3 DEF Receipts
      <3>2. stored'[m].cat = stored[m].cat
        BY <1>1, <2>1, <2>3, ChangedIs DEF Records
      <3>3. \A r \in Records : Patch(answer, r) = [r EXCEPT !.tags = stored'[m].tags]
        BY <1>1, <2>3, <3>1 DEF Patch
      <3>4. \A q, r \in Records : q.cat = r.cat => [r EXCEPT !.tags = q.tags] = q
        BY DEF Records
      <3>. QED  BY <2>1, <3>1, <3>2, <3>3, <3>4
    <2>4. CASE op.kind \in DeleteKinds
      <3>1. \A r : Patch(answer, r) = Gone
        BY <1>1, <2>4 DEF Patch, Changed, DeleteKinds
      <3>2. stored'[m] = Gone
        BY <1>1, <2>1, <2>4, ChangedIs
      <3>. QED  BY <3>1, <3>2
    <2>5. CASE op.kind \in {"bulkMove", "bulkTag"}
      <3>1. op.kind \notin Receipts \union DeleteKinds
        BY <2>5 DEF Receipts, DeleteKinds
      <3>2. \A r \in Records : Changed(op, r) \in Records /\ Changed(op, Changed(op, r)) = Changed(op, r)
        <4>. SUFFICES ASSUME NEW r \in Records
                      PROVE  Changed(op, r) \in Records /\ Changed(op, Changed(op, r)) = Changed(op, r)
          OBVIOUS
        <4>. PICK q : q = Changed(op, r)
          OBVIOUS
        <4>1. q \in Records
          BY <1>1, <3>1, ChangedIs
        <4>2. CASE op.kind = "bulkMove"
          <5>1. q = [r EXCEPT !.cat = op.arg] /\ Changed(op, q) = [q EXCEPT !.cat = op.arg]
            BY ZenonT(60), <1>1, <4>1, <4>2, ChangedIs
          <5>. QED  BY <4>1, <5>1 DEF Records
        <4>3. CASE op.kind = "bulkTag"
          <5>1. /\ q = [r EXCEPT !.tags = @ \union {op.arg}]
                /\ Changed(op, q) = [q EXCEPT !.tags = @ \union {op.arg}]
            BY ZenonT(60), <1>1, <4>1, <4>3, ChangedIs
          <5>2. q.tags \union {op.arg} = q.tags
            BY <5>1 DEF Records
          <5>3. [q EXCEPT !.tags = q.tags] = q
            BY <4>1 DEF Records
          <5>. QED  BY <4>1, <5>1, <5>2, <5>3
        <4>. QED  BY <2>5, <4>1, <4>2, <4>3
      <3>. QED  BY <1>7, <2>1, <3>1, <3>2
    <2>. QED  BY <1>1, <2>2, <2>3, <2>4, <2>5, OpIs DEF Kinds, TagKinds, BulkKinds, DeleteKinds
  <1>9. Owes
    BY DEF IInv
  <1>10. /\ \A i \in Slots, m \in Messages : i # k => (OwedOn(i, m)' <=> OwedOn(i, m))
         /\ \A m \in Messages : OwedOn(k, m)' <=> m \in op.on
    BY <1>1, <1>3, <1>4 DEF OwedOn
  <1>11. EndsAreAlone'
    <2>. SUFFICES ASSUME NEW i \in Slots, NEW j \in Slots, NEW m \in Messages,
                         OwedOn(i, m)', OwedOn(j, m)', i # j
                  PROVE  m \in raced'
      BY DEF EndsAreAlone
    <2>1. CASE i = k \/ j = k
      BY <1>6, <1>10, <2>1
    <2>2. CASE i # k /\ j # k
      BY <1>5, <1>9, <1>10, <2>2 DEF Owes, EndsAreAlone
    <2>. QED  BY <2>1, <2>2
  <1>12. ReceiptsHold'
    <2>. SUFFICES ASSUME NEW i \in Slots, NEW m \in Messages, m \notin raced', OwedOn(i, m)'
                  PROVE  Patch(ops'[i], stored'[m]) = stored'[m]
      BY DEF ReceiptsHold, Patch, Changed
    <2>1. CASE i = k
      BY <1>8, <1>10, <2>1
    <2>2. CASE i # k
      <3>1. OwedOn(i, m) /\ m \notin op.on /\ m \notin raced /\ ops'[i] = ops[i]
        BY <1>4, <1>5, <1>6, <1>10, <2>2
      <3>2. stored'[m] = stored[m]
        BY <1>1, <3>1
      <3>. QED  BY <1>9, <3>1, <3>2 DEF Owes, ReceiptsHold
    <2>. QED  BY <2>1, <2>2
  <1>13. DeletedOnce'
    <2>1. ASSUME NEW i \in Slots, NEW m \in Messages, i # k, OwedOn(i, m)', ops'[i].kind \in DeleteKinds
          PROVE  stored[m] = Gone /\ m \notin op.on
      BY <1>1, <1>4, <1>9, <1>10, <2>1 DEF Owes, DeletedOnce
    <2>2. ASSUME NEW i \in Slots, NEW m \in Messages, OwedOn(i, m)', ops'[i].kind \in DeleteKinds
          PROVE  stored'[m] = Gone
      <3>1. CASE i = k
        BY <1>1, <1>10, <2>2, <3>1, ChangedIs
      <3>2. CASE i # k
        BY <1>1, <2>1, <2>2, <3>2
      <3>. QED  BY <3>1, <3>2
    <2>3. ASSUME NEW i \in Slots, NEW j \in Slots, NEW m \in Messages, i # j,
                 OwedOn(i, m)', ops'[i].kind \in DeleteKinds,
                 OwedOn(j, m)', ops'[j].kind \in DeleteKinds
          PROVE  FALSE
      <3>1. CASE i = k \/ j = k
        BY <1>10, <2>1, <2>3, <3>1
      <3>2. CASE i # k /\ j # k
        BY <1>4, <1>9, <1>10, <2>3, <3>2 DEF Owes, DeletedOnce
      <3>. QED  BY <3>1, <3>2
    <2>. QED  BY <2>2, <2>3 DEF DeletedOnce
  <1>14. Owes'
    BY <1>11, <1>12, <1>13 DEF Owes
  <1>. QED  BY <1>1, <1>2, <1>3, <1>4, <1>5, <1>6, <1>8, <1>14

LEMMA CommitInv ==
  ASSUME IInv, Types', NEW k \in Slots, ServeOp(k), Commit(k) PROVE Owes' /\ Screen'
  <1>. PICK op : op = ops[k]
    OBVIOUS
  <1>1. /\ Types /\ Owes /\ Screen /\ TypeOK
        /\ items' = items /\ total' = total /\ url' = url /\ error' = error
        /\ answered' = answered
    BY DEF IInv, Types, ServeOp
  <1>2. /\ op \in Ops /\ Whole(op) /\ op.kind # "create" /\ op.on \subseteq Messages
        /\ \A m \in Messages \ op.on : stored'[m] = stored[m]
        /\ \A m \in op.on : /\ m \in Messages /\ stored[m] \in Records
                            /\ stored'[m] = Changed(op, stored[m])
        /\ stored' \in [Messages -> Records \union {Gone}]
        /\ ops'[k].kind = op.kind /\ ops'[k].on = op.on /\ ops'[k].filtered = op.filtered
    BY <1>1, Committed, OpIs DEF ServeOp
  <1>3. /\ Owes' /\ raced \subseteq raced' /\ ~Owing(k) /\ Owing(k)'
        /\ \A i \in Slots \ {k} : (Owing(i)' <=> Owing(i)) /\ ops'[i] = ops[i]
        /\ \A i \in Slots : \A m \in op.on : OwedOn(i, m) => m \in raced'
        /\ \A m \in op.on : Patch(ops'[k], stored[m]) = stored'[m]
    BY CommitOwes
  <1>4. /\ \A i \in Slots, m \in Messages : i # k => (OwedOn(i, m)' <=> OwedOn(i, m))
        /\ \A m \in Messages : OwedOn(k, m)' <=> m \in op.on
    BY <1>2, <1>3 DEF OwedOn
  <1>5. \/ /\ load # NoLoad /\ load.reply # NoReply
           /\ load' = [load EXCEPT !.dirty = @ \union op.on] /\ drift' = TRUE
        \/ ~(load # NoLoad /\ load.reply # NoReply) /\ load' = load /\ drift' = drift
    BY DEF Commit
  <1>6. (load' = NoLoad <=> load = NoLoad) /\ (load # NoLoad => load'.url = load.url)
    <2>1. CASE load # NoLoad /\ load' = [load EXCEPT !.dirty = @ \union op.on]
      <3>1. load \in Loads
        BY <1>1, <2>1 DEF TypeOK
      <3>2. load' \in Loads /\ load'.url = load.url
        BY <1>2, <2>1, <3>1 DEF Loads
      <3>. QED  BY <2>1, <3>2
    <2>2. CASE load' = load
      BY <2>2
    <2>. QED  BY <1>5, <2>1, <2>2
  <1>7. ListAnswersUrl' /\ LoadIsOfUrl'
    BY <1>1, <1>6 DEF Screen, ListAnswersUrl, LoadIsOfUrl
  <1>8. AtRest' => AtRest /\ load' = load /\ drift' = drift
    BY <1>1, <1>5, <1>6 DEF AtRest
  <1>9. \A u : \A m \in Messages \ op.on : Matches(u, m)' <=> Matches(u, m)
    BY <1>2, MatchesStays
  <1>10. ReplyHolds'
    <2>. SUFFICES ASSUME Served' PROVE ReplyHolds'
      BY DEF ReplyHolds
    <2>1. /\ load # NoLoad /\ load.reply # NoReply /\ load \in Loads
          /\ load' = [load EXCEPT !.dirty = @ \union op.on]
      BY <1>1, <1>5 DEF Served, TypeOK
    <2>. PICK u : u = load.url
      OBVIOUS
    <2>2. /\ load'.url = u /\ load'.reply = load.reply
          /\ load'.dirty = load.dirty \union op.on
      BY <2>1 DEF Loads
    <2>3. Served /\ load.reply.items \in Lists
      BY <2>1, <2>2, LoadIs DEF Served
    <2>4. /\ \A m \in DOMAIN load.reply.items \ load.dirty :
               load.reply.items[m] = stored[m] /\ Matches(u, m)
          /\ load.dirty = {} => load.reply.total = Cardinality(Matching(u))
      BY <1>1, <2>3 DEF Screen, ReplyHolds
    <2>5. DOMAIN load.reply.items \subseteq Messages
      BY <2>3, ListIs
    <2>6. ASSUME NEW m \in DOMAIN load.reply.items, m \notin load.dirty \union op.on
          PROVE  load.reply.items[m] = stored'[m] /\ Matches(u, m)'
      <3>1. m \in Messages \ op.on
        BY <2>5, <2>6
      <3>. QED  BY <1>2, <1>9, <2>4, <2>6, <3>1
    <2>7. ASSUME load.dirty \union op.on = {}
          PROVE  load.reply.total = Cardinality(Matching(u)')
      <3>1. op.on = {} /\ load.dirty = {}
        BY <2>7
      <3>2. Matching(u)' = Matching(u)
        BY <1>9, <3>1 DEF Matching
      <3>. QED  BY <2>4, <3>1, <3>2
    <2>. QED  BY <2>2, <2>6, <2>7 DEF ReplyHolds
  <1>11. ListHolds'
    <2>. SUFFICES ASSUME AtRest, NEW m \in DOMAIN items, m \notin raced' PROVE Shown(m)'
      BY <1>1, <1>8 DEF ListHolds
    <2>1. m \in Messages /\ m \notin raced /\ Shown(m)
      BY <1>1, <1>3, ListIs DEF Screen, ListHolds, TypeOK
    <2>2. CASE m \in op.on
      <3>1. /\ \A i \in Slots : ~OwedOn(i, m)
            /\ \A i \in Slots : OwedOn(i, m)' <=> i = k
        BY <1>3, <1>4, <2>1, <2>2
      <3>2. items[m] = stored[m] /\ Matches(url, m)
        BY <2>1, <3>1 DEF Shown
      <3>3. Patch(ops'[k], items[m]) = stored'[m]
        BY <1>3, <2>2, <3>2
      <3>4. ASSUME op.kind = "bulkTag" PROVE Matches(url, m)'
        <4>1. /\ stored[m] \in Records /\ op.kind \notin DeleteKinds
              /\ stored'[m] = [stored[m] EXCEPT !.tags = @ \union {op.arg}]
              /\ stored'[m] \in Records
          <5>. PICK r : r = stored[m]
            OBVIOUS
          <5>1. r \in Records /\ stored'[m] = Changed(op, r)
            BY <1>2, <2>2
          <5>2. op.kind \notin DeleteKinds
            BY <3>4 DEF DeleteKinds
          <5>3. /\ Changed(op, r) = [r EXCEPT !.tags = @ \union {op.arg}]
                /\ Changed(op, r) \in Records
            BY ZenonT(60), <1>2, <3>4, <5>1, <5>2, ChangedIs
          <5>. QED  BY <5>1, <5>2, <5>3
        <4>. PICK u : u = url
          OBVIOUS
        <4>2. Matches(u, m)'
          BY <3>2, <4>1, TagStays
        <4>. QED  BY <1>1, <4>2
      <3>. QED  BY <1>1, <1>2, <3>1, <3>3, <3>4 DEF Shown, Patch, Changed
    <2>3. CASE m \notin op.on
      <3>1. \A i \in Slots : (OwedOn(i, m)' <=> OwedOn(i, m)) /\ (OwedOn(i, m) => ops'[i] = ops[i])
        BY <1>3, <1>4, <2>1, <2>3 DEF OwedOn
      <3>2. stored'[m] = stored[m]
        BY <1>2, <2>1, <2>3
      <3>3. ASSUME NEW i \in Slots, OwedOn(i, m) PROVE Patch(ops'[i], items[m]) = stored[m]
        BY <2>1, <3>1, <3>3 DEF Shown
      <3>4. (\A i \in Slots : OwedOn(i, m)' => ops'[i].kind = "bulkTag") => Matches(url, m)
        BY <2>1, <3>1 DEF Shown
      <3>5. (\A i \in Slots : ~OwedOn(i, m)') => items[m] = stored[m]
        BY <2>1, <3>1 DEF Shown
      <3>. PICK u : u = url
        OBVIOUS
      <3>6. Matches(u, m)' <=> Matches(u, m)
        BY <3>2, MatchesStays
      <3>. QED  BY <1>1, <3>1, <3>2, <3>3, <3>4, <3>5, <3>6 DEF Shown, Patch, Changed
    <2>. QED  BY <2>2, <2>3
  <1>12. TotalHolds'
    <2>. SUFFICES ASSUME AtRest, ~drift, \A i \in Slots : ~Unsettled(i)'
                  PROVE  /\ total = Cardinality(Counted')
                         /\ \A m \in DOMAIN items : stored'[m] = Gone \/ Matches(url, m)'
      BY <1>1, <1>8 DEF TotalHolds
    <2>. PICK u : u = url
      OBVIOUS
    <2>1. url' = u /\ (Filtered <=> HasActiveFilters(u.q, u.label))
      BY <1>1 DEF Filtered
    <2>2. \A i \in Slots : ~Unsettled(i)
      <3>1. \A i \in Slots \ {k} : ~Unsettled(i)
        BY <1>1, <1>3 DEF Unsettled, Filtered
      <3>2. ~Unsettled(k)
        BY <1>3 DEF Unsettled
      <3>. QED  BY <3>1, <3>2
    <2>3. /\ total = Cardinality(Counted)
          /\ \A m \in DOMAIN items : stored[m] = Gone \/ Matches(u, m)
      BY <1>1, <2>2 DEF Screen, TotalHolds
    <2>4. ~Unsettled(k)'
      OBVIOUS
    <2>5. CASE op.kind \in DeleteKinds
      <3>1. op.on \subseteq DOMAIN items
        BY <1>1, <1>2, <1>3, <2>4, <2>5 DEF Unsettled
      <3>2. \A m \in op.on : stored'[m] = Gone /\ Matches(u, m)
        <4>. SUFFICES ASSUME NEW m \in op.on PROVE stored'[m] = Gone /\ Matches(u, m)
          OBVIOUS
        <4>. PICK r : r = stored[m]
          OBVIOUS
        <4>1. r \in Records /\ stored'[m] = Changed(op, r)
          BY <1>2
        <4>2. Changed(op, r) = Gone
          BY <1>2, <2>5, <4>1, ChangedIs
        <4>. QED  BY <2>3, <3>1, <4>1, <4>2
      <3>3. \A m \in Messages : Matches(u, m)' <=> (Matches(u, m) /\ m \notin op.on)
        BY <1>9, <3>2 DEF Matches
      <3>4. ASSUME NEW m \in Messages PROVE m \in Doomed' <=> (m \in Doomed \/ m \in op.on)
        <4>1. \A i \in Slots \ {k} : /\ OwedOn(i, m)' <=> OwedOn(i, m)
                                    /\ ops'[i].kind = ops[i].kind
          BY <1>3, <1>4
        <4>2. /\ OwedOn(k, m)' <=> m \in op.on
              /\ ~OwedOn(k, m) /\ ops'[k].kind \in DeleteKinds
          BY <1>2, <1>3, <1>4, <2>5 DEF OwedOn
        <4>. QED  BY <4>1, <4>2 DEF Doomed
      <3>5. \A m : m \in Counted' <=> m \in Counted
        BY <1>2, <2>1, <3>2, <3>3, <3>4 DEF Counted, Matching, Doomed
      <3>6. Counted' = Counted
        BY <3>5
      <3>7. \A m \in DOMAIN items : stored'[m] = Gone \/ Matches(u, m)'
        <4>. SUFFICES ASSUME NEW m \in DOMAIN items PROVE stored'[m] = Gone \/ Matches(u, m)'
          OBVIOUS
        <4>1. m \in Messages
          BY <1>1, ListIs DEF TypeOK
        <4>. QED  BY <1>2, <1>9, <2>3, <3>2, <4>1
      <3>. QED  BY <2>1, <2>3, <3>6, <3>7
    <2>6. CASE op.kind \notin DeleteKinds
      <3>1. \A m \in op.on : stored'[m] \in Records
        <4>. SUFFICES ASSUME NEW m \in op.on PROVE stored'[m] \in Records
          OBVIOUS
        <4>. PICK r : r = stored[m]
          OBVIOUS
        <4>1. r \in Records /\ stored'[m] = Changed(op, r)
          BY <1>2
        <4>. QED  BY <1>2, <2>6, <4>1, ChangedIs
      <3>2. ASSUME NEW m \in op.on, Filtered PROVE Matches(u, m) /\ Matches(u, m)'
        <4>1. op.kind = "bulkTag" /\ m \in DOMAIN items
          BY <1>1, <1>2, <1>3, <2>4, <2>6, <3>2 DEF Unsettled, Filtered
        <4>. PICK r : r = stored[m]
          OBVIOUS
        <4>2. r \in Records /\ stored'[m] = Changed(op, r)
          BY <1>2
        <4>3. /\ op.kind \notin DeleteKinds => Changed(op, r) \in Records
              /\ op.kind \in {"addTag", "bulkTag"} =>
                   Changed(op, r) = [r EXCEPT !.tags = @ \union {op.arg}]
          BY <1>2, <4>2, ChangedIs
        <4>4. Matches(u, m)
          BY <2>3, <4>1, <4>2
        <4>. QED  BY ZenonT(60), <3>1, <4>1, <4>2, <4>3, <4>4, TagStays
      <3>3. ASSUME NEW m \in op.on, ~Filtered PROVE Matches(u, m) /\ Matches(u, m)'
        <4>1. stored[m] # Gone /\ stored'[m] # Gone
          BY <1>2, <3>1
        <4>. QED  BY <2>1, <3>3, <4>1 DEF HasActiveFilters, Matches
      <3>4. \A m \in Messages : Matches(u, m)' <=> Matches(u, m)
        BY <1>9, <3>2, <3>3
      <3>5. Doomed' = Doomed
        BY <1>2, <1>3, <1>4, <2>6 DEF Doomed
      <3>6. Matching(u)' = Matching(u)
        BY <3>4 DEF Matching
      <3>7. Counted' = Counted
        BY <2>1, <3>5, <3>6 DEF Counted
      <3>8. \A m \in DOMAIN items : stored'[m] = Gone \/ Matches(u, m)'
        <4>. SUFFICES ASSUME NEW m \in DOMAIN items PROVE stored'[m] = Gone \/ Matches(u, m)'
          OBVIOUS
        <4>1. m \in Messages
          BY <1>1, ListIs DEF TypeOK
        <4>. QED  BY <1>2, <2>3, <3>2, <3>3, <3>4, <4>1
      <3>. QED  BY <2>1, <2>3, <3>7, <3>8
    <2>. QED  BY <2>5, <2>6
  <1>. QED  BY <1>3, <1>7, <1>10, <1>11, <1>12 DEF Screen

LEMMA ChangeArrivesInv ==
  ASSUME IInv, Types', NEW k \in Slots, ReceiveOp(k), ChangeArrives(k)
  PROVE  Owes' /\ Screen'
  <1>. PICK op : op = ops[k]
    OBVIOUS
  <1>1. /\ Types /\ Owes /\ Screen /\ TypeOK /\ DOMAIN items \subseteq Messages
        /\ \A m \in DOMAIN items : items[m] \in Records
    BY ListIs DEF IInv, Types, TypeOK
  <1>2. /\ Owing(k) /\ op \in Ops /\ op.kind \notin DeleteKinds /\ op.on \subseteq Messages
        /\ items' \in Lists /\ DOMAIN items' = DOMAIN items
        /\ \A m \in DOMAIN items :
             items'[m] = IF m \in op.on THEN Patch(op, items[m]) ELSE items[m]
        /\ stored' = stored /\ total' = total /\ answered' = answered
        /\ url' \in Urls
        /\ \/ load' = [url |-> url', reply |-> NoReply, dirty |-> {}] /\ ~error'
           \/ load' = load /\ url' = url /\ ~Reloads(op) /\ error' = error
        /\ ~Owing(k)' /\ \A i \in Slots \ {k} : ops'[i] = ops[i]
    BY <1>1, ChangeArrived, OpIs
  <1>. PICK stray : stray = (/\ HasActiveFilters(url.q, url.label)
                             /\ \/ ~op.filtered
                                \/ op.kind = "bulkTag" /\ ~(op.on \subseteq DOMAIN items))
    OBVIOUS
  <1>3. /\ raced' = IF stray THEN raced \union op.on ELSE raced
        /\ drift' = (drift \/ stray)
    BY DEF ChangeArrives
  <1>4. /\ \A i \in Slots \ {k} : Owing(i)' <=> Owing(i)
        /\ \A m : ~OwedOn(k, m)'
        /\ \A i \in Slots \ {k} : \A m : OwedOn(i, m)' <=> OwedOn(i, m)
    BY <1>2 DEF Owing, Answered, OwedOn
  <1>5. Owes'
    BY <1>1, <1>2, <1>3, <1>4, OwesLess
  <1>6. CASE load' = [url |-> url', reply |-> NoReply, dirty |-> {}]
    BY <1>2, <1>5, <1>6, Restarted
  <1>7. CASE load' = load /\ url' = url /\ ~Reloads(op) /\ error' = error
    <2>. PICK u : u = url
      OBVIOUS
    <2>1. AtRest' <=> AtRest
      BY <1>7 DEF AtRest
    <2>2. \A v, m : Matches(v, m)' <=> Matches(v, m)
      BY <1>2, MatchesStays
    <2>3. \A v : Matching(v)' = Matching(v)
      BY <2>2 DEF Matching
    <2>4. ListAnswersUrl' /\ LoadIsOfUrl' /\ ReplyHolds'
      BY <1>1, <1>2, <1>7, <2>2, <2>3 DEF Screen, ListAnswersUrl, LoadIsOfUrl, ReplyHolds, Served
    <2>5. \/ op.kind = "bulkTag"
          \/ op.kind # "bulkTag" /\ ~op.filtered
      BY <1>2, <1>7 DEF Reloads
    <2>6. ListHolds'
      <3>. SUFFICES ASSUME AtRest, NEW m \in DOMAIN items, m \notin raced' PROVE Shown(m)'
        BY <1>2, <2>1 DEF ListHolds
      <3>1. m \in Messages /\ m \notin raced /\ Shown(m)
        BY <1>1, <1>3 DEF Screen, ListHolds
      <3>2. CASE m \in op.on
        <4>1. OwedOn(k, m) /\ \A i \in Slots \ {k} : ~OwedOn(i, m)
          BY <1>1, <1>2, <3>1, <3>2 DEF OwedOn, Owes, EndsAreAlone
        <4>2. \A i \in Slots : ~OwedOn(i, m)'
          BY <1>4, <4>1
        <4>3. items'[m] = stored[m]
          BY <1>2, <3>1, <3>2, <4>1 DEF Shown
        <4>4. Matches(url, m)
          <5>1. CASE op.kind = "bulkTag"
            BY <3>1, <4>1, <5>1 DEF Shown
          <5>2. CASE op.kind # "bulkTag" /\ ~op.filtered
            <6>1. ~stray
              BY <1>3, <3>2
            <6>2. ~HasActiveFilters(url.q, url.label)
              BY <5>2, <6>1
            <6>3. stored[m] # Gone
              <7>1. items'[m] \in Records
                BY <1>2, ListIs
              <7>. QED  BY <4>3, <7>1
            <6>. QED  BY <6>2, <6>3, Unfiltered
          <5>. QED  BY <2>5, <5>1, <5>2
        <4>. QED  BY <1>2, <1>7, <2>2, <4>2, <4>3, <4>4 DEF Shown
      <3>3. CASE m \notin op.on
        <4>1. \A i \in Slots : /\ OwedOn(i, m)' <=> OwedOn(i, m)
                               /\ OwedOn(i, m) => ops'[i] = ops[i]
          BY <1>2, <1>4, <3>3 DEF OwedOn
        <4>2. items'[m] = items[m]
          BY <1>2, <3>3
        <4>3. ASSUME NEW i \in Slots, OwedOn(i, m) PROVE Patch(ops'[i], items[m]) = stored[m]
          BY <3>1, <4>1, <4>3 DEF Shown
        <4>4. (\A i \in Slots : OwedOn(i, m)' => ops'[i].kind = "bulkTag") => Matches(url, m)
          BY <3>1, <4>1 DEF Shown
        <4>5. (\A i \in Slots : ~OwedOn(i, m)') => items[m] = stored[m]
          BY <3>1, <4>1 DEF Shown
        <4>. QED  BY <1>2, <1>7, <2>2, <4>1, <4>2, <4>3, <4>4, <4>5 DEF Shown, Patch, Changed
      <3>. QED  BY <3>2, <3>3
    <2>7. TotalHolds'
      <3>. SUFFICES ASSUME AtRest, ~drift', \A i \in Slots : ~Unsettled(i)'
                    PROVE  /\ total = Cardinality(Counted')
                           /\ \A m \in DOMAIN items : stored[m] = Gone \/ Matches(url, m)
        BY <1>2, <1>7, <2>1, <2>2 DEF TotalHolds
      <3>1. ~drift /\ ~stray
        BY <1>3
      <3>2. \A i \in Slots : ~Unsettled(i)
        <4>1. ~Unsettled(k)
          BY <1>2, <2>5, <3>1 DEF Unsettled, Filtered
        <4>2. ASSUME NEW i \in Slots, i # k PROVE ~Unsettled(i)
          BY <1>2, <1>4, <1>7, <4>2 DEF Unsettled, Filtered
        <4>. QED  BY <4>1, <4>2
      <3>3. \A m \in Messages : m \in Doomed' <=> m \in Doomed
        <4>. SUFFICES ASSUME NEW m \in Messages PROVE m \in Doomed' <=> m \in Doomed
          OBVIOUS
        <4>1. \A i \in Slots \ {k} : /\ OwedOn(i, m)' <=> OwedOn(i, m)
                                     /\ ops'[i].kind = ops[i].kind
          BY <1>2, <1>4
        <4>. QED  BY <1>2, <1>4, <4>1 DEF Doomed
      <3>4. Doomed' = Doomed
        BY <3>3 DEF Doomed
      <3>5. Counted' = Counted
        BY <1>7, <2>3, <3>4 DEF Counted
      <3>. QED  BY <1>1, <3>1, <3>2, <3>5 DEF Screen, TotalHolds
    <2>. QED  BY <1>5, <2>4, <2>6, <2>7 DEF Screen
  <1>. QED  BY <1>2, <1>6, <1>7

\* The total goes down by as many messages as leave it.
LEMMA TakenOff ==
  ASSUME NEW S, NEW T, IsFiniteSet(S), T \subseteq S, total = Cardinality(S)
  PROVE  TotalWithout(T) = Cardinality(S \ T)
  <1>1. /\ IsFiniteSet(T) /\ IsFiniteSet(S \ T)
        /\ Cardinality(T) \in Nat /\ Cardinality(S) \in Nat /\ Cardinality(S \ T) \in Nat
    BY FS_Subset, FS_CardinalityType
  <1>2. S \intersect T = T
    OBVIOUS
  <1>3. Cardinality(S \ T) = Cardinality(S) - Cardinality(T)
    BY <1>2, FS_Difference
  <1>. QED  BY <1>1, <1>3 DEF TotalWithout

LEMMA DeletionArrivesInv ==
  ASSUME IInv, Types', NEW k \in Slots, ReceiveOp(k), DeletionArrives(k)
  PROVE  Owes' /\ Screen'
  <1>. PICK op : op = ops[k]
    OBVIOUS
  <1>1. Types /\ Owes /\ Screen /\ TypeOK /\ DOMAIN items \subseteq Messages
    BY ListIs DEF IInv, Types, TypeOK
  <1>2. /\ Owing(k) /\ op \in Ops /\ op.kind \in DeleteKinds /\ op.on \subseteq Messages
        /\ DOMAIN items' = DOMAIN items \ op.on
        /\ \A m \in DOMAIN items' : items'[m] = items[m]
        /\ stored' = stored /\ answered' = answered /\ raced' = raced
        /\ total' = TotalWithout(op.on)
        /\ url' \in Urls
        /\ \/ load' = [url |-> url', reply |-> NoReply, dirty |-> {}] /\ ~error'
           \/ load' = load /\ url' = url /\ error' = error
        /\ ~Owing(k)' /\ \A i \in Slots \ {k} : ops'[i] = ops[i]
    BY <1>1, DeletionArrived
  <1>3. drift' = (drift \/ ~(op.on \subseteq DOMAIN items))
    BY DEF DeletionArrives
  <1>4. /\ \A i \in Slots \ {k} : Owing(i)' <=> Owing(i)
        /\ \A m : ~OwedOn(k, m)'
        /\ \A i \in Slots \ {k} : \A m : OwedOn(i, m)' <=> OwedOn(i, m)
    BY <1>2 DEF Owing, Answered, OwedOn
  <1>5. Owes'
    BY <1>1, <1>2, <1>4, OwesLess
  <1>6. CASE load' = [url |-> url', reply |-> NoReply, dirty |-> {}]
    BY <1>2, <1>5, <1>6, Restarted
  <1>7. CASE load' = load /\ url' = url /\ error' = error
    <2>1. AtRest' <=> AtRest
      BY <1>7 DEF AtRest
    <2>2. \A v, m : Matches(v, m)' <=> Matches(v, m)
      BY <1>2, MatchesStays
    <2>3. \A v : Matching(v)' = Matching(v)
      BY <2>2 DEF Matching
    <2>4. ListAnswersUrl' /\ LoadIsOfUrl' /\ ReplyHolds'
      BY <1>1, <1>2, <1>7, <2>2, <2>3 DEF Screen, ListAnswersUrl, LoadIsOfUrl, ReplyHolds, Served
    <2>5. ListHolds'
      <3>. SUFFICES ASSUME AtRest, NEW m \in DOMAIN items', m \notin raced' PROVE Shown(m)'
        BY <2>1 DEF ListHolds
      <3>1. m \in DOMAIN items /\ m \notin op.on /\ Shown(m) /\ items'[m] = items[m]
        BY <1>1, <1>2 DEF Screen, ListHolds
      <3>2. \A i \in Slots : /\ OwedOn(i, m)' <=> OwedOn(i, m)
                             /\ OwedOn(i, m) => ops'[i] = ops[i]
        BY <1>2, <1>4, <3>1 DEF OwedOn
      <3>3. ASSUME NEW i \in Slots, OwedOn(i, m) PROVE Patch(ops'[i], items[m]) = stored[m]
        BY <3>1, <3>2, <3>3 DEF Shown
      <3>4. (\A i \in Slots : OwedOn(i, m)' => ops'[i].kind = "bulkTag") => Matches(url, m)
        BY <3>1, <3>2 DEF Shown
      <3>5. (\A i \in Slots : ~OwedOn(i, m)') => items[m] = stored[m]
        BY <3>1, <3>2 DEF Shown
      <3>. QED  BY <1>2, <1>7, <2>2, <3>1, <3>2, <3>3, <3>4, <3>5 DEF Shown, Patch, Changed
    <2>6. TotalHolds'
      <3>. SUFFICES ASSUME AtRest, ~drift', \A i \in Slots : ~Unsettled(i)'
                    PROVE  /\ total' = Cardinality(Counted')
                           /\ \A m \in DOMAIN items' : stored[m] = Gone \/ Matches(url, m)
        BY <1>2, <1>7, <2>1, <2>2 DEF TotalHolds
      <3>1. ~drift /\ op.on \subseteq DOMAIN items
        BY <1>3
      <3>2. \A i \in Slots : ~Unsettled(i)
        <4>1. ~Unsettled(k)
          BY <1>2, <3>1 DEF Unsettled, DeleteKinds
        <4>2. ASSUME NEW i \in Slots, i # k PROVE ~Unsettled(i)
          BY <1>2, <1>4, <1>7, <4>2 DEF Unsettled, Filtered
        <4>. QED  BY <4>1, <4>2
      <3>3. /\ total = Cardinality(Counted)
            /\ \A m \in DOMAIN items : stored[m] = Gone \/ Matches(url, m)
        BY <1>1, <3>1, <3>2 DEF Screen, TotalHolds
      <3>4. \A m \in op.on : m \in Doomed /\ m \notin Matching(url)
        <4>. SUFFICES ASSUME NEW m \in op.on PROVE m \in Doomed /\ m \notin Matching(url)
          OBVIOUS
        <4>1. m \in Messages /\ OwedOn(k, m)
          BY <1>2 DEF OwedOn
        <4>2. stored[m] = Gone
          BY <1>1, <1>2, <4>1 DEF Owes, DeletedOnce
        <4>. QED  BY <1>2, <4>1, <4>2 DEF Doomed, Matching, Matches
      <3>5. ASSUME NEW m \in Messages PROVE m \in Doomed' <=> (m \in Doomed /\ m \notin op.on)
        <4>1. \A i \in Slots \ {k} : /\ OwedOn(i, m)' <=> OwedOn(i, m)
                                     /\ ops'[i].kind = ops[i].kind
          BY <1>2, <1>4
        <4>2. m \in op.on <=> OwedOn(k, m)
          BY <1>2 DEF OwedOn
        <4>3. ASSUME m \in op.on PROVE m \notin Doomed'
          BY <1>1, <1>2, <1>4, <4>1, <4>2, <4>3 DEF Owes, DeletedOnce, Doomed
        <4>4. ASSUME m \notin op.on PROVE m \in Doomed' <=> m \in Doomed
          BY <1>2, <1>4, <4>1, <4>2, <4>4 DEF Doomed
        <4>. QED  BY <4>3, <4>4
      <3>6. \A m : m \in Counted' <=> m \in Counted \ op.on
        BY <1>7, <2>3, <3>4, <3>5 DEF Counted, Doomed
      <3>7. Counted' = Counted \ op.on /\ op.on \subseteq Counted /\ Counted \subseteq Messages
        BY <3>4, <3>6 DEF Counted, Matching, Doomed
      <3>8. TotalWithout(op.on) = Cardinality(Counted \ op.on)
        BY <3>3, <3>7, TakenOff, FS_Subset
      <3>. QED  BY <1>2, <3>3, <3>7, <3>8
    <2>. QED  BY <1>5, <2>4, <2>5, <2>6 DEF Screen
  <1>. QED  BY <1>2, <1>6, <1>7

LEMMA NextInv == IInv /\ [Next]_vars => IInv'
  <1>. SUFFICES ASSUME IInv, [Next]_vars PROVE IInv'
    OBVIOUS
  <1>1. Types' /\ (Steady \/ Telling)
    BY NextTypes DEF IInv
  <1>2. CASE Steady
    BY <1>1, <1>2, SteadyInv DEF IInv
  <1>3. CASE ServeLoad \/ LoseLoad
    BY <1>1, <1>3, LoadInv DEF IInv
  <1>4. CASE ReceiveLoad
    BY <1>1, <1>4, LoadArrivesInv, LoadFailsInv DEF IInv, ReceiveLoad
  <1>5. ASSUME NEW k \in Slots,
               \/ ServeOp(k) /\ Commit(k)
               \/ ReceiveOp(k) /\ ChangeArrives(k)
               \/ ReceiveOp(k) /\ DeletionArrives(k)
        PROVE  IInv'
    BY <1>1, <1>5, CommitInv, ChangeArrivesInv, DeletionArrivesInv DEF IInv
  <1>. QED  BY <1>1, <1>2, <1>3, <1>4, <1>5 DEF Telling

LEMMA Holds == Spec => []IInv
  BY InitInv, NextInv, PTL DEF Spec

-----------------------------------------------------------------------------
(* The theorems *)

\* With no load in flight and no error, the list is the answer to the URL of the
\* address bar: hydrateMessages drops the answer of a load that was canceled.
THEOREM ListsAnswerTheUrl == Spec => []ListAnswersUrl
  <1>1. IInv => ListAnswersUrl
    BY DEF IInv, Screen
  <1>. QED  BY <1>1, Holds, PTL

\* With nothing in flight, each message on the screen is stored as it is shown
\* and belongs to the filter: the replies that patch the list, and the loads that
\* the changes of a filtered list start, leave nothing stale, unless the replies
\* about that message overtook each other.
THEOREM ListsAreTrue == Spec => []ListIsTrue
  <1>1. ASSUME IInv PROVE ListIsTrue
    <2>. SUFFICES ASSUME Quiet, NEW m \in DOMAIN items \ raced
                  PROVE  items[m] = stored[m] /\ Matches(url, m)
      BY DEF ListIsTrue
    <2>1. \A k \in Slots : ~OwedOn(k, m)
      BY DEF Quiet, OwedOn, Owing, Answered
    <2>2. Shown(m)
      BY <1>1 DEF IInv, Screen, ListHolds, AtRest, Quiet
    <2>. QED  BY <2>1, <2>2 DEF Shown
  <1>. QED  BY <1>1, Holds, PTL

\* With nothing in flight, the number above the list is what the server counts,
\* unless it missed a change that overlapped the load: the deletions take off
\* exactly the messages they removed.
THEOREM TotalsAreTrue == Spec => []TotalIsTrue
  <1>1. ASSUME IInv PROVE TotalIsTrue
    <2>. SUFFICES ASSUME Quiet, ~drift PROVE total = Cardinality(Matching(url))
      BY DEF TotalIsTrue
    <2>1. \A k \in Slots : ~Owing(k)
      BY DEF Quiet, Owing, Answered
    <2>2. Doomed = {} /\ \A k \in Slots : ~Unsettled(k)
      BY <2>1 DEF Doomed, OwedOn, Unsettled
    <2>3. Counted = Matching(url)
      BY <2>2 DEF Counted
    <2>. QED  BY <1>1, <2>2, <2>3 DEF IInv, Screen, TotalHolds, AtRest, Quiet
  <1>. QED  BY <1>1, Holds, PTL

=============================================================================
