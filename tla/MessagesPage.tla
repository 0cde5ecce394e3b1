---------------------------- MODULE MessagesPage ----------------------------
(***************************************************************************)
(* The message list (messages-page.tsx with api/messages.ts, the dialogs   *)
(* and the bulk bar): one list on the screen, kept in step with its URL by *)
(* a load that a newer load cancels, and patched in place by the replies   *)
(* to moves, tag changes and deletions, any number of which are in flight. *)
(*                                                                         *)
(* A filter is a category or a tag; the message type and the sort order    *)
(* are filters like these and left out.  The search text matches Found.    *)
(* Messages are listed with the greatest number first.                     *)
(***************************************************************************)
EXTENDS Integers, FiniteSets

CONSTANTS
  Messages,   \* numbers of the stored messages
  Categories,
  Tags,
  Found,      \* the messages the search text matches
  Libraries,  \* what the server may store at first
  PageSize,   \* per_page
  Any,        \* no filter
  Gone,       \* a deleted message
  NoLoad, NoOp, NoReply, Failed, Conflict, Done, NoMessage,
  MaxPage,    \* bound: pages
  Links,      \* bound: URLs that a link or the history leads to
  MaxOps,     \* bound: changes in flight
  MaxFaults,  \* bound: lost or refused requests
  MaxClicks   \* bound: clicks that send a request or change the URL

ASSUME MessagesAssumption ==
  /\ Messages \subseteq Nat \ {0} /\ IsFiniteSet(Messages)
  /\ Found \subseteq Messages
  /\ PageSize \in Nat \ {0} /\ MaxPage \in Nat \ {0} /\ MaxOps \in Nat
  /\ MaxFaults \in Nat /\ MaxClicks \in Nat
  /\ Any \notin Categories \union Tags

Records == [cat : Categories, tags : SUBSET Tags]
Labels  == {Any} \union Categories \union Tags
Urls    == [label : Labels, q : BOOLEAN, page : 1 .. MaxPage]

ASSUME LinksAssumption ==
  Links \subseteq Urls /\ Libraries \subseteq [Messages -> Records \union {Gone}]

VARIABLES
  stored,    \* the server's messages
  items,     \* messages: what is on the screen
  total,     \* totalMessages
  url,       \* searchParams
  box,       \* searchQuery: whether the search box holds the text
  load,      \* the load that is not canceled, if one is in flight
  completed, \* hasCompletedInitialLoadRef
  error,     \* loadError
  ops,       \* the changes in flight
  deleting,  \* pendingDeleteMessageId
  selected,  \* selectedMessageIds; empty outside bulk selection
  answered,  \* history: the URL whose load is on the screen
  raced,     \* history: listed messages whose replies overtook each other
  drift,     \* history: the total missed a change
  faults,    \* bound: faults so far
  clicks     \* bound: clicks so far

vars == <<stored, items, total, url, box, load, completed, error, ops,
          deleting, selected, answered, raced, drift, faults, clicks>>

Slots == 1 .. MaxOps
TagKinds    == {"addTag", "removeTag", "create"}
BulkKinds   == {"bulkMove", "bulkTag", "bulkDelete", "bulkDeleteLocal"}
DeleteKinds == {"delete", "deleteLocal", "bulkDelete", "bulkDeleteLocal"}
Kinds == {"move"} \union TagKinds \union BulkKinds \union DeleteKinds

Ops == [kind : Kinds, on : SUBSET Messages, arg : Labels, filtered : BOOLEAN,
        reply : Records \union {NoReply, Failed, Conflict, Done}]

Lists   == UNION {[S -> Records] : S \in SUBSET Messages}
Answers == [items : Lists, total : Nat]
Loads   == [url : Urls, reply : Answers \union {NoReply, Failed},
            dirty : SUBSET Messages]

ASSUME RepliesAssumption ==
  /\ {Gone, NoReply, Failed, Conflict, Done} \intersect Records = {}
  /\ {NoReply, Failed} \intersect Answers = {}
  /\ Failed \notin {NoReply, Conflict, Done} /\ NoReply \notin {Conflict, Done}
  /\ Conflict # Done

ASSUME RequestAssumption == NoOp \notin Ops /\ NoLoad \notin Loads

TypeOK ==
  /\ stored \in [Messages -> Records \union {Gone}]
  /\ items \in Lists
  /\ total \in Nat
  /\ url \in Urls /\ answered \in Urls \union {NoLoad}
  /\ box \in BOOLEAN /\ completed \in BOOLEAN /\ error \in BOOLEAN
  /\ load \in Loads \union {NoLoad}
  /\ ops \in [Slots -> Ops \union {NoOp}]
  /\ deleting \in Messages \union {NoMessage}
  /\ selected \subseteq Messages /\ raced \subseteq Messages
  /\ drift \in BOOLEAN
  /\ faults \in 0 .. MaxFaults /\ clicks \in 0 .. MaxClicks

-----------------------------------------------------------------------------
(* The server's answer to GET /messages *)

Matches(u, m) ==
  /\ stored[m] # Gone
  /\ u.label \in Categories => stored[m].cat = u.label
  /\ u.label \in Tags => u.label \in stored[m].tags
  /\ u.q => m \in Found

Matching(u) == {m \in Messages : Matches(u, m)}

OnPage(u, m) ==
  LET before == Cardinality({n \in Matching(u) : n > m})
  IN  before \div PageSize = u.page - 1

Answer(u) ==
  [items |-> [m \in {n \in Matching(u) : OnPage(u, n)} |-> stored[m]],
   total |-> Cardinality(Matching(u))]

-----------------------------------------------------------------------------
(* What a render derives, and the effects that follow it *)

HasActiveFilters(text, label) == text \/ label # Any

Pages(t) == IF t = 0 THEN 1 ELSE (t + PageSize - 1) \div PageSize

\* The page number never stays past the last page, once a load has ended.
Clamped(u, t, ready) ==
  IF ready /\ u.page > Pages(t) THEN [u EXCEPT !.page = Pages(t)] ELSE u

\* Mutant: a load in flight is not canceled, its answer serves the new URL.
FollowUncanceled(u, t, live, reload, failed) ==
  LET v == Clamped(u, t, completed')
      restart == reload \/ u # url \/ v # u
  IN  /\ url' = v
      /\ total' = t
      /\ load' = IF restart /\ live = NoLoad
                 THEN [url |-> v, reply |-> NoReply, dirty |-> {}] ELSE live
      /\ error' = (failed /\ ~restart)

\* A new URL, or a reload, cancels the load in flight and starts another.
Follow(u, t, live, reload, failed) ==
  LET v == Clamped(u, t, completed')
      restart == reload \/ u # url \/ v # u
  IN  /\ url' = v
      /\ total' = t
      /\ load' = IF restart THEN [url |-> v, reply |-> NoReply, dirty |-> {}]
                 ELSE live
      /\ error' = (failed /\ ~restart)

\* The search box takes over the text of a new URL.
SyncBox(typed) == box' = IF url'.q # url.q THEN url'.q ELSE typed

\* The selection keeps what is still listed.
List(next, chosen) ==
  /\ items' = next
  /\ selected' = chosen \intersect DOMAIN next

Waiting(k)  == ops[k] # NoOp /\ ops[k].reply = NoReply
Answered(k) == ops[k] # NoOp /\ ops[k].reply # NoReply
Pending(kinds) == \E k \in Slots : ops[k] # NoOp /\ ops[k].kind \in kinds
Overdue == UNION {IF Answered(k) THEN ops[k].on ELSE {} : k \in Slots}

Click == clicks < MaxClicks /\ clicks' = clicks + 1

-----------------------------------------------------------------------------
(* The URL: filters, pages, links and the search box *)

\* setSearchParams; a URL that stays as it is starts nothing.
Visit(u, typed) ==
  /\ UNCHANGED completed
  /\ Follow(u, total, load, FALSE, error)
  /\ SyncBox(typed)
  /\ UNCHANGED <<stored, items, ops, deleting, selected, answered, raced,
                 drift, faults>>

\* The category select and the tag buttons: back to the first page.
SetFilter(label) ==
  /\ completed /\ Click
  /\ Visit([url EXCEPT !.label = label, !.page = 1], box)

GoToPage(page) ==
  /\ completed /\ ~error
  /\ page \in 1 .. Pages(total)
  /\ Click
  /\ Visit([url EXCEPT !.page = page], box)

\* Back, forward and links into the list.
Navigate(u) == Click /\ Visit(u, box)

ClearFilters ==
  /\ completed /\ HasActiveFilters(box, url.label)
  /\ Click
  /\ Visit([label |-> Any, q |-> FALSE, page |-> 1], FALSE)

TypeSearch ==
  /\ completed /\ Click
  /\ box' = ~box
  /\ UNCHANGED <<stored, items, total, url, load, completed, error, ops,
                 deleting, selected, answered, raced, drift, faults>>

\* 250 ms after the last change of the box.
Debounce ==
  /\ box # url.q
  /\ Visit([url EXCEPT !.q = box, !.page = 1], box)
  /\ UNCHANGED clicks

-----------------------------------------------------------------------------
(* hydrateMessages *)

TryAgain ==
  /\ error /\ Click
  /\ UNCHANGED completed
  /\ Follow(url, total, load, TRUE, FALSE)
  /\ SyncBox(box)
  /\ UNCHANGED <<stored, items, ops, deleting, selected, answered, raced,
                 drift, faults>>

ServeLoad ==
  /\ load # NoLoad /\ load.reply = NoReply
  /\ load' = [load EXCEPT !.reply = Answer(load.url)]
  /\ UNCHANGED <<stored, items, total, url, box, completed, error, ops,
                 deleting, selected, answered, raced, drift, faults, clicks>>

LoseLoad ==
  /\ faults < MaxFaults /\ faults' = faults + 1
  /\ load # NoLoad /\ load.reply # Failed
  /\ load' = [load EXCEPT !.reply = Failed]
  /\ UNCHANGED <<stored, items, total, url, box, completed, error, ops,
                 deleting, selected, answered, raced, drift, clicks>>

LoadArrives ==
  /\ load.reply # Failed
  /\ List(load.reply.items, selected)
  /\ Follow(url, load.reply.total, NoLoad, FALSE, FALSE)
  /\ answered' = load.url
  /\ raced' = load.dirty \union (raced \intersect Overdue)
  /\ drift' = (load.dirty # {})

\* Mutant: a load that failed is left marked as in flight.
LoadFailsUnended ==
  /\ load.reply = Failed
  /\ IF completed THEN UNCHANGED <<items, selected>> ELSE List(<<>>, selected)
  /\ Follow(url, IF completed THEN total ELSE 0, load, FALSE, TRUE)
  /\ UNCHANGED <<answered, raced, drift>>

\* Only the first load empties the list when it fails.
LoadFails ==
  /\ load.reply = Failed
  /\ IF completed THEN UNCHANGED <<items, selected>> ELSE List(<<>>, selected)
  /\ Follow(url, IF completed THEN total ELSE 0, NoLoad, FALSE, TRUE)
  /\ UNCHANGED <<answered, raced, drift>>

ReceiveLoad ==
  /\ load # NoLoad /\ load.reply # NoReply
  /\ completed' = TRUE
  /\ LoadArrives \/ LoadFails
  /\ SyncBox(box)
  /\ UNCHANGED <<stored, ops, deleting, faults, clicks>>

-----------------------------------------------------------------------------
(* The user's changes *)

Free(k) == ops[k] = NoOp /\ \A i \in 1 .. (k - 1) : ops[i] # NoOp

Issue(kind, on, arg) ==
  /\ \E k \in Slots :
       /\ Free(k)
       /\ ops' = [ops EXCEPT ![k] =
            [kind |-> kind, on |-> on, arg |-> arg,
             filtered |-> HasActiveFilters(box, url.label), reply |-> NoReply]]
  /\ UNCHANGED <<stored, items, total, url, box, load, completed, error,
                 selected, answered, raced, drift, faults>>

Target(m) == completed /\ m \in DOMAIN items /\ Click

\* The move dialog, and a card dropped on a category of the sidebar.
Move(m, c) ==
  /\ Target(m) /\ c # items[m].cat
  /\ Issue("move", {m}, c)
  /\ UNCHANGED deleting

\* The tag dialog is disabled while one of its requests is in flight.
ChangeTag(m, t) ==
  /\ Target(m) /\ ~Pending(TagKinds)
  /\ \/ t \notin items[m].tags /\ Issue("addTag", {m}, t)
     \/ t \notin items[m].tags /\ Issue("create", {m}, t)
     \/ t \in items[m].tags /\ Issue("removeTag", {m}, t)
  /\ UNCHANGED deleting

Delete(m) ==
  /\ Target(m) /\ deleting # m
  /\ Issue("delete", {m}, Any)
  /\ deleting' = m

\* The bulk buttons are disabled while one of their requests is in flight.
Bulk(kind, arg) ==
  /\ completed /\ Click
  /\ selected # {} /\ ~Pending(BulkKinds)
  /\ Issue(kind, selected, arg)
  /\ UNCHANGED deleting

BulkAction ==
  \/ \E c \in Categories : Bulk("bulkMove", c)
  \/ \E t \in Tags : Bulk("bulkTag", t)
  \/ Bulk("bulkDelete", Any)

\* A checkbox, "Select visible", "Clear selection", "Exit bulk mode".
Select(chosen) ==
  /\ completed /\ ~Pending(BulkKinds)
  /\ selected' = chosen
  /\ UNCHANGED <<stored, items, total, url, box, load, completed, error, ops,
                 deleting, answered, raced, drift, faults, clicks>>

SelectionChange ==
  \/ \E m \in DOMAIN items : \/ Select(selected \union {m})
                             \/ Select(selected \ {m})
  \/ Select(DOMAIN items)
  \/ Select({})

-----------------------------------------------------------------------------
(* What the server does with a change: all of it, or nothing *)

Exists(on) == \A m \in on : stored[m] # Gone

Changed(op, r) ==
  CASE op.kind \in {"move", "bulkMove"}   -> [r EXCEPT !.cat = op.arg]
    [] op.kind \in {"addTag", "bulkTag"}  -> [r EXCEPT !.tags = @ \union {op.arg}]
    [] op.kind = "removeTag"              -> [r EXCEPT !.tags = @ \ {op.arg}]
    [] op.kind \in DeleteKinds            -> Gone

Reply(k, r) == ops' = [ops EXCEPT ![k].reply = r]

\* A single change is answered with the message as it is then.
Receipt(op) ==
  IF op.kind \in {"move", "addTag", "removeTag"}
  THEN stored'[CHOOSE m \in op.on : TRUE]
  ELSE Done

Commit(k) ==
  LET op == ops[k]
      unseen == UNION {ops[i].on : i \in {j \in Slots : Answered(j)}}
  IN  /\ op.kind # "create" /\ Exists(op.on)
      /\ stored' = [m \in Messages |-> IF m \in op.on THEN Changed(op, stored[m])
                                       ELSE stored[m]]
      /\ Reply(k, Receipt(op))
      /\ raced' = raced \union (op.on \intersect unseen)
      /\ IF load # NoLoad /\ load.reply # NoReply
         THEN /\ load' = [load EXCEPT !.dirty = @ \union op.on]
              /\ drift' = TRUE
         ELSE UNCHANGED <<load, drift>>

\* 404; 409 when Telegram cannot be asked; a tag that exists already.
Refuse(k) ==
  LET op == ops[k] IN
  /\ \/ op.kind = "create" /\ Reply(k, Done)
     \/ op.kind = "create" /\ Reply(k, Failed)
     \/ op.kind # "create" /\ ~Exists(op.on) /\ Reply(k, Failed)
     \/ op.kind \in {"delete", "bulkDelete"} /\ Exists(op.on) /\ Reply(k, Conflict)
  /\ UNCHANGED <<stored, raced, load, drift>>

ServeOp(k) ==
  /\ Waiting(k)
  /\ Commit(k) \/ Refuse(k)
  /\ UNCHANGED <<items, total, url, box, completed, error, deleting, selected,
                 answered, faults, clicks>>

\* The request or the reply is lost; the server may have carried it out.
LoseOp(k) ==
  /\ faults < MaxFaults /\ faults' = faults + 1
  /\ ops[k] # NoOp /\ ops[k].reply # Failed
  /\ Reply(k, Failed)
  /\ raced' = raced \union (IF Answered(k) THEN ops[k].on ELSE {})
  /\ drift' = (drift \/ Answered(k))
  /\ UNCHANGED <<stored, items, total, url, box, load, completed, error,
                 deleting, selected, answered, clicks>>

-----------------------------------------------------------------------------
(* What the page does with the reply *)

End(k) == ops' = [ops EXCEPT ![k] = NoOp]

Updated(op, m) ==
  CASE op.kind = "move" -> op.reply
    [] op.kind \in {"addTag", "removeTag"} -> [items[m] EXCEPT !.tags = op.reply.tags]
    [] OTHER -> Changed(op, items[m])

Patched(op) ==
  [m \in DOMAIN items |-> IF m \in op.on THEN Updated(op, m) ELSE items[m]]

\* Mutant: only the single changes reload a filtered list.
ReloadsAfterSingle(op) == op.filtered /\ op.kind \notin BulkKinds

\* Decided when the request was issued.
Reloads(op) == op.filtered /\ op.kind # "bulkTag"

ChangeArrives(k) ==
  LET op == ops[k]
      stray == /\ HasActiveFilters(url.q, url.label)
               /\ \/ ~op.filtered
                  \/ op.kind = "bulkTag" /\ ~(op.on \subseteq DOMAIN items)
  IN  /\ op.kind \notin DeleteKinds \union {"create"}
      /\ op.reply \notin {Failed, Conflict}
      /\ List(Patched(op), IF op.kind = "bulkMove" THEN {} ELSE selected)
      /\ Follow(url, total, load, Reloads(op), error)
      /\ raced' = IF stray THEN raced \union op.on ELSE raced
      /\ drift' = (drift \/ stray)
      /\ End(k)
      /\ UNCHANGED deleting

\* Mutant: every deletion takes one message off the total.
TotalWithoutOne(on) == IF total > 1 THEN total - 1 ELSE 0

TotalWithout(on) ==
  IF total > Cardinality(on) THEN total - Cardinality(on) ELSE 0

DeletionArrives(k) ==
  LET op == ops[k]
      left == [m \in DOMAIN items \ op.on |-> items[m]]
      bulk == op.kind \in BulkKinds
  IN  /\ op.kind \in DeleteKinds /\ op.reply = Done
      /\ List(left, IF bulk THEN {} ELSE selected)
      /\ Follow(url, TotalWithout(op.on), load, FALSE, error)
      /\ End(k)
      /\ deleting' = IF bulk THEN deleting ELSE NoMessage
      /\ drift' = (drift \/ ~(op.on \subseteq DOMAIN items))
      /\ UNCHANGED raced

\* "Delete it locally only?"
DeleteLocally(k) ==
  LET op == ops[k] IN
  /\ op.reply = Conflict
  /\ ops' = [ops EXCEPT ![k].kind = IF @ = "delete" THEN "deleteLocal"
                                    ELSE "bulkDeleteLocal",
                        ![k].reply = NoReply]
  /\ deleting' = IF op.kind = "delete" THEN CHOOSE m \in op.on : TRUE ELSE deleting
  /\ Follow(url, total, load, FALSE, error)
  /\ UNCHANGED <<items, selected, raced, drift>>

AttachCreated(k) ==
  /\ ops[k].kind = "create" /\ ops[k].reply = Done
  /\ ops' = [ops EXCEPT ![k].kind = "addTag", ![k].reply = NoReply]
  /\ Follow(url, total, load, FALSE, error)
  /\ UNCHANGED <<items, selected, deleting, raced, drift>>

ChangeFails(k) ==
  LET op == ops[k] IN
  /\ op.reply \in {Failed, Conflict}
  /\ End(k)
  /\ deleting' = IF op.kind \in {"delete", "deleteLocal"} THEN NoMessage ELSE deleting
  /\ Follow(url, total, load, FALSE, error)
  /\ UNCHANGED <<items, selected, raced, drift>>

ReceiveOp(k) ==
  /\ Answered(k)
  /\ UNCHANGED completed
  /\ \/ ChangeArrives(k) \/ DeletionArrives(k) \/ DeleteLocally(k)
     \/ AttachCreated(k) \/ ChangeFails(k)
  /\ SyncBox(box)
  /\ UNCHANGED <<stored, answered, faults, clicks>>

-----------------------------------------------------------------------------

Init ==
  /\ stored \in Libraries
  /\ url \in Links
  /\ items = <<>> /\ total = 0
  /\ box = url.q
  /\ load = [url |-> url, reply |-> NoReply, dirty |-> {}]
  /\ completed = FALSE /\ error = FALSE
  /\ ops = [k \in Slots |-> NoOp]
  /\ deleting = NoMessage /\ selected = {}
  /\ answered = NoLoad /\ raced = {} /\ drift = FALSE
  /\ faults = 0 /\ clicks = 0

User ==
  \/ \E label \in Labels : SetFilter(label)
  \/ \E page \in 1 .. MaxPage : GoToPage(page)
  \/ \E u \in Links : Navigate(u)
  \/ ClearFilters \/ TypeSearch \/ TryAgain
  \/ \E m \in Messages : \/ \E c \in Categories : Move(m, c)
                         \/ \E t \in Tags : ChangeTag(m, t)
                         \/ Delete(m)
  \/ BulkAction \/ SelectionChange

Next ==
  \/ User \/ Debounce
  \/ ServeLoad \/ LoseLoad \/ ReceiveLoad
  \/ \E k \in Slots : ServeOp(k) \/ LoseOp(k) \/ ReceiveOp(k)

Spec == Init /\ [][Next]_vars

\* Timers run and every request ends; the user need not do anything.
Fairness ==
  /\ WF_vars(Debounce) /\ WF_vars(ServeLoad) /\ WF_vars(ReceiveLoad)
  /\ \A k \in Slots : WF_vars(ServeOp(k)) /\ WF_vars(ReceiveOp(k))

FairSpec == Spec /\ Fairness

-----------------------------------------------------------------------------
(* Properties *)

Quiet == load = NoLoad /\ ~error /\ \A k \in Slots : ops[k] = NoOp

\* Without a load in flight and without an error, the list on the screen is
\* the answer to the URL in the address bar: no late answer to an older URL
\* replaced it.
ListAnswersUrl == load = NoLoad /\ ~error => answered = url

\* At rest every message on the screen is stored as it is shown and belongs
\* to the filter, but for those whose replies overtook each other.
ListIsTrue ==
  Quiet => \A m \in DOMAIN items \ raced : items[m] = stored[m] /\ Matches(url, m)

\* At rest the total is the server's, unless it missed a change that
\* overlapped the load.
TotalIsTrue == Quiet /\ ~drift => total = Cardinality(Matching(url))

\* However filters, pages, links and changes follow each other, the loads
\* come to an end, with the search box and the URL in agreement.
ComesToRest == <>[](load = NoLoad /\ box = url.q)
=============================================================================
