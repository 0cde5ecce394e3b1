----------------------------- MODULE Organization -----------------------------
(***************************************************************************)
(* The category and tag lists that the tabs of one browser show            *)
(* (use-categories.ts, organization-events.ts, categories-page.tsx,        *)
(* tags-page.tsx, api/categories.ts, api/tags.ts).                         *)
(*                                                                         *)
(* Every useCategories hook of a tab depends on the same path and the same *)
(* event, so they all rerun together and share one request: a tab has one  *)
(* awaited request and a list per mounted hook.  A category list is the    *)
(* revision it was read at; a tag list is the set of its entries, where a  *)
(* tag the page added itself is not the entry a load gave it.              *)
(***************************************************************************)
EXTENDS Naturals, Sequences, FiniteSets, SequencesExt

CONSTANTS
  Tabs,
  Names,      \* names a tag can have
  Recorded,   \* the names taken at the start
  Fallback,   \* DEFAULT_CATEGORY_FALLBACK
  NoRequest,  \* nothing in flight
  NoReply, Failed,
  MaxChanges, \* bound: changes of the lists
  MaxEvents   \* bound: failed requests and navigations

ASSUME OrganizationAssumption ==
  /\ MaxChanges \in Nat /\ MaxEvents \in Nat
  /\ Recorded \subseteq Names /\ IsFiniteSet(Recorded)
  /\ {Fallback, NoRequest, NoReply, Failed} \intersect Nat = {}
  /\ NoRequest \notin {NoReply, Failed} /\ NoReply # Failed

VARIABLES
  categories, \* revision of the categories in the database
  tags,       \* the tags in the database
  used,       \* the last identifier given to a tag: they are never reused
  lists,      \* category list of each mounted hook, per tab
  fetch,      \* the category request the hooks of a tab await
  dirty,      \* tabs whose hooks were told of a change and did not rerun yet
  page,       \* the tags page of each tab
  load,       \* its newest loadTags
  op,         \* the change in flight of each tab, whatever page sent it
  inbox,      \* broadcasts on their way to each tab
  stale,      \* history: lists a lost reply left behind
  gone,       \* history: deletions confirmed to the page that asked for them
  changes,    \* bound: changes so far
  events      \* bound: failed requests and navigations so far

lists_ == <<lists, fetch, dirty>>
page_ == <<page, load>>
bounds == <<changes, events>>
vars == <<categories, tags, used, lists_, page_, op, inbox, stale, gone, bounds>>

Resources == {"categories", "tags"}
TagIds == Nat \ {0}
Tags == [id : TagIds, name : Names]
NoTag == [id |-> 0]
Hooks == {"layout", "page"}
Lists == Nat \union {Fallback}
Entries == [id : TagIds, name : Names, added : BOOLEAN]
Pages == [open : BOOLEAN, tags : SUBSET Entries, loaded : BOOLEAN, loading : BOOLEAN,
          error : BOOLEAN]
Closed == [open |-> FALSE, tags |-> {}, loaded |-> FALSE, loading |-> TRUE,
           error |-> FALSE]
Loads == [background : BOOLEAN, reply : {NoReply, Failed} \union SUBSET Tags]
Ops == [kind : {"category", "create", "update", "delete"},
        tag : Tags \union {NoTag} \union [id : {0}, name : Names],
        reply : {"none", "done", "failed"},
        here : BOOLEAN]  \* the tags page it was sent from is still mounted

ASSUME RequestAssumption == NoRequest \notin Loads \union Ops

TypeOK ==
  /\ categories \in Nat /\ tags \subseteq Tags /\ used \in Nat
  /\ lists \in [Tabs -> [{"layout"} -> Lists] \union [Hooks -> Lists]]
  /\ fetch \in [Tabs -> Nat \union {NoRequest, NoReply, Failed}]
  /\ dirty \subseteq Tabs
  /\ page \in [Tabs -> Pages]
  /\ load \in [Tabs -> Loads \union {NoRequest}]
  /\ op \in [Tabs -> Ops \union {NoRequest}]
  /\ inbox \in [Tabs -> Seq(Resources)]
  /\ stale \in [Tabs -> SUBSET Resources] /\ gone \in [Tabs -> SUBSET TagIds]

-----------------------------------------------------------------------------
(* Loads and notifications *)

Event == events < MaxEvents /\ events' = events + 1 /\ UNCHANGED changes

NewLoad(background) == [background |-> background, reply |-> NoReply]

\* Mutant: a tags page that is loading does not load again.
DispatchUnlessLoading(t, resource) ==
  \/ /\ resource = "categories"
     /\ dirty' = dirty \union {t}
     /\ UNCHANGED <<lists, fetch, load>>
  \/ /\ resource = "tags"
     /\ load' = [load EXCEPT ![t] =
          IF page[t].open /\ @ = NoRequest THEN NewLoad(TRUE) ELSE @]
     /\ UNCHANGED lists_

\* The listeners of one tab: the shared category request is no longer shared,
\* a tags page loads again.
Dispatch(t, resource) ==
  \/ /\ resource = "categories"
     /\ dirty' = dirty \union {t}
     /\ UNCHANGED <<lists, fetch, load>>
  \/ /\ resource = "tags"
     /\ load' = [load EXCEPT ![t] = IF page[t].open THEN NewLoad(TRUE) ELSE @]
     /\ UNCHANGED lists_

\* notifyOrganizationChanged: this tab at once, the others by the channel.
Notify(t, resource) ==
  /\ Dispatch(t, resource)
  /\ inbox' = [u \in Tabs |-> IF u = t THEN inbox[u] ELSE Append(inbox[u], resource)]

Hears(t) ==
  /\ inbox[t] # <<>>
  /\ Dispatch(t, Head(inbox[t]))
  /\ inbox' = [inbox EXCEPT ![t] = Tail(@)]
  /\ UNCHANGED <<categories, tags, used, page, op, stale, gone, bounds>>

-----------------------------------------------------------------------------
(* useCategories *)

\* Mutant: the request in flight is shared after a change as well.
RequestShared(t) ==
  fetch' = [fetch EXCEPT ![t] = IF @ = NoRequest THEN NoReply ELSE @]

\* requestCategories: the request in flight is shared unless a change
\* invalidated it; the answer of an invalidated one is canceled.
Request(t) ==
  fetch' = [fetch EXCEPT ![t] = IF @ = NoRequest \/ t \in dirty THEN NoReply ELSE @]

\* The effects run again after the render that the change caused.
Rerender(t) ==
  /\ t \in dirty /\ dirty' = dirty \ {t}
  /\ Request(t)
  /\ UNCHANGED <<categories, tags, used, lists, page_, op, inbox, stale, gone,
                 bounds>>

ServeFetch(t) ==
  /\ fetch[t] = NoReply
  /\ fetch' = [fetch EXCEPT ![t] = categories]
  /\ stale' = [stale EXCEPT ![t] = IF t \in dirty THEN @ ELSE @ \ {"categories"}]
  /\ UNCHANGED <<categories, tags, used, lists, dirty, page_, op, inbox, gone,
                 bounds>>

LoseFetch(t) ==
  /\ fetch[t] = NoReply /\ Event
  /\ fetch' = [fetch EXCEPT ![t] = Failed]
  /\ UNCHANGED <<categories, tags, used, lists, dirty, page_, op, inbox, stale,
                 gone>>

Answer(answer) == IF answer = Failed THEN Fallback ELSE answer

ReceiveFetch(t) ==
  /\ fetch[t] \notin {NoRequest, NoReply}
  /\ lists' = [lists EXCEPT ![t] = [h \in DOMAIN @ |-> Answer(fetch[t])]]
  /\ fetch' = [fetch EXCEPT ![t] = NoRequest]
  /\ UNCHANGED <<categories, tags, used, dirty, page_, op, inbox, stale, gone,
                 bounds>>

\* A page with categories, the tags page, or another one, as it is mounted.
Places == {"categories", "tags", "other"}
HooksOf(place) == IF place = "categories" THEN Hooks ELSE {"layout"}
PageOf(place) == [Closed EXCEPT !.open = (place = "tags")]
LoadOf(place) == IF place = "tags" THEN NewLoad(FALSE) ELSE NoRequest

PlaceOf(t) == IF page[t].open THEN "tags"
              ELSE IF "page" \in DOMAIN lists[t] THEN "categories" ELSE "other"

\* Another route mounts another page.  The one that is left goes with its
\* lists and its load; a change it sent goes on, but its answer finds no page.
Navigate(t, to) ==
  /\ Event /\ (to = PlaceOf(t) => to = "other")
  /\ lists' = [lists EXCEPT ![t] =
       [h \in HooksOf(to) |-> IF h = "layout" THEN @["layout"] ELSE Fallback]]
  /\ Request(t) /\ dirty' = dirty \ {t}
  /\ page' = [page EXCEPT ![t] = PageOf(to)]
  /\ load' = [load EXCEPT ![t] = LoadOf(to)]
  /\ op' = [op EXCEPT ![t] = IF @ = NoRequest THEN @ ELSE [@ EXCEPT !.here = FALSE]]
  /\ UNCHANGED <<categories, tags, used, inbox, stale, gone>>

\* "Try again" on the categories page, once the previous try has ended.
RetryCategories(t) ==
  /\ "page" \in DOMAIN lists[t] /\ lists[t]["page"] = Fallback
  /\ fetch[t] = NoRequest /\ t \notin dirty
  /\ Notify(t, "categories")
  /\ UNCHANGED <<categories, tags, used, page, op, stale, gone, bounds>>

-----------------------------------------------------------------------------
(* The tags page: loadTags *)

ServeLoad(t) ==
  /\ load[t] # NoRequest /\ load[t].reply = NoReply
  /\ load' = [load EXCEPT ![t].reply = tags]
  /\ stale' = [stale EXCEPT ![t] = @ \ {"tags"}]
  /\ UNCHANGED <<categories, tags, used, lists_, page, op, inbox, gone, bounds>>

LoseLoad(t) ==
  /\ load[t] # NoRequest /\ load[t].reply = NoReply /\ Event
  /\ load' = [load EXCEPT ![t].reply = Failed]
  /\ UNCHANGED <<categories, tags, used, lists_, page, op, inbox, stale, gone>>

Entry(tag, added) == [id |-> tag.id, name |-> tag.name, added |-> added]

Listing(answer) ==
  [open |-> TRUE, tags |-> {Entry(tag, FALSE) : tag \in answer}, loaded |-> TRUE, loading |-> FALSE,
   error |-> FALSE]

LoadSucceeds(t) ==
  /\ load[t].reply \notin {NoReply, Failed}
  /\ page' = [page EXCEPT ![t] = Listing(load[t].reply)]
  /\ UNCHANGED stale

\* Mutant: only a load with the spinner takes the spinner away.
LoadFailsQuietly(t) ==
  /\ load[t].reply = Failed
  /\ page' = [page EXCEPT ![t].loading = @ /\ load[t].background,
       ![t].error = @ \/ ~load[t].background \/ ~page[t].loaded]
  /\ stale' = [stale EXCEPT ![t] = @ \union {"tags"}]

\* A refresh in the background that fails keeps the list it has.
LoadFails(t) ==
  /\ load[t].reply = Failed
  /\ page' = [page EXCEPT ![t].loading = FALSE,
       ![t].error = @ \/ ~load[t].background \/ ~page[t].loaded]
  /\ stale' = [stale EXCEPT ![t] = @ \union {"tags"}]

ReceiveLoad(t) ==
  /\ load[t] # NoRequest
  /\ LoadSucceeds(t) \/ LoadFails(t)
  /\ load' = [load EXCEPT ![t] = NoRequest]
  /\ UNCHANGED <<categories, tags, used, lists_, op, inbox, gone, bounds>>

\* "Try again" on the tags page: a load with the spinner.
RetryTags(t) ==
  /\ page[t].open /\ page[t].error /\ ~page[t].loading
  /\ page' = [page EXCEPT ![t].loading = TRUE, ![t].error = FALSE]
  /\ load' = [load EXCEPT ![t] = NewLoad(FALSE)]
  /\ UNCHANGED <<categories, tags, used, lists_, op, inbox, stale, gone, bounds>>

-----------------------------------------------------------------------------
(* Changes *)

Issue(t, kind, tag) ==
  /\ op[t] = NoRequest
  /\ changes < MaxChanges /\ changes' = changes + 1 /\ UNCHANGED events
  /\ op' = [op EXCEPT ![t] = [kind |-> kind, tag |-> tag, reply |-> "none",
                              here |-> page[t].open]]
  /\ UNCHANGED <<categories, tags, used, lists_, page_, inbox, stale, gone>>

Usable(p) == p.open /\ ~p.loading /\ ~p.error

\* handleSave and handleDelete of the categories page, and the moves and
\* deletions of messages, which are possible on every page.
ChangeCategories(t) == Issue(t, "category", NoTag)

TagOf(listed) == [id |-> listed.id, name |-> listed.name]

\* handleSave and handleDelete of the tags page.
ChangeTags(t) ==
  /\ Usable(page[t])
  /\ \/ \E name \in Names : Issue(t, "create", [id |-> 0, name |-> name])
     \/ \E tag \in {TagOf(listed) : listed \in page[t].tags} :
          \/ Issue(t, "delete", tag)
          \/ \E name \in Names : Issue(t, "update", [tag EXCEPT !.name = name])

Named(name) == {tag \in tags : tag.name = name}
WithId(id) == {tag \in tags : tag.id = id}
Reply(t, reply, tag) == op' = [op EXCEPT ![t].reply = reply, ![t].tag = tag]

ChangeCategory(t) ==
  /\ op[t].kind = "category"
  /\ categories' = categories + 1
  /\ Reply(t, "done", NoTag)
  /\ UNCHANGED <<tags, used>>

CreateTag(t) ==
  LET tag == [op[t].tag EXCEPT !.id = used + 1]
  IN /\ op[t].kind = "create" /\ Named(tag.name) = {}
     /\ tags' = tags \union {tag} /\ used' = tag.id
     /\ Reply(t, "done", tag)
     /\ UNCHANGED categories

UpdateTag(t) ==
  LET tag == op[t].tag
      old == WithId(tag.id)
  IN /\ op[t].kind = "update" /\ old # {} /\ Named(tag.name) \subseteq old
     /\ tags' = (tags \ old) \union {tag}
     /\ Reply(t, "done", tag)
     /\ UNCHANGED <<categories, used>>

DeleteTag(t) ==
  LET tag == op[t].tag
  IN /\ op[t].kind = "delete" /\ WithId(tag.id) # {}
     /\ tags' = tags \ WithId(tag.id)
     /\ Reply(t, "done", tag)
     /\ UNCHANGED <<categories, used>>

\* A name is taken, or the tag is gone.
RefuseTag(t) ==
  LET tag == op[t].tag
  IN /\ \/ op[t].kind = "create" /\ Named(tag.name) # {}
        \/ op[t].kind = "update" /\ WithId(tag.id) = {}
        \/ op[t].kind = "update" /\ ~(Named(tag.name) \subseteq WithId(tag.id))
        \/ op[t].kind = "delete" /\ WithId(tag.id) = {}
     /\ Reply(t, "failed", tag)
     /\ UNCHANGED <<categories, tags, used>>

ServeOp(t) ==
  /\ op[t] # NoRequest /\ op[t].reply = "none"
  /\ ChangeCategory(t) \/ CreateTag(t) \/ UpdateTag(t) \/ DeleteTag(t) \/ RefuseTag(t)
  /\ UNCHANGED <<lists_, page_, inbox, stale, gone, bounds>>

Resource(kind) == IF kind = "category" THEN "categories" ELSE "tags"

\* A change fails, or the answer to one that was made is lost and nobody is told.
LoseOp(t) ==
  /\ op[t] # NoRequest /\ op[t].reply # "failed" /\ Event
  /\ Reply(t, "failed", op[t].tag)
  /\ stale' = IF op[t].reply = "done"
              THEN [u \in Tabs |-> stale[u] \union {Resource(op[t].kind)}] ELSE stale
  /\ UNCHANGED <<categories, tags, used, lists_, page_, inbox, gone>>

\* What the tags page that sent a change does with the answer, before its
\* reload arrives.
Patched(list, kind, tag) ==
  IF kind = "create" THEN list \union {Entry(tag, TRUE)}
  ELSE IF kind = "update"
    THEN {IF listed.id = tag.id THEN Entry(tag, listed.added) ELSE listed : listed \in list}
    ELSE {listed \in list : listed.id # tag.id}

\* Mutant: only the other tabs are told.
AnnouncedElsewhere(t, kind) ==
  /\ inbox' = [u \in Tabs |-> IF u = t THEN inbox[u] ELSE Append(inbox[u], Resource(kind))]
  /\ UNCHANGED <<lists_, load>>

Announced(t, kind) == Notify(t, Resource(kind))

\* The change is announced in any case.  The list of a page that was left is
\* not set any more, and one opened since has only the announcement.
OpSucceeds(t) ==
  LET kind == op[t].kind
      tag == op[t].tag
  IN /\ op[t].reply = "done"
     /\ Announced(t, kind)
     /\ page' = [page EXCEPT ![t].tags =
          IF op[t].here /\ Resource(kind) = "tags" THEN Patched(@, kind, tag) ELSE @]
     /\ gone' = [gone EXCEPT ![t] =
          IF op[t].here /\ kind = "delete" THEN @ \union {tag.id} ELSE @]

OpFails(t) ==
  /\ op[t].reply = "failed"
  /\ UNCHANGED <<lists_, page_, inbox, gone>>

ReceiveOp(t) ==
  /\ op[t] # NoRequest
  /\ OpSucceeds(t) \/ OpFails(t)
  /\ op' = [op EXCEPT ![t] = NoRequest]
  /\ UNCHANGED <<categories, tags, used, stale, bounds>>

-----------------------------------------------------------------------------

\* The tabs are open on any page, and what they asked for when they opened has
\* come; Navigate has the pages that open later.
Init ==
  /\ categories = 0
  /\ used = Cardinality(Recorded)
  /\ LET names == SetToSeq(Recorded)
     IN tags = {[id |-> i, name |-> names[i]] : i \in DOMAIN names}
  /\ \E place \in [Tabs -> Places] :
       /\ lists = [t \in Tabs |-> [h \in HooksOf(place[t]) |-> categories]]
       /\ page = [t \in Tabs |->
            IF place[t] = "tags" THEN Listing(tags) ELSE PageOf(place[t])]
  /\ fetch = [t \in Tabs |-> NoRequest] /\ dirty = {}
  /\ load = [t \in Tabs |-> NoRequest]
  /\ op = [t \in Tabs |-> NoRequest] /\ inbox = [t \in Tabs |-> <<>>]
  /\ stale = [t \in Tabs |-> {}] /\ gone = [t \in Tabs |-> {}]
  /\ changes = 0 /\ events = 0

TabStep(t) ==
  \/ Hears(t) \/ Rerender(t)
  \/ ServeFetch(t) \/ LoseFetch(t) \/ ReceiveFetch(t)
  \/ ServeLoad(t) \/ LoseLoad(t) \/ ReceiveLoad(t)
  \/ \E to \in Places : Navigate(t, to)
  \/ RetryCategories(t) \/ RetryTags(t)
  \/ ChangeCategories(t) \/ ChangeTags(t)
  \/ ServeOp(t) \/ LoseOp(t) \/ ReceiveOp(t)

Next == \E t \in Tabs : TabStep(t)

Spec == Init /\ [][Next]_vars

\* Every request ends, every broadcast is delivered and every render runs.
Fairness ==
  \A t \in Tabs :
    /\ WF_vars(Hears(t)) /\ WF_vars(Rerender(t))
    /\ WF_vars(ServeFetch(t)) /\ WF_vars(ReceiveFetch(t))
    /\ WF_vars(ServeLoad(t)) /\ WF_vars(ReceiveLoad(t))
    /\ WF_vars(ServeOp(t)) /\ WF_vars(ReceiveOp(t))

FairSpec == Spec /\ Fairness

-----------------------------------------------------------------------------
(* Properties *)

Quiet(t, resource) ==
  /\ \A u \in Tabs : op[u] = NoRequest \/ op[u].reply # "done"
  /\ ~Contains(inbox[t], resource) /\ resource \notin stale[t]

\* A tab that has heard of every change and awaits nothing shows, in its
\* sidebar and on its page, the categories of the database or the fallback,
\* never an older list: no change is answered with a request sent before it.
CategoriesAreTrue ==
  \A t \in Tabs :
    Quiet(t, "categories") /\ t \notin dirty /\ fetch[t] = NoRequest =>
      \A h \in DOMAIN lists[t] : lists[t][h] \in {categories, Fallback}

\* A tags page that has heard of every change and awaits nothing lists the
\* tags of the database, each once, although it patches its list before the
\* reload: only a reload that failed leaves it behind.
TagsAreTrue ==
  \A t \in Tabs :
    Quiet(t, "tags") /\ Usable(page[t]) /\ load[t] = NoRequest =>
      /\ {TagOf(listed) : listed \in page[t].tags} = tags
      /\ \A one, two \in page[t].tags : one.id = two.id => one = two

\* A tag whose deletion was confirmed to the tags page that asked for it never
\* comes back in that tab, whatever loads were in flight and however often the
\* page is left and opened again.  A page that was left before the answer came
\* promises nothing: a page opened meanwhile keeps the tag until it has
\* reloaded (TagsAreTrue).
DeletedStaysDeleted ==
  \A t \in Tabs : \A listed \in page[t].tags : listed.id \notin gone[t]

\* Loads and broadcasts come to an end, and no page keeps its spinner.
Settles ==
  <>[](\A t \in Tabs :
         /\ fetch[t] = NoRequest /\ t \notin dirty /\ load[t] = NoRequest
         /\ op[t] = NoRequest /\ inbox[t] = <<>>
         /\ page[t].open => ~page[t].loading)
=============================================================================
