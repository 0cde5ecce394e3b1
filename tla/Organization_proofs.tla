-------------------------- MODULE Organization_proofs --------------------------
(***************************************************************************)
(* Proofs about Organization, for any tabs, any names and any number of    *)
(* changes.                                                                *)
(***************************************************************************)
EXTENDS Organization, FiniteSetTheorems, TLAPS

\* A tag that is asked for has no identifier yet; the other changes name a tag.
Drafts == [id : {0}, name : Names]
OpsAreWhole ==
  \A t \in Tabs : op[t] # NoRequest =>
    /\ op[t].kind \in {"update", "delete"} => op[t].tag \in Tags
    /\ op[t].kind = "create" /\ op[t].reply = "none" => op[t].tag \in Drafts
    /\ op[t].kind = "create" /\ op[t].reply = "done" => op[t].tag \in Tags

\* A change of the database whose answer is still on its way to its tab.
Made(o, resource) == o # NoRequest /\ o.reply = "done" /\ Resource(o.kind) = resource

\* Every change of the resource was announced, and the tab heard of it.
Heard(t, resource) ==
  /\ \A u \in Tabs : ~Made(op[u], resource)
  /\ ~Contains(inbox[t], resource) /\ resource \notin stale[t]

\* A request that a tab still awaits was served after the last change it heard of,
\* and a list that nothing is awaited for was read after it.
CategoriesAreCurrent ==
  \A t \in Tabs : Heard(t, "categories") /\ t \notin dirty =>
    /\ fetch[t] \in Nat => fetch[t] = categories
    /\ fetch[t] = NoRequest =>
         \A h \in DOMAIN lists[t] : lists[t][h] \in {categories, Fallback}

\* The newest loadTags has an answer.
Answered(t) == load[t] # NoRequest /\ load[t].reply \notin {NoReply, Failed}

\* Only an open tags page loads, and only an open one lists tags.
LoadsHavePages ==
  \A t \in Tabs : /\ load[t] # NoRequest => page[t].open
                  /\ ~page[t].open => page[t].tags = {}

\* A change finds the tags page that sent it only while that page is open.
SendersAreOpen ==
  \A t \in Tabs : op[t] # NoRequest /\ op[t].here => page[t].open

Loaded(found) == {Entry(tag, FALSE) : tag \in found}

TagsAreCurrent ==
  \A t \in Tabs : Heard(t, "tags") =>
    /\ Answered(t) => load[t].reply = tags
    /\ load[t] = NoRequest /\ page[t].open => page[t].tags = Loaded(tags)

\* The database gives each tag an identifier of its own, and none twice.
TagIdsAreUnique ==
  /\ \A one, two \in tags : one.id = two.id => one = two
  /\ \A tag \in tags : tag.id <= used

\* No tag has this identifier in the database, on a page, or in an answer.
Absent(id) == id <= used /\ \A tag \in tags : tag.id # id

DeletionsAreMade ==
  \A t \in Tabs : Made(op[t], "tags") /\ op[t].kind = "delete" => Absent(op[t].tag.id)

GoneStaysGone ==
  \A t \in Tabs : \A id \in gone[t] :
    /\ Absent(id)
    /\ \A listed \in page[t].tags : listed.id # id
    /\ Answered(t) => \A tag \in load[t].reply : tag.id # id
    /\ Made(op[t], "tags") /\ op[t].kind = "create" => op[t].tag.id # id

Database == TagIdsAreUnique /\ DeletionsAreMade /\ GoneStaysGone

IInv == /\ TypeOK /\ OpsAreWhole /\ LoadsHavePages /\ SendersAreOpen
        /\ CategoriesAreCurrent /\ TagsAreCurrent /\ Database

-----------------------------------------------------------------------------
USE OrganizationAssumption, RequestAssumption

(* Broadcasts *)

LEMMA ContainsAppend ==
  ASSUME NEW q \in Seq(Resources), NEW m \in Resources
  PROVE  /\ Append(q, m) \in Seq(Resources)
         /\ \A r : Contains(Append(q, m), r) <=> Contains(q, r) \/ r = m
  <1>. DEFINE s == Append(q, m)
  <1>1. /\ s \in Seq(Resources) /\ Len(s) = Len(q) + 1 /\ Len(q) \in Nat
        /\ s[Len(q) + 1] = m
        /\ \A i \in 1..Len(q) : s[i] = q[i]
    OBVIOUS
  <1>. HIDE DEF s
  <1>2. \A r : Contains(s, r) <=> Contains(q, r) \/ r = m
    BY <1>1 DEF Contains
  <1>. QED  BY <1>1, <1>2 DEF s

LEMMA ContainsTail ==
  ASSUME NEW q \in Seq(Resources), q # <<>>
  PROVE  /\ Tail(q) \in Seq(Resources) /\ Head(q) \in Resources
         /\ \A r : r # Head(q) => (Contains(Tail(q), r) <=> Contains(q, r))
  <1>. DEFINE s == Tail(q)
  <1>1. /\ s \in Seq(Resources) /\ Len(q) = Len(s) + 1 /\ Len(s) \in Nat
        /\ \A i \in 1..Len(s) : s[i] = q[i + 1]
        /\ Head(q) = q[1] /\ Head(q) \in Resources
    OBVIOUS
  <1>. HIDE DEF s
  <1>2. ASSUME NEW r, r # Head(q), Contains(s, r)  PROVE Contains(q, r)
    BY <1>1, <1>2 DEF Contains
  <1>3. ASSUME NEW r, r # Head(q), Contains(q, r)  PROVE Contains(s, r)
    <2>1. PICK i \in 1..Len(q) : q[i] = r
      BY <1>3 DEF Contains
    <2>2. i - 1 \in 1..Len(s) /\ s[i - 1] = q[i]
      BY <1>1, <1>3, <2>1
    <2>. QED  BY <2>1, <2>2 DEF Contains
  <1>. QED  BY <1>1, <1>2, <1>3 DEF s

\* What a broadcast leaves in the inboxes.
LEMMA BroadcastTo ==
  ASSUME TypeOK, NEW t \in Tabs, NEW resource \in Resources,
         inbox' = [u \in Tabs |-> IF u = t THEN inbox[u] ELSE Append(inbox[u], resource)]
  PROVE  /\ inbox' \in [Tabs -> Seq(Resources)]
         /\ inbox'[t] = inbox[t]
         /\ \A u \in Tabs \ {t} : Contains(inbox'[u], resource)
         /\ \A u \in Tabs : \A r : Contains(inbox[u], r) => Contains(inbox'[u], r)
         /\ \A u \in Tabs : \A r : r # resource => (Contains(inbox'[u], r) <=> Contains(inbox[u], r))
  <1>1. inbox \in [Tabs -> Seq(Resources)]
    BY DEF TypeOK
  <1>2. ASSUME NEW u \in Tabs \ {t}
        PROVE  /\ inbox'[u] \in Seq(Resources)
               /\ \A r : Contains(inbox'[u], r) <=> Contains(inbox[u], r) \/ r = resource
    <2>1. inbox'[u] = Append(inbox[u], resource)
      OBVIOUS
    <2>. QED  BY <1>1, <2>1, ContainsAppend
  <1>3. inbox'[t] = inbox[t]
    OBVIOUS
  <1>4. inbox' \in [Tabs -> Seq(Resources)]
    BY <1>1, <1>2, <1>3
  <1>. QED  BY <1>2, <1>3, <1>4

-----------------------------------------------------------------------------
(* The initial states *)

LEMMA RecordedTags ==
  ASSUME Init
  PROVE  /\ used \in Nat /\ tags \subseteq Tags
         /\ TagIdsAreUnique
  <1>. DEFINE n == Cardinality(Recorded)
              names == SetToSeq(Recorded)
  <1>1. n \in Nat /\ ExistsBijection(1..n, Recorded)
    BY FS_CardinalityType
  <1>2. \E f \in [1..n -> Recorded] : IsInjective(f)
    BY <1>1 DEF ExistsBijection, Bijection, Injection
  <1>3. names \in [1..n -> Recorded]
    BY <1>2 DEF SetToSeq
  <1>4. used = n /\ tags = {[id |-> i, name |-> names[i]] : i \in 1..n}
    BY <1>3 DEF Init
  <1>. HIDE DEF n, names
  <1>5. ASSUME NEW i \in 1..n  PROVE [id |-> i, name |-> names[i]] \in Tags
    BY <1>1, <1>3 DEF Tags, TagIds
  <1>. QED  BY <1>1, <1>4, <1>5 DEF TagIdsAreUnique

LEMMA EntryTyped ==
  ASSUME NEW tag \in Tags, NEW added \in BOOLEAN
  PROVE  /\ Entry(tag, added) \in Entries
         /\ Entry(tag, added).id = tag.id /\ Entry(tag, added).added = added
         /\ TagOf(Entry(tag, added)) = tag
  <1>1. tag.id \in TagIds /\ tag.name \in Names /\ tag = [id |-> tag.id, name |-> tag.name]
    BY DEF Tags
  <1>2. Entry(tag, added) \in Entries
    BY <1>1 DEF Entry, Entries
  <1>. QED  BY <1>1, <1>2 DEF Entry, TagOf

LEMMA ListingTyped ==
  ASSUME NEW found \in SUBSET Tags
  PROVE  /\ Listing(found) \in Pages /\ Listing(found).open
         /\ Listing(found).tags = Loaded(found)
         /\ \A listed \in Loaded(found) : \E tag \in found : listed.id = tag.id
  <1>1. Loaded(found) \subseteq Entries
    <2>1. \A tag \in found : Entry(tag, FALSE) \in Entries
      BY EntryTyped
    <2>. QED  BY <2>1 DEF Loaded
  <1>2. Listing(found) = [open |-> TRUE, tags |-> Loaded(found), loaded |-> TRUE,
                          loading |-> FALSE, error |-> FALSE]
    BY DEF Listing, Loaded
  <1>3. \A listed \in Loaded(found) : \E tag \in found : listed.id = tag.id
    BY DEF Loaded, Entry
  <1>. QED  BY <1>1, <1>2, <1>3 DEF Pages

LEMMA PageOfTyped ==
  ASSUME NEW place \in Places
  PROVE  /\ PageOf(place) \in Pages /\ PageOf(place).tags = {}
         /\ PageOf(place).open <=> place = "tags"
  BY DEF PageOf, Closed, Pages

LEMMA NewLoadTyped ==
  ASSUME NEW b \in BOOLEAN
  PROVE  NewLoad(b) \in Loads /\ NewLoad(b) # NoRequest /\ NewLoad(b).reply = NoReply
  <1>1. NewLoad(b) \in Loads /\ NewLoad(b).reply = NoReply
    BY DEF NewLoad, Loads
  <1>. QED  BY <1>1

LEMMA InitTyped ==
  ASSUME Init
  PROVE  TypeOK
  <1>1. PICK place \in [Tabs -> Places] :
          /\ lists = [t \in Tabs |-> [h \in HooksOf(place[t]) |-> categories]]
          /\ page = [t \in Tabs |->
               IF place[t] = "tags" THEN Listing(tags) ELSE PageOf(place[t])]
    BY DEF Init
  <1>2. /\ categories = 0 /\ dirty = {}
        /\ fetch = [t \in Tabs |-> NoRequest] /\ load = [t \in Tabs |-> NoRequest]
        /\ op = [t \in Tabs |-> NoRequest] /\ inbox = [t \in Tabs |-> <<>>]
        /\ stale = [t \in Tabs |-> {}] /\ gone = [t \in Tabs |-> {}]
    BY DEF Init
  <1>3. used \in Nat /\ tags \subseteq Tags
    BY RecordedTags
  <1>4. lists \in [Tabs -> [{"layout"} -> Lists] \union [Hooks -> Lists]]
    <2>1. ASSUME NEW t \in Tabs
          PROVE  [h \in HooksOf(place[t]) |-> categories]
                   \in [{"layout"} -> Lists] \union [Hooks -> Lists]
      BY <1>2 DEF HooksOf, Lists
    <2>. QED  BY <1>1, <2>1
  <1>5. page \in [Tabs -> Pages]
    BY <1>1, <1>3, ListingTyped, PageOfTyped
  <1>6. inbox \in [Tabs -> Seq(Resources)]
    BY <1>2
  <1>. QED  BY <1>2, <1>3, <1>4, <1>5, <1>6 DEF TypeOK

LEMMA InitInv == Init => IInv
  <1>. SUFFICES ASSUME Init PROVE IInv
    OBVIOUS
  <1>1. PICK place \in [Tabs -> Places] :
          /\ lists = [t \in Tabs |-> [h \in HooksOf(place[t]) |-> categories]]
          /\ page = [t \in Tabs |->
               IF place[t] = "tags" THEN Listing(tags) ELSE PageOf(place[t])]
    BY DEF Init
  <1>2. \A t \in Tabs : /\ op[t] = NoRequest /\ load[t] = NoRequest /\ gone[t] = {}
                        /\ fetch[t] = NoRequest
    BY DEF Init
  <1>3. TypeOK /\ TagIdsAreUnique
    BY InitTyped, RecordedTags
  <1>4. \A t \in Tabs : IF place[t] = "tags"
                         THEN page[t].open /\ page[t].tags = Loaded(tags)
                         ELSE ~page[t].open /\ page[t].tags = {}
    BY <1>1, <1>3, ListingTyped, PageOfTyped DEF TypeOK
  <1>5. OpsAreWhole /\ LoadsHavePages /\ SendersAreOpen
    BY <1>2, <1>4 DEF OpsAreWhole, LoadsHavePages, SendersAreOpen
  <1>6. CategoriesAreCurrent
    BY <1>1, <1>2 DEF CategoriesAreCurrent
  <1>7. TagsAreCurrent
    BY <1>2, <1>4 DEF TagsAreCurrent, Answered
  <1>8. DeletionsAreMade /\ GoneStaysGone
    BY <1>2 DEF DeletionsAreMade, GoneStaysGone, Made
  <1>. QED  BY <1>3, <1>5, <1>6, <1>7, <1>8 DEF IInv, Database

-----------------------------------------------------------------------------
(* Parts of the invariant that a step leaves alone *)

\* Nobody unaware of a change becomes aware of it: the lists stay as true.
LEMMA CategoriesKept ==
  ASSUME CategoriesAreCurrent, UNCHANGED <<categories, lists_>>,
         \A t \in Tabs : Heard(t, "categories")' => Heard(t, "categories")
  PROVE  CategoriesAreCurrent'
  BY DEF CategoriesAreCurrent, lists_

LEMMA TagsKept ==
  ASSUME TagsAreCurrent, UNCHANGED <<tags, page_>>,
         \A t \in Tabs : Heard(t, "tags")' => Heard(t, "tags")
  PROVE  TagsAreCurrent'
  BY DEF TagsAreCurrent, Answered, page_

LEMMA HeardKept ==
  ASSUME UNCHANGED <<op, inbox, stale>>, NEW t \in Tabs, NEW resource \in Resources
  PROVE  Heard(t, resource)' <=> Heard(t, resource)
  BY DEF Heard

LEMMA DatabaseKept ==
  ASSUME Database, UNCHANGED <<tags, used, op, gone>>,
         \A t \in Tabs : \A listed \in page'[t].tags :
           \A id \in gone[t] : listed.id # id,
         \A t \in Tabs : Answered(t)' =>
           \A tag \in load'[t].reply : \A id \in gone[t] : tag.id # id
  PROVE  Database'
  BY DEF Database, TagIdsAreUnique, DeletionsAreMade, GoneStaysGone, Absent

LEMMA PagesKept ==
  ASSUME Database, UNCHANGED page_
  PROVE  /\ \A t \in Tabs : \A listed \in page'[t].tags :
              \A id \in gone[t] : listed.id # id
         /\ \A t \in Tabs : Answered(t)' =>
              \A tag \in load'[t].reply : \A id \in gone[t] : tag.id # id
  BY DEF Database, GoneStaysGone, Answered, page_

-----------------------------------------------------------------------------
(* useCategories *)

LEMMA RequestOne ==
  ASSUME TypeOK, NEW t \in Tabs, Request(t)
  PROVE  /\ fetch' \in [Tabs -> Nat \union {NoRequest, NoReply, Failed}]
         /\ fetch'[t] # NoRequest
         /\ fetch'[t] \in Nat => t \notin dirty /\ fetch'[t] = fetch[t]
         /\ \A u \in Tabs \ {t} : fetch'[u] = fetch[u]
  BY DEF TypeOK, Request

LEMMA CategoryRequests ==
  ASSUME IInv, NEW t \in Tabs, Rerender(t) \/ ServeFetch(t) \/ LoseFetch(t)
  PROVE  IInv'
  <1>1. /\ stale' \in [Tabs -> SUBSET Resources]
        /\ \A u \in Tabs : "tags" \in stale'[u] <=> "tags" \in stale[u]
    <2>1. CASE stale' = stale
      BY <2>1 DEF IInv, TypeOK
    <2>2. CASE stale' = [stale EXCEPT ![t] = @ \ {"categories"}]
      <3>1. stale[t] \ {"categories"} \in SUBSET Resources
        BY DEF IInv, TypeOK
      <3>. QED  BY <2>2, <3>1 DEF IInv, TypeOK
    <2>3. stale' = stale \/ stale' = [stale EXCEPT ![t] = @ \ {"categories"}]
      BY DEF Rerender, ServeFetch, LoseFetch, IInv, TypeOK
    <2>. QED  BY <2>1, <2>2, <2>3
  <1>2. /\ UNCHANGED <<categories, tags, used, lists, page_, op, inbox, gone>>
        /\ dirty' \subseteq Tabs
        /\ fetch' \in [Tabs -> Nat \union {NoRequest, NoReply, Failed}]
    <2>1. CASE Rerender(t)
      BY <2>1, RequestOne DEF IInv, TypeOK, Rerender
    <2>2. CASE ServeFetch(t) \/ LoseFetch(t)
      BY ZenonT(60), <2>2 DEF IInv, TypeOK, ServeFetch, LoseFetch
    <2>. QED  BY <2>1, <2>2
  <1>3. TypeOK'
    BY <1>1, <1>2 DEF IInv, TypeOK, page_
  <1>4. OpsAreWhole' /\ LoadsHavePages' /\ SendersAreOpen'
    BY <1>2 DEF IInv, OpsAreWhole, LoadsHavePages, SendersAreOpen, page_
  <1>5. CategoriesAreCurrent'
    <2>1. CASE Rerender(t)
      <3>1. /\ dirty' = dirty \ {t} /\ t \in dirty /\ stale' = stale
            /\ fetch'[t] # NoRequest /\ fetch'[t] \notin Nat
            /\ \A u \in Tabs \ {t} : fetch'[u] = fetch[u]
        BY <2>1, RequestOne DEF Rerender, IInv
      <3>. QED  BY <1>2, <3>1, HeardKept DEF IInv, CategoriesAreCurrent, Resources
    <2>2. CASE ServeFetch(t)
      <3>1. /\ dirty' = dirty /\ fetch'[t] = categories
            /\ \A u \in Tabs \ {t} : fetch'[u] = fetch[u] /\ stale'[u] = stale[u]
        BY <2>2 DEF ServeFetch, IInv, TypeOK
      <3>2. \A u \in Tabs \ {t} : Heard(u, "categories")' <=> Heard(u, "categories")
        BY <1>2, <3>1 DEF Heard
      <3>3. categories \in Nat
        BY DEF IInv, TypeOK
      <3>. QED  BY <1>2, <3>1, <3>2, <3>3 DEF IInv, CategoriesAreCurrent
    <2>3. CASE LoseFetch(t)
      <3>1. /\ dirty' = dirty /\ fetch'[t] = Failed /\ stale' = stale
            /\ \A u \in Tabs \ {t} : fetch'[u] = fetch[u]
        BY <2>3 DEF LoseFetch, IInv, TypeOK
      <3>. QED  BY <1>2, <3>1, HeardKept DEF IInv, CategoriesAreCurrent, Resources
    <2>. QED  BY <2>1, <2>2, <2>3
  <1>6. TagsAreCurrent'
    BY <1>1, <1>2, TagsKept DEF IInv, Heard
  <1>7. Database'
    BY <1>2, PagesKept, DatabaseKept DEF IInv
  <1>. QED  BY <1>3, <1>4, <1>5, <1>6, <1>7 DEF IInv

\* The lists of the hooks of one tab.
LEMMA ReceivedFetch ==
  ASSUME IInv, NEW t \in Tabs, ReceiveFetch(t)
  PROVE  IInv'
  <1>1. /\ UNCHANGED <<categories, tags, used, dirty, page_, op, inbox, stale, gone>>
        /\ lists' = [lists EXCEPT ![t] = [h \in DOMAIN @ |-> Answer(fetch[t])]]
        /\ fetch' = [fetch EXCEPT ![t] = NoRequest]
        /\ fetch[t] \in Nat \union {Failed}
    BY DEF IInv, TypeOK, ReceiveFetch
  <1>2. Answer(fetch[t]) \in Lists
    BY <1>1 DEF Answer, Lists
  <1>3. /\ lists'[t] = [h \in DOMAIN lists[t] |-> Answer(fetch[t])]
        /\ \A u \in Tabs \ {t} : lists'[u] = lists[u]
    BY <1>1 DEF IInv, TypeOK
  <1>4. lists' \in [Tabs -> [{"layout"} -> Lists] \union [Hooks -> Lists]]
    <2>1. DOMAIN lists[t] \in {{"layout"}, Hooks}
      BY DEF IInv, TypeOK
    <2>2. [h \in DOMAIN lists[t] |-> Answer(fetch[t])]
            \in [{"layout"} -> Lists] \union [Hooks -> Lists]
      BY <1>2, <2>1
    <2>. QED  BY <1>1, <2>2 DEF IInv, TypeOK
  <1>5. TypeOK'
    BY <1>1, <1>4 DEF IInv, TypeOK, page_
  <1>6. OpsAreWhole' /\ LoadsHavePages' /\ SendersAreOpen'
    BY <1>1 DEF IInv, OpsAreWhole, LoadsHavePages, SendersAreOpen, page_
  <1>7. CategoriesAreCurrent'
    <2>1. \A u \in Tabs : Heard(u, "categories")' <=> Heard(u, "categories")
      BY <1>1, HeardKept DEF Resources
    <2>2. Heard(t, "categories") /\ t \notin dirty =>
            Answer(fetch[t]) \in {categories, Fallback}
      BY <1>1 DEF IInv, CategoriesAreCurrent, Answer
    <2>3. fetch'[t] = NoRequest /\ \A u \in Tabs \ {t} : fetch'[u] = fetch[u]
      BY <1>1 DEF IInv, TypeOK
    <2>. QED  BY <1>1, <1>3, <2>1, <2>2, <2>3 DEF IInv, CategoriesAreCurrent
  <1>8. TagsAreCurrent'
    BY <1>1, HeardKept, TagsKept DEF IInv, Resources
  <1>9. Database'
    BY <1>1, PagesKept, DatabaseKept DEF IInv
  <1>. QED  BY <1>5, <1>6, <1>7, <1>8, <1>9 DEF IInv

\* A change whose page is left goes on as it is.
LEMMA SenderLeft ==
  ASSUME TypeOK, NEW t \in Tabs,
         op' = [op EXCEPT ![t] = IF @ = NoRequest THEN @ ELSE [@ EXCEPT !.here = FALSE]]
  PROVE  /\ op' \in [Tabs -> Ops \union {NoRequest}]
         /\ op'[t] = NoRequest <=> op[t] = NoRequest
         /\ op[t] # NoRequest =>
              /\ op'[t].kind = op[t].kind /\ op'[t].tag = op[t].tag
              /\ op'[t].reply = op[t].reply /\ ~op'[t].here
         /\ \A u \in Tabs \ {t} : op'[u] = op[u]
         /\ \A u \in Tabs : \A r : Made(op'[u], r) <=> Made(op[u], r)
  <1>1. CASE op[t] = NoRequest
    BY <1>1 DEF TypeOK
  <1>2. CASE op[t] # NoRequest
    <2>. DEFINE old == op[t]
                new == [old EXCEPT !.here = FALSE]
    <2>1. old \in Ops
      BY <1>2 DEF TypeOK
    <2>2. /\ new \in Ops /\ new.kind = old.kind /\ new.tag = old.tag
          /\ new.reply = old.reply /\ new.here = FALSE
      BY <2>1 DEF Ops
    <2>3. new # NoRequest
      BY <2>2
    <2>4. op' = [op EXCEPT ![t] = new]
      BY <1>2
    <2>. HIDE DEF new
    <2>5. /\ op' \in [Tabs -> Ops \union {NoRequest}] /\ op'[t] = new
          /\ \A u \in Tabs \ {t} : op'[u] = op[u]
      BY ZenonT(60), <2>2, <2>4 DEF TypeOK
    <2>. QED  BY <1>2, <2>2, <2>3, <2>5 DEF Made
  <1>. QED  BY <1>1, <1>2

LEMMA Navigated ==
  ASSUME IInv, NEW t \in Tabs, NEW to \in Places, Navigate(t, to)
  PROVE  IInv'
  <1>1. /\ UNCHANGED <<categories, tags, used, inbox, stale, gone>>
        /\ Request(t) /\ dirty' = dirty \ {t}
        /\ page' = [page EXCEPT ![t] = PageOf(to)]
        /\ load' = [load EXCEPT ![t] = LoadOf(to)]
    BY DEF Navigate
  <1>a. op' = [op EXCEPT ![t] = IF @ = NoRequest THEN @ ELSE [@ EXCEPT !.here = FALSE]]
    BY DEF Navigate
  <1>b. /\ op' \in [Tabs -> Ops \union {NoRequest}]
        /\ op'[t] = NoRequest <=> op[t] = NoRequest
        /\ op[t] # NoRequest =>
             /\ op'[t].kind = op[t].kind /\ op'[t].tag = op[t].tag
             /\ op'[t].reply = op[t].reply /\ ~op'[t].here
        /\ \A u \in Tabs \ {t} : op'[u] = op[u]
        /\ \A u \in Tabs : \A r : Made(op'[u], r) <=> Made(op[u], r)
    BY <1>a, SenderLeft DEF IInv
  <1>c. \A u \in Tabs : \A r : Heard(u, r)' <=> Heard(u, r)
    BY <1>1, <1>b DEF Heard
  <1>. DEFINE shown == [h \in HooksOf(to) |-> IF h = "layout" THEN lists[t]["layout"]
                                              ELSE Fallback]
  <1>2. lists' = [lists EXCEPT ![t] = shown]
    BY DEF Navigate
  <1>3. lists[t]["layout"] \in Lists
    BY DEF IInv, TypeOK, Hooks
  <1>4. shown \in [{"layout"} -> Lists] \union [Hooks -> Lists]
    BY <1>3 DEF HooksOf, Lists
  <1>. HIDE DEF shown
  <1>5. /\ LoadOf(to) \in Loads \union {NoRequest}
        /\ LoadOf(to) # NoRequest => to = "tags" /\ LoadOf(to).reply = NoReply
        /\ to = "tags" => LoadOf(to) # NoRequest
    BY NewLoadTyped DEF LoadOf
  <1>6. /\ page' \in [Tabs -> Pages] /\ page'[t] = PageOf(to)
        /\ load' \in [Tabs -> Loads \union {NoRequest}] /\ load'[t] = LoadOf(to)
        /\ \A u \in Tabs \ {t} : page'[u] = page[u] /\ load'[u] = load[u]
    BY <1>1, <1>5, PageOfTyped DEF IInv, TypeOK
  <1>7. TypeOK'
    BY <1>1, <1>2, <1>4, <1>6, <1>b, RequestOne DEF IInv, TypeOK
  <1>8. OpsAreWhole' /\ LoadsHavePages' /\ SendersAreOpen'
    <2>1. OpsAreWhole'
      BY <1>b DEF IInv, OpsAreWhole
    <2>2. LoadsHavePages'
      BY <1>5, <1>6, PageOfTyped DEF IInv, LoadsHavePages
    <2>3. SendersAreOpen'
      BY <1>6, <1>b DEF IInv, SendersAreOpen
    <2>. QED  BY <2>1, <2>2, <2>3
  <1>9. CategoriesAreCurrent'
    <2>1. \A u \in Tabs \ {t} : lists'[u] = lists[u]
      BY <1>2 DEF IInv, TypeOK
    <2>. QED  BY <1>1, <1>c, <2>1, RequestOne DEF IInv, CategoriesAreCurrent
  <1>10. TagsAreCurrent'
    BY <1>1, <1>5, <1>6, <1>c, PageOfTyped DEF IInv, TagsAreCurrent, Answered
  <1>11. Database'
    <2>1. TagIdsAreUnique'
      BY <1>1 DEF IInv, Database, TagIdsAreUnique
    <2>2. DeletionsAreMade'
      BY <1>1, <1>b DEF IInv, Database, DeletionsAreMade, Absent, Made
    <2>3. GoneStaysGone'
      BY <1>1, <1>5, <1>6, <1>b, PageOfTyped
      DEF IInv, Database, GoneStaysGone, Absent, Answered, Made
    <2>. QED  BY <2>1, <2>2, <2>3 DEF Database
  <1>. QED  BY <1>7, <1>8, <1>9, <1>10, <1>11 DEF IInv

-----------------------------------------------------------------------------
(* The tags page *)

LEMMA LoadReplied ==
  ASSUME TypeOK, NEW t \in Tabs, load[t] # NoRequest,
         NEW r \in {NoReply, Failed} \union SUBSET Tags,
         load' = [load EXCEPT ![t].reply = r]
  PROVE  /\ load' \in [Tabs -> Loads \union {NoRequest}]
         /\ load'[t] # NoRequest /\ load'[t].reply = r
         /\ \A u \in Tabs \ {t} : load'[u] = load[u]
  <1>. DEFINE old == load[t]
              new == [old EXCEPT !.reply = r]
  <1>1. old \in Loads
    BY DEF TypeOK
  <1>2. new \in Loads /\ new.reply = r
    BY <1>1 DEF Loads
  <1>3. load' = [load EXCEPT ![t] = new]
    OBVIOUS
  <1>. HIDE DEF new
  <1>. QED  BY ZenonT(60), <1>2, <1>3 DEF TypeOK

LEMMA ServedLoads ==
  ASSUME IInv, NEW t \in Tabs, ServeLoad(t) \/ LoseLoad(t)
  PROVE  IInv'
  <1>1. /\ UNCHANGED <<categories, tags, used, lists_, page, op, inbox, gone>>
        /\ load[t] # NoRequest
    BY DEF ServeLoad, LoseLoad
  <1>2. PICK r \in {NoReply, Failed} \union SUBSET Tags :
          /\ load' = [load EXCEPT ![t].reply = r]
          /\ r = tags \/ r = Failed
    BY DEF ServeLoad, LoseLoad, IInv, TypeOK
  <1>3. /\ load' \in [Tabs -> Loads \union {NoRequest}]
        /\ load'[t] # NoRequest /\ load'[t].reply = r
        /\ \A u \in Tabs \ {t} : load'[u] = load[u]
    BY <1>1, <1>2, LoadReplied DEF IInv
  <1>4. /\ stale' \in [Tabs -> SUBSET Resources]
        /\ \A u \in Tabs : "categories" \in stale'[u] <=> "categories" \in stale[u]
        /\ \A u \in Tabs \ {t} : stale'[u] = stale[u]
    <2>1. CASE stale' = stale
      BY <2>1 DEF IInv, TypeOK
    <2>2. CASE stale' = [stale EXCEPT ![t] = @ \ {"tags"}]
      <3>1. stale[t] \ {"tags"} \in SUBSET Resources
        BY DEF IInv, TypeOK
      <3>. QED  BY <2>2, <3>1 DEF IInv, TypeOK
    <2>. QED  BY <2>1, <2>2 DEF ServeLoad, LoseLoad
  <1>5. TypeOK'
    BY <1>1, <1>3, <1>4 DEF IInv, TypeOK, lists_
  <1>6. OpsAreWhole' /\ LoadsHavePages' /\ SendersAreOpen'
    BY <1>1, <1>3 DEF IInv, OpsAreWhole, LoadsHavePages, SendersAreOpen
  <1>7. CategoriesAreCurrent'
    BY <1>1, <1>4, CategoriesKept DEF IInv, Heard
  <1>8. TagsAreCurrent'
    <2>1. \A u \in Tabs \ {t} : Heard(u, "tags")' <=> Heard(u, "tags")
      BY <1>1, <1>4 DEF Heard
    <2>2. Answered(t)' => r = tags
      BY <1>2, <1>3 DEF Answered
    <2>. QED  BY <1>1, <1>3, <2>1, <2>2 DEF IInv, TagsAreCurrent, Answered
  <1>9. Database'
    <2>1. Answered(t)' => \A tag \in r : \A id \in gone[t] : tag.id # id
      BY <1>2, <1>3 DEF IInv, Database, GoneStaysGone, Absent, Answered
    <2>. QED  BY <1>1, <1>3, <2>1, DatabaseKept DEF IInv, Database, GoneStaysGone, Answered
  <1>. QED  BY <1>5, <1>6, <1>7, <1>8, <1>9 DEF IInv

\* A page that keeps its list, whatever its spinner and its error become.
LEMMA PageKept ==
  ASSUME TypeOK, NEW t \in Tabs, NEW loading \in BOOLEAN, NEW error \in BOOLEAN,
         page' = [page EXCEPT ![t].loading = loading, ![t].error = error]
  PROVE  /\ page' \in [Tabs -> Pages]
         /\ \A u \in Tabs : page'[u].tags = page[u].tags /\ page'[u].open = page[u].open
  <1>. DEFINE old == page[t]
              new == [old EXCEPT !.loading = loading, !.error = error]
  <1>1. old \in Pages
    BY DEF TypeOK
  <1>2. new \in Pages /\ new.tags = old.tags /\ new.open = old.open
    BY <1>1 DEF Pages
  <1>3. page' = [page EXCEPT ![t] = new]
    OBVIOUS
  <1>. HIDE DEF new
  <1>. QED  BY ZenonT(60), <1>2, <1>3 DEF TypeOK

LEMMA ReceivedLoad ==
  ASSUME IInv, NEW t \in Tabs, ReceiveLoad(t)
  PROVE  IInv'
  <1>1. /\ UNCHANGED <<categories, tags, used, lists_, op, inbox, gone>>
        /\ load[t] # NoRequest /\ load[t] \in Loads
        /\ load' = [load EXCEPT ![t] = NoRequest]
    BY DEF ReceiveLoad, IInv, TypeOK
  <1>2. /\ load' \in [Tabs -> Loads \union {NoRequest}] /\ load'[t] = NoRequest
        /\ \A u \in Tabs \ {t} : load'[u] = load[u]
    BY <1>1 DEF IInv, TypeOK
  <1>3. CASE LoadSucceeds(t)
    <2>. DEFINE found == load[t].reply
    <2>1. /\ found \in SUBSET Tags /\ Answered(t) /\ UNCHANGED stale
          /\ page' = [page EXCEPT ![t] = Listing(found)]
      BY <1>1, <1>3 DEF LoadSucceeds, Answered, Loads
    <2>. HIDE DEF found
    <2>2. /\ page' \in [Tabs -> Pages]
          /\ page'[t].open /\ page'[t].tags = Loaded(found)
          /\ \A u \in Tabs \ {t} : page'[u] = page[u]
      BY <2>1, ListingTyped DEF IInv, TypeOK
    <2>3. TypeOK'
      BY <1>1, <1>2, <2>1, <2>2 DEF IInv, TypeOK, lists_
    <2>4. OpsAreWhole' /\ LoadsHavePages' /\ SendersAreOpen'
      BY <1>1, <1>2, <2>2 DEF IInv, OpsAreWhole, LoadsHavePages, SendersAreOpen
    <2>5. CategoriesAreCurrent'
      BY <1>1, <2>1, HeardKept, CategoriesKept DEF IInv, Resources
    <2>6. TagsAreCurrent'
      <3>1. \A u \in Tabs : Heard(u, "tags")' <=> Heard(u, "tags")
        BY <1>1, <2>1, HeardKept DEF Resources
      <3>2. Heard(t, "tags") => found = tags
        BY <2>1 DEF IInv, TagsAreCurrent, found
      <3>. QED  BY <1>1, <1>2, <2>2, <3>1, <3>2 DEF IInv, TagsAreCurrent, Answered
    <2>7. Database'
      <3>1. \A listed \in Loaded(found) : \A id \in gone[t] : listed.id # id
        BY <2>1, ListingTyped DEF IInv, Database, GoneStaysGone, found
      <3>. QED  BY <1>1, <1>2, <2>2, <3>1, DatabaseKept
                DEF IInv, Database, GoneStaysGone, Answered
    <2>. QED  BY <2>3, <2>4, <2>5, <2>6, <2>7 DEF IInv
  <1>4. CASE LoadFails(t)
    <2>1. PICK error \in BOOLEAN :
            page' = [page EXCEPT ![t].loading = FALSE, ![t].error = error]
      <3>1. (page[t].error \/ ~load[t].background \/ ~page[t].loaded) \in BOOLEAN
        OBVIOUS
      <3>. QED  BY <1>4, <3>1 DEF LoadFails
    <2>2. /\ page' \in [Tabs -> Pages]
          /\ \A u \in Tabs : page'[u].tags = page[u].tags /\ page'[u].open = page[u].open
      BY <2>1, PageKept DEF IInv
    <2>3. /\ stale' \in [Tabs -> SUBSET Resources] /\ "tags" \in stale'[t]
          /\ \A u \in Tabs : "categories" \in stale'[u] <=> "categories" \in stale[u]
          /\ \A u \in Tabs \ {t} : stale'[u] = stale[u]
      <3>1. stale' = [stale EXCEPT ![t] = @ \union {"tags"}]
        BY <1>4 DEF LoadFails
      <3>2. stale[t] \union {"tags"} \in SUBSET Resources
        BY DEF IInv, TypeOK, Resources
      <3>. QED  BY <3>1, <3>2 DEF IInv, TypeOK
    <2>4. TypeOK'
      BY <1>1, <1>2, <2>2, <2>3 DEF IInv, TypeOK, lists_
    <2>5. OpsAreWhole' /\ LoadsHavePages' /\ SendersAreOpen'
      BY <1>1, <1>2, <2>2 DEF IInv, OpsAreWhole, LoadsHavePages, SendersAreOpen
    <2>6. CategoriesAreCurrent'
      BY <1>1, <2>3, CategoriesKept DEF IInv, Heard
    <2>7. TagsAreCurrent'
      <3>1. /\ \A u \in Tabs \ {t} : Heard(u, "tags")' <=> Heard(u, "tags")
            /\ ~Heard(t, "tags")'
        BY <1>1, <2>3 DEF Heard
      <3>. QED  BY <1>1, <1>2, <2>2, <3>1 DEF IInv, TagsAreCurrent, Answered
    <2>8. Database'
      BY <1>1, <1>2, <2>2, DatabaseKept DEF IInv, Database, GoneStaysGone, Answered
    <2>. QED  BY <2>4, <2>5, <2>6, <2>7, <2>8 DEF IInv
  <1>. QED  BY <1>3, <1>4 DEF ReceiveLoad

LEMMA RetriedTags ==
  ASSUME IInv, NEW t \in Tabs, RetryTags(t)
  PROVE  IInv'
  <1>1. /\ UNCHANGED <<categories, tags, used, lists_, op, inbox, stale, gone>>
        /\ page[t].open /\ load' = [load EXCEPT ![t] = NewLoad(FALSE)]
        /\ page' = [page EXCEPT ![t].loading = TRUE, ![t].error = FALSE]
    BY DEF RetryTags
  <1>2. /\ load' \in [Tabs -> Loads \union {NoRequest}]
        /\ load'[t] # NoRequest /\ load'[t].reply = NoReply
        /\ \A u \in Tabs \ {t} : load'[u] = load[u]
    BY <1>1, NewLoadTyped DEF IInv, TypeOK
  <1>3. /\ page' \in [Tabs -> Pages]
        /\ \A u \in Tabs : page'[u].tags = page[u].tags /\ page'[u].open = page[u].open
    BY <1>1, PageKept DEF IInv
  <1>4. TypeOK'
    BY <1>1, <1>2, <1>3 DEF IInv, TypeOK, lists_
  <1>5. OpsAreWhole' /\ LoadsHavePages' /\ SendersAreOpen'
    BY <1>1, <1>2, <1>3 DEF IInv, OpsAreWhole, LoadsHavePages, SendersAreOpen
  <1>6. CategoriesAreCurrent'
    BY <1>1, HeardKept, CategoriesKept DEF IInv, Resources
  <1>7. TagsAreCurrent'
    <2>1. \A u \in Tabs : Heard(u, "tags")' <=> Heard(u, "tags")
      BY <1>1, HeardKept DEF Resources
    <2>. QED  BY <1>1, <1>2, <1>3, <2>1 DEF IInv, TagsAreCurrent, Answered
  <1>8. Database'
    <2>1. \A u \in Tabs : \A listed \in page'[u].tags : \A id \in gone[u] : listed.id # id
      BY <1>3 DEF IInv, Database, GoneStaysGone
    <2>2. \A u \in Tabs : Answered(u)' =>
            \A tag \in load'[u].reply : \A id \in gone[u] : tag.id # id
      BY <1>2 DEF IInv, Database, GoneStaysGone, Answered
    <2>. QED  BY <1>1, <2>1, <2>2, DatabaseKept DEF IInv
  <1>. QED  BY <1>4, <1>5, <1>6, <1>7, <1>8 DEF IInv

-----------------------------------------------------------------------------
(* Notifications *)

LEMMA DispatchOne ==
  ASSUME TypeOK, LoadsHavePages, NEW t \in Tabs, NEW resource \in Resources,
         Dispatch(t, resource)
  PROVE  /\ UNCHANGED <<lists, fetch>> /\ dirty' \subseteq Tabs
         /\ dirty \subseteq dirty' /\ \A u \in Tabs \ {t} : u \in dirty' <=> u \in dirty
         /\ resource = "categories" => t \in dirty'
         /\ load' \in [Tabs -> Loads \union {NoRequest}]
         /\ \A u \in Tabs \ {t} : load'[u] = load[u]
         /\ load'[t] # NoRequest => page[t].open
         /\ IF resource = "categories" THEN load'[t] = load[t]
            ELSE IF page[t].open THEN load'[t] # NoRequest /\ load'[t].reply = NoReply
            ELSE load'[t] = NoRequest
  <1>1. CASE resource = "categories"
    BY <1>1 DEF Dispatch, TypeOK, LoadsHavePages
  <1>2. CASE resource = "tags"
    <2>1. /\ load' = [load EXCEPT ![t] = IF page[t].open THEN NewLoad(TRUE) ELSE @]
          /\ UNCHANGED <<lists, fetch, dirty>>
      BY <1>2 DEF Dispatch, lists_
    <2>2. NewLoad(TRUE) \in Loads /\ NewLoad(TRUE) # NoRequest /\ NewLoad(TRUE).reply = NoReply
      BY NewLoadTyped
    <2>. QED  BY <1>2, <2>1, <2>2 DEF TypeOK, LoadsHavePages
  <1>. QED  BY <1>1, <1>2 DEF Resources

LEMMA Heeded ==
  ASSUME IInv, NEW t \in Tabs, Hears(t)
  PROVE  IInv'
  <1>. DEFINE resource == Head(inbox[t])
  <1>1. /\ UNCHANGED <<categories, tags, used, page, op, stale, gone>>
        /\ inbox[t] # <<>> /\ inbox[t] \in Seq(Resources)
        /\ inbox' = [inbox EXCEPT ![t] = Tail(@)]
        /\ Dispatch(t, resource)
    BY DEF Hears, IInv, TypeOK
  <1>2. /\ Tail(inbox[t]) \in Seq(Resources) /\ resource \in Resources
        /\ \A r : r # resource => (Contains(Tail(inbox[t]), r) <=> Contains(inbox[t], r))
    BY <1>1, ContainsTail
  <1>. HIDE DEF resource
  <1>3. /\ inbox' \in [Tabs -> Seq(Resources)] /\ inbox'[t] = Tail(inbox[t])
        /\ \A u \in Tabs \ {t} : inbox'[u] = inbox[u]
    BY <1>1, <1>2 DEF IInv, TypeOK
  <1>4. \A u \in Tabs, r \in Resources :
          u # t \/ r # resource => (Heard(u, r)' <=> Heard(u, r))
    BY <1>1, <1>2, <1>3 DEF Heard
  <1>5. TypeOK'
    BY <1>1, <1>2, <1>3, DispatchOne DEF IInv, TypeOK
  <1>6. OpsAreWhole' /\ LoadsHavePages' /\ SendersAreOpen'
    BY <1>1, <1>2, DispatchOne DEF IInv, OpsAreWhole, LoadsHavePages, SendersAreOpen
  <1>7. CategoriesAreCurrent'
    BY <1>1, <1>2, <1>4, DispatchOne DEF IInv, CategoriesAreCurrent, Resources
  <1>8. TagsAreCurrent'
    BY <1>1, <1>2, <1>4, DispatchOne DEF IInv, TagsAreCurrent, Answered, Resources
  <1>9. Database'
    <2>1. \A u \in Tabs : Answered(u)' => Answered(u) /\ load'[u] = load[u]
      BY <1>1, <1>2, DispatchOne DEF IInv, Answered
    <2>. QED  BY <1>1, <2>1, DatabaseKept DEF IInv, Database, GoneStaysGone
  <1>. QED  BY <1>5, <1>6, <1>7, <1>8, <1>9 DEF IInv

LEMMA RetriedCategories ==
  ASSUME IInv, NEW t \in Tabs, RetryCategories(t)
  PROVE  IInv'
  <1>1. /\ UNCHANGED <<categories, tags, used, page, op, stale, gone>>
        /\ Dispatch(t, "categories")
        /\ inbox' = [u \in Tabs |-> IF u = t THEN inbox[u]
                                    ELSE Append(inbox[u], "categories")]
    BY DEF RetryCategories, Notify
  <1>2. /\ inbox' \in [Tabs -> Seq(Resources)]
        /\ \A u \in Tabs \ {t} : Contains(inbox'[u], "categories")
        /\ \A u \in Tabs : \A r : Contains(inbox[u], r) => Contains(inbox'[u], r)
    BY <1>1, BroadcastTo DEF IInv, Resources
  <1>3. \A u \in Tabs, r \in Resources : Heard(u, r)' => Heard(u, r)
    BY <1>1, <1>2 DEF Heard
  <1>4. /\ UNCHANGED <<lists, fetch>> /\ dirty' \subseteq Tabs /\ t \in dirty'
        /\ \A u \in Tabs : load'[u] = load[u]
        /\ load' \in [Tabs -> Loads \union {NoRequest}]
    BY <1>1, DispatchOne DEF IInv, Resources
  <1>5. load' = load
    BY <1>4 DEF IInv, TypeOK
  <1>6. TypeOK'
    BY <1>1, <1>2, <1>4 DEF IInv, TypeOK
  <1>7. OpsAreWhole' /\ LoadsHavePages' /\ SendersAreOpen'
    BY <1>1, <1>5 DEF IInv, OpsAreWhole, LoadsHavePages, SendersAreOpen
  <1>8. CategoriesAreCurrent'
    BY <1>2, <1>4 DEF CategoriesAreCurrent, Heard
  <1>9. TagsAreCurrent'
    BY <1>1, <1>3, <1>5, TagsKept DEF IInv, Resources, page_
  <1>10. Database'
    BY <1>1, <1>5, PagesKept, DatabaseKept DEF IInv, page_
  <1>. QED  BY <1>6, <1>7, <1>8, <1>9, <1>10 DEF IInv

-----------------------------------------------------------------------------
(* Changes *)

LEMMA Issued ==
  ASSUME IInv, NEW t \in Tabs, NEW kind \in {"category", "create", "update", "delete"},
         NEW tag, Issue(t, kind, tag),
         kind = "category" => tag = NoTag,
         kind \in {"update", "delete"} => tag \in Tags,
         kind = "create" => tag \in Drafts
  PROVE  IInv'
  <1>. DEFINE new == [kind |-> kind, tag |-> tag, reply |-> "none", here |-> page[t].open]
  <1>1. /\ op' = [op EXCEPT ![t] = new] /\ op[t] = NoRequest
        /\ UNCHANGED <<categories, tags, used, lists_, page_, inbox, stale, gone>>
    BY DEF Issue
  <1>2. /\ new \in Ops /\ new.kind = kind /\ new.reply = "none" /\ new.tag = tag
        /\ new.here = page[t].open
    <2>1. page[t].open \in BOOLEAN
      BY DEF IInv, TypeOK, Pages
    <2>. QED  BY <2>1 DEF Ops, Drafts
  <1>. HIDE DEF new
  <1>3. /\ op' \in [Tabs -> Ops \union {NoRequest}] /\ op'[t] = new
        /\ \A u \in Tabs \ {t} : op'[u] = op[u]
    BY <1>1, <1>2 DEF IInv, TypeOK
  <1>4. \A u \in Tabs : \A r : Made(op'[u], r) => u # t /\ Made(op[u], r)
    BY <1>2, <1>3 DEF Made
  <1>5. \A u \in Tabs : \A r : Heard(u, r)' => Heard(u, r)
    <2>1. \A u \in Tabs : \A r : Made(op[u], r) => Made(op'[u], r)
      BY <1>1, <1>3 DEF Made
    <2>. QED  BY <1>1, <2>1 DEF Heard
  <1>6. TypeOK'
    BY <1>1, <1>3 DEF IInv, TypeOK, lists_, page_
  <1>7. OpsAreWhole' /\ LoadsHavePages' /\ SendersAreOpen'
    <2>1. OpsAreWhole'
      BY <1>2, <1>3 DEF IInv, OpsAreWhole
    <2>2. LoadsHavePages'
      BY <1>1 DEF IInv, LoadsHavePages, page_
    <2>3. SendersAreOpen'
      BY <1>1, <1>2, <1>3 DEF IInv, SendersAreOpen, page_
    <2>. QED  BY <2>1, <2>2, <2>3
  <1>8. CategoriesAreCurrent' /\ TagsAreCurrent'
    BY <1>1, <1>5, CategoriesKept, TagsKept DEF IInv
  <1>9. Database'
    BY <1>1, <1>3, <1>4 DEF IInv, Database, TagIdsAreUnique, DeletionsAreMade, GoneStaysGone,
       Absent, Answered, page_
  <1>. QED  BY <1>6, <1>7, <1>8, <1>9 DEF IInv

LEMMA Changed ==
  ASSUME IInv, NEW t \in Tabs, ChangeCategories(t) \/ ChangeTags(t)
  PROVE  IInv'
  <1>1. CASE ChangeCategories(t)
    BY <1>1, Issued DEF ChangeCategories
  <1>2. CASE \E name \in Names : Issue(t, "create", [id |-> 0, name |-> name])
    <2>1. PICK name \in Names : Issue(t, "create", [id |-> 0, name |-> name])
      BY <1>2
    <2>2. [id |-> 0, name |-> name] \in Drafts
      BY DEF Drafts
    <2>. QED  BY <2>1, <2>2, Issued
  <1>3. ASSUME NEW listed \in page[t].tags,
               \/ Issue(t, "delete", TagOf(listed))
               \/ \E name \in Names : Issue(t, "update", [TagOf(listed) EXCEPT !.name = name])
        PROVE  IInv'
    <2>1. listed \in Entries
      BY DEF IInv, TypeOK, Pages
    <2>2. TagOf(listed) \in Tags
      BY <2>1 DEF Entries, TagOf, Tags
    <2>3. \A name \in Names : [TagOf(listed) EXCEPT !.name = name] \in Tags
      BY <2>2 DEF Tags
    <2>. QED  BY <1>3, <2>2, <2>3, Issued
  <1>. QED  BY <1>1, <1>2, <1>3 DEF ChangeTags

LEMMA ReplyOne ==
  ASSUME TypeOK, NEW t \in Tabs, op[t] # NoRequest, NEW reply \in {"none", "done", "failed"},
         NEW tag \in Tags \union {NoTag} \union Drafts, Reply(t, reply, tag)
  PROVE  /\ op' \in [Tabs -> Ops \union {NoRequest}]
         /\ op'[t] # NoRequest /\ op'[t].kind = op[t].kind
         /\ op'[t].reply = reply /\ op'[t].tag = tag /\ op'[t].here = op[t].here
         /\ \A u \in Tabs \ {t} : op'[u] = op[u]
  <1>. DEFINE old == op[t]
              new == [old EXCEPT !.reply = reply, !.tag = tag]
  <1>1. old \in Ops
    BY DEF TypeOK
  <1>2. /\ new \in Ops /\ new.kind = old.kind /\ new.reply = reply /\ new.tag = tag
        /\ new.here = old.here
    BY <1>1 DEF Ops, Drafts
  <1>3. op' = [op EXCEPT ![t] = new]
    BY DEF Reply
  <1>. HIDE DEF new
  <1>4. op'[t] = new /\ \A u \in Tabs \ {t} : op'[u] = op[u]
    BY <1>3 DEF TypeOK
  <1>5. op' \in [Tabs -> Ops \union {NoRequest}]
    BY <1>2, <1>3 DEF TypeOK
  <1>. QED  BY <1>2, <1>4, <1>5

\* The database changes, and the answer is on its way: no identifier that is gone
\* is given again.
LEMMA DatabaseChanged ==
  ASSUME IInv, NEW t \in Tabs, UNCHANGED <<page_, gone>>,
         TagIdsAreUnique', tags' \subseteq Tags, used' \in Nat, used <= used',
         \A tag \in tags' : tag.id > used \/ \E old \in tags : old.id = tag.id,
         \A u \in Tabs \ {t} : op'[u] = op[u],
         Made(op'[t], "tags") /\ op'[t].kind = "delete" => Absent(op[t].tag.id)',
         Made(op'[t], "tags") /\ op'[t].kind = "create" => op'[t].tag.id > used
  PROVE  Database'
  <1>. DEFINE AbsentNext(id) == id <= used' /\ \A tag \in tags' : tag.id # id
  <1>1. ASSUME NEW id \in Nat, Absent(id)
        PROVE  AbsentNext(id)
    <2>1. used \in Nat
      BY DEF IInv, TypeOK
    <2>2. id <= used'
      BY <1>1, <2>1 DEF Absent
    <2>3. ASSUME NEW tag \in tags'  PROVE tag.id # id
      BY <1>1, <2>1, <2>3 DEF Absent
    <2>. QED  BY <2>2, <2>3
  <1>2. DeletionsAreMade'
    <2>1. ASSUME NEW u \in Tabs, Made(op'[u], "tags"), op'[u].kind = "delete"
          PROVE  AbsentNext(op'[u].tag.id)
      <3>1. CASE u = t
        BY <2>1, <3>1 DEF Absent
      <3>2. CASE u # t
        <4>1. op'[u] = op[u] /\ Made(op[u], "tags") /\ op[u].kind = "delete"
          BY <2>1, <3>2
        <4>2. op[u].tag \in Tags
          BY <4>1 DEF IInv, OpsAreWhole, Made
        <4>3. op[u].tag.id \in Nat
          BY <4>2 DEF Tags, TagIds
        <4>4. Absent(op[u].tag.id)
          BY <4>1 DEF IInv, Database, DeletionsAreMade
        <4>. QED  BY <1>1, <4>1, <4>3, <4>4
      <3>. QED  BY <3>1, <3>2
    <2>. QED  BY <2>1 DEF DeletionsAreMade, Absent
  <1>3. GoneStaysGone'
    <2>1. ASSUME NEW u \in Tabs, NEW id \in gone[u]
          PROVE  /\ id \in Nat /\ id <= used
                 /\ AbsentNext(id)
                 /\ Made(op'[u], "tags") /\ op'[u].kind = "create" => op'[u].tag.id # id
      <3>1. id \in Nat /\ used \in Nat
        BY DEF IInv, TypeOK, TagIds
      <3>2. Absent(id)
        BY DEF IInv, Database, GoneStaysGone
      <3>3. id <= used
        BY <3>2 DEF Absent
      <3>4. u = t => (Made(op'[u], "tags") /\ op'[u].kind = "create" => op'[u].tag.id # id)
        BY <3>1, <3>3
      <3>5. u # t => (Made(op'[u], "tags") /\ op'[u].kind = "create" => op'[u].tag.id # id)
        BY DEF IInv, Database, GoneStaysGone
      <3>. QED  BY <1>1, <3>1, <3>2, <3>3, <3>4, <3>5
    <2>2. \A u \in Tabs : page'[u] = page[u] /\ load'[u] = load[u] /\ gone'[u] = gone[u]
      BY DEF page_
    <2>. QED  BY <2>1, <2>2 DEF IInv, Database, GoneStaysGone, Answered, Absent
  <1>. QED  BY <1>2, <1>3 DEF Database

\* What serving a change does, whatever the change is.
LEMMA ServedOp ==
  ASSUME IInv, NEW t \in Tabs, op[t] # NoRequest, op[t].reply = "none",
         NEW reply \in {"done", "failed"}, NEW tag \in Tags \union {NoTag} \union Drafts,
         Reply(t, reply, tag), UNCHANGED <<lists_, page_, inbox, stale, gone>>,
         categories' \in Nat, tags' \subseteq Tags, used' \in Nat,
         op[t].kind \in {"update", "delete"} => tag \in Tags,
         op[t].kind = "create" /\ reply = "done" => tag \in Tags,
         (reply = "done" /\ op[t].kind = "category") \/ categories' = categories,
         (reply = "done" /\ op[t].kind # "category") \/ tags' = tags,
         Database'
  PROVE  IInv'
  <1>1. /\ op' \in [Tabs -> Ops \union {NoRequest}]
        /\ op'[t] # NoRequest /\ op'[t].kind = op[t].kind
        /\ op'[t].reply = reply /\ op'[t].tag = tag
        /\ op'[t].here = op[t].here /\ \A u \in Tabs \ {t} : op'[u] = op[u]
    BY ReplyOne DEF IInv
  <1>2. TypeOK'
    BY <1>1 DEF IInv, TypeOK, lists_, page_
  <1>3. OpsAreWhole'
    BY <1>1 DEF IInv, OpsAreWhole
  <1>4. LoadsHavePages' /\ SendersAreOpen'
    BY <1>1 DEF IInv, LoadsHavePages, SendersAreOpen, page_
  <1>5. \A u \in Tabs : \A r : Heard(u, r)' =>
          Heard(u, r) /\ ~(reply = "done" /\ Resource(op[t].kind) = r)
    <2>1. \A u \in Tabs : \A r : Made(op[u], r) => Made(op'[u], r)
      BY <1>1 DEF Made
    <2>2. \A r : Made(op'[t], r) <=> reply = "done" /\ Resource(op[t].kind) = r
      BY <1>1 DEF Made
    <2>. QED  BY <2>1, <2>2 DEF Heard
  <1>6. CategoriesAreCurrent'
    <2>1. CASE categories' = categories
      BY <1>5, <2>1, CategoriesKept DEF IInv
    <2>2. CASE reply = "done" /\ op[t].kind = "category"
      BY <1>5, <2>2 DEF CategoriesAreCurrent, Resource
    <2>. QED  BY <2>1, <2>2
  <1>7. TagsAreCurrent'
    <2>1. CASE tags' = tags
      BY <1>5, <2>1, TagsKept DEF IInv
    <2>2. CASE reply = "done" /\ op[t].kind # "category"
      BY <1>5, <2>2 DEF TagsAreCurrent, Resource
    <2>. QED  BY <2>1, <2>2
  <1>. QED  BY <1>2, <1>3, <1>4, <1>6, <1>7 DEF IInv

LEMMA Served ==
  ASSUME IInv, NEW t \in Tabs, ServeOp(t)
  PROVE  IInv'
  <1>1. /\ op[t] # NoRequest /\ op[t] \in Ops /\ op[t].reply = "none"
        /\ UNCHANGED <<lists_, page_, inbox, stale, gone>>
        /\ categories \in Nat /\ used \in Nat /\ tags \subseteq Tags
    BY DEF ServeOp, IInv, TypeOK
  <1>2. /\ op[t].kind \in {"category", "create", "update", "delete"}
        /\ op[t].tag \in Tags \union {NoTag} \union Drafts
        /\ op[t].kind \in {"update", "delete"} => op[t].tag \in Tags
        /\ op[t].kind = "create" => op[t].tag \in Drafts
    BY <1>1 DEF Ops, IInv, OpsAreWhole, Drafts
  <1>3. \A tag \in Tags : tag.id \in Nat
    BY DEF Tags, TagIds
  <1>4. TagIdsAreUnique
    BY DEF IInv, Database
  <1>5. CASE ChangeCategory(t)
    <2>1. /\ op[t].kind = "category" /\ Reply(t, "done", NoTag)
          /\ categories' = categories + 1 /\ UNCHANGED <<tags, used>>
      BY <1>5 DEF ChangeCategory
    <2>2. op'[t].kind = "category" /\ \A u \in Tabs \ {t} : op'[u] = op[u]
      BY <1>1, <2>1, ReplyOne DEF IInv
    <2>3. Database'
      BY <1>1, <1>4, <2>1, <2>2, DatabaseChanged DEF TagIdsAreUnique
    <2>. QED  BY <1>1, <2>1, <2>3, ServedOp
  <1>6. CASE CreateTag(t)
    <2>. DEFINE tag == [op[t].tag EXCEPT !.id = used + 1]
    <2>1. /\ op[t].kind = "create" /\ Reply(t, "done", tag)
          /\ tags' = tags \union {tag} /\ used' = tag.id
          /\ UNCHANGED categories
      BY <1>6 DEF CreateTag
    <2>2. tag \in Tags /\ tag.id = used + 1
      BY <1>1, <1>2, <2>1 DEF Drafts, Tags, TagIds
    <2>. HIDE DEF tag
    <2>3. op'[t].kind = "create" /\ op'[t].tag = tag /\ \A u \in Tabs \ {t} : op'[u] = op[u]
      BY <1>1, <2>1, <2>2, ReplyOne DEF IInv
    <2>4. TagIdsAreUnique'
      BY <1>1, <1>3, <1>4, <2>1, <2>2 DEF TagIdsAreUnique
    <2>5. Database'
      BY <1>1, <2>1, <2>2, <2>3, <2>4, DatabaseChanged
    <2>. QED  BY <1>1, <2>1, <2>2, <2>5, ServedOp
  <1>7. CASE UpdateTag(t)
    <2>. DEFINE tag == op[t].tag
    <2>1. /\ op[t].kind = "update" /\ Reply(t, "done", tag)
          /\ WithId(tag.id) # {} /\ tags' = (tags \ WithId(tag.id)) \union {tag}
          /\ UNCHANGED <<categories, used>>
      BY <1>7 DEF UpdateTag
    <2>2. tag \in Tags
      BY <1>2, <2>1
    <2>. HIDE DEF tag
    <2>3. PICK old \in tags : old.id = tag.id
      BY <2>1 DEF WithId
    <2>4. op'[t].kind = "update" /\ \A u \in Tabs \ {t} : op'[u] = op[u]
      BY <1>1, <2>1, <2>2, ReplyOne DEF IInv
    <2>5. TagIdsAreUnique'
      BY <1>4, <2>1, <2>3 DEF TagIdsAreUnique, WithId
    <2>6. Database'
      BY <1>1, <2>1, <2>2, <2>3, <2>4, <2>5, DatabaseChanged
    <2>. QED  BY <1>1, <2>1, <2>2, <2>6, ServedOp
  <1>8. CASE DeleteTag(t)
    <2>. DEFINE tag == op[t].tag
    <2>1. /\ op[t].kind = "delete" /\ Reply(t, "done", tag)
          /\ WithId(tag.id) # {} /\ tags' = tags \ WithId(tag.id)
          /\ UNCHANGED <<categories, used>>
      BY <1>8 DEF DeleteTag
    <2>2. tag \in Tags
      BY <1>2, <2>1
    <2>. HIDE DEF tag
    <2>3. /\ op'[t].kind = "delete" /\ op'[t].tag = tag
          /\ \A u \in Tabs \ {t} : op'[u] = op[u]
      BY <1>1, <2>1, <2>2, ReplyOne DEF IInv
    <2>4. /\ TagIdsAreUnique'
          /\ tag.id <= used' /\ \A other \in tags' : other.id # tag.id
      BY <1>4, <2>1 DEF TagIdsAreUnique, WithId
    <2>5. Absent(op[t].tag.id)'
      BY <2>3, <2>4 DEF Absent
    <2>6. Database'
      BY <1>1, <2>1, <2>3, <2>4, <2>5, DatabaseChanged
    <2>. QED  BY <1>1, <2>1, <2>2, <2>6, ServedOp
  <1>9. CASE RefuseTag(t)
    <2>. DEFINE tag == op[t].tag
    <2>1. Reply(t, "failed", tag) /\ UNCHANGED <<categories, tags, used>>
      BY <1>9 DEF RefuseTag
    <2>2. op'[t].reply = "failed" /\ \A u \in Tabs \ {t} : op'[u] = op[u]
      BY <1>1, <1>2, <2>1, ReplyOne DEF IInv
    <2>3. Database'
      BY <1>1, <1>4, <2>1, <2>2, DatabaseChanged DEF TagIdsAreUnique, Made
    <2>. QED  BY <1>1, <1>2, <2>1, <2>3, ServedOp
  <1>. QED  BY <1>5, <1>6, <1>7, <1>8, <1>9 DEF ServeOp

\* A change that failed is announced to nobody; one whose answer is lost leaves
\* every list behind.
LEMMA LostOp ==
  ASSUME IInv, NEW t \in Tabs, LoseOp(t)
  PROVE  IInv'
  <1>1. /\ UNCHANGED <<categories, tags, used, lists_, page_, inbox, gone>>
        /\ op[t] # NoRequest /\ op[t] \in Ops
        /\ Reply(t, "failed", op[t].tag)
        /\ stale' = IF op[t].reply = "done"
                    THEN [u \in Tabs |-> stale[u] \union {Resource(op[t].kind)}] ELSE stale
    BY DEF LoseOp, IInv, TypeOK
  <1>2. op[t].tag \in Tags \union {NoTag} \union Drafts
    BY <1>1 DEF Ops, Drafts
  <1>3. /\ op' \in [Tabs -> Ops \union {NoRequest}]
        /\ op'[t] # NoRequest /\ op'[t].kind = op[t].kind
        /\ op'[t].reply = "failed" /\ op'[t].tag = op[t].tag
        /\ op'[t].here = op[t].here /\ \A u \in Tabs \ {t} : op'[u] = op[u]
    BY <1>1, <1>2, ReplyOne DEF IInv
  <1>4. Resource(op[t].kind) \in Resources
    BY DEF Resource, Resources
  <1>5. stale' \in [Tabs -> SUBSET Resources]
    BY <1>1, <1>4 DEF IInv, TypeOK
  <1>6. /\ \A u \in Tabs : \A r : Made(op'[u], r) => u # t /\ Made(op[u], r)
        /\ \A u \in Tabs : \A r : Made(op[u], r) => Made(op'[u], r) \/ r \in stale'[u]
        /\ \A u \in Tabs : stale[u] \subseteq stale'[u]
        /\ \A u \in Tabs : \A r : Made(op[t], r) => r \in stale'[u]
    <2>1. \A u \in Tabs : \A r : Made(op'[u], r) => u # t /\ Made(op[u], r)
      BY <1>3 DEF Made
    <2>2. \A u \in Tabs : stale[u] \subseteq stale'[u]
      BY <1>1
    <2>3. \A u \in Tabs : \A r : Made(op[t], r) => r \in stale'[u]
      BY <1>1 DEF Made
    <2>4. \A u \in Tabs \ {t} : \A r : Made(op[u], r) => Made(op'[u], r)
      BY <1>3
    <2>. QED  BY <2>1, <2>2, <2>3, <2>4
  <1>7. \A u \in Tabs : \A r : Heard(u, r)' => Heard(u, r)
    <2>1. \A v \in Tabs \ {t} : \A r : Made(op[v], r) => Made(op'[v], r)
      BY <1>3
    <2>. QED  BY <1>1, <1>6, <2>1 DEF Heard
  <1>8. TypeOK'
    BY <1>1, <1>3, <1>5 DEF IInv, TypeOK, lists_, page_
  <1>9. OpsAreWhole'
    BY <1>1, <1>3 DEF IInv, OpsAreWhole
  <1>10. LoadsHavePages' /\ SendersAreOpen'
    BY <1>1, <1>3 DEF IInv, LoadsHavePages, SendersAreOpen, page_
  <1>11. CategoriesAreCurrent' /\ TagsAreCurrent'
    BY <1>1, <1>7, CategoriesKept, TagsKept DEF IInv
  <1>12. Database'
    BY <1>1, <1>3, <1>6 DEF IInv, Database, TagIdsAreUnique, DeletionsAreMade, GoneStaysGone,
       Absent, Answered, page_
  <1>. QED  BY <1>8, <1>9, <1>10, <1>11, <1>12 DEF IInv

\* The list that the tags page patches.
LEMMA PatchedTyped ==
  ASSUME NEW list, list \subseteq Entries, NEW tag, tag \in Tags,
         NEW kind, kind \in {"create", "update", "delete"}
  PROVE  /\ Patched(list, kind, tag) \in SUBSET Entries
         /\ \A listed \in Patched(list, kind, tag) :
              (kind = "create" /\ listed.id = tag.id) \/ \E old \in list : old.id = listed.id
         /\ kind = "delete" => \A listed \in Patched(list, kind, tag) : listed.id # tag.id
  <1>1. \A added \in BOOLEAN : Entry(tag, added) \in Entries /\ Entry(tag, added).id = tag.id
    BY EntryTyped
  <1>2. \A listed \in Entries : listed.added \in BOOLEAN
    BY DEF Entries
  <1>3. CASE kind = "create"
    BY <1>1, <1>3 DEF Patched
  <1>4. CASE kind = "update"
    <2>. DEFINE Renamed(old) == IF old.id = tag.id THEN Entry(tag, old.added) ELSE old
    <2>1. Patched(list, kind, tag) = {Renamed(old) : old \in list}
      BY <1>4 DEF Patched
    <2>2. \A old \in list : Renamed(old) \in Entries /\ Renamed(old).id = old.id
      BY <1>1, <1>2
    <2>. HIDE DEF Renamed
    <2>. QED  BY <1>4, <2>1, <2>2
  <1>5. CASE kind = "delete"
    BY <1>5 DEF Patched
  <1>. QED  BY <1>3, <1>4, <1>5

LEMMA PageListed ==
  ASSUME TypeOK, NEW t \in Tabs, NEW list \in SUBSET Entries,
         page' = [page EXCEPT ![t].tags = list]
  PROVE  /\ page' \in [Tabs -> Pages]
         /\ page'[t].tags = list /\ page'[t].open = page[t].open
         /\ \A u \in Tabs \ {t} : page'[u] = page[u]
  <1>. DEFINE old == page[t]
              new == [old EXCEPT !.tags = list]
  <1>1. old \in Pages
    BY DEF TypeOK
  <1>2. new \in Pages /\ new.tags = list /\ new.open = old.open
    BY <1>1 DEF Pages
  <1>3. page' = [page EXCEPT ![t] = new]
    OBVIOUS
  <1>. HIDE DEF new
  <1>. QED  BY ZenonT(60), <1>2, <1>3 DEF TypeOK

LEMMA AnnouncedOp ==
  ASSUME IInv, NEW t \in Tabs, ReceiveOp(t), OpSucceeds(t)
  PROVE  IInv'
  <1>a. PICK kind, tag : kind = op[t].kind /\ tag = op[t].tag
    OBVIOUS
  <1>b. PICK resource : resource = Resource(kind)
    OBVIOUS
  <1>c. PICK list : list = IF op[t].here /\ resource = "tags"
                           THEN Patched(page[t].tags, kind, tag) ELSE page[t].tags
    OBVIOUS
  <1>d. PICK told : told = IF op[t].here /\ kind = "delete" THEN gone[t] \union {tag.id}
                           ELSE gone[t]
    OBVIOUS
  <1>1. /\ UNCHANGED <<categories, tags, used, stale>>
        /\ op[t] # NoRequest /\ op[t] \in Ops /\ op[t].reply = "done"
        /\ op' = [op EXCEPT ![t] = NoRequest]
        /\ Dispatch(t, resource)
        /\ inbox' = [u \in Tabs |-> IF u = t THEN inbox[u] ELSE Append(inbox[u], resource)]
        /\ page' = [page EXCEPT ![t].tags = list]
        /\ gone' = [gone EXCEPT ![t] = told]
    BY <1>a, <1>b, <1>c, <1>d DEF ReceiveOp, OpSucceeds, Announced, Notify, IInv, TypeOK
  <1>2. /\ kind \in {"category", "create", "update", "delete"}
        /\ kind # "category" => tag \in Tags
        /\ resource = (IF kind = "category" THEN "categories" ELSE "tags")
        /\ resource \in Resources
        /\ Made(op[t], resource)
    BY <1>1, <1>a, <1>b DEF Ops, IInv, OpsAreWhole, Resource, Resources, Made
  <1>3. page[t].tags \in SUBSET Entries
    BY DEF IInv, TypeOK, Pages
  <1>4. /\ list \in SUBSET Entries
        /\ \A listed \in list : \/ kind = "create" /\ listed.id = tag.id
                                \/ \E old \in page[t].tags : old.id = listed.id
        /\ op[t].here /\ kind = "delete" => \A listed \in list : listed.id # tag.id
        /\ ~page[t].open \/ kind = "category" => list = page[t].tags
    <2>0. op[t].here => page[t].open
      BY <1>1 DEF IInv, SendersAreOpen
    <2>1. CASE op[t].here /\ resource = "tags"
      <3>1. list = Patched(page[t].tags, kind, tag)
        BY <1>c, <2>1
      <3>2. kind \in {"create", "update", "delete"} /\ tag \in Tags
        BY <1>2, <2>1
      <3>3. /\ list \in SUBSET Entries
            /\ \A listed \in list : (kind = "create" /\ listed.id = tag.id)
                                     \/ \E old \in page[t].tags : old.id = listed.id
            /\ kind = "delete" => \A listed \in list : listed.id # tag.id
        BY <1>3, <3>1, <3>2, PatchedTyped
      <3>4. ~(~page[t].open \/ kind = "category")
        BY <2>0, <2>1, <3>2
      <3>. QED  BY <3>3, <3>4
    <2>2. CASE ~(op[t].here /\ resource = "tags")
      BY <1>2, <1>3, <1>c, <2>2 DEF IInv, LoadsHavePages
    <2>. QED  BY <2>1, <2>2
  <1>5. /\ told \in SUBSET TagIds
        /\ \A id \in told :
             id \in gone[t] \/ (op[t].here /\ kind = "delete" /\ id = tag.id)
    <2>1. gone[t] \in SUBSET TagIds
      BY DEF IInv, TypeOK
    <2>2. CASE op[t].here /\ kind = "delete"
      <3>1. told = gone[t] \union {tag.id}
        BY <1>d, <2>2
      <3>2. tag.id \in TagIds
        BY <1>2, <2>2 DEF Tags
      <3>. QED  BY <2>1, <2>2, <3>1, <3>2
    <2>3. CASE ~(op[t].here /\ kind = "delete")
      <3>1. told = gone[t]
        BY <1>d, <2>3
      <3>. QED  BY <2>1, <3>1
    <2>. QED  BY <2>2, <2>3
  <1>6. kind = "delete" => Absent(tag.id)
    BY <1>1, <1>2, <1>a DEF IInv, Database, DeletionsAreMade
  <1>7. /\ kind = "create" => \A id \in gone[t] : tag.id # id
        /\ \A listed \in page[t].tags : \A id \in gone[t] : listed.id # id
    BY <1>1, <1>2, <1>a DEF IInv, Database, GoneStaysGone
  <1>8. /\ op' \in [Tabs -> Ops \union {NoRequest}] /\ op'[t] = NoRequest
        /\ \A u \in Tabs \ {t} : op'[u] = op[u]
        /\ gone' \in [Tabs -> SUBSET TagIds] /\ gone'[t] = told
        /\ \A u \in Tabs \ {t} : gone'[u] = gone[u]
    BY <1>1, <1>5 DEF IInv, TypeOK
  <1>9. /\ page' \in [Tabs -> Pages]
        /\ page'[t].tags = list /\ page'[t].open = page[t].open
        /\ \A u \in Tabs \ {t} : page'[u] = page[u]
    BY <1>1, <1>4, PageListed DEF IInv
  <1>10. /\ inbox' \in [Tabs -> Seq(Resources)]
         /\ \A u \in Tabs \ {t} : Contains(inbox'[u], resource)
         /\ \A u \in Tabs : \A r : Contains(inbox[u], r) => Contains(inbox'[u], r)
    <2>1. inbox' = [u \in Tabs |-> IF u = t THEN inbox[u] ELSE Append(inbox[u], resource)]
      BY <1>1
    <2>2. TypeOK /\ resource \in Resources
      BY <1>2 DEF IInv
    <2>. QED  BY <2>1, <2>2, BroadcastTo
  <1>11. /\ \A u \in Tabs \ {t} : ~Heard(u, resource)'
         /\ \A u \in Tabs : \A r : r # resource /\ Heard(u, r)' => Heard(u, r)
    <2>1. \A r : r # resource => ~Made(op[t], r)
      BY <1>2, <1>a, <1>b DEF Made
    <2>2. \A u \in Tabs \ {t} : \A r : Made(op[u], r) => Made(op'[u], r)
      BY <1>8
    <2>. QED  BY <1>1, <1>10, <2>1, <2>2 DEF Heard
  <1>12. TypeOK'
    BY <1>1, <1>2, <1>8, <1>9, <1>10, DispatchOne DEF IInv, TypeOK
  <1>13. OpsAreWhole'
    BY <1>8 DEF IInv, OpsAreWhole
  <1>14. LoadsHavePages' /\ SendersAreOpen'
    <2>1. LoadsHavePages'
      BY <1>1, <1>2, <1>4, <1>9, DispatchOne DEF IInv, LoadsHavePages
    <2>2. SendersAreOpen'
      BY <1>8, <1>9 DEF IInv, SendersAreOpen
    <2>. QED  BY <2>1, <2>2
  <1>15. CategoriesAreCurrent'
    BY <1>1, <1>2, <1>11, DispatchOne DEF IInv, CategoriesAreCurrent
  <1>16. TagsAreCurrent'
    BY <1>1, <1>2, <1>4, <1>9, <1>11, DispatchOne DEF IInv, TagsAreCurrent, Answered
  <1>17. Database'
    <2>1. TagIdsAreUnique'
      BY <1>1 DEF IInv, Database, TagIdsAreUnique
    <2>2. DeletionsAreMade'
      BY <1>1, <1>8 DEF IInv, Database, DeletionsAreMade, Absent, Made
    <2>3. ASSUME NEW u \in Tabs \ {t}, NEW id \in gone'[u]
          PROVE  /\ Absent(id)' /\ \A listed \in page'[u].tags : listed.id # id
                 /\ Answered(u)' => \A other \in load'[u].reply : other.id # id
                 /\ Made(op'[u], "tags") /\ op'[u].kind = "create" => op'[u].tag.id # id
      BY <1>1, <1>2, <1>8, <1>9, DispatchOne DEF IInv, Database, GoneStaysGone, Absent, Answered
    <2>4. ASSUME NEW id \in told
          PROVE  /\ Absent(id)' /\ \A listed \in list : listed.id # id
                 /\ Answered(t)' => \A other \in load'[t].reply : other.id # id
      <3>1. Absent(id)
        BY <1>5, <1>6 DEF IInv, Database, GoneStaysGone
      <3>2. \A listed \in list : listed.id # id
        BY <1>4, <1>5, <1>7
      <3>3. Answered(t)' => resource = "categories" /\ Answered(t) /\ load'[t] = load[t]
        BY <1>1, <1>2, DispatchOne DEF IInv, Answered, Resources
      <3>4. resource = "categories" => id \in gone[t]
        BY <1>2, <1>d
      <3>. QED  BY <1>1, <3>1, <3>2, <3>3, <3>4
                DEF IInv, Database, GoneStaysGone, Absent
    <2>5. GoneStaysGone'
      BY <1>8, <1>9, <2>3, <2>4 DEF GoneStaysGone, Made
    <2>. QED  BY <2>1, <2>2, <2>5 DEF Database
  <1>. QED  BY <1>12, <1>13, <1>14, <1>15, <1>16, <1>17 DEF IInv

LEMMA ReceivedOp ==
  ASSUME IInv, NEW t \in Tabs, ReceiveOp(t)
  PROVE  IInv'
  <1>1. CASE OpSucceeds(t)
    BY <1>1, AnnouncedOp
  <1>2. CASE OpFails(t)
    <2>1. /\ UNCHANGED <<categories, tags, used, lists_, page_, inbox, stale, gone>>
          /\ op[t].reply = "failed" /\ op' = [op EXCEPT ![t] = NoRequest]
      BY <1>2 DEF ReceiveOp, OpFails
    <2>2. /\ op' \in [Tabs -> Ops \union {NoRequest}] /\ op'[t] = NoRequest
          /\ \A u \in Tabs \ {t} : op'[u] = op[u]
      BY <2>1 DEF IInv, TypeOK
    <2>3. \A u \in Tabs : \A r : Made(op'[u], r) <=> Made(op[u], r)
      BY <2>1, <2>2 DEF Made
    <2>4. \A u \in Tabs : \A r : Heard(u, r)' => Heard(u, r)
      BY <2>1, <2>3 DEF Heard
    <2>5. TypeOK'
      BY <2>1, <2>2 DEF IInv, TypeOK, lists_, page_
    <2>6. OpsAreWhole'
      BY <2>2 DEF IInv, OpsAreWhole
    <2>7. LoadsHavePages' /\ SendersAreOpen'
      BY <2>1, <2>2 DEF IInv, LoadsHavePages, SendersAreOpen, page_
    <2>8. CategoriesAreCurrent' /\ TagsAreCurrent'
      BY <2>1, <2>4, CategoriesKept, TagsKept DEF IInv
    <2>9. Database'
      BY <2>1, <2>2, <2>3 DEF IInv, Database, TagIdsAreUnique, DeletionsAreMade, GoneStaysGone,
         Absent, Answered, Made, page_
    <2>. QED  BY <2>5, <2>6, <2>7, <2>8, <2>9 DEF IInv
  <1>. QED  BY <1>1, <1>2 DEF ReceiveOp

-----------------------------------------------------------------------------
(* The invariant, and what it gives *)

LEMMA NextInv == IInv /\ [Next]_vars => IInv'
  <1>. SUFFICES ASSUME IInv, [Next]_vars
                PROVE  IInv'
    OBVIOUS
  <1>1. ASSUME NEW t \in Tabs, TabStep(t)
        PROVE  IInv'
    <2>1. CASE \/ Hears(t) \/ Rerender(t) \/ ServeFetch(t) \/ LoseFetch(t) \/ ReceiveFetch(t)
      BY <2>1, Heeded, CategoryRequests, ReceivedFetch
    <2>2. CASE ServeLoad(t) \/ LoseLoad(t) \/ ReceiveLoad(t) \/ RetryTags(t)
      BY <2>2, ServedLoads, ReceivedLoad, RetriedTags
    <2>3. CASE \E to \in Places : Navigate(t, to)
      BY <2>3, Navigated
    <2>4. CASE RetryCategories(t) \/ ChangeCategories(t) \/ ChangeTags(t)
      BY <2>4, RetriedCategories, Changed
    <2>5. CASE ServeOp(t) \/ LoseOp(t) \/ ReceiveOp(t)
      BY <2>5, Served, LostOp, ReceivedOp
    <2>. QED  BY <1>1, <2>1, <2>2, <2>3, <2>4, <2>5 DEF TabStep
  <1>2. CASE UNCHANGED vars
    <2>1. UNCHANGED <<categories, tags, used, lists_, page_, op, inbox, stale, gone>>
      BY <1>2 DEF vars
    <2>2. TypeOK' /\ OpsAreWhole' /\ LoadsHavePages' /\ SendersAreOpen'
      BY <2>1 DEF IInv, TypeOK, OpsAreWhole, LoadsHavePages, SendersAreOpen, lists_, page_
    <2>3. CategoriesAreCurrent' /\ TagsAreCurrent'
      BY <2>1, HeardKept, CategoriesKept, TagsKept DEF IInv, Resources
    <2>4. Database'
      BY <2>1, PagesKept, DatabaseKept DEF IInv
    <2>. QED  BY <2>2, <2>3, <2>4 DEF IInv
  <1>. QED  BY <1>1, <1>2 DEF Next

LEMMA SpecInv == Spec => []IInv
  BY InitInv, NextInv, PTL DEF Spec

\* The state of the database, of every page, request and broadcast keeps its type.
THEOREM OrganizationTypesCorrect == Spec => []TypeOK
  <1>1. IInv => TypeOK
    BY DEF IInv
  <1>. QED  BY <1>1, SpecInv, PTL

LEMMA QuietHears ==
  ASSUME TypeOK, NEW t \in Tabs, NEW resource \in Resources, Quiet(t, resource)
  PROVE  Heard(t, resource)
  BY DEF Quiet, Heard, Made

\* For any number of tabs and changes: a tab that heard of every change and awaits
\* nothing shows the categories of the database or the fallback; no change is
\* answered with a shared request sent before it (use-categories.ts,
\* requestCategories).
THEOREM CategoryListsAreTrue == Spec => []CategoriesAreTrue
  <1>1. IInv => CategoriesAreTrue
    BY QuietHears DEF IInv, CategoriesAreTrue, CategoriesAreCurrent, Resources
  <1>. QED  BY <1>1, SpecInv, PTL

\* For any number of tabs and changes: a tags page that heard of every change and
\* awaits nothing lists the tags of the database, each once, whatever it added,
\* renamed and removed itself before its reload (tags-page.tsx).
THEOREM TagListsAreTrue == Spec => []TagsAreTrue
  <1>1. ASSUME IInv  PROVE TagsAreTrue
    <2>. SUFFICES ASSUME NEW t \in Tabs, Quiet(t, "tags"), Usable(page[t]),
                         load[t] = NoRequest
                  PROVE  /\ {TagOf(listed) : listed \in page[t].tags} = tags
                         /\ \A one, two \in page[t].tags : one.id = two.id => one = two
      BY DEF TagsAreTrue
    <2>1. page[t].tags = Loaded(tags)
      BY <1>1, QuietHears DEF IInv, TagsAreCurrent, Usable, Resources
    <2>2. \A tag \in tags : TagOf(Entry(tag, FALSE)) = tag /\ Entry(tag, FALSE).id = tag.id
      BY <1>1, EntryTyped DEF IInv, TypeOK
    <2>3. \A one, two \in tags : one.id = two.id => one = two
      BY <1>1 DEF IInv, Database, TagIdsAreUnique
    <2>4. {TagOf(listed) : listed \in Loaded(tags)} = tags
      BY <2>2 DEF Loaded
    <2>5. \A one, two \in Loaded(tags) : one.id = two.id => one = two
      <3>. SUFFICES ASSUME NEW one \in Loaded(tags), NEW two \in Loaded(tags),
                           one.id = two.id
                    PROVE  one = two
        OBVIOUS
      <3>1. PICK first \in tags : one = Entry(first, FALSE)
        BY DEF Loaded
      <3>2. PICK second \in tags : two = Entry(second, FALSE)
        BY DEF Loaded
      <3>3. first.id = second.id
        BY <2>2, <3>1, <3>2
      <3>. QED  BY <2>3, <3>1, <3>2, <3>3
    <2>. QED  BY <2>1, <2>4, <2>5
  <1>. QED  BY <1>1, SpecInv, PTL

\* For any number of tabs and changes: a tag whose deletion was confirmed to the
\* tags page that asked for it never comes back in that tab, whatever loads were
\* in flight, and after the page is left and opened again (tags-page.tsx: setTags
\* of handleDelete, loadRevisionRef; tags/service.py never gives an identifier
\* twice).  A deletion that outlives its page is patched nowhere; of that case
\* TagListsAreTrue speaks.
THEOREM DeletedTagsStayDeleted == Spec => []DeletedStaysDeleted
  <1>1. IInv => DeletedStaysDeleted
    BY DEF IInv, Database, GoneStaysGone, DeletedStaysDeleted
  <1>. QED  BY <1>1, SpecInv, PTL

=============================================================================
