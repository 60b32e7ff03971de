----------------------------- MODULE BrowserDeals -----------------------------
(***************************************************************************)
(* The deals of the web client, which keeps them itself: DealStore and     *)
(* ItemStore (the state of a page), itemApi (the catalogue it was loaded   *)
(* with), localStorage (what a reload starts from) and the buttons of the  *)
(* pages that may call them.                                               *)
(*                                                                         *)
(* A handler runs without interruption up to an await.  createDeal,        *)
(* createItem and updateItem await a timer, so each is two actions: the    *)
(* click (Submit...) and what runs when the timer fires (Finish...).  Any  *)
(* other handler may run in between, and a reload loses what is pending.   *)
(* One page is modelled, with one user at a time.  Texts, pictures and     *)
(* dates are left out.                                                     *)
(***************************************************************************)
EXTENDS Naturals, Sequences, FiniteSets, SequencesExt

CONSTANTS
  Users, NoUser,
  DefaultUser,  \* whom the exchange pages take a visitor for: user?.id ?? 1
  Base,         \* the items of the built-in catalogue
  Extra,        \* ids for items created on the page
  First,        \* the first item of the built-in catalogue
  Author,       \* [Base \cup Extra -> Users]
  Place,        \* [Base \cup Extra -> Nat] the order of the catalogue
  Gone,         \* the holder of an item that is not in a catalogue
  Live,         \* the target's holder is read from the store
  Ops,          \* the operations the user performs, besides deals
  MaxSelect,    \* bound: items selected in a modal
  MaxDeals, MaxLinks, MaxPending,  \* bounds
  MaxLate       \* bound: calls that wait for their timer when a user logs in

Items == Base \cup Extra

ASSUME SentinelAssumption ==
  /\ NoUser \notin Users /\ Gone \notin Users /\ Live \notin Users
  /\ Live # Gone

\* createItem gives a new item the author of the catalogue's first one.
ASSUME CatalogueAssumption ==
  /\ DefaultUser \in Users
  /\ First \in Base /\ Base \cap Extra = {} /\ IsFiniteSet(Items)
  /\ Author \in [Items -> Users] /\ \A i \in Extra : Author[i] = Author[First]
  /\ Place \in [Items -> Nat]
  /\ \A i, j \in Items : Place[i] = Place[j] => i = j

ASSUME BoundAssumption ==
  /\ MaxSelect \in Nat /\ MaxDeals \in Nat /\ MaxLinks \in Nat
  /\ MaxPending \in Nat /\ MaxLate \in Nat

VARIABLES
  user,     \* authStore.user
  deals,    \* dealStore.deals
  shop,     \* itemStore.items
  mock,     \* itemApi's initialMockItems
  pending,  \* calls that await their timer, oldest first
  storedDeals, storedItems,  \* localStorage
  autosave, \* DealStore's reaction waits for its 100 ms
  created   \* ids used up by createItem

vars == <<user, deals, shop, mock, pending, storedDeals, storedItems, autosave,
          created>>

LinkStatus == {"PENDING", "ACCEPTED", "DECLINED"}
DealStatus == {"PENDING", "ACTIVE", "CANCELLED"}

Links == [user : Users, status : LinkStatus, giving : Items, receiving : Items]
DealRecords == [status : DealStatus, initiator : Users, chain : Seq(Links)]
Catalogues  == [holder : [Items -> Users \cup {Gone}], locked : SUBSET Items]
Offers  == [kind : {"offer"}, type : {"DIRECT", "CHAIN"}, by : Users,
            target : Items, holder : Users \cup {Live}, first : Items,
            gives : SUBSET Items]
Edits   == [kind : {"edit"}, item : Items]
Creates == [kind : {"create"}]

\* What localStorage has under the key of the deals, if it has the key.
NoDeals   == [saved |-> FALSE, deals |-> <<>>]
Saved(ds) == [saved |-> TRUE, deals |-> ds]

-----------------------------------------------------------------------------
(* ItemStore. *)

Shown(c)  == {i \in Items : c.holder[i] # Gone}

lockItems(c, S)   == [c EXCEPT !.locked = @ \cup (S \cap Shown(c))]
unlockItems(c, S) == [c EXCEPT !.locked = @ \ S]

transferRights(c, S, u) ==
  [c EXCEPT !.holder = [i \in Items |-> IF i \in S \cap Shown(c) THEN u ELSE @[i]]]

\* Mutant: the item is unlocked and stays where it is.
revertNothing(c, S) == [c EXCEPT !.locked = @ \ S]

revertRights(c, S) ==
  [holder |-> [i \in Items |-> IF i \in S \cap Shown(c) THEN Author[i]
                                                        ELSE c.holder[i]],
   locked |-> c.locked \ S]

deleteItem(c, i) == [holder |-> [c.holder EXCEPT ![i] = Gone],
                     locked |-> c.locked \ {i}]

resetAll(c) == revertRights([c EXCEPT !.locked = {}], Items)

(* itemApi: the built-in catalogue and what localStorage adds to it. *)

NothingSaved == [holder |-> [i \in Items |-> Gone], locked |-> {}]

initialMockItems ==
  [holder |-> [i \in Items |-> IF i \in Base THEN Author[i] ELSE Gone],
   locked |-> {}]

applyPersistedState(c, s) ==
  [holder |-> [i \in Items |-> IF i \in Shown(c) \cap Shown(s) THEN s.holder[i]
                                                              ELSE c.holder[i]],
   locked |-> (c.locked \ Shown(s)) \cup (s.locked \cap Shown(c))]

-----------------------------------------------------------------------------
(* DealStore. *)

Giving(d)    == {d.chain[k].giving : k \in DOMAIN d.chain}
Receiving(d) == {d.chain[k].receiving : k \in DOMAIN d.chain}

DealsIn(ds, statuses) == {k \in DOMAIN ds : ds[k].status \in statuses}
GivenIn(ds, statuses) == UNION {Giving(ds[k]) : k \in DealsIn(ds, statuses)}

\* Mutant: pending deals lock their items too.
syncPendingToo(c, ds) ==
  lockItems(unlockItems(c, Shown(c)), GivenIn(ds, {"PENDING", "ACTIVE"}))

\* Mutant: the locks are left as the handler set them.
syncNothing(c, ds) == c

syncItemLockStates(c, ds) ==
  lockItems(unlockItems(c, Shown(c)), GivenIn(ds, {"ACTIVE"}))

isItemReserved(i) ==
  \E k \in DealsIn(deals, {"ACTIVE"}) : i \in Giving(deals[k]) \cup Receiving(deals[k])

\* findPendingDealForItemIds: the first pending deal that mentions an offered
\* item, and the link to insert behind: one that receives such an item rather
\* than one that gives it; the target comes before what is given.
Mentioning(o) ==
  {k \in DealsIn(deals, {"PENDING"}) :
     ({o.target} \cup o.gives) \cap (Giving(deals[k]) \cup Receiving(deals[k])) # {}}

Behind(d, o) ==
  LET ids == {o.target} \cup o.gives
      receivers == {m \in DOMAIN d.chain : d.chain[m].receiving \in ids}
      givers    == {m \in DOMAIN d.chain : d.chain[m].giving \in ids}
      found     == IF receivers # {} THEN receivers ELSE givers
      item(m)   == IF receivers # {} THEN d.chain[m].receiving ELSE d.chain[m].giving
      rank(m)   == IF item(m) = o.target THEN 0 ELSE 1 + Place[item(m)]
  IN  {m \in found : \A n \in found : rank(m) < rank(n) \/ (rank(m) = rank(n) /\ m <= n)}

\* Mutant: the next participant is not asked again.
appendUnasked(d, link, m) ==
  LET next == IF m = Len(d.chain) THEN 1 ELSE m + 1
  IN  [d EXCEPT !.chain =
         InsertAt([@ EXCEPT ![next].receiving = link.giving], m + 1, link)]

\* The next link, or the first one behind the last, now receives what the new
\* link gives, and has to agree anew.
appendChainLink(d, link, m) ==
  LET next == IF m = Len(d.chain) THEN 1 ELSE m + 1
      told == [d.chain[next] EXCEPT !.receiving = link.giving,
                                    !.status = IF @ = "ACCEPTED" THEN "PENDING" ELSE @]
  IN  [d EXCEPT !.chain = InsertAt([@ EXCEPT ![next] = told], m + 1, link)]

\* Mutant: the items are not saved.
SaveDealsOnly(ds, c) ==
  deals' = ds /\ storedDeals' = Saved(ds) /\ shop' = c /\ UNCHANGED storedItems

\* What a handler of DealStore leaves: the deals and items on the page, and the
\* same in localStorage.
Save(ds, c) ==
  /\ deals' = ds /\ storedDeals' = Saved(ds)
  /\ shop' = c   /\ storedItems' = c

-----------------------------------------------------------------------------
(* Offering an exchange: the item page and its two modals. *)

Viewer == IF user = NoUser THEN DefaultUser ELSE user

\* ExchangeActionBtn opens a modal for an item that is free and not mine; which
\* of the two depends on the texts of titles and wishes.
MayAskFor(i) ==
  /\ user # NoUser
  /\ i \in Shown(shop) \ shop.locked
  /\ shop.holder[i] # user /\ Author[i] # user

\* The items the modals let the user select.
myItems(target) ==
  {i \in Shown(shop) \ shop.locked :
     /\ shop.holder[i] = user
     /\ i # target
     /\ ~ isItemReserved(i)}

\* The first of them in the order of the catalogue is the one offered.
Submit(target, gives, type) ==
  /\ MayAskFor(target)
  /\ gives # {} /\ Cardinality(gives) <= MaxSelect
  /\ Len(pending) < MaxPending
  /\ \E i \in gives :
       /\ \A j \in gives : Place[i] <= Place[j]
       /\ pending' = Append(pending,
            [kind |-> "offer", type |-> type, by |-> user, target |-> target,
             holder |-> Live, first |-> i, gives |-> gives])
  /\ UNCHANGED <<user, deals, shop, mock, storedDeals, storedItems, autosave,
                 created>>

SubmitDirect(target) ==
  \E gives \in SUBSET myItems(target) : Submit(target, gives, "DIRECT")

SubmitChain(target) ==
  \E gives \in SUBSET myItems(target) : Submit(target, gives, "CHAIN")

\* createItem and updateItem may have waited 200 ms for addWish first, so what
\* was submitted after them may overtake them; nothing overtakes an offer.
Due(k) == k \in DOMAIN pending /\ \A j \in 1..(k - 1) : pending[j].kind # "offer"

\* The rest of createDeal, 500 ms later.  targetItem is read only now: from the
\* store, or as it was when the store let go of it.
TargetHolder(o) == IF o.holder = Live THEN shop.holder[o.target] ELSE o.holder

InitiatorLink(o) == [user |-> o.by, status |-> "ACCEPTED",
                     giving |-> o.first, receiving |-> o.target]
OwnerLink(o) == [user |-> TargetHolder(o), status |-> "PENDING",
                 giving |-> o.target, receiving |-> o.first]

JoinDeal(o) ==
  \E k \in Mentioning(o) :
    /\ \A j \in Mentioning(o) : k <= j
    /\ Len(deals[k].chain) < MaxLinks
    /\ \E m \in Behind(deals[k], o) :
         LET joined == [deals EXCEPT ![k] = appendChainLink(@, InitiatorLink(o), m)]
         IN  Save(joined, transferRights(syncItemLockStates(shop, joined),
                                         {o.first}, TargetHolder(o)))
    /\ UNCHANGED autosave

OpenDeal(o) ==
  /\ Mentioning(o) = {}
  /\ Len(deals) < MaxDeals
  /\ LET opened == Append(deals, [status |-> "PENDING", initiator |-> o.by,
                                  chain |-> <<InitiatorLink(o), OwnerLink(o)>>])
         handed == IF o.type = "CHAIN" THEN transferRights(shop, o.gives, TargetHolder(o))
                                       ELSE shop
     IN  Save(opened, syncItemLockStates(handed, opened))
  /\ autosave' = TRUE

FinishOffer(k) ==
  /\ Due(k) /\ pending[k].kind = "offer"
  /\ JoinDeal(pending[k]) \/ OpenDeal(pending[k])
  /\ pending' = RemoveAt(pending, k)
  /\ UNCHANGED <<user, mock, created>>

-----------------------------------------------------------------------------
(* Answering a deal: DealCard on the exchange pages. *)

\* Mutant: any participant may confirm, at any time.
isParticipant(d, u) == \E m \in DOMAIN d.chain : d.chain[m].user = u

isRecipient(d, u) ==
  /\ d.status = "PENDING"
  /\ \E m \in DOMAIN d.chain :
       /\ d.chain[m].user = u /\ d.chain[m].status = "PENDING"
       /\ \A n \in DOMAIN d.chain : n > m => d.chain[n].status # "PENDING"

canCancel(d, u) ==
  /\ \E m \in DOMAIN d.chain : d.chain[m].user = u
  /\ d.status = "PENDING" \/ (d.status = "ACTIVE" /\ d.initiator = u)

\* Mutant: only the last link changes.
LastLink(d, s) == [d.chain EXCEPT ![Len(d.chain)].status = s]

AllLinks(d, s) == [m \in DOMAIN d.chain |-> [d.chain[m] EXCEPT !.status = s]]

Confirm(k) ==
  /\ isRecipient(deals[k], Viewer)
  /\ LET agreed == [deals EXCEPT ![k].status = "ACTIVE",
                                 ![k].chain = AllLinks(deals[k], "ACCEPTED")]
     IN  Save(agreed, syncItemLockStates(lockItems(shop, Giving(deals[k])), agreed))
  /\ autosave' = TRUE
  /\ UNCHANGED <<user, mock, pending, created>>

Cancel(k) ==
  /\ canCancel(deals[k], Viewer)
  /\ LET dropped == [deals EXCEPT ![k].status = "CANCELLED",
                                  ![k].chain = AllLinks(deals[k], "DECLINED")]
     IN  Save(dropped, syncItemLockStates(revertRights(shop, Giving(deals[k])), dropped))
  /\ autosave' = TRUE
  /\ UNCHANGED <<user, mock, pending, created>>

-----------------------------------------------------------------------------
(* The profile page: items are created, edited, deleted, and all is reset. *)

\* Pending offers keep the target's holder as it was when the store drops S.
LetGo(S) ==
  [k \in DOMAIN pending |->
     IF pending[k].kind = "offer" /\ pending[k].target \in S /\ pending[k].holder = Live
     THEN [pending[k] EXCEPT !.holder = shop.holder[pending[k].target]]
     ELSE pending[k]]

\* createItem and updateItem save their own catalogue, and items_state_changed
\* makes the store take it over.
Publish(k, c) ==
  /\ mock' = c /\ storedItems' = c /\ shop' = c
  /\ pending' = RemoveAt(LetGo(Items), k)
  /\ UNCHANGED <<user, deals, storedDeals, autosave>>

SubmitCreate ==
  /\ "create" \in Ops /\ user # NoUser /\ Len(pending) < MaxPending
  /\ created # Extra
  /\ pending' = Append(pending, [kind |-> "create"])
  /\ UNCHANGED <<user, deals, shop, mock, storedDeals, storedItems, autosave,
                 created>>

\* Mutant: it is the one who is logged in when the timer fires.
holderIsViewer == user

holderOfNew == mock.holder[First]

FinishCreate(k) ==
  /\ Due(k) /\ pending[k].kind = "create"
  /\ \E i \in Extra \ created :
       /\ created' = created \cup {i}
       /\ Publish(k, [holder |-> [mock.holder EXCEPT ![i] = holderOfNew],
                      locked |-> mock.locked])

SubmitEdit(i) ==
  /\ "edit" \in Ops /\ user # NoUser /\ Len(pending) < MaxPending
  /\ i \in Shown(shop)
  /\ Author[i] = user \/ shop.holder[i] = user
  /\ ~ (i \in shop.locked /\ Author[i] = user)
  /\ pending' = Append(pending, [kind |-> "edit", item |-> i])
  /\ UNCHANGED <<user, deals, shop, mock, storedDeals, storedItems, autosave,
                 created>>

\* The edited texts aside, updateItem leaves its catalogue as it is.
FinishEdit(k) ==
  /\ Due(k) /\ pending[k].kind = "edit"
  /\ Publish(k, mock)
  /\ UNCHANGED created

Delete(i) ==
  /\ "delete" \in Ops /\ user # NoUser
  /\ i \in Shown(shop) \ shop.locked /\ Author[i] = user
  /\ shop' = deleteItem(shop, i) /\ storedItems' = shop'
  /\ pending' = LetGo({i})
  /\ UNCHANGED <<user, deals, mock, storedDeals, autosave, created>>

Reset ==
  /\ "reset" \in Ops /\ user # NoUser
  /\ deals' = <<>> /\ shop' = resetAll(shop)
  /\ storedDeals' = NoDeals /\ storedItems' = NothingSaved
  /\ autosave' = (autosave \/ deals # <<>>)
  /\ UNCHANGED <<user, mock, pending, created>>

-----------------------------------------------------------------------------
(* The session, the delayed save and a reload of the page. *)

\* A login, or the late answer of changeProfile: neither asks who is logged in by
\* now, nor what else waits for its timer.
Login(u) ==
  /\ Len(pending) <= MaxLate
  /\ user' = u
  /\ UNCHANGED <<deals, shop, mock, pending, storedDeals, storedItems, autosave,
                 created>>

Logout ==
  /\ user # NoUser
  /\ user' = NoUser
  /\ UNCHANGED <<deals, shop, mock, pending, storedDeals, storedItems, autosave,
                 created>>

AutoSave ==
  /\ autosave /\ autosave' = FALSE
  /\ storedDeals' = Saved(deals)
  /\ UNCHANGED <<user, deals, shop, mock, pending, storedItems, created>>

\* The user stays logged in: AuthStore restores the session.
Reload ==
  LET loaded == applyPersistedState(initialMockItems, storedItems)
  IN  /\ mock' = loaded
      /\ pending' = <<>> /\ autosave' = FALSE
      /\ deals' = storedDeals.deals
      /\ IF storedDeals.saved
         THEN shop' = syncItemLockStates(loaded, deals') /\ storedItems' = shop'
         ELSE shop' = loaded /\ UNCHANGED storedItems
      /\ UNCHANGED <<user, storedDeals, created>>

Init ==
  /\ user = NoUser
  /\ deals = <<>> /\ storedDeals = NoDeals
  /\ shop = initialMockItems /\ mock = initialMockItems
  /\ storedItems = NothingSaved
  /\ pending = <<>> /\ autosave = FALSE /\ created = {}

Next ==
  \/ \E i \in Items : SubmitDirect(i) \/ SubmitChain(i) \/ SubmitEdit(i) \/ Delete(i)
  \/ \E k \in DOMAIN pending : FinishOffer(k) \/ FinishCreate(k) \/ FinishEdit(k)
  \/ \E k \in DOMAIN deals : Confirm(k) \/ Cancel(k)
  \/ SubmitCreate \/ Reset
  \/ \E u \in Users : Login(u)
  \/ Logout \/ AutoSave \/ Reload

Spec == Init /\ [][Next]_vars
-----------------------------------------------------------------------------
(* Properties. *)

\* The variables hold what the code's types and the pages allow; an offer that
\* reads its target from the store has it there.
TypeOK ==
  /\ user \in Users \cup {NoUser}
  /\ deals \in Seq(DealRecords)
  /\ storedDeals \in [saved : BOOLEAN, deals : Seq(DealRecords)]
  /\ shop \in Catalogues /\ mock \in Catalogues /\ storedItems \in Catalogues
  /\ pending \in Seq(Offers \cup Edits \cup Creates)
  /\ \A k \in DOMAIN pending :
       pending[k].kind = "offer" /\ pending[k].holder = Live
         => pending[k].target \in Shown(shop)
  /\ autosave \in BOOLEAN /\ created \subseteq Extra

LinksFit(d) ==
  LET has == {d.chain[m].status : m \in DOMAIN d.chain}
  IN  /\ d.status = "ACTIVE"    => has = {"ACCEPTED"}
      /\ d.status = "CANCELLED" => has = {"DECLINED"}
      /\ d.status = "PENDING"   => "PENDING" \in has /\ "DECLINED" \notin has

\* The statuses of a deal and of its links agree (DealStore changes both), and
\* a pending deal waits for somebody: DealCard shows some participant the button
\* that confirms it, however the chain was extended.
LinksMatchStatus == \A k \in DOMAIN deals : LinksFit(deals[k])

\* A reload brings back every deal, and the holder and the lock of every item of
\* the built-in catalogue that is on the page: each handler saves what it does.
ReloadLosesNothing ==
  LET back == applyPersistedState(initialMockItems, storedItems)
  IN  /\ deals = storedDeals.deals
      /\ \A i \in Base \cap Shown(shop) :
           /\ back.holder[i] = shop.holder[i]
           /\ i \in back.locked <=> i \in shop.locked

\* Whatever changes a deal leaves locked exactly the items on the page that the
\* active deals give away (syncItemLockStates after every change).
LocksSetWithDeals ==
  [][deals' # deals
       => shop'.locked = GivenIn(deals', {"ACTIVE"}) \cap Shown(shop')]_vars

\* In a pending deal a participant counts as having agreed only to the swap he
\* agreed to: when createDeal makes him receive another item he is asked anew.
AgreedToThisSwap ==
  [][\A k \in DOMAIN deals \cap DOMAIN deals' :
       deals'[k].status = "PENDING" =>
         \A m \in DOMAIN deals'[k].chain :
           deals'[k].chain[m].status = "ACCEPTED" =>
             \/ deals'[k].chain[m] \in Range(deals[k].chain)
             \/ \E o \in Range(pending) :
                  o.kind = "offer" /\ deals'[k].chain[m] = InitiatorLink(o)]_vars

\* A deal only moves forward, none is forgotten but by the reset, and none loses
\* an item it gives, whatever completes late and whenever the page is reloaded.
DealsMoveForward ==
  [][\/ deals' = <<>> /\ "reset" \in Ops /\ storedDeals' = NoDeals
     \/ /\ Len(deals) <= Len(deals')
        /\ \A k \in DOMAIN deals :
             /\ Giving(deals[k]) \subseteq Giving(deals'[k])
             /\ deals'[k].status # deals[k].status
                  => <<deals[k].status, deals'[k].status>> \in
                       {<<"PENDING", "ACTIVE">>, <<"PENDING", "CANCELLED">>,
                        <<"ACTIVE", "CANCELLED">>}]_vars

\* An item is locked exactly while an active deal gives it away.  Holds until an
\* item is created or edited: itemApi then publishes the locks of page load.
LocksFollowDeals ==
  shop.locked = GivenIn(deals, {"ACTIVE"}) \cap Shown(shop)

\* What DealBook sees of the deals and of the items.
BookOf(ds) == [k \in DOMAIN ds |-> [status |-> ds[k].status, gives |-> Giving(ds[k])]]
Away(c)    == {i \in Shown(c) : c.holder[i] # Author[i]}

\* An item is with somebody else than its author only while a deal that is not
\* cancelled gives it away: rights handed over by an offer come back.
AwayMeansPromised ==
  Away(shop) \subseteq GivenIn(deals, {"PENDING", "ACTIVE"})

Book == INSTANCE DealBook WITH
  Goods <- Items, book <- BookOf(deals), shelf <- Shown(shop),
  locked <- shop.locked, away <- Away(shop)

\* Without creating or editing items, and with one item selected, the client
\* keeps the promises of DealBook.
KeepsTheBook == Book!BookSpec

\* Every participant confirms his own part.
EveryoneConfirmsOwnPart ==
  [][\A k \in DOMAIN deals \cap DOMAIN deals' :
       deals[k].status = "PENDING" /\ deals'[k].status = "ACTIVE"
         => \A m \in DOMAIN deals[k].chain :
              deals[k].chain[m].status = "PENDING" => deals[k].chain[m].user = Viewer]_vars
=============================================================================
