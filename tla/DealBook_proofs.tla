-------------------------- MODULE DealBook_proofs --------------------------
(* As long as no item is created or edited and one item is selected, the  *)
(* web client implements DealBook.                                         *)
EXTENDS BrowserDeals_proofs

Quiet  == Ops \cap {"create", "edit"} = {}
Single == MaxSelect <= 1

-----------------------------------------------------------------------------
(* What stays true as long as itemApi publishes nothing. *)

\* Only offers wait.
OnlyOffers == \A k \in DOMAIN pending : pending[k].kind = "offer"

\* Nothing but built-in items is on show, and nothing is saved that is not; with
\* no deals saved, no locks are.
NothingHidden ==
  /\ Shown(shop) \subseteq Base /\ Shown(storedItems) \subseteq Shown(shop)
  /\ storedDeals.saved \/ (storedDeals.deals = <<>> /\ storedItems.locked = {})

QuietInv ==
  TypeInv /\ ReloadLosesNothing /\ OnlyOffers /\ NothingHidden /\ LocksFollowDeals

\* One item is offered at a time.
OneGiven == \A k \in DOMAIN pending : pending[k].gives = {pending[k].first}

LEMMA PendingKept ==
  ASSUME TypeInv, OnlyOffers, NEW S
  PROVE  \A k \in DOMAIN pending :
           /\ LetGo(S)[k].kind = "offer"
           /\ LetGo(S)[k].gives = pending[k].gives /\ LetGo(S)[k].first = pending[k].first
<1> SUFFICES ASSUME NEW k \in DOMAIN pending
             PROVE  /\ LetGo(S)[k].kind = "offer"
                    /\ LetGo(S)[k].gives = pending[k].gives
                    /\ LetGo(S)[k].first = pending[k].first
  OBVIOUS
<1>1. pending[k] \in Offers
  BY OfferParts DEF TypeInv, OnlyOffers
<1>2. LetGo(S)[k] = pending[k] \/ LetGo(S)[k] = [pending[k] EXCEPT !.holder = shop.holder[pending[k].target]]
  BY DEF LetGo
<1> QED
  BY <1>1, <1>2 DEF Offers

\* The calls that wait are those that waited, let go of their target or not, and
\* a new offer.
LEMMA PendingSteps ==
  ASSUME TypeInv, Quiet, OnlyOffers, [Next]_vars
  PROVE  \/ pending' = pending \/ pending' = <<>>
         \/ \E k \in DOMAIN pending : pending' = RemoveAt(pending, k)
         \/ \E i \in Items : pending' = LetGo({i})
         \/ \E target \in Items, type \in {"DIRECT", "CHAIN"} :
              \E gives \in SUBSET myItems(target) : Submit(target, gives, type)
<1>1. ~ SubmitCreate /\ \A i \in Items : ~ SubmitEdit(i)
  BY DEF Quiet, SubmitCreate, SubmitEdit
<1>2. \A k \in DOMAIN pending : ~ FinishCreate(k) /\ ~ FinishEdit(k)
  BY DEF OnlyOffers, FinishCreate, FinishEdit
<1>3. ASSUME NEW i \in Items, SubmitDirect(i) \/ SubmitChain(i)
      PROVE  \E target \in Items, type \in {"DIRECT", "CHAIN"} :
               \E gives \in SUBSET myItems(target) : Submit(target, gives, type)
  BY <1>3 DEF SubmitDirect, SubmitChain
<1>4. ASSUME NEW i \in Items, Delete(i)
      PROVE  pending' = LetGo({i})
  BY <1>4 DEF Delete
<1>5. ASSUME NEW k \in DOMAIN pending, FinishOffer(k)
      PROVE  pending' = RemoveAt(pending, k)
  BY <1>5 DEF FinishOffer
<1>6. ASSUME NEW k \in DOMAIN deals, Confirm(k) \/ Cancel(k)
      PROVE  pending' = pending
  BY <1>6 DEF Confirm, Cancel
<1>7. ASSUME Reset \/ (\E u \in Users : Login(u)) \/ Logout \/ AutoSave \/ Reload \/ UNCHANGED vars
      PROVE  pending' = pending \/ pending' = <<>>
  BY <1>7 DEF Reset, Login, Logout, AutoSave, Reload, vars
<1> QED
  BY <1>1, <1>2, <1>3, <1>4, <1>5, <1>6, <1>7 DEF Next

LEMMA OffersStep ==
  ASSUME TypeInv, Quiet, OnlyOffers, [Next]_vars
  PROVE  OnlyOffers'
<1>0. pending \in Seq(Pendings)
  BY DEF TypeInv, TypeOK, Pendings
<1>1. CASE pending' = pending \/ pending' = <<>>
  BY <1>1 DEF OnlyOffers
<1>2. ASSUME NEW k \in DOMAIN pending, pending' = RemoveAt(pending, k)
      PROVE  OnlyOffers'
  <2>1. \A j \in DOMAIN pending' : \E i \in DOMAIN pending : pending'[j] = pending[i]
    BY <1>0, <1>2, RemoveAtType
  <2> QED
    BY <2>1 DEF OnlyOffers
<1>3. ASSUME NEW i \in Items, pending' = LetGo({i})
      PROVE  OnlyOffers'
  BY <1>3, LetGoType, PendingKept DEF OnlyOffers
<1>4. ASSUME NEW target \in Items, NEW type, NEW gives \in SUBSET myItems(target),
             Submit(target, gives, type)
      PROVE  OnlyOffers'
  <2>1. PICK p : pending' = Append(pending, p) /\ p.kind = "offer"
    BY <1>4 DEF Submit
  <2>2. /\ DOMAIN pending' = 1 .. Len(pending) + 1 /\ pending'[Len(pending) + 1] = p
        /\ \A j \in 1 .. Len(pending) : pending'[j] = pending[j]
    BY <1>0, <2>1
  <2> QED
    BY <1>0, <2>1, <2>2 DEF OnlyOffers
<1> QED
  BY <1>1, <1>2, <1>3, <1>4, PendingSteps

LEMMA OneGivenStep ==
  ASSUME TypeInv, Quiet, Single, OnlyOffers, OneGiven, [Next]_vars
  PROVE  OneGiven'
<1>0. pending \in Seq(Pendings)
  BY DEF TypeInv, TypeOK, Pendings
<1>1. CASE pending' = pending \/ pending' = <<>>
  BY <1>1 DEF OneGiven
<1>2. ASSUME NEW k \in DOMAIN pending, pending' = RemoveAt(pending, k)
      PROVE  OneGiven'
  <2>1. \A j \in DOMAIN pending' : \E i \in DOMAIN pending : pending'[j] = pending[i]
    BY <1>0, <1>2, RemoveAtType
  <2> QED
    BY <2>1 DEF OneGiven
<1>3. ASSUME NEW i \in Items, pending' = LetGo({i})
      PROVE  OneGiven'
  BY <1>3, LetGoType, PendingKept DEF OneGiven
<1>4. ASSUME NEW target \in Items, NEW type, NEW gives \in SUBSET myItems(target),
             Submit(target, gives, type)
      PROVE  OneGiven'
  <2>1. PICK i \in gives :
          pending' = Append(pending,
            [kind |-> "offer", type |-> type, by |-> user, target |-> target,
             holder |-> Live, first |-> i, gives |-> gives])
    BY <1>4 DEF Submit
  <2>2. gives = {i}
    <3>1. gives \subseteq Items /\ IsFiniteSet(Items)
      BY CatalogueAssumption DEF myItems, Shown
    <3>2. IsFiniteSet(gives) /\ Cardinality(gives) \in Nat
      BY <3>1, FS_Subset, FS_CardinalityType
    <3>3. Cardinality(gives) <= 1
      BY <1>4, <3>2, BoundAssumption DEF Submit, Single
    <3>4. ASSUME NEW j \in gives, j # i
          PROVE  FALSE
      <4>1. gives \ {i} # {} /\ IsFiniteSet(gives \ {i})
        BY <3>2, <3>4, FS_Subset
      <4>2. Cardinality(gives \ {i}) = Cardinality(gives) - 1
        BY <3>2, FS_RemoveElement
      <4>3. Cardinality(gives \ {i}) \in Nat /\ Cardinality(gives \ {i}) # 0
        BY <4>1, FS_CardinalityType, FS_EmptySet
      <4> QED
        BY <3>2, <3>3, <4>2, <4>3
    <3> QED
      BY <3>4
  <2> DEFINE p == [kind |-> "offer", type |-> type, by |-> user, target |-> target,
                   holder |-> Live, first |-> i, gives |-> gives]
  <2>3. p.gives = {p.first} /\ pending' = Append(pending, p)
    BY <2>1, <2>2
  <2> HIDE DEF p
  <2>4. /\ DOMAIN pending' = 1 .. Len(pending) + 1 /\ pending'[Len(pending) + 1] = p
        /\ \A j \in 1 .. Len(pending) : pending'[j] = pending[j]
    BY <1>0, <2>3
  <2> QED
    BY <1>0, <2>3, <2>4 DEF OneGiven
<1> QED
  BY <1>1, <1>2, <1>3, <1>4, PendingSteps

\* What is not about deals is a submission, a deletion, a reset, a reload, or the
\* session and the delayed save.
LEMMA QuietSteps ==
  ASSUME TypeInv, Quiet, OnlyOffers, [Next]_vars
  PROVE  \/ \E k \in DOMAIN pending : FinishOffer(k)
         \/ \E k \in DOMAIN deals : Confirm(k) \/ Cancel(k)
         \/ \E i \in Items : Delete(i)
         \/ Reset \/ Reload
         \/ /\ UNCHANGED <<deals, shop, storedItems>>
            /\ UNCHANGED storedDeals \/ storedDeals' = Saved(deals)
<1>1. ~ SubmitCreate /\ \A i \in Items : ~ SubmitEdit(i)
  BY DEF Quiet, SubmitCreate, SubmitEdit
<1>2. \A k \in DOMAIN pending : ~ FinishCreate(k) /\ ~ FinishEdit(k)
  BY DEF OnlyOffers, FinishCreate, FinishEdit
<1>3. ASSUME NEW i \in Items, SubmitDirect(i) \/ SubmitChain(i)
      PROVE  UNCHANGED <<deals, shop, storedItems, storedDeals>>
  BY <1>3 DEF SubmitDirect, SubmitChain, Submit
<1>4. ASSUME (\E u \in Users : Login(u)) \/ Logout \/ AutoSave \/ UNCHANGED vars
      PROVE  /\ UNCHANGED <<deals, shop, storedItems>>
             /\ UNCHANGED storedDeals \/ storedDeals' = Saved(deals)
  BY <1>4 DEF Login, Logout, AutoSave, vars
<1> QED
  BY <1>1, <1>2, <1>3, <1>4 DEF Next

\* An offer that completes, or an answer, saves everything.
LEMMA HandlersSave ==
  ASSUME TypeInv,
         \/ \E k \in DOMAIN pending : FinishOffer(k)
         \/ \E k \in DOMAIN deals : Confirm(k) \/ Cancel(k)
  PROVE  SavedAll
<1>1. ASSUME NEW k \in DOMAIN pending, FinishOffer(k)
      PROVE  SavedAll
  <2>1. /\ pending[k] \in Offers /\ TargetHolder(pending[k]) \in Users
        /\ InitiatorLink(pending[k]) \in Links /\ OwnerLink(pending[k]) \in Links
    BY <1>1, OfferParts DEF TypeInv, FinishOffer
  <2> QED
    BY <1>1, <2>1, JoinStep, OpenStep DEF TypeInv, FinishOffer
<1>2. ASSUME NEW k \in DOMAIN deals, Confirm(k) \/ Cancel(k)
      PROVE  SavedAll
  BY <1>2, ConfirmStep, CancelStep DEF TypeInv
<1> QED
  BY <1>1, <1>2

LEMMA NoneGiven == \A statuses : GivenIn(<<>>, statuses) = {}
  BY DEF GivenIn, DealsIn

LEMMA LocksFollowStep ==
  ASSUME QuietInv, Quiet, [Next]_vars
  PROVE  NothingHidden' /\ LocksFollowDeals'
<1> USE DEF QuietInv
<1>1. CASE SavedAll
  BY <1>1 DEF SavedAll, Saved, Agreed, NothingHidden, LocksFollowDeals
<1>2. ASSUME NEW i \in Items, Delete(i)
      PROVE  NothingHidden' /\ LocksFollowDeals'
  <2>1. /\ Shown(shop') = Shown(shop) \ {i} /\ i \notin shop.locked
        /\ shop'.locked = shop.locked \ {i}
    BY <1>2, DeleteMoves
  <2>2. storedItems' = shop' /\ UNCHANGED <<deals, storedDeals>> /\ i \in Shown(shop)
    BY <1>2 DEF Delete
  <2>3. LocksFollowDeals'
    BY <2>1, <2>2 DEF LocksFollowDeals
  <2>4. storedDeals.saved \/ shop'.locked = {}
    BY <2>1, NoneGiven DEF NothingHidden, ReloadLosesNothing, LocksFollowDeals
  <2> QED
    BY <2>1, <2>2, <2>3, <2>4 DEF NothingHidden
<1>3. CASE Reset
  <2>1. Shown(shop') = Shown(shop) /\ shop'.locked = {}
    BY <1>3, ResetMoves
  <2>2. /\ deals' = <<>> /\ storedItems' = NothingSaved
        /\ storedDeals'.deals = <<>> /\ NothingSaved.locked = {} /\ Shown(NothingSaved) = {}
    BY <1>3, BuiltInProper DEF Reset, NoDeals, NothingSaved
  <2> QED
    BY <2>1, <2>2, NoneGiven DEF NothingHidden, LocksFollowDeals
<1>4. CASE Reload
  <2>1. /\ Shown(shop') = Base /\ deals' = storedDeals.deals /\ storedDeals' = storedDeals
    BY <1>4, ReloadMoves DEF Reload
  <2>2. CASE storedDeals.saved
    <3>1. storedItems' = shop' /\ shop'.locked = Agreed(deals') \cap Shown(shop')
      BY <1>4, <2>2, ReloadMoves
    <3> QED
      BY <2>1, <2>2, <3>1 DEF NothingHidden, LocksFollowDeals, Agreed
  <2>3. CASE ~ storedDeals.saved
    <3>1. storedItems' = storedItems /\ shop'.locked = storedItems.locked \cap Base
      BY <1>4, <2>3, ReloadMoves
    <3> QED
      BY <2>1, <2>3, <3>1, NoneGiven DEF NothingHidden, LocksFollowDeals, Agreed
  <2> QED
    BY <2>2, <2>3
<1>5. ASSUME UNCHANGED <<deals, shop, storedItems>>,
             UNCHANGED storedDeals \/ storedDeals' = Saved(deals)
      PROVE  NothingHidden' /\ LocksFollowDeals'
  BY <1>5 DEF NothingHidden, LocksFollowDeals, Saved, Shown
<1> QED
  BY <1>1, <1>2, <1>3, <1>4, <1>5, QuietSteps, HandlersSave

LEMMA QuietInvariant ==
  ASSUME Quiet
  PROVE  Spec => []QuietInv
<1>1. Init => OnlyOffers /\ NothingHidden /\ LocksFollowDeals
  <2> SUFFICES ASSUME Init PROVE OnlyOffers /\ NothingHidden /\ LocksFollowDeals
    OBVIOUS
  <2>1. /\ shop = initialMockItems /\ storedItems = NothingSaved /\ deals = <<>>
        /\ storedDeals.deals = <<>> /\ pending = <<>>
        /\ initialMockItems.locked = {} /\ NothingSaved.locked = {}
    BY DEF Init, NoDeals, initialMockItems, NothingSaved
  <2> QED
    BY <2>1, BuiltInProper, NoneGiven DEF OnlyOffers, NothingHidden, LocksFollowDeals
<1>2. QuietInv /\ [Next]_vars => (OnlyOffers /\ NothingHidden /\ LocksFollowDeals)'
  BY LocksFollowStep, OffersStep DEF QuietInv
<1> QED
  BY <1>1, <1>2, MirrorInvariant, PTL DEF Spec, QuietInv

\* Without creating or editing items, the locked items are those that active
\* deals give away, at every moment and across reloads, deletions and resets.
THEOREM LocksFollow ==
  ASSUME Quiet
  PROVE  Spec => []LocksFollowDeals
<1>1. QuietInv => LocksFollowDeals
  BY DEF QuietInv
<1> QED
  BY <1>1, QuietInvariant, PTL

-----------------------------------------------------------------------------
(* Every step keeps the book. *)

\* What the book promises is what the deals give.
LEMMA PromisedIsGiven ==
  ASSUME NEW ds, NEW statuses
  PROVE  Book!Promised(BookOf(ds), statuses) = GivenIn(ds, statuses)
<1>1. /\ DOMAIN BookOf(ds) = DOMAIN ds
      /\ \A k \in DOMAIN ds : BookOf(ds)[k].status = ds[k].status
                           /\ BookOf(ds)[k].gives = Giving(ds[k])
  BY DEF BookOf
<1>2. {j \in DOMAIN BookOf(ds) : BookOf(ds)[j].status \in statuses} = DealsIn(ds, statuses)
  BY <1>1 DEF DealsIn
<1>3. {BookOf(ds)[k].gives : k \in DealsIn(ds, statuses)} = {Giving(ds[k]) : k \in DealsIn(ds, statuses)}
  BY <1>1 DEF DealsIn
<1> QED
  BY <1>2, <1>3 DEF Book!Promised, GivenIn

\* The locks of the page after a change are those the book asks for.
LEMMA LocksAgreed ==
  ASSUME LocksFollowDeals'
  PROVE  Book!LockAgreed
<1>1. shop'.locked = GivenIn(deals', {"ACTIVE"}) \cap Shown(shop')
  BY DEF LocksFollowDeals
<1>2. Book!Promised(BookOf(deals'), {"ACTIVE"}) = GivenIn(deals', {"ACTIVE"})
  BY PromisedIsGiven
<1> QED
  BY <1>1, <1>2 DEF Book!LockAgreed

\* One deal of the book changes as it does on the page.
LEMMA BookExcept ==
  ASSUME NEW ds \in Seq(DealRecords), NEW d \in DOMAIN ds, NEW e
  PROVE  BookOf([ds EXCEPT ![d] = e]) =
           [BookOf(ds) EXCEPT ![d] = [status |-> e.status, gives |-> Giving(e)]]
  BY DEF BookOf

LEMMA BookAppend ==
  ASSUME NEW ds \in Seq(DealRecords), NEW e \in DealRecords
  PROVE  BookOf(Append(ds, e)) =
           Append(BookOf(ds), [status |-> e.status, gives |-> Giving(e)])
<1> DEFINE line == [status |-> e.status, gives |-> Giving(e)]
           more == Append(ds, e)
           T    == {BookOf(ds)[k] : k \in DOMAIN ds} \cup {line}
<1>1. DOMAIN ds = 1 .. Len(ds) /\ Len(ds) \in Nat
  OBVIOUS
<1>2. /\ DOMAIN more = 1 .. Len(ds) + 1 /\ more[Len(ds) + 1] = e
      /\ \A k \in 1 .. Len(ds) : more[k] = ds[k]
  BY <1>1, AppendProperties
<1>3. BookOf(ds) \in [1 .. Len(ds) -> T]
  BY <1>1 DEF BookOf
<1> HIDE DEF T, more
<1>4. BookOf(ds) \in Seq(T) /\ Len(BookOf(ds)) = Len(ds) /\ line \in T
  BY <1>1, <1>3 DEF T
<1>5. /\ Append(BookOf(ds), line) \in Seq(T)
      /\ Len(Append(BookOf(ds), line)) = Len(ds) + 1
      /\ Append(BookOf(ds), line)[Len(ds) + 1] = line
      /\ \A k \in 1 .. Len(ds) : Append(BookOf(ds), line)[k] = BookOf(ds)[k]
  BY <1>4, AppendProperties
<1>6. \A k \in 1 .. Len(ds) : BookOf(ds)[k] = [status |-> ds[k].status, gives |-> Giving(ds[k])]
  BY <1>1 DEF BookOf
<1>7. BookOf(more) = [k \in 1 .. Len(ds) + 1 |-> [status |-> more[k].status, gives |-> Giving(more[k])]]
  BY <1>2 DEF BookOf
<1>8. \A k \in 1 .. Len(ds) + 1 :
        [status |-> more[k].status, gives |-> Giving(more[k])] = Append(BookOf(ds), line)[k]
  <2> SUFFICES ASSUME NEW k \in 1 .. Len(ds) + 1
               PROVE  [status |-> more[k].status, gives |-> Giving(more[k])]
                        = Append(BookOf(ds), line)[k]
    OBVIOUS
  <2>1. CASE k = Len(ds) + 1
    BY <2>1, <1>2, <1>5
  <2>2. CASE k # Len(ds) + 1
    <3>1. k \in 1 .. Len(ds)
      BY <2>2, <1>1
    <3> QED
      BY <3>1, <1>2, <1>5, <1>6
  <2> QED
    BY <2>1, <2>2
<1>9. Append(BookOf(ds), line) = [k \in 1 .. Len(ds) + 1 |-> Append(BookOf(ds), line)[k]]
  BY <1>1, <1>5
<1> QED
  BY <1>7, <1>8, <1>9 DEF more

\* Holders change only of items that are handed over.
LEMMA HandedOver ==
  ASSUME NEW S, S \subseteq Items, Shown(shop') = Shown(shop),
         \A i \in Items \ S : shop'.holder[i] = shop.holder[i]
  PROVE  Book!HandOver(S)
<1>1. Away(shop) \ S \subseteq Away(shop') /\ Away(shop') \subseteq Away(shop) \cup (S \cap Shown(shop'))
  BY DEF Away, Shown
<1> QED
  BY <1>1 DEF Book!HandOver

LEMMA JoinGrows ==
  ASSUME TypeInv, LocksFollowDeals', NEW k \in DOMAIN pending, FinishOffer(k), JoinDeal(pending[k])
  PROVE  \E d \in DOMAIN BookOf(deals), i \in Items : Book!Grow(d, i)
<1> DEFINE o == pending[k]
<1>1. /\ o \in Offers /\ TargetHolder(o) \in Users /\ InitiatorLink(o) \in Links
      /\ o.first \in Items
  BY OfferParts DEF TypeInv, FinishOffer, Offers
<1> HIDE DEF o
<1>2. /\ SavedAll
      /\ \E d \in DOMAIN deals : \E m \in DOMAIN deals[d].chain :
           /\ deals[d].status = "PENDING"
           /\ deals' = [deals EXCEPT ![d] = appendChainLink(deals[d], InitiatorLink(o), m)]
      /\ \A i \in Items \ {o.first} : shop'.holder[i] = shop.holder[i]
  BY <1>1, JoinStep DEF TypeInv, o
<1>3. PICK d \in DOMAIN deals : \E m \in DOMAIN deals[d].chain :
        /\ deals[d].status = "PENDING"
        /\ deals' = [deals EXCEPT ![d] = appendChainLink(deals[d], InitiatorLink(o), m)]
  BY <1>2
<1>4. PICK m \in DOMAIN deals[d].chain :
        /\ deals[d].status = "PENDING"
        /\ deals' = [deals EXCEPT ![d] = appendChainLink(deals[d], InitiatorLink(o), m)]
  BY <1>3
<1> DEFINE e == appendChainLink(deals[d], InitiatorLink(o), m)
<1>5. deals[d] \in DealRecords /\ deals \in Seq(DealRecords)
  BY DEF TypeInv, TypeOK
<1>6. e.status = "PENDING" /\ Giving(e) = Giving(deals[d]) \cup {o.first}
  <2>1. InitiatorLink(o).giving = o.first
    BY DEF InitiatorLink
  <2> QED
    BY <1>1, <1>4, <1>5, <2>1, AppendedLink, AppendedGives
<1> HIDE DEF e
<1>7. BookOf(deals') = [BookOf(deals) EXCEPT ![d] = [status |-> e.status, gives |-> Giving(e)]]
  BY <1>4, <1>5, BookExcept DEF e
<1>8. /\ d \in DOMAIN BookOf(deals) /\ BookOf(deals)[d].status = "PENDING"
      /\ BookOf(deals)[d] = [status |-> "PENDING", gives |-> Giving(deals[d])]
  BY <1>4 DEF BookOf
<1>9. BookOf(deals') =
        [BookOf(deals) EXCEPT ![d] = [status |-> "PENDING", gives |-> @.gives \cup {o.first}]]
  BY <1>6, <1>7, <1>8
<1>10. Book!HandOver({o.first}) /\ Shown(shop') = Shown(shop)
  BY <1>1, <1>2, HandedOver DEF SavedAll
<1>11. Book!Grow(d, o.first)
  BY <1>8, <1>9, <1>10, LocksAgreed DEF Book!Grow
<1> QED
  BY <1>1, <1>8, <1>11

LEMMA OpenOpens ==
  ASSUME TypeInv, OneGiven, LocksFollowDeals', NEW k \in DOMAIN pending,
         FinishOffer(k), OpenDeal(pending[k])
  PROVE  \E S \in SUBSET Items : Book!Open(S)
<1> DEFINE o == pending[k]
           e == [status |-> "PENDING", initiator |-> o.by,
                 chain |-> <<InitiatorLink(o), OwnerLink(o)>>]
<1>1. /\ o \in Offers /\ TargetHolder(o) \in Users
      /\ InitiatorLink(o) \in Links /\ OwnerLink(o) \in Links
      /\ o.first \in Items /\ o.target \in Items /\ o.gives = {o.first}
  BY OfferParts DEF TypeInv, FinishOffer, Offers, OneGiven
<1> HIDE DEF o
<1>2. /\ SavedAll /\ deals' = Append(deals, e)
      /\ \A i \in Items \ o.gives : shop'.holder[i] = shop.holder[i]
  BY <1>1, OpenStep DEF TypeInv, o
<1>3. DOMAIN e.chain = {1, 2} /\ e.chain[1].giving = o.first /\ e.chain[2].giving = o.target
  BY DEF InitiatorLink, OwnerLink
<1>4. e.status = "PENDING"
  OBVIOUS
<1>5. e \in DealRecords
  <2>1. <<InitiatorLink(o), OwnerLink(o)>> \in Seq(Links) /\ o.by \in Users
    BY <1>1 DEF Offers
  <2> QED
    BY <2>1 DEF DealRecords, DealStatus
<1> HIDE DEF e
<1>6. Giving(e) = {o.first, o.target}
  BY <1>3 DEF Giving
<1>7. BookOf(deals') = Append(BookOf(deals), [status |-> "PENDING", gives |-> {o.first, o.target}])
  BY <1>2, <1>4, <1>5, <1>6, BookAppend DEF TypeInv, TypeOK
<1>8. Book!HandOver({o.first, o.target}) /\ Shown(shop') = Shown(shop)
  <2>1. Shown(shop') = Shown(shop) /\ \A i \in Items \ {o.first, o.target} : shop'.holder[i] = shop.holder[i]
    BY <1>1, <1>2 DEF SavedAll
  <2> QED
    BY <1>1, <2>1, HandedOver
<1>9. Book!Open({o.first, o.target})
  BY <1>7, <1>8, LocksAgreed DEF Book!Open
<1> QED
  BY <1>1, <1>9

LEMMA AnswerAnswers ==
  ASSUME TypeInv, LocksFollowDeals', NEW k \in DOMAIN deals, Confirm(k) \/ Cancel(k)
  PROVE  k \in DOMAIN BookOf(deals) /\ (Book!Agree(k) \/ Book!Drop(k))
<1>1. deals[k] \in DealRecords /\ deals \in Seq(DealRecords)
  BY DEF TypeInv, TypeOK
<1>2. /\ k \in DOMAIN BookOf(deals)
      /\ BookOf(deals)[k] = [status |-> deals[k].status, gives |-> Giving(deals[k])]
  BY DEF BookOf
<1>3. CASE Confirm(k)
  <2> DEFINE e == Closed(deals[k], "ACTIVE", "ACCEPTED")
  <2>1. e.status = "ACTIVE" /\ Giving(e) = Giving(deals[k])
    BY <1>1, ClosedType, ClosedGives DEF DealStatus, LinkStatus
  <2> HIDE DEF e
  <2>2. /\ SavedAll /\ deals[k].status = "PENDING" /\ deals' = [deals EXCEPT ![k] = e]
        /\ shop'.holder = shop.holder
    BY <1>3, ConfirmStep DEF TypeInv, e
  <2>3. BookOf(deals') = [BookOf(deals) EXCEPT ![k] = [status |-> "ACTIVE", gives |-> Giving(deals[k])]]
    <3>1. BookOf([deals EXCEPT ![k] = e]) =
            [BookOf(deals) EXCEPT ![k] = [status |-> e.status, gives |-> Giving(e)]]
      BY <1>1, BookExcept
    <3>2. deals' = [deals EXCEPT ![k] = e]
      BY <2>2
    <3> QED
      BY <2>1, <3>1, <3>2
  <2>4. BookOf(deals') = [BookOf(deals) EXCEPT ![k] = [status |-> "ACTIVE", gives |-> @.gives]]
    BY <1>2, <2>3
  <2>5. Shown(shop') = Shown(shop) /\ Away(shop') = Away(shop)
    BY <2>2 DEF SavedAll, Away
  <2>6. Book!Agree(k)
    BY <1>2, <2>2, <2>4, <2>5, LocksAgreed DEF Book!Agree
  <2> QED
    BY <1>2, <2>6
<1>4. CASE Cancel(k)
  <2> DEFINE e == Closed(deals[k], "CANCELLED", "DECLINED")
  <2>1. e.status = "CANCELLED" /\ Giving(e) = Giving(deals[k])
    BY <1>1, ClosedType, ClosedGives DEF DealStatus, LinkStatus
  <2> HIDE DEF e
  <2>2. /\ SavedAll /\ deals[k].status \in {"PENDING", "ACTIVE"} /\ deals' = [deals EXCEPT ![k] = e]
        /\ \A i \in Items : shop'.holder[i] =
             IF i \in Giving(deals[k]) \cap Shown(shop) THEN Author[i] ELSE shop.holder[i]
    BY <1>4, CancelStep DEF TypeInv, e
  <2>3. BookOf(deals') = [BookOf(deals) EXCEPT ![k] = [status |-> "CANCELLED", gives |-> Giving(deals[k])]]
    <3>1. BookOf([deals EXCEPT ![k] = e]) =
            [BookOf(deals) EXCEPT ![k] = [status |-> e.status, gives |-> Giving(e)]]
      BY <1>1, BookExcept
    <3>2. deals' = [deals EXCEPT ![k] = e]
      BY <2>2
    <3> QED
      BY <2>1, <3>1, <3>2
  <2>4. BookOf(deals') = [BookOf(deals) EXCEPT ![k] = [status |-> "CANCELLED", gives |-> @.gives]]
    BY <1>2, <2>3
  <2>5. Shown(shop') = Shown(shop)
    BY <2>2 DEF SavedAll
  <2>6. Away(shop') = Away(shop) \ Giving(deals[k])
    BY <2>2, <2>5 DEF Away, Shown
  <2>7. Book!Drop(k)
    BY <1>2, <2>2, <2>4, <2>5, <2>6, LocksAgreed DEF Book!Drop
  <2> QED
    BY <1>2, <2>7
<1> QED
  BY <1>3, <1>4

LEMMA DeleteWithdraws ==
  ASSUME TypeInv, NEW i \in Items, Delete(i)
  PROVE  Book!Withdraw(i)
<1>1. /\ Shown(shop') = Shown(shop) \ {i} /\ shop'.locked = shop.locked \ {i} /\ i \notin shop.locked
      /\ \A j \in Items \ {i} : shop'.holder[j] = shop.holder[j]
  BY DeleteMoves
<1>2. i \in Shown(shop) \ shop.locked /\ deals' = deals
  BY DEF Delete
<1>3. Away(shop') = Away(shop) \ {i}
  BY <1>1 DEF Away, Shown
<1>4. shop'.locked = shop.locked
  BY <1>1
<1>5. BookOf(deals') = BookOf(deals)
  BY <1>2
<1> QED
  BY <1>1, <1>2, <1>3, <1>4, <1>5 DEF Book!Withdraw

LEMMA ResetWipes ==
  ASSUME TypeInv, Reset
  PROVE  Book!Wipe
<1>1. /\ Shown(shop') = Shown(shop) /\ shop'.locked = {}
      /\ \A i \in Shown(shop) : shop'.holder[i] = Author[i]
  BY ResetMoves
<1>2. Away(shop') = {}
  BY <1>1 DEF Away
<1>3. BookOf(deals') = <<>>
  BY DEF Reset, BookOf
<1> QED
  BY <1>1, <1>2, <1>3 DEF Book!Wipe

\* A reload shows every built-in item again, those deleted with their author.
LEMMA ReloadRestocks ==
  ASSUME QuietInv, LocksFollowDeals', Reload
  PROVE  Book!Restock
<1> USE DEF QuietInv
<1> DEFINE loaded == applyPersistedState(initialMockItems, storedItems)
<1>1. /\ Shown(shop') = Base /\ shop'.holder = loaded.holder
      /\ \A i \in Items : loaded.holder[i] =
           IF i \in Base \cap Shown(storedItems) THEN storedItems.holder[i]
           ELSE initialMockItems.holder[i]
      /\ deals' = storedDeals.deals
  BY ReloadMoves
<1>2. deals' = deals /\ \A i \in Base \cap Shown(shop) : loaded.holder[i] = shop.holder[i]
  BY <1>1 DEF ReloadLosesNothing
<1> HIDE DEF loaded
<1>3. \A i \in Base : initialMockItems.holder[i] = Author[i]
  BY DEF initialMockItems, Items
<1>4. Shown(shop) \subseteq Base /\ Shown(storedItems) \subseteq Shown(shop) /\ Base \subseteq Items
  BY DEF NothingHidden, Items
<1>5. \A i \in Base \ Shown(shop) : shop'.holder[i] = Author[i]
  BY <1>1, <1>3, <1>4
<1>6. \A i \in Shown(shop) : shop'.holder[i] = shop.holder[i]
  BY <1>1, <1>2, <1>4
<1>7. Away(shop') = Away(shop)
  BY <1>1, <1>4, <1>5, <1>6 DEF Away
<1>8. Shown(shop) \subseteq Shown(shop') /\ BookOf(deals') = BookOf(deals)
  BY <1>1, <1>2, <1>4
<1> QED
  BY <1>7, <1>8, LocksAgreed DEF Book!Restock

LEMMA BookStep ==
  ASSUME QuietInv, OneGiven, LocksFollowDeals', Quiet, [Next]_vars
  PROVE  [Book!BookNext]_Book!bookVars
<1> USE DEF QuietInv
<1>1. ASSUME NEW k \in DOMAIN pending, FinishOffer(k)
      PROVE  Book!BookNext
  <2>1. CASE JoinDeal(pending[k])
    BY <1>1, <2>1, JoinGrows DEF Book!BookNext
  <2>2. CASE OpenDeal(pending[k])
    BY <1>1, <2>2, OpenOpens DEF Book!BookNext
  <2> QED
    BY <1>1, <2>1, <2>2 DEF FinishOffer
<1>2. ASSUME NEW k \in DOMAIN deals, Confirm(k) \/ Cancel(k)
      PROVE  Book!BookNext
  BY <1>2, AnswerAnswers DEF Book!BookNext
<1>3. ASSUME NEW i \in Items, Delete(i)
      PROVE  Book!BookNext
  BY <1>3, DeleteWithdraws DEF Book!BookNext
<1>4. CASE Reset
  BY <1>4, ResetWipes DEF Book!BookNext
<1>5. CASE Reload
  BY <1>5, ReloadRestocks DEF Book!BookNext
<1>6. ASSUME UNCHANGED <<deals, shop>>
      PROVE  UNCHANGED Book!bookVars
  BY <1>6 DEF Book!bookVars, BookOf, Away, Shown
<1> QED
  BY <1>1, <1>2, <1>3, <1>4, <1>5, <1>6, QuietSteps

\* The chains, tabs, timers, locks and storage of the client implement the book of
\* promises, as long as no item is created or edited and one item is selected.
THEOREM ClientKeepsTheBook ==
  ASSUME Quiet, Single
  PROVE  Spec => KeepsTheBook
<1>1. Init => Book!BookInit
  <2> SUFFICES ASSUME Init PROVE Book!BookInit
    OBVIOUS
  <2>1. deals = <<>> /\ shop = initialMockItems
    BY DEF Init
  <2>2. BookOf(<<>>) = <<>> /\ initialMockItems.locked = {} /\ Away(initialMockItems) = {}
    BY BuiltInProper DEF BookOf, Away, initialMockItems, Items
  <2>3. Shown(initialMockItems) \subseteq Items
    BY DEF Shown
  <2> QED
    BY <2>1, <2>2, <2>3 DEF Book!BookInit
<1>2. Init => OneGiven
  BY DEF Init, OneGiven
<1>3. QuietInv /\ OneGiven /\ [Next]_vars => OneGiven'
  BY OneGivenStep DEF QuietInv
<1>4. QuietInv /\ QuietInv' /\ OneGiven /\ [Next]_vars => [Book!BookNext]_Book!bookVars
  BY BookStep DEF QuietInv
<1> QED
  BY <1>1, <1>2, <1>3, <1>4, QuietInvariant, PTL DEF Spec, KeepsTheBook, Book!BookSpec

-----------------------------------------------------------------------------
(* What the book guarantees, the client does: rights handed over come back. *)

Alive == {"PENDING", "ACTIVE"}

\* An item is promised if a deal that counts promises it.
LEMMA PromisedIn ==
  ASSUME NEW b, NEW statuses, NEW i
  PROVE  i \in Book!Promised(b, statuses)
           <=> \E k \in DOMAIN b : b[k].status \in statuses /\ i \in b[k].gives
  BY DEF Book!Promised

\* The book is a sequence.
LEMMA BookIsSequence ==
  ASSUME NEW ds \in Seq(DealRecords)
  PROVE  \E T : BookOf(ds) \in Seq(T)
<1> DEFINE T == {BookOf(ds)[k] : k \in DOMAIN ds}
<1>1. DOMAIN ds = 1 .. Len(ds) /\ Len(ds) \in Nat
  OBVIOUS
<1>2. BookOf(ds) \in [1 .. Len(ds) -> T]
  BY <1>1 DEF BookOf
<1>3. BookOf(ds) \in Seq(T)
  BY <1>1, <1>2
<1> QED
  BY <1>3

\* No step of the book leaves an item away that nobody promises any more.
LEMMA PromisesKept ==
  ASSUME TypeInv, [Book!BookNext]_Book!bookVars, AwayMeansPromised
  PROVE  AwayMeansPromised'
<1> DEFINE b == BookOf(deals)
           c == BookOf(deals')
           kept(i) == \E k \in DOMAIN b : b[k].status \in Alive /\ i \in b[k].gives
           kept2(i) == \E k \in DOMAIN c : c[k].status \in Alive /\ i \in c[k].gives
<1>1. \A i \in Away(shop) : kept(i)
  BY PromisedIsGiven, PromisedIn DEF AwayMeansPromised, Alive
<1>2. SUFFICES ASSUME NEW i \in Away(shop') PROVE kept2(i)
  <2>1. \A i \in Away(shop') : i \in GivenIn(deals', Alive)
    BY <1>2, PromisedIsGiven, PromisedIn
  <2> QED
    BY <2>1 DEF AwayMeansPromised, Alive
<1>3. ASSUME NEW S \in SUBSET Items, Book!Open(S) PROVE kept2(i)
  <2>1. PICK T : b \in Seq(T)
    BY BookIsSequence DEF TypeInv, TypeOK
  <2>2. c = Append(b, [status |-> "PENDING", gives |-> S]) /\ (i \in Away(shop) \/ i \in S)
    BY <1>3 DEF Book!Open, Book!HandOver
  <2> HIDE DEF b, c
  <2>3. /\ DOMAIN c = 1 .. Len(b) + 1 /\ DOMAIN b = 1 .. Len(b) /\ Len(b) \in Nat
        /\ \A k \in 1 .. Len(b) : c[k] = b[k]
        /\ c[Len(b) + 1].status = "PENDING" /\ c[Len(b) + 1].gives = S
    BY <2>1, <2>2
  <2> QED
    BY <1>1, <2>2, <2>3 DEF Alive
<1>4. ASSUME NEW k \in DOMAIN b, NEW j \in Items, Book!Grow(k, j) PROVE kept2(i)
  <2>1. /\ c = [b EXCEPT ![k] = [status |-> "PENDING", gives |-> @.gives \cup {j}]]
        /\ i \in Away(shop) \/ i = j
    BY <1>4 DEF Book!Grow, Book!HandOver
  <2> HIDE DEF b, c
  <2>2. /\ DOMAIN c = DOMAIN b /\ \A n \in DOMAIN b : n # k => c[n] = b[n]
        /\ c[k].status = "PENDING" /\ c[k].gives = b[k].gives \cup {j}
    BY <2>1
  <2> QED
    BY <1>1, <2>1, <2>2 DEF Alive
<1>5. ASSUME NEW k \in DOMAIN b, Book!Agree(k) PROVE kept2(i)
  <2>1. c = [b EXCEPT ![k] = [status |-> "ACTIVE", gives |-> @.gives]] /\ i \in Away(shop)
    BY <1>5 DEF Book!Agree
  <2> HIDE DEF b, c
  <2>2. /\ DOMAIN c = DOMAIN b /\ \A n \in DOMAIN b : n # k => c[n] = b[n]
        /\ c[k].status = "ACTIVE" /\ c[k].gives = b[k].gives
    BY <2>1
  <2> QED
    BY <1>1, <2>1, <2>2 DEF Alive
<1>6. ASSUME NEW k \in DOMAIN b, Book!Drop(k) PROVE kept2(i)
  <2>1. /\ c = [b EXCEPT ![k] = [status |-> "CANCELLED", gives |-> @.gives]]
        /\ i \in Away(shop) /\ i \notin b[k].gives
    BY <1>6 DEF Book!Drop
  <2> HIDE DEF b, c
  <2>2. DOMAIN c = DOMAIN b /\ \A n \in DOMAIN b : n # k => c[n] = b[n]
    BY <2>1
  <2> QED
    BY <1>1, <2>1, <2>2
<1>7. CASE Book!Wipe
  BY <1>7 DEF Book!Wipe
<1>8. CASE Book!Restock \/ (\E j \in Items : Book!Withdraw(j)) \/ UNCHANGED Book!bookVars
  <2>1. c = b /\ i \in Away(shop)
    BY <1>8 DEF Book!Restock, Book!Withdraw, Book!bookVars
  <2> HIDE DEF b, c
  <2> QED
    BY <1>1, <2>1
<1> QED
  BY <1>3, <1>4, <1>5, <1>6, <1>7, <1>8 DEF Book!BookNext

\* An item is with somebody else than its author only while a deal that is not
\* cancelled gives it away, however offers complete, chains grow, deals are
\* answered and pages reloaded.  It follows from the book alone.
THEOREM AwayIsPromised ==
  ASSUME Quiet, Single
  PROVE  Spec => []AwayMeansPromised
<1>1. Init => AwayMeansPromised
  <2> SUFFICES ASSUME Init PROVE AwayMeansPromised
    OBVIOUS
  <2>1. Away(initialMockItems) = {} /\ shop = initialMockItems
    BY BuiltInProper DEF Init, Away, initialMockItems, Items
  <2> QED
    BY <2>1 DEF AwayMeansPromised
<1>2. TypeInv /\ [Book!BookNext]_Book!bookVars /\ AwayMeansPromised => AwayMeansPromised'
  BY PromisesKept
<1>3. Spec => [][Book!BookNext]_Book!bookVars
  BY ClientKeepsTheBook, PTL DEF KeepsTheBook, Book!BookSpec
<1>4. Spec => []TypeInv
  BY QuietInvariant, PTL DEF QuietInv
<1> QED
  BY <1>1, <1>2, <1>3, <1>4, PTL DEF Spec
=============================================================================
