------------------------ MODULE BrowserDeals_proofs ------------------------
(* Proofs about BrowserDeals, for every value of its constants. *)
EXTENDS BrowserDeals, RemovalLemmas, FiniteSetTheorems, TLAPS

-----------------------------------------------------------------------------
(* Sequences. *)

\* t is s with e inserted: those behind it are shifted.
Shifted(t, s, i, e) ==
  /\ Len(t) = Len(s) + 1
  /\ \A j \in 1 .. Len(s) + 1 :
       t[j] = IF j < i THEN s[j] ELSE IF j = i THEN e ELSE s[j - 1]

LEMMA InsertAtType ==
  ASSUME NEW S, NEW s \in Seq(S), NEW e \in S, NEW i \in 1 .. Len(s) + 1
  PROVE  InsertAt(s, i, e) \in Seq(S) /\ Shifted(InsertAt(s, i, e), s, i, e)
<1> DEFINE before == SubSeq(s, 1, i - 1)
           after  == SubSeq(s, i, Len(s))
           start  == before \o <<e>>
<1>1. /\ before \in Seq(S) /\ Len(before) = i - 1
      /\ \A j \in 1 .. i - 1 : before[j] = s[j]
  BY SubSeqProperties
<1>2. /\ after \in Seq(S) /\ Len(after) = Len(s) - i + 1
      /\ \A j \in 1 .. Len(s) - i + 1 : after[j] = s[i + j - 1]
  BY SubSeqProperties
<1> HIDE DEF before, after
<1>3. <<e>> \in Seq(S) /\ Len(<<e>>) = 1 /\ <<e>>[1] = e
  OBVIOUS
<1>4. /\ start \in Seq(S) /\ Len(start) = i
      /\ \A j \in 1 .. i : start[j] = IF j < i THEN s[j] ELSE e
  <2>1. /\ start \in Seq(S) /\ Len(start) = i
        /\ \A j \in 1 .. i : start[j] = IF j <= i - 1 THEN before[j] ELSE <<e>>[j - (i - 1)]
    BY <1>1, <1>3, ConcatProperties
  <2> HIDE DEF start
  <2> QED
    BY <2>1, <1>1, <1>3
<1> HIDE DEF start
<1>5. /\ start \o after \in Seq(S) /\ Len(start \o after) = Len(s) + 1
      /\ \A j \in 1 .. Len(s) + 1 :
           (start \o after)[j] = IF j <= i THEN start[j] ELSE after[j - i]
  BY <1>2, <1>4, ConcatProperties
<1>6. \A j \in 1 .. Len(s) + 1 :
        (start \o after)[j] = IF j < i THEN s[j] ELSE IF j = i THEN e ELSE s[j - 1]
  BY <1>2, <1>4, <1>5
<1> QED
  BY <1>5, <1>6 DEF InsertAt, Shifted, start, before, after

-----------------------------------------------------------------------------
(* Chains. *)

\* appendChainLink keeps every link but for what the next one receives, and asks
\* that one anew.
LEMMA AppendedLink ==
  ASSUME NEW d \in DealRecords, NEW link \in Links, NEW m \in DOMAIN d.chain
  PROVE  LET e == appendChainLink(d, link, m)
         IN  /\ e \in DealRecords
             /\ e.status = d.status
             /\ Len(e.chain) = Len(d.chain) + 1
             /\ \A j \in DOMAIN e.chain :
                  \/ e.chain[j] = link
                  \/ \E n \in DOMAIN d.chain :
                       /\ e.chain[j].giving = d.chain[n].giving
                       /\ e.chain[j].status = "DECLINED" => d.chain[n].status = "DECLINED"
                       /\ e.chain[j].status = "ACCEPTED" => e.chain[j] = d.chain[n]
             /\ \E j \in DOMAIN e.chain : e.chain[j] = link
             /\ \A n \in DOMAIN d.chain : \E j \in DOMAIN e.chain :
                  /\ e.chain[j].giving = d.chain[n].giving
                  /\ d.chain[n].status = "PENDING" => e.chain[j].status = "PENDING"
<1> DEFINE c    == d.chain
           next == IF m = Len(c) THEN 1 ELSE m + 1
           told == [c[next] EXCEPT !.receiving = link.giving,
                                   !.status = IF @ = "ACCEPTED" THEN "PENDING" ELSE @]
           base == [c EXCEPT ![next] = told]
           grown == InsertAt(base, m + 1, link)
           e    == appendChainLink(d, link, m)
<1>1. c \in Seq(Links) /\ m \in 1 .. Len(c) /\ next \in 1 .. Len(c)
  BY DEF DealRecords
<1> HIDE DEF next
<1>2. /\ told \in Links /\ told.giving = c[next].giving
      /\ told.status = IF c[next].status = "ACCEPTED" THEN "PENDING" ELSE c[next].status
  <2>1. c[next] \in Links
    BY <1>1
  <2> QED
    BY <2>1 DEF Links, LinkStatus
<1> HIDE DEF told
<1>3. /\ base \in Seq(Links) /\ Len(base) = Len(c)
      /\ \A n \in 1 .. Len(c) : base[n] = IF n = next THEN told ELSE c[n]
  BY <1>1, <1>2
<1>4. e = [d EXCEPT !.chain = grown]
  BY DEF appendChainLink, next, told
<1> HIDE DEF base
<1>5. /\ grown \in Seq(Links) /\ Len(grown) = Len(c) + 1
      /\ \A j \in 1 .. Len(c) + 1 :
           grown[j] = IF j < m + 1 THEN base[j] ELSE IF j = m + 1 THEN link ELSE base[j - 1]
  <2>1. m + 1 \in 1 .. Len(base) + 1
    BY <1>1, <1>3
  <2>2. grown \in Seq(Links) /\ Shifted(grown, base, m + 1, link)
    BY <2>1, <1>3, InsertAtType
  <2> HIDE DEF grown
  <2> QED
    BY <2>2, <1>3 DEF Shifted
<1> HIDE DEF grown
<1>6. e \in DealRecords /\ e.status = d.status /\ e.chain = grown
  BY <1>4, <1>5 DEF DealRecords
<1>7. \A n \in DOMAIN c :
        /\ base[n].giving = c[n].giving
        /\ base[n].status = "DECLINED" => c[n].status = "DECLINED"
        /\ base[n].status = "ACCEPTED" => base[n] = c[n]
        /\ c[n].status = "PENDING" => base[n].status = "PENDING"
  BY <1>1, <1>2, <1>3
<1>8. \A j \in DOMAIN grown : grown[j] = link \/ \E n \in DOMAIN c : grown[j] = base[n]
  <2> SUFFICES ASSUME NEW j \in 1 .. Len(c) + 1
               PROVE  grown[j] = link \/ \E n \in DOMAIN c : grown[j] = base[n]
    BY <1>5
  <2>1. CASE j < m + 1
    BY <2>1, <1>1, <1>5
  <2>2. CASE j = m + 1
    BY <2>2, <1>1, <1>5
  <2>3. CASE j > m + 1
    <3>1. j - 1 \in DOMAIN c /\ grown[j] = base[j - 1]
      BY <2>3, <1>1, <1>5
    <3> QED
      BY <3>1
  <2> QED
    BY <2>1, <2>2, <2>3, <1>1
<1>9. \E j \in DOMAIN grown : grown[j] = link
  <2>1. m + 1 \in DOMAIN grown /\ grown[m + 1] = link
    BY <1>1, <1>5
  <2> QED
    BY <2>1
<1>10. \A n \in DOMAIN c : \E j \in DOMAIN grown : grown[j] = base[n]
  <2> SUFFICES ASSUME NEW n \in 1 .. Len(c)
               PROVE  \E j \in DOMAIN grown : grown[j] = base[n]
    BY <1>1
  <2>1. CASE n < m + 1
    <3>1. n \in DOMAIN grown /\ grown[n] = base[n]
      BY <2>1, <1>1, <1>5
    <3> QED
      BY <3>1
  <2>2. CASE n >= m + 1
    <3>1. n + 1 \in DOMAIN grown /\ grown[n + 1] = base[n]
      BY <2>2, <1>1, <1>5
    <3> QED
      BY <3>1
  <2> QED
    BY <2>1, <2>2, <1>1
<1> HIDE DEF e
<1>11. \A j \in DOMAIN e.chain :
         \/ e.chain[j] = link
         \/ \E n \in DOMAIN c :
              /\ e.chain[j].giving = c[n].giving
              /\ e.chain[j].status = "DECLINED" => c[n].status = "DECLINED"
              /\ e.chain[j].status = "ACCEPTED" => e.chain[j] = c[n]
  BY <1>6, <1>7, <1>8
<1>12. \A n \in DOMAIN c : \E j \in DOMAIN e.chain :
         /\ e.chain[j].giving = c[n].giving
         /\ c[n].status = "PENDING" => e.chain[j].status = "PENDING"
  BY <1>6, <1>7, <1>10
<1> QED
  BY <1>5, <1>6, <1>9, <1>11, <1>12 DEF e

-----------------------------------------------------------------------------
(* Catalogues. *)

\* Only what is on show is locked.
Proper(c) == c \in Catalogues /\ c.locked \subseteq Shown(c)

Agreed(ds) == GivenIn(ds, {"ACTIVE"})

LEMMA GivenType ==
  ASSUME NEW ds \in Seq(DealRecords), NEW statuses
  PROVE  GivenIn(ds, statuses) \subseteq Items
<1> SUFFICES ASSUME NEW k \in DOMAIN ds, NEW m \in DOMAIN ds[k].chain
             PROVE  ds[k].chain[m].giving \in Items
  BY DEF GivenIn, DealsIn, Giving
<1>1. ds[k].chain \in Seq(Links)
  <2>1. ds[k] \in DealRecords
    OBVIOUS
  <2> QED
    BY <2>1 DEF DealRecords
<1>2. ds[k].chain[m] \in Links
  BY <1>1
<1> QED
  BY <1>2 DEF Links

\* syncItemLockStates moves nothing and locks what the active deals give.
LEMMA SyncLocks ==
  ASSUME NEW c, Proper(c), NEW ds \in Seq(DealRecords)
  PROVE  LET e == syncItemLockStates(c, ds)
         IN  /\ Proper(e) /\ e.holder = c.holder /\ Shown(e) = Shown(c)
             /\ e.locked = Agreed(ds) \cap Shown(c)
<1> DEFINE given == Agreed(ds) \cap Shown(c)
<1>1. syncItemLockStates(c, ds) = [c EXCEPT !.locked = given]
  BY DEF syncItemLockStates, lockItems, unlockItems, Agreed, Shown, Proper, Catalogues
<1>2. given \in SUBSET Items
  BY DEF Shown
<1> HIDE DEF given
<1>3. [c EXCEPT !.locked = given] \in Catalogues
  BY <1>2 DEF Proper, Catalogues
<1>4. [c EXCEPT !.locked = given].holder = c.holder /\ [c EXCEPT !.locked = given].locked = given
  BY DEF Proper, Catalogues
<1> QED
  BY <1>1, <1>3, <1>4 DEF Proper, Shown, given

\* A transfer changes holders, of items on show only.
LEMMA TransferMoves ==
  ASSUME NEW c, Proper(c), NEW S, NEW u \in Users
  PROVE  LET e == transferRights(c, S, u)
         IN  /\ Proper(e) /\ e.locked = c.locked /\ Shown(e) = Shown(c)
             /\ \A i \in Items : e.holder[i] = IF i \in S \cap Shown(c) THEN u ELSE c.holder[i]
<1> DEFINE to == [i \in Items |-> IF i \in S \cap Shown(c) THEN u ELSE c.holder[i]]
           e  == transferRights(c, S, u)
<1>1. to \in [Items -> Users \cup {Gone}]
  BY DEF Proper, Catalogues
<1>2. e = [c EXCEPT !.holder = to]
  BY DEF transferRights
<1>3. \A i \in Items : to[i] = IF i \in S \cap Shown(c) THEN u ELSE c.holder[i]
  OBVIOUS
<1> HIDE DEF to, e
<1>4. e \in Catalogues /\ e.holder = to /\ e.locked = c.locked
  BY <1>1, <1>2 DEF Proper, Catalogues
<1>5. Shown(e) = Shown(c)
  BY <1>3, <1>4, SentinelAssumption DEF Shown
<1> QED
  BY <1>3, <1>4, <1>5 DEF Proper, e

\* Items that come back are with their author and unlocked.
LEMMA RevertMoves ==
  ASSUME NEW c, Proper(c), NEW S
  PROVE  LET e == revertRights(c, S)
         IN  /\ Proper(e) /\ e.locked = c.locked \ S /\ Shown(e) = Shown(c)
             /\ \A i \in Items : e.holder[i] = IF i \in S \cap Shown(c) THEN Author[i]
                                                                       ELSE c.holder[i]
<1> DEFINE back == [i \in Items |-> IF i \in S \cap Shown(c) THEN Author[i] ELSE c.holder[i]]
           e    == revertRights(c, S)
<1>1. back \in [Items -> Users \cup {Gone}]
  BY CatalogueAssumption DEF Proper, Catalogues
<1>2. e = [holder |-> back, locked |-> c.locked \ S]
  BY DEF revertRights
<1>3. \A i \in Items : back[i] = IF i \in S \cap Shown(c) THEN Author[i] ELSE c.holder[i]
  OBVIOUS
<1> HIDE DEF back, e
<1>4. e \in Catalogues /\ e.holder = back /\ e.locked = c.locked \ S
  BY <1>1, <1>2 DEF Proper, Catalogues
<1>5. Shown(e) = Shown(c)
  BY <1>3, <1>4, SentinelAssumption, CatalogueAssumption DEF Shown
<1> QED
  BY <1>3, <1>4, <1>5 DEF Proper, e

\* What was saved is laid over the items there are; none comes or goes.
LEMMA PersistedOverlay ==
  ASSUME NEW c, Proper(c), NEW s, Proper(s)
  PROVE  LET e == applyPersistedState(c, s)
         IN  /\ Proper(e) /\ Shown(e) = Shown(c)
             /\ e.locked = (c.locked \ Shown(s)) \cup (s.locked \cap Shown(c))
             /\ \A i \in Items : e.holder[i] = IF i \in Shown(c) \cap Shown(s)
                                               THEN s.holder[i] ELSE c.holder[i]
<1> DEFINE with == [i \in Items |-> IF i \in Shown(c) \cap Shown(s) THEN s.holder[i]
                                                                   ELSE c.holder[i]]
           e    == applyPersistedState(c, s)
<1>1. with \in [Items -> Users \cup {Gone}]
  BY DEF Proper, Catalogues
<1>2. e = [holder |-> with, locked |-> (c.locked \ Shown(s)) \cup (s.locked \cap Shown(c))]
  BY DEF applyPersistedState
<1>3. \A i \in Items : with[i] = IF i \in Shown(c) \cap Shown(s) THEN s.holder[i]
                                                                ELSE c.holder[i]
  OBVIOUS
<1> HIDE DEF with, e
<1>4. /\ e \in Catalogues /\ e.holder = with
      /\ e.locked = (c.locked \ Shown(s)) \cup (s.locked \cap Shown(c))
  BY <1>1, <1>2 DEF Proper, Catalogues
<1>5. Shown(e) = Shown(c)
  BY <1>3, <1>4 DEF Shown
<1> QED
  BY <1>3, <1>4, <1>5 DEF Proper, e

\* The built-in catalogue and an empty save.
LEMMA BuiltInProper ==
  /\ Proper(initialMockItems) /\ Shown(initialMockItems) = Base
  /\ Proper(NothingSaved) /\ Shown(NothingSaved) = {}
<1>1. Base \subseteq Items /\ Author \in [Items -> Users] /\ Gone \notin Users
  BY CatalogueAssumption, SentinelAssumption DEF Items
<1>2. initialMockItems \in Catalogues /\ NothingSaved \in Catalogues
  BY <1>1 DEF initialMockItems, NothingSaved, Catalogues
<1>3. Shown(initialMockItems) = Base
  BY <1>1 DEF initialMockItems, Shown
<1>4. Shown(NothingSaved) = {}
  BY DEF NothingSaved, Shown
<1> QED
  BY <1>2, <1>3, <1>4 DEF Proper, initialMockItems, NothingSaved

\* Locking moves nothing.
LEMMA LockMoves ==
  ASSUME NEW c, Proper(c), NEW S
  PROVE  LET e == lockItems(c, S)
         IN  Proper(e) /\ e.holder = c.holder /\ Shown(e) = Shown(c)
  BY DEF lockItems, Proper, Catalogues, Shown

-----------------------------------------------------------------------------
(* What the actions do. *)

\* The three catalogues are proper, and itemApi's never loses a built-in item.
LocksShown ==
  Proper(shop) /\ Proper(mock) /\ Proper(storedItems) /\ Base \subseteq Shown(mock)

\* The deals and items a handler of DealStore leaves, on the page and stored.
SavedAll ==
  /\ deals' \in Seq(DealRecords) /\ storedDeals' = Saved(deals')
  /\ storedItems' = shop' /\ Proper(shop') /\ Shown(shop') = Shown(shop)
  /\ shop'.locked = Agreed(deals') \cap Shown(shop')

\* An offer about to complete has a holder for its target, and makes proper links.
LEMMA OfferParts ==
  ASSUME TypeOK, NEW k \in DOMAIN pending, pending[k].kind = "offer"
  PROVE  /\ pending[k] \in Offers
         /\ TargetHolder(pending[k]) \in Users
         /\ InitiatorLink(pending[k]) \in Links
         /\ OwnerLink(pending[k]) \in Links
<1> DEFINE o == pending[k]
<1>1. o \in Offers \cup Edits \cup Creates
  BY DEF TypeOK
<1>2. o \in Offers
  BY <1>1 DEF Edits, Creates
<1>3. TargetHolder(o) \in Users
  <2>1. CASE o.holder = Live
    <3>1. o.target \in Items /\ shop.holder[o.target] # Gone
      BY <2>1 DEF TypeOK, Shown
    <3>2. shop.holder[o.target] \in Users \cup {Gone}
      BY <3>1 DEF TypeOK, Catalogues
    <3> QED
      BY <2>1, <3>1, <3>2 DEF TargetHolder
  <2>2. CASE o.holder # Live
    BY <1>2, <2>2 DEF TargetHolder, Offers
  <2> QED
    BY <2>1, <2>2
<1> QED
  BY <1>2, <1>3 DEF InitiatorLink, OwnerLink, Links, LinkStatus, Offers

LEMMA JoinStep ==
  ASSUME TypeOK, LocksShown, NEW o \in Offers, JoinDeal(o),
         InitiatorLink(o) \in Links, TargetHolder(o) \in Users
  PROVE  /\ SavedAll
         /\ \E d \in DOMAIN deals : \E m \in DOMAIN deals[d].chain :
              /\ deals[d].status = "PENDING"
              /\ deals' = [deals EXCEPT ![d] = appendChainLink(deals[d], InitiatorLink(o), m)]
         /\ \A i \in Items \ {o.first} : shop'.holder[i] = shop.holder[i]
<1>1. PICK d \in Mentioning(o) : \E m \in Behind(deals[d], o) :
        LET joined == [deals EXCEPT ![d] = appendChainLink(@, InitiatorLink(o), m)]
        IN  Save(joined, transferRights(syncItemLockStates(shop, joined),
                                        {o.first}, TargetHolder(o)))
  BY DEF JoinDeal
<1>2. PICK m \in Behind(deals[d], o) :
        LET joined == [deals EXCEPT ![d] = appendChainLink(@, InitiatorLink(o), m)]
        IN  Save(joined, transferRights(syncItemLockStates(shop, joined),
                                        {o.first}, TargetHolder(o)))
  BY <1>1
<1>3. d \in DOMAIN deals /\ deals[d].status = "PENDING" /\ deals[d] \in DealRecords
  BY DEF Mentioning, DealsIn, TypeOK
<1>4. m \in DOMAIN deals[d].chain
  BY DEF Behind
<1> DEFINE joined == [deals EXCEPT ![d] = appendChainLink(deals[d], InitiatorLink(o), m)]
           synced == syncItemLockStates(shop, joined)
           left   == transferRights(synced, {o.first}, TargetHolder(o))
<1>5. Save(joined, left)
  BY <1>2
<1>6. appendChainLink(deals[d], InitiatorLink(o), m) \in DealRecords
  BY <1>3, <1>4, AppendedLink
<1>7. joined \in Seq(DealRecords)
  BY <1>3, <1>6 DEF TypeOK
<1>8. deals' = joined
  BY <1>5 DEF Save
<1> HIDE DEF joined
<1>9. /\ Proper(synced) /\ synced.holder = shop.holder /\ Shown(synced) = Shown(shop)
      /\ synced.locked = Agreed(joined) \cap Shown(shop)
  BY <1>7, SyncLocks DEF LocksShown
<1> HIDE DEF synced
<1>10. /\ Proper(left) /\ left.locked = synced.locked /\ Shown(left) = Shown(synced)
       /\ \A i \in Items : left.holder[i] =
            IF i \in {o.first} \cap Shown(synced) THEN TargetHolder(o) ELSE synced.holder[i]
  BY <1>9, TransferMoves
<1> HIDE DEF left
<1>11. SavedAll
  BY <1>5, <1>7, <1>9, <1>10 DEF Save, SavedAll
<1>12. \A i \in Items \ {o.first} : shop'.holder[i] = shop.holder[i]
  BY <1>5, <1>9, <1>10 DEF Save
<1> QED
  BY <1>3, <1>4, <1>8, <1>11, <1>12 DEF joined

LEMMA OpenStep ==
  ASSUME TypeOK, LocksShown, NEW o \in Offers, OpenDeal(o),
         InitiatorLink(o) \in Links, OwnerLink(o) \in Links, TargetHolder(o) \in Users
  PROVE  /\ SavedAll
         /\ deals' = Append(deals, [status |-> "PENDING", initiator |-> o.by,
                                    chain |-> <<InitiatorLink(o), OwnerLink(o)>>])
         /\ \A i \in Items \ o.gives : shop'.holder[i] = shop.holder[i]
<1> DEFINE new    == [status |-> "PENDING", initiator |-> o.by,
                      chain |-> <<InitiatorLink(o), OwnerLink(o)>>]
           opened == Append(deals, new)
           handed == IF o.type = "CHAIN" THEN transferRights(shop, o.gives, TargetHolder(o))
                                         ELSE shop
           left   == syncItemLockStates(handed, opened)
<1>1. Save(opened, left)
  BY DEF OpenDeal
<1>2. <<InitiatorLink(o), OwnerLink(o)>> \in Seq(Links) /\ o.by \in Users
  BY DEF Offers
<1>3. new \in DealRecords
  BY <1>2 DEF DealRecords, DealStatus
<1>4. opened \in Seq(DealRecords) /\ deals' = opened
  BY <1>1, <1>3 DEF TypeOK, Save
<1> HIDE DEF opened, new
<1>5. /\ Proper(handed) /\ Shown(handed) = Shown(shop)
      /\ \A i \in Items \ o.gives : handed.holder[i] = shop.holder[i]
  <2>1. CASE o.type = "CHAIN"
    BY <2>1, TransferMoves DEF LocksShown
  <2>2. CASE o.type # "CHAIN"
    BY <2>2 DEF LocksShown
  <2> QED
    BY <2>1, <2>2
<1> HIDE DEF handed
<1>6. /\ Proper(left) /\ left.holder = handed.holder /\ Shown(left) = Shown(handed)
      /\ left.locked = Agreed(opened) \cap Shown(handed)
  BY <1>4, <1>5, SyncLocks
<1> HIDE DEF left
<1>7. SavedAll
  BY <1>1, <1>4, <1>5, <1>6 DEF Save, SavedAll
<1>8. \A i \in Items \ o.gives : shop'.holder[i] = shop.holder[i]
  BY <1>1, <1>5, <1>6 DEF Save
<1> QED
  BY <1>4, <1>7, <1>8 DEF opened, new

\* Confirming and cancelling set a deal's status and all of its links'.
Closed(d, status, links) == [d EXCEPT !.status = status, !.chain = AllLinks(d, links)]

LEMMA ClosedType ==
  ASSUME NEW d \in DealRecords, NEW status \in DealStatus, NEW links \in LinkStatus
  PROVE  LET e == Closed(d, status, links)
         IN  /\ e \in DealRecords /\ e.status = status
             /\ DOMAIN e.chain = DOMAIN d.chain
             /\ \A m \in DOMAIN d.chain : /\ e.chain[m].status = links
                                          /\ e.chain[m].giving = d.chain[m].giving
<1> DEFINE c == d.chain
<1>1. c \in Seq(Links)
  BY DEF DealRecords
<1>2. \A m \in 1 .. Len(c) :
        /\ [c[m] EXCEPT !.status = links] \in Links
        /\ [c[m] EXCEPT !.status = links].status = links
        /\ [c[m] EXCEPT !.status = links].giving = c[m].giving
  <2> SUFFICES ASSUME NEW m \in 1 .. Len(c)
               PROVE  /\ [c[m] EXCEPT !.status = links] \in Links
                      /\ [c[m] EXCEPT !.status = links].status = links
                      /\ [c[m] EXCEPT !.status = links].giving = c[m].giving
    OBVIOUS
  <2>1. c[m] \in Links
    BY <1>1
  <2> QED
    BY <2>1 DEF Links
<1> DEFINE all == [m \in 1 .. Len(c) |-> [c[m] EXCEPT !.status = links]]
<1>3. DOMAIN c = 1 .. Len(c) /\ Len(c) \in Nat
  BY <1>1
<1>4. AllLinks(d, links) = all
  BY <1>3 DEF AllLinks
<1>5. all \in [1 .. Len(c) -> Links]
  BY <1>2
<1>6. all \in Seq(Links)
  BY <1>3, <1>5
<1> QED
  BY <1>2, <1>3, <1>4, <1>6 DEF Closed, DealRecords

LEMMA ConfirmStep ==
  ASSUME TypeOK, LocksShown, NEW k \in DOMAIN deals, Confirm(k)
  PROVE  /\ SavedAll
         /\ deals[k].status = "PENDING"
         /\ deals' = [deals EXCEPT ![k] = Closed(deals[k], "ACTIVE", "ACCEPTED")]
         /\ shop'.holder = shop.holder
<1> DEFINE agreed == [deals EXCEPT ![k] = Closed(deals[k], "ACTIVE", "ACCEPTED")]
           locked == lockItems(shop, Giving(deals[k]))
           left   == syncItemLockStates(locked, agreed)
<1>1. deals[k] \in DealRecords /\ deals \in Seq(DealRecords)
  BY DEF TypeOK
<1>2. agreed = [deals EXCEPT ![k].status = "ACTIVE",
                             ![k].chain = AllLinks(deals[k], "ACCEPTED")]
  BY <1>1 DEF Closed, DealRecords
<1>3. Save(agreed, left) /\ deals[k].status = "PENDING"
  BY <1>2 DEF Confirm, isRecipient
<1>4. Closed(deals[k], "ACTIVE", "ACCEPTED") \in DealRecords
  BY <1>1, ClosedType DEF DealStatus, LinkStatus
<1>5. agreed \in Seq(DealRecords) /\ deals' = agreed
  BY <1>1, <1>3, <1>4 DEF Save
<1> HIDE DEF agreed
<1>6. Proper(locked) /\ locked.holder = shop.holder /\ Shown(locked) = Shown(shop)
  BY LockMoves DEF LocksShown
<1> HIDE DEF locked
<1>7. /\ Proper(left) /\ left.holder = locked.holder /\ Shown(left) = Shown(locked)
      /\ left.locked = Agreed(agreed) \cap Shown(locked)
  BY <1>5, <1>6, SyncLocks
<1> HIDE DEF left
<1>8. SavedAll /\ shop'.holder = shop.holder
  BY <1>3, <1>5, <1>6, <1>7 DEF Save, SavedAll
<1> QED
  BY <1>3, <1>5, <1>8 DEF agreed

LEMMA CancelStep ==
  ASSUME TypeOK, LocksShown, NEW k \in DOMAIN deals, Cancel(k)
  PROVE  /\ SavedAll
         /\ deals[k].status \in {"PENDING", "ACTIVE"}
         /\ deals' = [deals EXCEPT ![k] = Closed(deals[k], "CANCELLED", "DECLINED")]
         /\ \A i \in Items : shop'.holder[i] =
              IF i \in Giving(deals[k]) \cap Shown(shop) THEN Author[i] ELSE shop.holder[i]
<1> DEFINE dropped == [deals EXCEPT ![k] = Closed(deals[k], "CANCELLED", "DECLINED")]
           back    == revertRights(shop, Giving(deals[k]))
           left    == syncItemLockStates(back, dropped)
<1>1. deals[k] \in DealRecords /\ deals \in Seq(DealRecords)
  BY DEF TypeOK
<1>2. dropped = [deals EXCEPT ![k].status = "CANCELLED",
                              ![k].chain = AllLinks(deals[k], "DECLINED")]
  BY <1>1 DEF Closed, DealRecords
<1>3. Save(dropped, left) /\ deals[k].status \in {"PENDING", "ACTIVE"}
  BY <1>2 DEF Cancel, canCancel
<1>4. Closed(deals[k], "CANCELLED", "DECLINED") \in DealRecords
  BY <1>1, ClosedType DEF DealStatus, LinkStatus
<1>5. dropped \in Seq(DealRecords) /\ deals' = dropped
  BY <1>1, <1>3, <1>4 DEF Save
<1> HIDE DEF dropped
<1>6. /\ Proper(back) /\ Shown(back) = Shown(shop)
      /\ \A i \in Items : back.holder[i] =
           IF i \in Giving(deals[k]) \cap Shown(shop) THEN Author[i] ELSE shop.holder[i]
  BY RevertMoves DEF LocksShown
<1> HIDE DEF back
<1>7. /\ Proper(left) /\ left.holder = back.holder /\ Shown(left) = Shown(back)
      /\ left.locked = Agreed(dropped) \cap Shown(back)
  BY <1>5, <1>6, SyncLocks
<1> HIDE DEF left
<1>8. SavedAll /\ shop'.holder = back.holder
  BY <1>3, <1>5, <1>6, <1>7 DEF Save, SavedAll
<1> QED
  BY <1>3, <1>5, <1>6, <1>8 DEF dropped

-----------------------------------------------------------------------------
(* Types. *)

TypeInv == TypeOK /\ LocksShown

Pendings == Offers \cup Edits \cup Creates

\* An offer that reads its target from the store has it there.
TargetsShown(ps, c) ==
  \A k \in DOMAIN ps : ps[k].kind = "offer" /\ ps[k].holder = Live => ps[k].target \in Shown(c)

LEMMA HandlerType ==
  ASSUME TypeInv, SavedAll, UNCHANGED <<user, mock, created>>, autosave' \in BOOLEAN,
         \/ pending' = pending
         \/ \E k \in DOMAIN pending : pending' = RemoveAt(pending, k)
  PROVE  TypeInv'
<1>1. /\ pending \in Seq(Pendings) /\ TargetsShown(pending, shop)
  BY DEF TypeInv, TypeOK, Pendings, TargetsShown
<1>2. pending' \in Seq(Pendings) /\ \A j \in DOMAIN pending' : \E i \in DOMAIN pending : pending'[j] = pending[i]
  <2>1. CASE pending' = pending
    BY <2>1, <1>1
  <2>2. ASSUME NEW k \in DOMAIN pending, pending' = RemoveAt(pending, k)
        PROVE  /\ pending' \in Seq(Pendings)
               /\ \A j \in DOMAIN pending' : \E i \in DOMAIN pending : pending'[j] = pending[i]
    BY <2>2, <1>1, RemoveAtType
  <2> QED
    BY <2>1, <2>2
<1>3. TargetsShown(pending', shop')
  BY <1>1, <1>2 DEF TargetsShown, SavedAll
<1>4. storedDeals' \in [saved : BOOLEAN, deals : Seq(DealRecords)]
  BY DEF SavedAll, Saved
<1>5. TypeOK'
  BY <1>2, <1>3, <1>4 DEF TypeInv, TypeOK, SavedAll, Proper, Pendings, TargetsShown
<1> QED
  BY <1>5 DEF TypeInv, LocksShown, SavedAll

LEMMA SubmitType ==
  ASSUME TypeInv, NEW p \in Pendings, pending' = Append(pending, p),
         p.kind = "offer" => p.target \in Shown(shop),
         UNCHANGED <<user, deals, shop, mock, storedDeals, storedItems, autosave, created>>
  PROVE  TypeInv'
<1>1. /\ pending \in Seq(Pendings) /\ TargetsShown(pending, shop)
  BY DEF TypeInv, TypeOK, Pendings, TargetsShown
<1>2. /\ pending' \in Seq(Pendings) /\ DOMAIN pending' = 1 .. Len(pending) + 1
      /\ \A j \in 1 .. Len(pending) : pending'[j] = pending[j]
      /\ pending'[Len(pending) + 1] = p
  BY <1>1, AppendProperties
<1>3. TargetsShown(pending', shop)
  <2> SUFFICES ASSUME NEW j \in 1 .. Len(pending) + 1, pending'[j].kind = "offer",
                      pending'[j].holder = Live
               PROVE  pending'[j].target \in Shown(shop)
    BY <1>2 DEF TargetsShown
  <2>1. CASE j = Len(pending) + 1
    BY <2>1, <1>2
  <2>2. CASE j # Len(pending) + 1
    <3>1. j \in DOMAIN pending
      BY <2>2, <1>1
    <3> QED
      BY <3>1, <2>2, <1>1, <1>2 DEF TargetsShown
  <2> QED
    BY <2>1, <2>2
<1> QED
  BY <1>2, <1>3 DEF TypeInv, TypeOK, LocksShown, Pendings, TargetsShown, Shown

\* An offer whose target leaves the store keeps the holder it had.
LEMMA LetGoType ==
  ASSUME TypeInv, NEW S
  PROVE  /\ LetGo(S) \in Seq(Pendings)
         /\ DOMAIN LetGo(S) = DOMAIN pending
         /\ \A k \in DOMAIN pending :
              /\ LetGo(S)[k].kind = pending[k].kind
              /\ LetGo(S)[k].kind = "offer" /\ LetGo(S)[k].holder = Live
                   => LetGo(S)[k].target \in Shown(shop) \ S
<1> DEFINE kept(k) == IF pending[k].kind = "offer" /\ pending[k].target \in S /\ pending[k].holder = Live
                      THEN [pending[k] EXCEPT !.holder = shop.holder[pending[k].target]]
                      ELSE pending[k]
<1>1. pending \in Seq(Pendings) /\ TargetsShown(pending, shop)
  BY DEF TypeInv, TypeOK, Pendings, TargetsShown
<1>2. ASSUME NEW k \in DOMAIN pending
      PROVE  /\ kept(k) \in Pendings
             /\ kept(k).kind = pending[k].kind
             /\ kept(k).kind = "offer" /\ kept(k).holder = Live => kept(k).target \in Shown(shop) \ S
  <2>1. pending[k] \in Pendings
    BY <1>1
  <2>2. CASE pending[k].kind = "offer" /\ pending[k].target \in S /\ pending[k].holder = Live
    <3>1. pending[k] \in Offers
      BY <2>1, <2>2 DEF Pendings, Edits, Creates
    <3>2. pending[k].target \in Items /\ shop.holder[pending[k].target] # Gone
      BY <2>2, <1>1 DEF TargetsShown, Shown
    <3>3. shop.holder[pending[k].target] \in Users
      BY <3>2 DEF TypeInv, TypeOK, Catalogues
    <3>4. /\ [pending[k] EXCEPT !.holder = shop.holder[pending[k].target]] \in Offers
          /\ [pending[k] EXCEPT !.holder = shop.holder[pending[k].target]].holder # Live
          /\ [pending[k] EXCEPT !.holder = shop.holder[pending[k].target]].kind = pending[k].kind
      BY <3>1, <3>3, SentinelAssumption DEF Offers
    <3> QED
      BY <3>4, <2>2 DEF Pendings
  <2>3. CASE ~ (pending[k].kind = "offer" /\ pending[k].target \in S /\ pending[k].holder = Live)
    BY <2>1, <2>3, <1>1 DEF TargetsShown
  <2> QED
    BY <2>2, <2>3
<1>3. LetGo(S) = [k \in DOMAIN pending |-> kept(k)]
  BY DEF LetGo
<1> HIDE DEF kept
<1>4. LetGo(S) \in Seq(Pendings)
  BY <1>1, <1>2, <1>3
<1> QED
  BY <1>2, <1>3, <1>4

LEMMA PublishType ==
  ASSUME TypeInv, NEW k \in DOMAIN pending, NEW c, Proper(c), Base \subseteq Shown(c),
         Publish(k, c), created' \subseteq Extra
  PROVE  TypeInv'
<1>1. /\ LetGo(Items) \in Seq(Pendings) /\ k \in DOMAIN LetGo(Items)
      /\ \A j \in DOMAIN LetGo(Items) :
           ~ (LetGo(Items)[j].kind = "offer" /\ LetGo(Items)[j].holder = Live)
  BY LetGoType DEF Shown
<1>2. /\ pending' \in Seq(Pendings)
      /\ \A j \in DOMAIN pending' : \E i \in DOMAIN LetGo(Items) : pending'[j] = LetGo(Items)[i]
  BY <1>1, RemoveAtType DEF Publish
<1>3. TargetsShown(pending', shop')
  BY <1>1, <1>2 DEF TargetsShown
<1>4. shop' = c /\ mock' = c /\ storedItems' = c
  BY DEF Publish
<1> QED
  BY <1>2, <1>3, <1>4
  DEF Publish, TypeInv, TypeOK, LocksShown, Proper, Pendings, TargetsShown

LEMMA OfferType ==
  ASSUME TypeInv, NEW target \in Items, NEW gives \in SUBSET myItems(target),
         NEW type \in {"DIRECT", "CHAIN"}, Submit(target, gives, type)
  PROVE  TypeInv'
<1>1. PICK i \in gives :
        pending' = Append(pending,
          [kind |-> "offer", type |-> type, by |-> user, target |-> target,
           holder |-> Live, first |-> i, gives |-> gives])
  BY DEF Submit
<1> DEFINE o == [kind |-> "offer", type |-> type, by |-> user, target |-> target,
                 holder |-> Live, first |-> i, gives |-> gives]
<1>2. user \in Users /\ target \in Shown(shop)
  BY DEF Submit, MayAskFor, TypeInv, TypeOK
<1>3. gives \subseteq Items
  BY DEF myItems, Shown
<1>4. o \in Pendings /\ o.target \in Shown(shop)
  BY <1>2, <1>3 DEF Pendings, Offers
<1> HIDE DEF o
<1> QED
  BY <1>1, <1>4, SubmitType DEF Submit, o

LEMMA FinishOfferType ==
  ASSUME TypeInv, NEW k \in DOMAIN pending, FinishOffer(k)
  PROVE  TypeInv'
<1>1. /\ pending[k] \in Offers /\ TargetHolder(pending[k]) \in Users
      /\ InitiatorLink(pending[k]) \in Links /\ OwnerLink(pending[k]) \in Links
  BY OfferParts DEF TypeInv, FinishOffer
<1>2. CASE JoinDeal(pending[k])
  <2>1. SavedAll /\ autosave' \in BOOLEAN
    BY <1>1, <1>2, JoinStep DEF TypeInv, JoinDeal, TypeOK
  <2> QED
    BY <2>1, HandlerType DEF FinishOffer
<1>3. CASE OpenDeal(pending[k])
  <2>1. SavedAll /\ autosave' \in BOOLEAN
    BY <1>1, <1>3, OpenStep DEF TypeInv, OpenDeal
  <2> QED
    BY <2>1, HandlerType DEF FinishOffer
<1> QED
  BY <1>2, <1>3 DEF FinishOffer

LEMMA FinishCreateType ==
  ASSUME TypeInv, NEW k \in DOMAIN pending, FinishCreate(k)
  PROVE  TypeInv'
<1>1. PICK i \in Extra \ created :
        /\ created' = created \cup {i}
        /\ Publish(k, [holder |-> [mock.holder EXCEPT ![i] = holderOfNew],
                       locked |-> mock.locked])
  BY DEF FinishCreate
<1> DEFINE c == [holder |-> [mock.holder EXCEPT ![i] = holderOfNew], locked |-> mock.locked]
<1>2. i \in Items /\ First \in Items /\ First \in Base
  BY CatalogueAssumption DEF Items
<1>3. mock \in Catalogues /\ Base \subseteq Shown(mock) /\ mock.locked \subseteq Shown(mock)
  BY DEF TypeInv, LocksShown, Proper
<1>4. holderOfNew \in Users
  BY <1>2, <1>3 DEF holderOfNew, Shown, Catalogues
<1>5. c \in Catalogues
  BY <1>3, <1>4 DEF Catalogues
<1>6. Shown(mock) \subseteq Shown(c) /\ c.locked = mock.locked
  BY <1>2, <1>3, <1>4, SentinelAssumption DEF Shown, Catalogues
<1>7. Proper(c) /\ Base \subseteq Shown(c)
  BY <1>3, <1>5, <1>6 DEF Proper
<1>8. created' \subseteq Extra
  BY <1>1 DEF TypeInv, TypeOK
<1> HIDE DEF c
<1> QED
  BY <1>1, <1>7, <1>8, PublishType DEF c

LEMMA DeleteMoves ==
  ASSUME TypeInv, NEW i \in Items, Delete(i)
  PROVE  /\ Proper(shop') /\ Shown(shop') = Shown(shop) \ {i}
         /\ shop'.locked = shop.locked \ {i} /\ i \notin shop.locked
         /\ \A j \in Items \ {i} : shop'.holder[j] = shop.holder[j]
<1>1. shop \in Catalogues /\ shop.locked \subseteq Shown(shop)
  BY DEF TypeInv, LocksShown, Proper
<1>2. shop' = [holder |-> [shop.holder EXCEPT ![i] = Gone], locked |-> shop.locked \ {i}]
  BY DEF Delete, deleteItem
<1>3. shop' \in Catalogues
  BY <1>1, <1>2 DEF Catalogues
<1>4. Shown(shop') = Shown(shop) \ {i}
  BY <1>1, <1>2 DEF Shown, Catalogues
<1> QED
  BY <1>1, <1>2, <1>3, <1>4 DEF Proper, Catalogues, Delete

LEMMA DeleteType ==
  ASSUME TypeInv, NEW i \in Items, Delete(i)
  PROVE  TypeInv'
<1>1. Proper(shop') /\ Shown(shop') = Shown(shop) \ {i} /\ storedItems' = shop'
  BY DeleteMoves DEF Delete
<1>2. pending' \in Seq(Pendings) /\ TargetsShown(pending', shop')
  BY <1>1, LetGoType DEF Delete, TargetsShown
<1> QED
  BY <1>1, <1>2 DEF Delete, TypeInv, TypeOK, LocksShown, Proper, Pendings, TargetsShown, Shown

LEMMA ResetMoves ==
  ASSUME TypeInv, Reset
  PROVE  /\ Proper(shop') /\ Shown(shop') = Shown(shop) /\ shop'.locked = {}
         /\ \A i \in Shown(shop) : shop'.holder[i] = Author[i]
<1> DEFINE c == [shop EXCEPT !.locked = {}]
<1>1. Proper(c) /\ Shown(c) = Shown(shop) /\ c.locked = {}
  BY DEF TypeInv, LocksShown, Proper, Catalogues, Shown
<1>2. shop' = revertRights(c, Items)
  BY DEF Reset, resetAll
<1> HIDE DEF c
<1>3. Shown(shop) \subseteq Items
  BY DEF Shown
<1> QED
  BY <1>1, <1>2, <1>3, RevertMoves

LEMMA ResetType ==
  ASSUME TypeInv, Reset
  PROVE  TypeInv'
<1>1. Proper(shop') /\ Shown(shop') = Shown(shop)
  BY ResetMoves
<1>2. storedDeals' \in [saved : BOOLEAN, deals : Seq(DealRecords)] /\ deals' \in Seq(DealRecords)
  BY DEF Reset, NoDeals
<1>3. Proper(storedItems')
  BY BuiltInProper DEF Reset
<1>4. autosave' \in BOOLEAN
  BY DEF Reset, TypeInv, TypeOK
<1>5. TypeOK'
  BY <1>1, <1>2, <1>3, <1>4 DEF Reset, TypeInv, TypeOK, Proper
<1> QED
  BY <1>1, <1>3, <1>5 DEF Reset, TypeInv, LocksShown

\* What a reload shows: the built-in items, with what was saved of them.
LEMMA ReloadMoves ==
  ASSUME TypeInv, Reload
  PROVE  LET loaded == applyPersistedState(initialMockItems, storedItems)
         IN  /\ Proper(loaded) /\ Shown(loaded) = Base /\ mock' = loaded
             /\ loaded.locked = storedItems.locked \cap Base
             /\ \A i \in Items : loaded.holder[i] =
                  IF i \in Base \cap Shown(storedItems) THEN storedItems.holder[i]
                  ELSE initialMockItems.holder[i]
             /\ deals' = storedDeals.deals /\ deals' \in Seq(DealRecords)
             /\ Proper(shop') /\ Shown(shop') = Base /\ shop'.holder = loaded.holder
             /\ storedDeals.saved => /\ storedItems' = shop'
                                     /\ shop'.locked = Agreed(deals') \cap Shown(shop')
             /\ ~ storedDeals.saved => shop' = loaded /\ storedItems' = storedItems
<1> DEFINE loaded == applyPersistedState(initialMockItems, storedItems)
<1>1. /\ Proper(loaded) /\ Shown(loaded) = Base
      /\ loaded.locked = storedItems.locked \cap Base
      /\ \A i \in Items : loaded.holder[i] =
           IF i \in Base \cap Shown(storedItems) THEN storedItems.holder[i]
           ELSE initialMockItems.holder[i]
  <2>1. initialMockItems.locked = {}
    BY DEF initialMockItems
  <2> QED
    BY <2>1, BuiltInProper, PersistedOverlay DEF TypeInv, LocksShown
<1>2. deals' = storedDeals.deals /\ deals' \in Seq(DealRecords) /\ mock' = loaded
  BY DEF Reload, TypeInv, TypeOK
<1>3. IF storedDeals.saved
      THEN shop' = syncItemLockStates(loaded, deals') /\ storedItems' = shop'
      ELSE shop' = loaded /\ storedItems' = storedItems
  BY DEF Reload
<1> HIDE DEF loaded
<1>4. storedDeals.saved => /\ Proper(shop') /\ shop'.holder = loaded.holder /\ Shown(shop') = Base
                           /\ shop'.locked = Agreed(deals') \cap Shown(shop')
  BY <1>1, <1>2, <1>3, SyncLocks
<1> QED
  BY <1>1, <1>2, <1>3, <1>4 DEF loaded

LEMMA ReloadType ==
  ASSUME TypeInv, Reload
  PROVE  TypeInv'
<1>1. Proper(shop') /\ Proper(mock') /\ Base \subseteq Shown(mock') /\ deals' \in Seq(DealRecords)
  BY ReloadMoves
<1>2. Proper(storedItems')
  BY <1>1, ReloadMoves DEF TypeInv, LocksShown, TypeOK
<1>3. pending' = <<>> /\ UNCHANGED <<user, storedDeals, created>> /\ autosave' = FALSE
  BY DEF Reload
<1>4. pending' \in Seq(Pendings) /\ TargetsShown(pending', shop')
  BY <1>3 DEF TargetsShown
<1> QED
  BY <1>1, <1>2, <1>3, <1>4
  DEF TypeInv, TypeOK, LocksShown, Proper, Pendings, TargetsShown

LEMMA InitType ==
  ASSUME Init
  PROVE  TypeInv
<1>1. Proper(shop) /\ Proper(mock) /\ Proper(storedItems) /\ Base \subseteq Shown(mock)
  BY BuiltInProper DEF Init
<1>2. storedDeals \in [saved : BOOLEAN, deals : Seq(DealRecords)]
  BY DEF Init, NoDeals
<1>3. deals = <<>> /\ pending = <<>> /\ user = NoUser /\ autosave = FALSE /\ created = {}
  BY DEF Init
<1>4. deals \in Seq(DealRecords) /\ pending \in Seq(Pendings) /\ TargetsShown(pending, shop)
  BY <1>3 DEF TargetsShown
<1> QED
  BY <1>1, <1>2, <1>3, <1>4 DEF TypeInv, TypeOK, LocksShown, Proper, Pendings, TargetsShown

LEMMA TypeStep ==
  ASSUME TypeInv, [Next]_vars
  PROVE  TypeInv'
<1>1. ASSUME NEW i \in Items, SubmitDirect(i) \/ SubmitChain(i)
      PROVE  TypeInv'
  BY <1>1, OfferType DEF SubmitDirect, SubmitChain
<1>2. ASSUME NEW i \in Items, SubmitEdit(i)
      PROVE  TypeInv'
  <2> DEFINE p == [kind |-> "edit", item |-> i]
  <2>1. p \in Pendings /\ p.kind # "offer"
    BY DEF Pendings, Edits
  <2> HIDE DEF p
  <2> QED
    BY <1>2, <2>1, SubmitType DEF SubmitEdit, p
<1>3. ASSUME NEW i \in Items, Delete(i)
      PROVE  TypeInv'
  BY <1>3, DeleteType
<1>4. ASSUME NEW k \in DOMAIN pending, FinishOffer(k)
      PROVE  TypeInv'
  BY <1>4, FinishOfferType
<1>5. ASSUME NEW k \in DOMAIN pending, FinishCreate(k)
      PROVE  TypeInv'
  BY <1>5, FinishCreateType
<1>6. ASSUME NEW k \in DOMAIN pending, FinishEdit(k)
      PROVE  TypeInv'
  BY <1>6, PublishType DEF FinishEdit, TypeInv, TypeOK, LocksShown
<1>7. ASSUME NEW k \in DOMAIN deals, Confirm(k)
      PROVE  TypeInv'
  BY <1>7, ConfirmStep, HandlerType DEF Confirm, TypeInv
<1>8. ASSUME NEW k \in DOMAIN deals, Cancel(k)
      PROVE  TypeInv'
  BY <1>8, CancelStep, HandlerType DEF Cancel, TypeInv
<1>9. CASE SubmitCreate
  <2> DEFINE p == [kind |-> "create"]
  <2>1. p \in Pendings /\ p.kind # "offer"
    BY DEF Pendings, Creates
  <2> HIDE DEF p
  <2> QED
    BY <1>9, <2>1, SubmitType DEF SubmitCreate, p
<1>10. CASE Reset
  BY <1>10, ResetType
<1>11. CASE (\E u \in Users : Login(u)) \/ Logout
  BY <1>11 DEF Login, Logout, TypeInv, TypeOK, LocksShown, Proper, Shown
<1>12. CASE AutoSave
  <2>1. storedDeals' \in [saved : BOOLEAN, deals : Seq(DealRecords)]
    BY <1>12 DEF AutoSave, Saved, TypeInv, TypeOK
  <2> QED
    BY <1>12, <2>1 DEF AutoSave, TypeInv, TypeOK, LocksShown, Proper, Shown
<1>13. CASE Reload
  BY <1>13, ReloadType
<1>14. CASE UNCHANGED vars
  BY <1>14 DEF vars, TypeInv, TypeOK, LocksShown, Proper, Shown
<1> QED
  BY <1>1, <1>2, <1>3, <1>4, <1>5, <1>6, <1>7, <1>8, <1>9, <1>10, <1>11, <1>12, <1>13, <1>14
  DEF Next

LEMMA TypeInvariant == Spec => []TypeInv
<1>1. Init => TypeInv
  BY InitType
<1>2. TypeInv /\ [Next]_vars => TypeInv'
  BY TypeStep
<1> QED
  BY <1>1, <1>2, PTL DEF Spec

\* Every variable keeps its type and no offer loses its target: TypeOK, together
\* with LocksShown (only items on show are locked), is inductive.
THEOREM TypeCorrect == Spec => []TypeOK
<1>1. TypeInv => TypeOK
  BY DEF TypeInv
<1> QED
  BY <1>1, TypeInvariant, PTL

-----------------------------------------------------------------------------
(* Nothing is lost by a reload. *)

LEMMA MirrorKept ==
  ASSUME Proper(shop'), storedItems' = shop', deals' = storedDeals'.deals
  PROVE  ReloadLosesNothing'
<1> DEFINE back == applyPersistedState(initialMockItems, storedItems')
<1>1. /\ back.locked = shop'.locked \cap Base
      /\ \A i \in Base \cap Shown(shop') : back.holder[i] = shop'.holder[i]
  <2>1. initialMockItems.locked = {} /\ Base \subseteq Items
    BY DEF initialMockItems, Items
  <2> QED
    BY <2>1, BuiltInProper, PersistedOverlay
<1> HIDE DEF back
<1> QED
  BY <1>1 DEF ReloadLosesNothing, back

LEMMA ReloadStep ==
  ASSUME TypeInv, TypeInv', ReloadLosesNothing, [Next]_vars
  PROVE  ReloadLosesNothing'
<1>0. Proper(shop') /\ Proper(shop) /\ Proper(storedItems)
  BY DEF TypeInv, LocksShown
<1>1. CASE SavedAll
  BY <1>1, MirrorKept DEF SavedAll, Saved
<1>2. ASSUME NEW k \in DOMAIN pending, FinishOffer(k)
      PROVE  SavedAll
  <2>1. /\ pending[k] \in Offers /\ TargetHolder(pending[k]) \in Users
        /\ InitiatorLink(pending[k]) \in Links /\ OwnerLink(pending[k]) \in Links
    BY <1>2, OfferParts DEF TypeInv, FinishOffer
  <2> QED
    BY <1>2, <2>1, JoinStep, OpenStep DEF TypeInv, FinishOffer
<1>3. ASSUME NEW k \in DOMAIN deals, Confirm(k) \/ Cancel(k)
      PROVE  SavedAll
  BY <1>3, ConfirmStep, CancelStep DEF TypeInv
<1>4. ASSUME NEW k \in DOMAIN pending, FinishCreate(k) \/ FinishEdit(k)
      PROVE  ReloadLosesNothing'
  <2>1. shop' = storedItems' /\ UNCHANGED <<deals, storedDeals>>
    BY <1>4 DEF FinishCreate, FinishEdit, Publish
  <2> QED
    BY <2>1, <1>0, MirrorKept DEF ReloadLosesNothing
<1>5. ASSUME NEW i \in Items, Delete(i)
      PROVE  ReloadLosesNothing'
  <2>1. shop' = storedItems' /\ UNCHANGED <<deals, storedDeals>>
    BY <1>5 DEF Delete
  <2> QED
    BY <2>1, <1>0, MirrorKept DEF ReloadLosesNothing
<1>6. CASE Reset
  <2> DEFINE back == applyPersistedState(initialMockItems, NothingSaved)
  <2>1. deals' = storedDeals'.deals /\ storedItems' = NothingSaved
    BY <1>6 DEF Reset, NoDeals
  <2>2. Shown(shop') = Shown(shop) /\ shop'.locked = {} /\ \A i \in Shown(shop) : shop'.holder[i] = Author[i]
    BY <1>6, ResetMoves
  <2>3. back.locked = {} /\ \A i \in Base : back.holder[i] = Author[i]
    <3>1. /\ initialMockItems.locked = {} /\ NothingSaved.locked = {} /\ Base \subseteq Items
          /\ \A i \in Base : initialMockItems.holder[i] = Author[i]
      BY DEF initialMockItems, NothingSaved, Items
    <3> QED
      BY <3>1, BuiltInProper, PersistedOverlay
  <2> HIDE DEF back
  <2> QED
    BY <2>1, <2>2, <2>3 DEF ReloadLosesNothing, back
<1>7. CASE Reload
  <2> DEFINE loaded == applyPersistedState(initialMockItems, storedItems)
  <2>1. deals' = storedDeals'.deals
    BY <1>7 DEF Reload
  <2>2. CASE storedDeals.saved
    BY <2>1, <2>2, <1>0, <1>7, MirrorKept, ReloadMoves
  <2>3. CASE ~ storedDeals.saved
    <3>1. shop' = loaded /\ storedItems' = storedItems
      BY <2>3, <1>7, ReloadMoves
    <3> HIDE DEF loaded
    <3> QED
      BY <2>1, <3>1 DEF ReloadLosesNothing, loaded
  <2> QED
    BY <2>2, <2>3
<1>8. CASE AutoSave
  <2>1. deals' = storedDeals'.deals /\ UNCHANGED <<shop, storedItems>>
    BY <1>8 DEF AutoSave, Saved
  <2> QED
    BY <2>1 DEF ReloadLosesNothing, Shown
<1>9. CASE UNCHANGED <<deals, shop, storedDeals, storedItems>>
  BY <1>9 DEF ReloadLosesNothing, Shown
<1> QED
  BY <1>1, <1>2, <1>3, <1>4, <1>5, <1>6, <1>7, <1>8, <1>9
  DEF Next, vars, SubmitDirect, SubmitChain, Submit, SubmitEdit, SubmitCreate, Login, Logout

LEMMA MirrorInvariant == Spec => [](TypeInv /\ ReloadLosesNothing)
<1>1. Init => ReloadLosesNothing
  <2> SUFFICES ASSUME Init PROVE ReloadLosesNothing
    OBVIOUS
  <2> DEFINE back == applyPersistedState(initialMockItems, NothingSaved)
  <2>1. back.locked = {} /\ \A i \in Base : back.holder[i] = initialMockItems.holder[i]
    <3>1. initialMockItems.locked = {} /\ NothingSaved.locked = {} /\ Base \subseteq Items
      BY DEF initialMockItems, NothingSaved, Items
    <3> QED
      BY <3>1, BuiltInProper, PersistedOverlay
  <2>2. /\ deals = storedDeals.deals /\ shop = initialMockItems /\ storedItems = NothingSaved
        /\ initialMockItems.locked = {}
    BY DEF Init, NoDeals, initialMockItems
  <2> HIDE DEF back
  <2> QED
    BY <2>1, <2>2 DEF ReloadLosesNothing, back
<1>2. TypeInv /\ TypeInv' /\ ReloadLosesNothing /\ [Next]_vars => ReloadLosesNothing'
  BY ReloadStep
<1> QED
  BY <1>1, <1>2, TypeInvariant, PTL DEF Spec

\* At every moment localStorage holds the deals of the page, and the holder and
\* lock of every built-in item on show, although the handlers, the delayed save and
\* itemApi write it separately.
THEOREM StorageMirrorsPage == Spec => []ReloadLosesNothing
BY MirrorInvariant, PTL

-----------------------------------------------------------------------------
(* How deals change. *)

Joins(o) ==
  \E d \in DOMAIN deals : \E m \in DOMAIN deals[d].chain :
    /\ deals[d].status = "PENDING"
    /\ deals' = [deals EXCEPT ![d] = appendChainLink(deals[d], InitiatorLink(o), m)]

Opens(o) ==
  deals' = Append(deals, [status |-> "PENDING", initiator |-> o.by,
                          chain |-> <<InitiatorLink(o), OwnerLink(o)>>])

Confirms(k) ==
  /\ deals[k].status = "PENDING"
  /\ deals' = [deals EXCEPT ![k] = Closed(deals[k], "ACTIVE", "ACCEPTED")]

Cancels(k) ==
  /\ deals[k].status \in {"PENDING", "ACTIVE"}
  /\ deals' = [deals EXCEPT ![k] = Closed(deals[k], "CANCELLED", "DECLINED")]

Offered(o) ==
  /\ o \in Range(pending) /\ o.kind = "offer" /\ o.by \in Users
  /\ InitiatorLink(o) \in Links /\ OwnerLink(o) \in Links

\* Deals change by one offer, one answer or the reset, and are saved.
LEMMA DealSteps ==
  ASSUME TypeInv, ReloadLosesNothing, [Next]_vars
  PROVE  \/ deals' = deals
         \/ Reset
         \/ /\ SavedAll
            /\ \/ \E o : Offered(o) /\ (Joins(o) \/ Opens(o))
               \/ \E k \in DOMAIN deals : Confirms(k) \/ Cancels(k)
<1>1. ASSUME NEW k \in DOMAIN pending, FinishOffer(k)
      PROVE  SavedAll /\ \E o : Offered(o) /\ (Joins(o) \/ Opens(o))
  <2> DEFINE o == pending[k]
  <2>1. /\ o \in Offers /\ TargetHolder(o) \in Users /\ o.kind = "offer"
        /\ InitiatorLink(o) \in Links /\ OwnerLink(o) \in Links
    BY <1>1, OfferParts DEF TypeInv, FinishOffer
  <2>2. o \in Range(pending)
    BY DEF Range
  <2>3. Offered(o)
    BY <2>1, <2>2 DEF Offered, Offers
  <2>4. JoinDeal(o) \/ OpenDeal(o)
    BY <1>1 DEF FinishOffer
  <2> HIDE DEF o
  <2>5. SavedAll /\ (Joins(o) \/ Opens(o))
    <3>1. CASE JoinDeal(o)
      BY <2>1, <3>1, JoinStep DEF TypeInv, Joins
    <3>2. CASE OpenDeal(o)
      BY <2>1, <3>2, OpenStep DEF TypeInv, Opens
    <3> QED
      BY <2>4, <3>1, <3>2
  <2> QED
    BY <2>3, <2>5
<1>2. ASSUME NEW k \in DOMAIN deals, Confirm(k)
      PROVE  SavedAll /\ Confirms(k)
  BY <1>2, ConfirmStep DEF TypeInv, Confirms
<1>3. ASSUME NEW k \in DOMAIN deals, Cancel(k)
      PROVE  SavedAll /\ Cancels(k)
  BY <1>3, CancelStep DEF TypeInv, Cancels
<1>4. CASE Reload
  BY <1>4 DEF Reload, ReloadLosesNothing
<1>5. ASSUME NEW k \in DOMAIN pending, FinishCreate(k) \/ FinishEdit(k)
      PROVE  deals' = deals
  BY <1>5 DEF FinishCreate, FinishEdit, Publish
<1>6. ASSUME NEW i \in Items, SubmitDirect(i) \/ SubmitChain(i) \/ SubmitEdit(i) \/ Delete(i)
      PROVE  deals' = deals
  BY <1>6 DEF SubmitDirect, SubmitChain, Submit, SubmitEdit, Delete
<1>7. CASE SubmitCreate \/ (\E u \in Users : Login(u)) \/ Logout \/ AutoSave \/ UNCHANGED vars
  BY <1>7 DEF SubmitCreate, Login, Logout, AutoSave, vars
<1> QED
  BY <1>1, <1>2, <1>3, <1>4, <1>5, <1>6, <1>7 DEF Next

\* A changed deal in an otherwise unchanged list.
LEMMA OneDealChanges ==
  ASSUME TypeInv, NEW d \in DOMAIN deals, NEW e, deals' = [deals EXCEPT ![d] = e]
  PROVE  /\ DOMAIN deals' = DOMAIN deals /\ Len(deals') = Len(deals)
         /\ deals[d] \in DealRecords
         /\ \A k \in DOMAIN deals : deals'[k] = IF k = d THEN e ELSE deals[k]
<1>1. deals \in Seq(DealRecords) /\ deals' \in [DOMAIN deals -> DealRecords \cup {e}]
  BY DEF TypeInv, TypeOK
<1> QED
  BY <1>1

LEMMA OneDealMore ==
  ASSUME TypeInv, NEW e \in DealRecords, deals' = Append(deals, e)
  PROVE  /\ DOMAIN deals \subseteq DOMAIN deals' /\ Len(deals') = Len(deals) + 1
         /\ \A k \in DOMAIN deals : deals'[k] = deals[k]
         /\ \A k \in DOMAIN deals' : k \notin DOMAIN deals => deals'[k] = e
<1>1. deals \in Seq(DealRecords)
  BY DEF TypeInv, TypeOK
<1>2. /\ deals' \in Seq(DealRecords) /\ Len(deals') = Len(deals) + 1
      /\ \A k \in 1 .. Len(deals) : deals'[k] = deals[k]
      /\ deals'[Len(deals) + 1] = e
  BY <1>1, AppendProperties
<1> QED
  BY <1>1, <1>2

LEMMA NewDeal ==
  ASSUME NEW o, Offered(o)
  PROVE  [status |-> "PENDING", initiator |-> o.by,
          chain |-> <<InitiatorLink(o), OwnerLink(o)>>] \in DealRecords
<1>1. <<InitiatorLink(o), OwnerLink(o)>> \in Seq(Links) /\ o.by \in Users
  BY DEF Offered
<1> QED
  BY <1>1 DEF DealRecords, DealStatus

-----------------------------------------------------------------------------
(* The statuses of a deal and of its links. *)

LEMMA ClosedFits ==
  ASSUME NEW d \in DealRecords, LinksFit(d)
  PROVE  /\ LinksFit(Closed(d, "ACTIVE", "ACCEPTED"))
         /\ LinksFit(Closed(d, "CANCELLED", "DECLINED"))
<1>1. \E m : m \in DOMAIN d.chain
  <2>1. d.status \in DealStatus
    BY DEF DealRecords
  <2> QED
    BY <2>1 DEF LinksFit, DealStatus
<1>2. /\ Closed(d, "ACTIVE", "ACCEPTED").status = "ACTIVE"
      /\ DOMAIN Closed(d, "ACTIVE", "ACCEPTED").chain = DOMAIN d.chain
      /\ \A m \in DOMAIN d.chain : Closed(d, "ACTIVE", "ACCEPTED").chain[m].status = "ACCEPTED"
  BY ClosedType DEF DealStatus, LinkStatus
<1>3. /\ Closed(d, "CANCELLED", "DECLINED").status = "CANCELLED"
      /\ DOMAIN Closed(d, "CANCELLED", "DECLINED").chain = DOMAIN d.chain
      /\ \A m \in DOMAIN d.chain : Closed(d, "CANCELLED", "DECLINED").chain[m].status = "DECLINED"
  BY ClosedType DEF DealStatus, LinkStatus
<1> QED
  BY <1>1, <1>2, <1>3 DEF LinksFit

LEMMA AppendedFits ==
  ASSUME NEW d \in DealRecords, LinksFit(d), d.status = "PENDING",
         NEW link \in Links, link.status = "ACCEPTED", NEW m \in DOMAIN d.chain
  PROVE  LinksFit(appendChainLink(d, link, m))
<1> DEFINE e == appendChainLink(d, link, m)
<1>1. e.status = "PENDING"
  BY AppendedLink
<1>2. \A n \in DOMAIN d.chain : \E j \in DOMAIN e.chain :
        d.chain[n].status = "PENDING" => e.chain[j].status = "PENDING"
  BY AppendedLink
<1>3. \A j \in DOMAIN e.chain :
        \/ e.chain[j] = link
        \/ \E n \in DOMAIN d.chain :
             e.chain[j].status = "DECLINED" => d.chain[n].status = "DECLINED"
  BY AppendedLink
<1> HIDE DEF e
<1>4. PICK n \in DOMAIN d.chain : d.chain[n].status = "PENDING"
  BY DEF LinksFit
<1>5. \A n2 \in DOMAIN d.chain : d.chain[n2].status # "DECLINED"
  BY DEF LinksFit
<1>6. \E j \in DOMAIN e.chain : e.chain[j].status = "PENDING"
  BY <1>2, <1>4
<1>7. \A j \in DOMAIN e.chain : e.chain[j].status # "DECLINED"
  BY <1>3, <1>5
<1>8. LinksFit(e)
  BY <1>1, <1>6, <1>7 DEF LinksFit
<1> QED
  BY <1>8 DEF e

LEMMA LinksStep ==
  ASSUME TypeInv, ReloadLosesNothing, LinksMatchStatus, [Next]_vars
  PROVE  LinksMatchStatus'
<1>1. CASE deals' = deals
  BY <1>1 DEF LinksMatchStatus
<1>2. CASE Reset
  BY <1>2 DEF Reset, LinksMatchStatus
<1>3. ASSUME NEW o, Offered(o), Joins(o)
      PROVE  LinksMatchStatus'
  <2>1. PICK d \in DOMAIN deals : \E m \in DOMAIN deals[d].chain :
          /\ deals[d].status = "PENDING"
          /\ deals' = [deals EXCEPT ![d] = appendChainLink(deals[d], InitiatorLink(o), m)]
    BY <1>3 DEF Joins
  <2>2. PICK m \in DOMAIN deals[d].chain :
          /\ deals[d].status = "PENDING"
          /\ deals' = [deals EXCEPT ![d] = appendChainLink(deals[d], InitiatorLink(o), m)]
    BY <2>1
  <2>3. InitiatorLink(o) \in Links /\ InitiatorLink(o).status = "ACCEPTED"
    BY <1>3 DEF Offered, InitiatorLink
  <2>4. deals[d] \in DealRecords /\ LinksFit(deals[d])
    BY <2>2, OneDealChanges DEF LinksMatchStatus
  <2>5. LinksFit(appendChainLink(deals[d], InitiatorLink(o), m))
    BY <2>2, <2>3, <2>4, AppendedFits
  <2> QED
    BY <2>2, <2>5, OneDealChanges DEF LinksMatchStatus
<1>4. ASSUME NEW o, Offered(o), Opens(o)
      PROVE  LinksMatchStatus'
  <2> DEFINE e == [status |-> "PENDING", initiator |-> o.by,
                   chain |-> <<InitiatorLink(o), OwnerLink(o)>>]
  <2>1. deals' = Append(deals, e) /\ e \in DealRecords
    BY <1>4, NewDeal DEF Opens
  <2>2. InitiatorLink(o).status = "ACCEPTED" /\ OwnerLink(o).status = "PENDING"
    BY DEF InitiatorLink, OwnerLink
  <2>3. DOMAIN e.chain = {1, 2} /\ e.chain[1].status = "ACCEPTED" /\ e.chain[2].status = "PENDING"
    BY <2>2
  <2>4. e.status = "PENDING"
    OBVIOUS
  <2> HIDE DEF e
  <2>5. LinksFit(e)
    BY <2>3, <2>4 DEF LinksFit
  <2> QED
    BY <2>1, <2>5, OneDealMore DEF LinksMatchStatus
<1>5. ASSUME NEW k \in DOMAIN deals, Confirms(k) \/ Cancels(k)
      PROVE  LinksMatchStatus'
  <2>1. deals[k] \in DealRecords /\ LinksFit(deals[k])
    BY DEF TypeInv, TypeOK, LinksMatchStatus
  <2> QED
    BY <1>5, <2>1, ClosedFits, OneDealChanges DEF Confirms, Cancels, LinksMatchStatus
<1> QED
  BY <1>1, <1>2, <1>3, <1>4, <1>5, DealSteps

\* Every deal's links have the statuses that go with its own, and a pending deal
\* always has a participant who is to confirm it, whatever joins it.
THEOREM StatusesAgree == Spec => []LinksMatchStatus
<1>1. Init => LinksMatchStatus
  BY DEF Init, LinksMatchStatus
<1>2. TypeInv /\ ReloadLosesNothing /\ LinksMatchStatus /\ [Next]_vars => LinksMatchStatus'
  BY LinksStep
<1> QED
  BY <1>1, <1>2, MirrorInvariant, PTL DEF Spec

-----------------------------------------------------------------------------
(* What a step may do. *)

LEMMA LocksStep ==
  ASSUME TypeInv, ReloadLosesNothing, [Next]_vars, deals' # deals
  PROVE  shop'.locked = GivenIn(deals', {"ACTIVE"}) \cap Shown(shop')
<1>1. CASE Reset
  <2>1. GivenIn(<<>>, {"ACTIVE"}) = {}
    BY DEF GivenIn, DealsIn
  <2>2. shop'.locked = {}
    BY <1>1, ResetMoves
  <2> QED
    BY <1>1, <2>1, <2>2 DEF Reset
<1>2. CASE SavedAll
  BY <1>2 DEF SavedAll, Agreed
<1> QED
  BY <1>1, <1>2, DealSteps

\* Any change of the deals leaves exactly the items that active deals give away
\* locked, even after an edit has published stale locks.
THEOREM ChangesSetLocks == Spec => LocksSetWithDeals
<1>1. TypeInv /\ ReloadLosesNothing /\ [Next]_vars =>
        [deals' # deals => shop'.locked = GivenIn(deals', {"ACTIVE"}) \cap Shown(shop')]_vars
  BY LocksStep
<1> QED
  BY <1>1, MirrorInvariant, PTL DEF Spec, LocksSetWithDeals

\* Extending a chain takes nothing from what it gives and adds the new item.
LEMMA AppendedGives ==
  ASSUME NEW d \in DealRecords, NEW link \in Links, NEW m \in DOMAIN d.chain
  PROVE  Giving(appendChainLink(d, link, m)) = Giving(d) \cup {link.giving}
<1> DEFINE e == appendChainLink(d, link, m)
<1>1. \A j \in DOMAIN e.chain :
        e.chain[j] = link \/ \E n \in DOMAIN d.chain : e.chain[j].giving = d.chain[n].giving
  BY AppendedLink
<1>2. \E j \in DOMAIN e.chain : e.chain[j] = link
  BY AppendedLink
<1>3. \A n \in DOMAIN d.chain : \E j \in DOMAIN e.chain : e.chain[j].giving = d.chain[n].giving
  BY AppendedLink
<1> HIDE DEF e
<1>4. Giving(e) \subseteq Giving(d) \cup {link.giving}
  BY <1>1 DEF Giving
<1>5. Giving(d) \subseteq Giving(e) /\ link.giving \in Giving(e)
  BY <1>2, <1>3 DEF Giving
<1> QED
  BY <1>4, <1>5 DEF e

LEMMA ClosedGives ==
  ASSUME NEW d \in DealRecords, NEW status \in DealStatus, NEW links \in LinkStatus
  PROVE  Giving(Closed(d, status, links)) = Giving(d)
<1> DEFINE e == Closed(d, status, links)
<1>1. DOMAIN e.chain = DOMAIN d.chain /\ \A m \in DOMAIN d.chain : e.chain[m].giving = d.chain[m].giving
  BY ClosedType
<1> HIDE DEF e
<1>2. Giving(e) = Giving(d)
  BY <1>1 DEF Giving
<1> QED
  BY <1>2 DEF e

Forward ==
  \/ deals' = <<>> /\ "reset" \in Ops /\ storedDeals' = NoDeals
  \/ /\ Len(deals) <= Len(deals')
     /\ \A k \in DOMAIN deals :
          /\ Giving(deals[k]) \subseteq Giving(deals'[k])
          /\ deals'[k].status # deals[k].status
               => <<deals[k].status, deals'[k].status>> \in
                    {<<"PENDING", "ACTIVE">>, <<"PENDING", "CANCELLED">>,
                     <<"ACTIVE", "CANCELLED">>}

LEMMA ForwardStep ==
  ASSUME TypeInv, ReloadLosesNothing, [Next]_vars
  PROVE  Forward
<1>0. deals \in Seq(DealRecords) /\ Len(deals) \in Nat
  BY DEF TypeInv, TypeOK
<1>1. CASE deals' = deals
  BY <1>0, <1>1 DEF Forward
<1>2. CASE Reset
  BY <1>2 DEF Reset, Forward
<1>3. ASSUME NEW o, Offered(o), Joins(o)
      PROVE  Forward
  <2>0. PICK d \in DOMAIN deals : \E m \in DOMAIN deals[d].chain :
          /\ deals[d].status = "PENDING"
          /\ deals' = [deals EXCEPT ![d] = appendChainLink(deals[d], InitiatorLink(o), m)]
    BY <1>3 DEF Joins
  <2>1. PICK m \in DOMAIN deals[d].chain :
          /\ deals[d].status = "PENDING"
          /\ deals' = [deals EXCEPT ![d] = appendChainLink(deals[d], InitiatorLink(o), m)]
    BY <2>0
  <2> DEFINE e == appendChainLink(deals[d], InitiatorLink(o), m)
  <2>2. e.status = deals[d].status /\ Giving(deals[d]) \subseteq Giving(e)
    BY <1>0, <1>3, AppendedLink, AppendedGives DEF Offered
  <2> HIDE DEF e
  <2>3. /\ Len(deals') = Len(deals)
        /\ \A k \in DOMAIN deals : deals'[k] = IF k = d THEN e ELSE deals[k]
    BY <2>1, OneDealChanges DEF e
  <2> QED
    BY <1>0, <2>2, <2>3 DEF Forward
<1>4. ASSUME NEW o, Offered(o), Opens(o)
      PROVE  Forward
  <2>1. Len(deals') = Len(deals) + 1 /\ \A k \in DOMAIN deals : deals'[k] = deals[k]
    BY <1>4, NewDeal, OneDealMore DEF Opens
  <2> QED
    BY <1>0, <2>1 DEF Forward
<1>5. ASSUME NEW k \in DOMAIN deals, Confirms(k)
      PROVE  Forward
  <2> DEFINE e == Closed(deals[k], "ACTIVE", "ACCEPTED")
  <2>1. e.status = "ACTIVE" /\ Giving(e) = Giving(deals[k])
    BY <1>0, ClosedType, ClosedGives DEF DealStatus, LinkStatus
  <2> HIDE DEF e
  <2>2. /\ Len(deals') = Len(deals) /\ deals[k].status = "PENDING"
        /\ \A j \in DOMAIN deals : deals'[j] = IF j = k THEN e ELSE deals[j]
    BY <1>5, OneDealChanges DEF Confirms, e
  <2> QED
    BY <1>0, <2>1, <2>2 DEF Forward
<1>6. ASSUME NEW k \in DOMAIN deals, Cancels(k)
      PROVE  Forward
  <2> DEFINE e == Closed(deals[k], "CANCELLED", "DECLINED")
  <2>1. e.status = "CANCELLED" /\ Giving(e) = Giving(deals[k])
    BY <1>0, ClosedType, ClosedGives DEF DealStatus, LinkStatus
  <2> HIDE DEF e
  <2>2. /\ Len(deals') = Len(deals) /\ deals[k].status \in {"PENDING", "ACTIVE"}
        /\ \A j \in DOMAIN deals : deals'[j] = IF j = k THEN e ELSE deals[j]
    BY <1>6, OneDealChanges DEF Cancels, e
  <2> QED
    BY <1>0, <2>1, <2>2 DEF Forward
<1> QED
  BY <1>1, <1>2, <1>3, <1>4, <1>5, <1>6, DealSteps

\* No step, whatever completes late and whenever the page is reloaded, forgets a
\* deal but by the reset, takes an item out of one or moves its status back.
THEOREM DealsNeverGoBack == Spec => DealsMoveForward
<1>1. TypeInv /\ ReloadLosesNothing /\ [Next]_vars => [Forward]_vars
  BY ForwardStep
<1> QED
  BY <1>1, MirrorInvariant, PTL DEF Spec, DealsMoveForward, Forward

Unasked ==
  \A k \in DOMAIN deals \cap DOMAIN deals' :
    deals'[k].status = "PENDING" =>
      \A m \in DOMAIN deals'[k].chain :
        deals'[k].chain[m].status = "ACCEPTED" =>
          \/ deals'[k].chain[m] \in Range(deals[k].chain)
          \/ \E o \in Range(pending) :
               o.kind = "offer" /\ deals'[k].chain[m] = InitiatorLink(o)

LEMMA AgreedStep ==
  ASSUME TypeInv, ReloadLosesNothing, [Next]_vars
  PROVE  Unasked
<1>1. CASE deals' = deals
  BY <1>1 DEF Unasked, Range
<1>2. CASE Reset
  BY <1>2 DEF Reset, Unasked
<1>3. ASSUME NEW o, Offered(o), Joins(o)
      PROVE  Unasked
  <2>0. PICK d \in DOMAIN deals : \E m \in DOMAIN deals[d].chain :
          deals' = [deals EXCEPT ![d] = appendChainLink(deals[d], InitiatorLink(o), m)]
    BY <1>3 DEF Joins
  <2>1. PICK m \in DOMAIN deals[d].chain :
          deals' = [deals EXCEPT ![d] = appendChainLink(deals[d], InitiatorLink(o), m)]
    BY <2>0
  <2> DEFINE e == appendChainLink(deals[d], InitiatorLink(o), m)
  <2>2. deals[d] \in DealRecords /\ InitiatorLink(o) \in Links
    BY <1>3 DEF TypeInv, TypeOK, Offered
  <2>3. \A j \in DOMAIN e.chain :
          e.chain[j].status = "ACCEPTED" =>
            e.chain[j] = InitiatorLink(o) \/ \E n \in DOMAIN deals[d].chain : e.chain[j] = deals[d].chain[n]
    BY <2>2, AppendedLink
  <2> HIDE DEF e
  <2>4. \A k \in DOMAIN deals : deals'[k] = IF k = d THEN e ELSE deals[k]
    BY <2>1, OneDealChanges DEF e
  <2> QED
    BY <1>3, <2>3, <2>4 DEF Unasked, Range, Offered
<1>4. ASSUME NEW o, Offered(o), Opens(o)
      PROVE  Unasked
  <2>1. \A k \in DOMAIN deals : deals'[k] = deals[k]
    BY <1>4, NewDeal, OneDealMore DEF Opens
  <2> QED
    BY <2>1 DEF Unasked, Range
<1>5. ASSUME NEW k \in DOMAIN deals, Confirms(k) \/ Cancels(k)
      PROVE  Unasked
  <2>1. deals[k] \in DealRecords
    BY DEF TypeInv, TypeOK
  <2>2. /\ Closed(deals[k], "ACTIVE", "ACCEPTED").status = "ACTIVE"
        /\ Closed(deals[k], "CANCELLED", "DECLINED").status = "CANCELLED"
    BY <2>1, ClosedType DEF DealStatus, LinkStatus
  <2>3. deals'[k].status # "PENDING" /\ \A j \in DOMAIN deals \ {k} : deals'[j] = deals[j]
    BY <1>5, <2>2, OneDealChanges DEF Confirms, Cancels
  <2> QED
    BY <2>3 DEF Unasked, Range
<1> QED
  BY <1>1, <1>2, <1>3, <1>4, <1>5, DealSteps

\* Nobody in a pending deal is taken to have agreed to a swap other than the one
\* he agreed to, however other offers extend the chain around him.
THEOREM NobodySwappedUnasked == Spec => AgreedToThisSwap
<1>1. TypeInv /\ ReloadLosesNothing /\ [Next]_vars => [Unasked]_vars
  BY AgreedStep
<1> QED
  BY <1>1, MirrorInvariant, PTL DEF Spec, AgreedToThisSwap, Unasked
=============================================================================
