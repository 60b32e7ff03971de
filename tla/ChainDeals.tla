------------------------------ MODULE ChainDeals ------------------------------
(***************************************************************************)
(* The exchange chains of the barter backend: the chain_deals, proposals   *)
(* (chain_deal_transactions JOIN transactions), items and wish_items       *)
(* tables, and the HTTP requests that work on them concurrently:           *)
(* service/proposal, service/chown and the repositories they call.         *)
(*                                                                         *)
(* One action is one database transaction, or one statement executed on    *)
(* its own outside a transaction; requests interleave between them.  The   *)
(* advisory lock that serialises the requests on one deal is mutex.        *)
(* Quantities, titles and times of day are left out: a deadline is only    *)
(* unset, still ahead or past.                                             *)
(***************************************************************************)
EXTENDS Naturals, Sequences

CONSTANTS
  Users, Items, Deals,   \* users, items, and the ids chain_deals may hand out
  Requests,              \* the HTTP requests that may be in flight together
  NoUser, NoItem, NoDeal, NoRequest,
  BareLock,              \* is_locked = true with locked_by_deal_id NULL
  InitHolder,            \* [Items -> Users] items.holder_id at the start
  InitLock,              \* [Items -> {NoDeal, BareLock}] no deal exists yet
  InitWishes,            \* [Items -> Seq(Users)] who wishes for it, oldest first
  Calls,                 \* the operations the clients call
  RootItems,             \* items the clients ask for as a root
  MaxFaults,             \* bound: requests cut off half-way
  LatePatch              \* clients also PATCH proposals of a closed chain

ASSUME SentinelAssumption ==
  /\ NoUser \notin Users /\ NoItem \notin Items /\ NoRequest \notin Requests
  /\ NoDeal \notin Deals /\ BareLock \notin Deals /\ NoDeal # BareLock

ASSUME InitAssumption ==
  /\ InitHolder \in [Items -> Users]
  /\ InitLock \in [Items -> {NoDeal, BareLock}]
  /\ InitWishes \in [Items -> Seq(Users)]

ASSUME InputAssumption ==
  /\ RootItems \subseteq Items
  /\ MaxFaults \in Nat /\ LatePatch \in BOOLEAN

VARIABLES
  holder, lock, wishes,              \* items, wish_items
  dstatus, root, creator, deadline,  \* chain_deals
  pstatus, pitem, pto,               \* proposals, keyed by deal and participant
  mutex,                             \* pg_advisory_lock of a deal
  pc, job, todo,                     \* the handlers' local state
  faults

itemVars == <<holder, lock, wishes>>
dealVars == <<dstatus, root, creator, deadline>>
propVars == <<pstatus, pitem, pto>>
reqVars  == <<mutex, pc, job, todo>>
vars == <<itemVars, dealVars, propVars, reqVars, faults>>

DealStatus     == {"none", "PENDING", "CONFIRMED", "COMPLETED", "CANCELLED"}
ProposalStatus == {"none", "PENDING", "ACCEPTED", "DECLINED"}
Steps == {"idle", "propose", "wish", "link", "create", "join", "accept",
          "chain", "all", "confirm", "list", "move", "complete", "retract",
          "cancel", "decline", "unlock"}
Operations == {"deal", "join", "chown", "approve", "withdraw"}

\* What a handler keeps from its arguments and its reads: who calls, which
\* deal, the item offered and the item chowned.
Jobs == [op : Operations \cup {"none"}, user : Users \cup {NoUser},
         deal : Deals \cup {NoDeal}, item : Items \cup {NoItem},
         claim : Items \cup {NoItem}]

NoJob == [op |-> "none", user |-> NoUser, deal |-> NoDeal,
          item |-> NoItem, claim |-> NoItem]

Job(op, u, d, x) == [NoJob EXCEPT !.op = op, !.user = u, !.deal = d, !.item = x]

Init ==
  /\ holder = InitHolder /\ lock = InitLock /\ wishes = InitWishes
  /\ dstatus = [d \in Deals |-> "none"]
  /\ root = [d \in Deals |-> NoItem]
  /\ creator = [d \in Deals |-> NoUser]
  /\ deadline = [d \in Deals |-> "null"]
  /\ pstatus = [d \in Deals |-> [u \in Users |-> "none"]]
  /\ pitem = [d \in Deals |-> [u \in Users |-> NoItem]]
  /\ pto = [d \in Deals |-> [u \in Users |-> NoUser]]
  /\ mutex = [d \in Deals |-> NoRequest]
  /\ pc = [r \in Requests |-> "idle"]
  /\ job = [r \in Requests |-> NoJob]
  /\ todo = [r \in Requests |-> {}]
  /\ faults = 0

-----------------------------------------------------------------------------
(* Queries the statements are built from. *)

InDeal(d, x) == \E u \in Users : pstatus[d][u] # "none" /\ pitem[d][u] = x

ItemsOf(d) == {x \in Items : InDeal(d, x)}

Accepted(d, u) == pstatus[d][u] = "ACCEPTED"

\* A deal's id is handed out with its first proposal.
Visible(d) == \E u \in Users : pstatus[d][u] # "none"

\* resolveRecipient: the oldest wish for x that is not the proposer's own.
Recipient(x, u, v) ==
  /\ v # u
  /\ \E i \in DOMAIN wishes[x] :
       /\ wishes[x][i] = v
       /\ \A j \in 1 .. i - 1 : wishes[x][j] = u

\* Mutant: the lock of another deal no longer refuses the holder.
CheckHolderOnly(x, u) == holder[x] = u

\* Mutant: the lock is checked, the holder is not.
CheckLockOnly(x, u) == lock[x] \notin Deals

\* checkItemHolder: a lock without a deal does not refuse the holder.
CheckItemHolder(x, u) == holder[x] = u /\ lock[x] \notin Deals

\* The cancelling CTEs: every proposal of the deals in S is declined ...
DeclinedIn(S) ==
  [d \in Deals |-> [u \in Users |->
     IF d \in S /\ pstatus[d][u] # "none" THEN "DECLINED" ELSE pstatus[d][u]]]

\* Mutant: the release forgets WHERE locked_by_deal_id.
FreedAll(S) == [x \in Items |-> IF S # {} THEN NoDeal ELSE lock[x]]

\* Mutant: the release forgets the items locked under the deal.
FreedNone(S) == lock

\* ... and what the deals in S had locked is released.
FreedFrom(S) == [x \in Items |-> IF lock[x] \in S THEN NoDeal ELSE lock[x]]

CancelledIn(S) ==
  [d \in Deals |-> IF d \in S THEN "CANCELLED" ELSE dstatus[d]]

\* Mutant: competitors are looked up by their root item only.
CompetingByRoot(d, x) ==
  {e \in Deals \ {d} : dstatus[e] = "PENDING" /\ root[e] = x}

\* lockOfferedItem.competing: pending deals that have x in a proposal.
CompetingForItem(d, x) ==
  {e \in Deals \ {d} : dstatus[e] = "PENDING" /\ InDeal(e, x)}

\* TryLockChain.competing: pending deals that have, or whose root is, one of
\* d's items.
CompetingForChain(d) ==
  {e \in Deals \ {d} : /\ dstatus[e] = "PENDING"
                       /\ \/ root[e] \in ItemsOf(d)
                          \/ ItemsOf(e) \cap ItemsOf(d) # {}}

\* Mutant: once the root is locked anybody may approve.
ApprovalOnceRootLocked(d, u) ==
  creator[d] = u \/ pitem[d][u] = root[d] \/ lock[root[d]] # NoDeal

\* isApprovalAllowed: the creator and the offerer of the root may always
\* approve; the others once the root is locked, by whomever, and their
\* recipient has accepted.
IsApprovalAllowed(d, u) ==
  \/ creator[d] = u
  \/ pitem[d][u] = root[d]
  \/ /\ lock[root[d]] # NoDeal
     /\ Accepted(d, pto[d][u])

\* TryLockChain goes on once the creator and the root have been accepted.
ChainReady(d) ==
  /\ Accepted(d, creator[d])
  /\ \E u \in Users : Accepted(d, u) /\ pitem[d][u] = root[d]

\* Mutant: a proposal not yet answered counts as accepted.
NoneDeclined(d) ==
  /\ deadline[d] # "null"
  /\ \A u \in Users : pstatus[d][u] # "DECLINED"

\* AllAccepted.
AllAccepted(d) ==
  /\ deadline[d] # "null"
  /\ \A u \in Users : pstatus[d][u] \in {"none", "ACCEPTED"}

-----------------------------------------------------------------------------
(* Control of the handlers. *)

Goto(r, step) == pc' = [pc EXCEPT ![r] = step]

Begin(r, j, step) == Goto(r, step) /\ job' = [job EXCEPT ![r] = j] /\ UNCHANGED todo

\* Mutant: the handler forgets its deferred release.
RespondLocked(r) ==
  /\ Goto(r, "idle")
  /\ job' = [job EXCEPT ![r] = NoJob]
  /\ todo' = [todo EXCEPT ![r] = {}]
  /\ UNCHANGED mutex

\* The handler returns; its deferred release unlocks the deal.
Respond(r) ==
  /\ Goto(r, "idle")
  /\ job' = [job EXCEPT ![r] = NoJob]
  /\ todo' = [todo EXCEPT ![r] = {}]
  /\ mutex' = [d \in Deals |-> IF mutex[d] = r THEN NoRequest ELSE mutex[d]]

\* Mutant: the advisory lock does not exclude anybody.
LockNothing(r, d) == mutex' = [mutex EXCEPT ![d] = r]

LockDeal(r, d) == mutex[d] = NoRequest /\ mutex' = [mutex EXCEPT ![d] = r]

Expired(d) == deadline[d] = "past"

\* LockDeal, GetByID and ensureDealOpen up to its first write: an expired deal
\* is cancelled by whoever touches it next.
EnterOpenDeal(r, j, step) ==
  /\ LockDeal(r, j.deal)
  /\ dstatus[j.deal] = "PENDING"
  /\ Begin(r, j, IF Expired(j.deal) THEN "cancel" ELSE step)

\* CreateProposal refuses a closed chain and a second proposal of a user.
Joinable(d, u) ==
  dstatus[d] = "PENDING" /\ (Expired(d) \/ (deadline[d] = "null" /\ pstatus[d][u] = "none"))

-----------------------------------------------------------------------------
(* The requests.  A call that is refused before it writes anything changes   *)
(* no table and is left out, unless other requests may act in between.       *)

\* deals.Create: a row of its own statement, before any check of the offer.
InsertDeal(d, u, rt) ==
  /\ dstatus[d] = "none"
  /\ dstatus' = [dstatus EXCEPT ![d] = "PENDING"]
  /\ root' = [root EXCEPT ![d] = rt]
  /\ creator' = [creator EXCEPT ![d] = u]
  /\ UNCHANGED deadline

CreateDeal(r, u, rt, x) ==
  /\ "deal" \in Calls /\ pc[r] = "idle"
  /\ \E d \in Deals : InsertDeal(d, u, rt) /\ Begin(r, Job("deal", u, d, x), "propose")
  /\ UNCHANGED <<itemVars, propVars, mutex, faults>>

CreateProposal(r, u, d, x) ==
  /\ "join" \in Calls /\ pc[r] = "idle"
  /\ Visible(d) /\ Joinable(d, u)
  /\ EnterOpenDeal(r, Job("join", u, d, x), "propose")
  /\ UNCHANGED <<itemVars, dealVars, propVars, faults>>

\* FindOpenDealAsRecipient: an open deal in which rt is already promised to u.
OpenDealsAsRecipient(rt, u) ==
  {d \in Deals : /\ dstatus[d] = "PENDING" /\ deadline[d] = "null"
                 /\ \E v \in Users : /\ pstatus[d][v] # "none"
                                     /\ pitem[d][v] = rt /\ pto[d][v] = u}

Chown(r, u, rt, x) ==
  /\ "chown" \in Calls /\ pc[r] = "idle" /\ x # rt
  /\ LET found == OpenDealsAsRecipient(rt, u) IN
       \/ \E d \in found : Begin(r, Job("join", u, d, x), "join")
       \/ /\ found = {}
          /\ Begin(r, [Job("chown", u, NoDeal, x) EXCEPT !.claim = rt], "create")
  /\ UNCHANGED <<itemVars, dealVars, propVars, mutex, faults>>

\* The deal found may be locked, closed or over by the time chown joins it.
JoinFound(r) ==
  /\ pc[r] = "join"
  /\ mutex[job[r].deal] = NoRequest
  /\ IF Joinable(job[r].deal, job[r].user)
       THEN EnterOpenDeal(r, job[r], "propose")
       ELSE Respond(r)
  /\ UNCHANGED <<itemVars, dealVars, propVars, faults>>

CreateForClaim(r) ==
  /\ pc[r] = "create"
  /\ \E d \in Deals :
       /\ InsertDeal(d, job[r].user, job[r].claim)
       /\ Begin(r, [job[r] EXCEPT !.deal = d], "propose")
  /\ UNCHANGED <<itemVars, propVars, mutex, faults>>

\* proposals.Create, one transaction.  It reads the deal's deadline, not its
\* status.
CanPropose(d, u, x, v) ==
  /\ deadline[d] = "null"
  /\ CheckItemHolder(x, u)
  /\ Recipient(x, u, v)
  /\ pstatus[d][u] = "none"

InsertProposal(d, u, x, v) ==
  /\ pstatus' = [pstatus EXCEPT ![d][u] = "PENDING"]
  /\ pitem' = [pitem EXCEPT ![d][u] = x]
  /\ pto' = [pto EXCEPT ![d][u] = v]
  /\ lock' = [lock EXCEPT ![x] = NoDeal]
  /\ deadline' = IF x = root[d] THEN [deadline EXCEPT ![d] = "future"] ELSE deadline

Propose(r) ==
  LET d == job[r].deal  u == job[r].user  x == job[r].item IN
  /\ pc[r] = "propose"
  /\ \E v \in Users : CanPropose(d, u, x, v) /\ InsertProposal(d, u, x, v)
  /\ IF job[r].op = "chown"
       THEN Goto(r, "wish") /\ UNCHANGED <<job, todo, mutex>>
       ELSE Respond(r)
  /\ UNCHANGED <<holder, wishes, dstatus, root, creator, faults>>

ProposeRejected(r) ==
  /\ pc[r] = "propose"
  /\ \A v \in Users : ~CanPropose(job[r].deal, job[r].user, job[r].item, v)
  /\ Respond(r)
  /\ UNCHANGED <<itemVars, dealVars, propVars, faults>>

\* EnsureWish reads whether the wish exists, then inserts it.
WishExists(r) == \E i \in DOMAIN wishes[job[r].claim] : wishes[job[r].claim][i] = job[r].user

EnsureWish(r) ==
  /\ pc[r] = "wish"
  /\ IF WishExists(r) THEN Respond(r)
                      ELSE Goto(r, "link") /\ UNCHANGED <<job, todo, mutex>>
  /\ UNCHANGED <<itemVars, dealVars, propVars, faults>>

LinkWish(r) ==
  /\ pc[r] = "link"
  /\ wishes' = [wishes EXCEPT ![job[r].claim] = Append(@, job[r].user)]
  /\ Respond(r)
  /\ UNCHANGED <<holder, lock, dealVars, propVars, faults>>

-----------------------------------------------------------------------------
(* Approve. *)

Approve(r, u, d) ==
  /\ "approve" \in Calls /\ pc[r] = "idle"
  /\ Visible(d) /\ (Expired(d) \/ pstatus[d][u] = "PENDING")
  /\ EnterOpenDeal(r, Job("approve", u, d, NoItem), "accept")
  /\ UNCHANGED <<itemVars, dealVars, propVars, faults>>

\* SetStatus(ACCEPTED): lockPending, stillHoldsOfferedItem, isApprovalAllowed.
CanAccept(d, u) ==
  /\ pstatus[d][u] = "PENDING"
  /\ holder[pitem[d][u]] = u
  /\ IsApprovalAllowed(d, u)

\* lockOfferedItem updates the item twice in one statement when a rival had it
\* locked: PostgreSQL keeps either update.  By ExclusiveClaim none ever has.
LockOutcomes(d, x, rivals) == IF lock[x] \in rivals THEN {d, NoDeal} ELSE {d}

LockOfferedItem(d, x) ==
  LET rivals == CompetingForItem(d, x) IN
  /\ dstatus' = CancelledIn(rivals)
  /\ \E l \in LockOutcomes(d, x, rivals) : lock' = [FreedFrom(rivals) EXCEPT ![x] = l]

AcceptIn(d, u) ==
  /\ pstatus' = [DeclinedIn(CompetingForItem(d, pitem[d][u])) EXCEPT ![d][u] = "ACCEPTED"]
  /\ deadline' = IF deadline[d] = "null" THEN deadline ELSE [deadline EXCEPT ![d] = "future"]

Accept(r) ==
  LET d == job[r].deal  u == job[r].user IN
  /\ pc[r] = "accept"
  /\ CanAccept(d, u)
  /\ LockOfferedItem(d, pitem[d][u])
  /\ AcceptIn(d, u)
  /\ Goto(r, "chain")
  /\ UNCHANGED <<holder, wishes, root, creator, pitem, pto, mutex, job, todo, faults>>

AcceptRejected(r) ==
  /\ pc[r] = "accept"
  /\ ~CanAccept(job[r].deal, job[r].user)
  /\ Respond(r)
  /\ UNCHANGED <<itemVars, dealVars, propVars, faults>>

\* TryLockChain: every item of the chain, and the cancellation of every deal
\* that needs one of them.
LockChain(d) ==
  LET rivals == CompetingForChain(d) IN
  /\ dstatus' = CancelledIn(rivals)
  /\ pstatus' = DeclinedIn(rivals)
  /\ lock' = [x \in Items |-> IF x \in ItemsOf(d) THEN d ELSE FreedFrom(rivals)[x]]

TryLockChain(r) ==
  /\ pc[r] = "chain"
  /\ IF ChainReady(job[r].deal) THEN LockChain(job[r].deal)
                                ELSE UNCHANGED <<dstatus, pstatus, lock>>
  /\ Goto(r, "all")
  /\ UNCHANGED <<holder, wishes, root, creator, deadline, pitem, pto, mutex, job, todo, faults>>

CheckAllAccepted(r) ==
  /\ pc[r] = "all"
  /\ IF AllAccepted(job[r].deal) THEN Goto(r, "confirm") /\ UNCHANGED <<mutex, job, todo>>
                                 ELSE Respond(r)
  /\ UNCHANGED <<itemVars, dealVars, propVars, faults>>

\* deals.UpdateStatus: no condition on the status it overwrites.
UpdateStatus(d, status) ==
  dstatus' = [dstatus EXCEPT ![d] = status] /\ UNCHANGED <<root, creator, deadline>>

Confirm(r) ==
  /\ pc[r] = "confirm"
  /\ UpdateStatus(job[r].deal, "CONFIRMED")
  /\ Goto(r, "list")
  /\ UNCHANGED <<itemVars, propVars, mutex, job, todo, faults>>

\* Mutant: the two columns are scanned in the wrong order.
TransfersSwapped(d) == {<<pto[d][u], pitem[d][u]>> : u \in {v \in Users : pstatus[d][v] # "none"}}

Transfers(d) == {<<pitem[d][u], pto[d][u]>> : u \in {v \in Users : pstatus[d][v] # "none"}}

ListTransfers(r) ==
  /\ pc[r] = "list"
  /\ todo' = [todo EXCEPT ![r] = Transfers(job[r].deal)]
  /\ Goto(r, "move")
  /\ UNCHANGED <<itemVars, dealVars, propVars, mutex, job, faults>>

\* CompleteTransfer: the item changes hands and is unlocked, whoever had locked
\* it, and the recipient's oldest wish for it is dropped.
Without(s, i) == [j \in 1 .. Len(s) - 1 |-> IF j < i THEN s[j] ELSE s[j + 1]]

FulfilWish(x, v) ==
  LET mine == {i \in DOMAIN wishes[x] : wishes[x][i] = v} IN
  IF mine = {}
    THEN UNCHANGED wishes
    ELSE \E i \in mine : /\ \A j \in mine : i <= j
                         /\ wishes' = [wishes EXCEPT ![x] = Without(@, i)]

\* Mutant: the item changes hands and stays locked.
HandOverLocked(x, v) ==
  /\ holder' = [holder EXCEPT ![x] = v]
  /\ UNCHANGED lock
  /\ FulfilWish(x, v)

HandOver(x, v) ==
  /\ holder' = [holder EXCEPT ![x] = v]
  /\ lock' = [lock EXCEPT ![x] = NoDeal]
  /\ FulfilWish(x, v)

\* Mutant: the handler returns out of its loop after the first transfer.
TransferOne(r) ==
  /\ pc[r] = "move"
  /\ \E t \in todo[r] : HandOver(t[1], t[2])
  /\ Respond(r)
  /\ UNCHANGED <<dealVars, propVars, faults>>

CompleteTransfer(r) ==
  /\ pc[r] = "move"
  /\ \E t \in todo[r] : /\ HandOver(t[1], t[2])
                        /\ todo' = [todo EXCEPT ![r] = @ \ {t}]
                        /\ Goto(r, IF todo[r] = {t} THEN "complete" ELSE "move")
  /\ UNCHANGED <<dealVars, propVars, mutex, job, faults>>

Complete(r) ==
  /\ pc[r] = "complete"
  /\ UpdateStatus(job[r].deal, "COMPLETED")
  /\ Respond(r)
  /\ UNCHANGED <<itemVars, propVars, faults>>

-----------------------------------------------------------------------------
(* WithdrawProposal, and the cascade it shares with an expired deal. *)

Withdraw(r, u, d) ==
  /\ "withdraw" \in Calls /\ pc[r] = "idle"
  /\ dstatus[d] = "PENDING" /\ pstatus[d][u] = "PENDING"
  /\ LockDeal(r, d)
  /\ Begin(r, Job("withdraw", u, d, NoItem), "retract")
  /\ UNCHANGED <<itemVars, dealVars, propVars, faults>>

\* SetStatus(DECLINED).
Retract(r) ==
  LET d == job[r].deal  u == job[r].user IN
  /\ pc[r] = "retract"
  /\ IF pstatus[d][u] = "PENDING"
       THEN /\ pstatus' = [pstatus EXCEPT ![d][u] = "DECLINED"]
            /\ Goto(r, "cancel") /\ UNCHANGED <<mutex, job, todo>>
       ELSE Respond(r) /\ UNCHANGED pstatus
  /\ UNCHANGED <<itemVars, dealVars, pitem, pto, faults>>

Cancel(r) ==
  /\ pc[r] = "cancel"
  /\ UpdateStatus(job[r].deal, "CANCELLED")
  /\ Goto(r, "decline")
  /\ UNCHANGED <<itemVars, propVars, mutex, job, todo, faults>>

\* DeclineAllExcept spares the caller, who has just declined;
\* DeclineAllForDeal spares nobody.
DeclineAll(r) ==
  /\ pc[r] = "decline"
  /\ pstatus' = DeclinedIn({job[r].deal})
  /\ Goto(r, "unlock")
  /\ UNCHANGED <<itemVars, dealVars, pitem, pto, mutex, job, todo, faults>>

UnlockAllForDeal(r) ==
  /\ pc[r] = "unlock"
  /\ lock' = FreedFrom({job[r].deal})
  /\ Respond(r)
  /\ UNCHANGED <<holder, wishes, dealVars, propVars, faults>>

-----------------------------------------------------------------------------
(* Calls of a single transaction, time, and failures. *)

\* UpdateProposal: no advisory lock, no look at the deal.  The item given up
\* keeps its lock, and a root offered this way sets no deadline.
Patch(u, d, x) ==
  /\ "patch" \in Calls
  /\ LatePatch \/ deadline[d] = "null"
  /\ pstatus[d][u] = "PENDING"
  /\ CheckItemHolder(x, u)
  /\ lock' = [lock EXCEPT ![x] = NoDeal]
  /\ \E v \in Users : Recipient(x, u, v) /\ pto' = [pto EXCEPT ![d][u] = v]
  /\ pitem' = [pitem EXCEPT ![d][u] = x]
  /\ UNCHANGED <<holder, wishes, dealVars, pstatus, reqVars, faults>>

\* A user deletes a wish, and with it its link to the item.
DeleteWish(x) ==
  /\ "unwish" \in Calls
  /\ \E i \in DOMAIN wishes[x] : wishes' = [wishes EXCEPT ![x] = Without(@, i)]
  /\ UNCHANGED <<holder, lock, dealVars, propVars, reqVars, faults>>

PassDeadline(d) ==
  /\ "time" \in Calls
  /\ dstatus[d] = "PENDING" /\ deadline[d] = "future"
  /\ deadline' = [deadline EXCEPT ![d] = "past"]
  /\ UNCHANGED <<itemVars, dstatus, root, creator, propVars, reqVars, faults>>

\* The caller hangs up, the database fails, the deadlock retries run out or the
\* process dies: what is committed stays, the rest of the handler never runs,
\* and the advisory lock goes with the release or with the connection.
Abort(r) ==
  /\ faults < MaxFaults /\ pc[r] # "idle"
  /\ faults' = faults + 1
  /\ Respond(r)
  /\ UNCHANGED <<itemVars, dealVars, propVars>>

-----------------------------------------------------------------------------
\* Inputs: a user offers something it holds when it calls.
Holding(u) == {x \in Items : holder[x] = u}

Call(r) ==
  /\ pc[r] = "idle"
  /\ \E u \in Users :
       \/ \E rt \in RootItems, x \in Holding(u) : CreateDeal(r, u, rt, x) \/ Chown(r, u, rt, x)
       \/ \E d \in Deals :
            \/ \E x \in Holding(u) : CreateProposal(r, u, d, x)
            \/ Approve(r, u, d)
            \/ Withdraw(r, u, d)

Step(r) ==
  \/ CreateForClaim(r) \/ Propose(r) \/ ProposeRejected(r) \/ EnsureWish(r) \/ LinkWish(r)
  \/ Accept(r) \/ AcceptRejected(r) \/ TryLockChain(r) \/ CheckAllAccepted(r)
  \/ Confirm(r) \/ ListTransfers(r) \/ CompleteTransfer(r) \/ Complete(r)
  \/ Retract(r) \/ Cancel(r) \/ DeclineAll(r) \/ UnlockAllForDeal(r)

Environment ==
  \/ \E u \in Users, d \in Deals :
       pstatus[d][u] = "PENDING" /\ \E x \in Holding(u) : Patch(u, d, x)
  \/ \E x \in Items : DeleteWish(x)
  \/ \E d \in Deals : PassDeadline(d)

Next == (\E r \in Requests : Call(r) \/ JoinFound(r) \/ Step(r) \/ Abort(r)) \/ Environment

Spec == Init /\ [][Next]_vars

\* A handler that runs goes on; the advisory lock is granted in turn.  Nothing
\* makes a client call, or come back.
Fairness == \A r \in Requests : WF_vars(Step(r)) /\ SF_vars(JoinFound(r))

FairSpec == Spec /\ Fairness
-----------------------------------------------------------------------------
(* What the tables promise. *)

ItemTypes ==
  /\ holder \in [Items -> Users]
  /\ lock \in [Items -> Deals \cup {NoDeal, BareLock}]
  /\ wishes \in [Items -> Seq(Users)]

DealTypes ==
  /\ dstatus \in [Deals -> DealStatus]
  /\ root \in [Deals -> Items \cup {NoItem}]
  /\ creator \in [Deals -> Users \cup {NoUser}]
  /\ deadline \in [Deals -> {"null", "future", "past"}]

ProposalTypes ==
  /\ pstatus \in [Deals -> [Users -> ProposalStatus]]
  /\ pitem \in [Deals -> [Users -> Items \cup {NoItem}]]
  /\ pto \in [Deals -> [Users -> Users \cup {NoUser}]]

RequestTypes ==
  /\ mutex \in [Deals -> Requests \cup {NoRequest}]
  /\ pc \in [Requests -> Steps]
  /\ job \in [Requests -> Jobs]
  /\ todo \in [Requests -> SUBSET (Items \X Users)]
  /\ faults \in 0 .. MaxFaults

Types == ItemTypes /\ DealTypes /\ ProposalTypes /\ RequestTypes

\* A deal that exists has its root and creator, a proposal its item, recipient
\* and deal: the NOT NULL columns and the foreign keys.
RowsFilled ==
  \A d \in Deals :
    /\ dstatus[d] # "none" => root[d] \in Items /\ creator[d] \in Users
    /\ \A u \in Users : pstatus[d][u] # "none" =>
         /\ dstatus[d] # "none"
         /\ pitem[d][u] \in Items /\ pto[d][u] \in Users

\* A handler has the arguments its next step needs, and works on a deal that
\* exists.
JobsFilled ==
  \A r \in Requests :
    /\ job[r].deal \in Deals => dstatus[job[r].deal] # "none"
    /\ pc[r] # "idle" => job[r].user \in Users
    /\ pc[r] \notin {"idle", "create"} => job[r].deal \in Deals
    /\ pc[r] \in {"create", "join", "propose"} => job[r].item \in Items
    /\ job[r].op = "chown" => job[r].claim \in Items
    /\ pc[r] \in {"create", "wish", "link"} => job[r].op = "chown"

\* Every variable keeps its type, every reference has its row, and no handler
\* runs into a missing argument.
TypeOK == Types /\ RowsFilled /\ JobsFilled

\* A locked item has one claimant: while a deal has an item locked, no other
\* open deal has that item in a proposal, whatever the requests, the edits and
\* the failures in between (lockOfferedItem and TryLockChain cancel the rivals
\* they find, Create and Update refuse the item from then on).
ExclusiveClaim ==
  \A x \in Items, d, e \in Deals :
    lock[x] = d /\ d # e /\ dstatus[e] = "PENDING" => ~InDeal(e, x)

\* Two open deals never both have the same item in an accepted proposal: the
\* holder cannot promise one thing to two chains.
OneClaimPerItem ==
  \A d, e \in Deals, u, v \in Users :
    /\ d # e /\ dstatus[d] = "PENDING" /\ dstatus[e] = "PENDING"
    /\ Accepted(d, u) /\ Accepted(e, v)
    => pitem[d][u] # pitem[e][v]

\* An accepted proposal of an open deal keeps its item locked by that very
\* deal: no cascade of another deal, no transfer and no edit of an open chain
\* takes it away.
AcceptedIsLocked ==
  \A d \in Deals, u \in Users :
    dstatus[d] = "PENDING" /\ Accepted(d, u) => lock[pitem[d][u]] = d

\* Whoever offers an item in an open deal still holds it: a transfer reaches
\* every other deal that counts on the item before the item moves.
OffererHolds ==
  \A d \in Deals, u \in Users :
    dstatus[d] = "PENDING" /\ pstatus[d][u] # "none" => holder[pitem[d][u]] = u

\* Approval runs back along the chain: in an open deal, whoever has accepted is
\* the creator, offers the root, or hands its item to one who has accepted.
ChainOrder ==
  \A d \in Deals, u \in Users :
    dstatus[d] = "PENDING" /\ Accepted(d, u) =>
      \/ creator[d] = u
      \/ pitem[d][u] = root[d]
      \/ Accepted(d, pto[d][u])

\* An item changes hands only as its deal agreed: from the participant who
\* offered it to the recipient fixed in the proposal, in a confirmed deal that
\* has it locked and all of whose participants have accepted.
TransferOnlyAgreed ==
  [][\A x \in Items : holder'[x] # holder[x] =>
       \E d \in Deals, u \in Users :
         /\ dstatus[d] = "CONFIRMED" /\ lock[x] = d
         /\ pitem[d][u] = x /\ holder[x] = u /\ holder'[x] = pto[d][u]
         /\ \A v \in Users : pstatus[d][v] \in {"none", "ACCEPTED"}]_vars

\* A deal that is over stays over, and a confirmed deal can only be completed,
\* although UpdateStatus never looks at the status it overwrites.
StatusLifecycle ==
  [][\A d \in Deals :
       /\ dstatus[d] \in {"CANCELLED", "COMPLETED"} => dstatus'[d] = dstatus[d]
       /\ dstatus[d] = "CONFIRMED" => dstatus'[d] \in {"CONFIRMED", "COMPLETED"}
       /\ dstatus'[d] = "COMPLETED" => dstatus[d] \in {"CONFIRMED", "COMPLETED"}]_vars

\* No request works on the deal.
Quiescent(d) == \A r \in Requests : job[r].deal # d

\* A deal that is over and that no request works on any more has no item locked
\* and, when it was cancelled, no accepted proposal.
FinishedHoldsNothing ==
  \A d \in Deals : Quiescent(d) =>
    /\ dstatus[d] \in {"CANCELLED", "COMPLETED"} => \A x \in Items : lock[x] # d
    /\ dstatus[d] = "CANCELLED" => \A u \in Users : ~Accepted(d, u)

\* Once a deal is confirmed it is completed: the handler that confirmed it
\* carries out every transfer.
ConfirmedCompletes ==
  \A d \in Deals : dstatus[d] = "CONFIRMED" ~> dstatus[d] = "COMPLETED"

\* A cancelled deal soon holds nothing, whichever way it was cancelled.
CancelledReleases ==
  \A d \in Deals :
    dstatus[d] = "CANCELLED" ~> \A x \in Items : lock[x] # d

\* The advisory lock of a deal is granted to a chown that comes to join it.
JoinGetsLock == \A r \in Requests : pc[r] = "join" ~> pc[r] # "join"

-----------------------------------------------------------------------------
(* What the service is for. *)

\* A transfer agreed upon is due as long as its item is locked by the deal.
Due ==
  [d \in Deals |->
     IF dstatus[d] = "CONFIRMED"
     THEN {<<pitem[d][u], u, pto[d][u]>> :
             u \in {v \in Users : Accepted(d, v) /\ lock[pitem[d][v]] = d}}
     ELSE {}]

Bargain == INSTANCE Barter WITH status <- dstatus, due <- Due

\* The tables and the handlers keep the promises of Barter: what a deal agreed on
\* at the moment it is confirmed is its holders' to give, is moved item by item as
\* agreed, and all of it has moved when the deal is completed, although proposals,
\* cascades, transfers and status updates are transactions of their own.
KeepsBargains == Bargain!BarterSpec

\* What a confirmed deal has still to transfer can be transferred, also when the
\* request that confirmed it was cut off: the item is with who offered it, and no
\* other confirmed deal has it to transfer.
TransfersPossible == Bargain!StillPossible

-----------------------------------------------------------------------------
(* What most of this rests on, and UpdateProposal leaves to its callers. *)

\* No step changes an offer of a chain that is closed.
ClosedChainsUnedited ==
  \A d \in Deals : deadline[d] # "null" => pitem'[d] = pitem[d] /\ pto'[d] = pto[d]

-----------------------------------------------------------------------------
(* What the README says and the code does not keep. *)

\* README.md:146: an item changes hands only in a deal all of whose proposals
\* are accepted.
AgreedByAll ==
  [][\A x \in Items : holder'[x] # holder[x] =>
       \E d \in Deals : /\ InDeal(d, x) /\ dstatus[d] = "CONFIRMED"
                        /\ \A v \in Users : pstatus[d][v] \in {"none", "ACCEPTED"}]_vars

\* README.md:147: every way of cancelling a deal cancels the proposals that
\* are not accepted yet, so none is left open on a cancelled deal.
NoOpenProposalOnCancelled ==
  \A d \in Deals, u \in Users :
    Quiescent(d) /\ dstatus[d] = "CANCELLED" => pstatus[d][u] # "PENDING"
=============================================================================
