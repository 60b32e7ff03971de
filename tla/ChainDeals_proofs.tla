-------------------------- MODULE ChainDeals_proofs --------------------------
(* Proofs about ChainDeals, for every value of its constants. *)
EXTENDS ChainDeals, SequenceTheorems, TLAPS

USE DEF Goto

\* Dropping an element leaves a sequence over the same set.
LEMMA WithoutType ==
  ASSUME NEW S, NEW s \in Seq(S), NEW i \in 1 .. Len(s)
  PROVE  Without(s, i) \in Seq(S)
<1>1. Len(s) - 1 \in Nat
  OBVIOUS
<1>2. \A j \in 1 .. Len(s) - 1 : (IF j < i THEN s[j] ELSE s[j + 1]) \in S
  OBVIOUS
<1>3. Without(s, i) \in [1 .. Len(s) - 1 -> S]
  BY <1>2 DEF Without
<1> QED
  BY <1>1, <1>3

\* The type invariant holds in the empty tables.
LEMMA InitTypeOK == Init => TypeOK
  BY InitAssumption, InputAssumption, SentinelAssumption
  DEF Init, TypeOK, Types, ItemTypes, DealTypes, ProposalTypes, RequestTypes, RowsFilled, JobsFilled, NoJob, Jobs, Operations,
      DealStatus, ProposalStatus, Steps

\* A handler that returns leaves its arguments behind.
LEMMA RespondType ==
  ASSUME TypeOK, NEW r \in Requests, Respond(r), faults' \in 0 .. MaxFaults,
         \A d \in Deals : dstatus[d] # "none" => dstatus'[d] # "none"
  PROVE  RequestTypes' /\ JobsFilled'
  BY SentinelAssumption
  DEF TypeOK, Types, RequestTypes, JobsFilled, Respond, NoJob, Jobs, Operations, Steps

\* A handler that only moves on keeps its arguments; they must do for the step
\* it moves to.
LEMMA GotoType ==
  ASSUME TypeOK, NEW r \in Requests, NEW step \in Steps, Goto(r, step),
         UNCHANGED <<job, mutex, todo, faults>>,
         \A d \in Deals : dstatus[d] # "none" => dstatus'[d] # "none",
         pc[r] \notin {"idle", "create"},
         step \notin {"create", "join", "propose"},
         step \in {"wish", "link"} => job[r].op = "chown"
  PROVE  RequestTypes' /\ JobsFilled'
  BY DEF TypeOK, Types, RequestTypes, JobsFilled

\* Approval: only statuses, a lock and the deadline change, within their types.
LEMMA AcceptType ==
  ASSUME TypeOK, NEW r \in Requests, Accept(r)
  PROVE  TypeOK'
<1> DEFINE d == job[r].deal
           u == job[r].user
           x == pitem[d][u]
           rivals == CompetingForItem(d, x)
<1>1. d \in Deals /\ u \in Users /\ pstatus[d][u] = "PENDING" /\ x \in Items
  BY DEF Accept, CanAccept, TypeOK, JobsFilled, RowsFilled
<1>2. ItemTypes'
  BY <1>1 DEF Accept, LockOfferedItem, LockOutcomes, FreedFrom, TypeOK, Types, ItemTypes
<1>3. DealTypes'
  BY <1>1 DEF Accept, LockOfferedItem, AcceptIn, CancelledIn, TypeOK, Types, DealTypes, DealStatus
<1>4. ProposalTypes'
  BY <1>1 DEF Accept, AcceptIn, DeclinedIn, TypeOK, Types, ProposalTypes, ProposalStatus
<1>5. \A e \in Deals : dstatus[e] # "none" => dstatus'[e] # "none"
  BY DEF Accept, LockOfferedItem, CancelledIn
<1>6. RequestTypes' /\ JobsFilled'
  BY <1>5, GotoType DEF Accept, Steps
<1>7. \A e \in Deals, v \in Users : pstatus'[e][v] # "none" => pstatus[e][v] # "none"
  BY <1>1 DEF Accept, AcceptIn, DeclinedIn, TypeOK, Types, ProposalTypes
<1>8. RowsFilled'
  <2>1. UNCHANGED <<root, creator, pitem, pto>>
    BY DEF Accept
  <2>2. \A e \in Deals : dstatus'[e] # "none" => dstatus[e] # "none"
    BY DEF Accept, LockOfferedItem, CancelledIn, CompetingForItem
  <2> QED
    BY <1>5, <1>7, <2>1, <2>2 DEF TypeOK, RowsFilled
<1> QED
  BY <1>2, <1>3, <1>4, <1>6, <1>8 DEF TypeOK, Types

\* A first proposal fills its item and recipient and needs an existing deal.
LEMMA ProposeType ==
  ASSUME TypeOK, NEW r \in Requests, Propose(r)
  PROVE  TypeOK'
<1> DEFINE d == job[r].deal
           u == job[r].user
           x == job[r].item
<1>1. d \in Deals /\ u \in Users /\ x \in Items /\ dstatus[d] # "none" /\ pc[r] = "propose"
  BY DEF Propose, TypeOK, JobsFilled
<1>a. PICK v \in Users : CanPropose(d, u, x, v) /\ InsertProposal(d, u, x, v)
  BY DEF Propose
<1>2. ItemTypes'
  BY <1>1, <1>a DEF Propose, InsertProposal, TypeOK, Types, ItemTypes
<1>3. DealTypes'
  BY <1>1, <1>a DEF Propose, InsertProposal, TypeOK, Types, DealTypes
<1>4. ProposalTypes'
  BY <1>1, <1>a DEF Propose, InsertProposal, TypeOK, Types, ProposalTypes, ProposalStatus
<1>6. RequestTypes' /\ JobsFilled'
  <2>1. CASE job[r].op = "chown"
    BY <1>1, <2>1, GotoType DEF Propose, Steps
  <2>2. CASE job[r].op # "chown"
    BY <2>2, RespondType DEF Propose, TypeOK, Types, RequestTypes
  <2> QED
    BY <2>1, <2>2
<1>8. RowsFilled'
  BY <1>1, <1>a DEF TypeOK, Types, ProposalTypes, RowsFilled, Propose, InsertProposal
<1> QED
  BY <1>2, <1>3, <1>4, <1>6, <1>8 DEF TypeOK, Types

\* A handler that starts, or goes on with a better known deal, has the job j.
LEMMA BeginType ==
  ASSUME TypeOK, NEW r \in Requests, NEW j \in Jobs, NEW step \in Steps \ {"idle"},
         Begin(r, j, step), UNCHANGED faults,
         mutex' \in [Deals -> Requests \cup {NoRequest}],
         \A d \in Deals : dstatus[d] # "none" => dstatus'[d] # "none",
         j.user \in Users,
         j.deal \in Deals => dstatus'[j.deal] # "none",
         step # "create" => j.deal \in Deals,
         step \in {"create", "join", "propose"} => j.item \in Items,
         j.op = "chown" => j.claim \in Items,
         step \in {"create", "wish", "link"} => j.op = "chown"
  PROVE  RequestTypes' /\ JobsFilled'
  BY DEF TypeOK, Types, RequestTypes, JobsFilled, Begin

\* The arguments of a call make a well-formed job.
LEMMA JobType ==
  ASSUME NEW op \in Operations, NEW u \in Users, NEW d \in Deals \cup {NoDeal},
         NEW x \in Items \cup {NoItem}
  PROVE  /\ Job(op, u, d, x) \in Jobs
         /\ Job(op, u, d, x).op = op /\ Job(op, u, d, x).user = u
         /\ Job(op, u, d, x).deal = d /\ Job(op, u, d, x).item = x
  BY DEF Job, NoJob, Jobs

\* Actions that leave the tables alone.
LEMMA TablesStay ==
  ASSUME TypeOK, UNCHANGED <<itemVars, dealVars, propVars>>
  PROVE  ItemTypes' /\ DealTypes' /\ ProposalTypes' /\ RowsFilled'
  BY DEF TypeOK, Types, ItemTypes, DealTypes, ProposalTypes, RowsFilled,
         itemVars, dealVars, propVars

\* Entering a locked open deal keeps the types.
LEMMA EnterType ==
  ASSUME TypeOK, NEW r \in Requests, NEW op \in {"join", "approve", "withdraw"},
         NEW j \in Jobs, NEW step \in {"propose", "accept", "retract", "cancel"},
         j.op = op, j.user \in Users, j.deal \in Deals,
         step = "propose" => j.item \in Items,
         dstatus[j.deal] = "PENDING", LockDeal(r, j.deal), Begin(r, j, step),
         UNCHANGED <<itemVars, dealVars, propVars, faults>>
  PROVE  TypeOK'
<1>1. mutex' \in [Deals -> Requests \cup {NoRequest}]
  BY DEF LockDeal, TypeOK, Types, RequestTypes
<1>2. RequestTypes' /\ JobsFilled'
  BY <1>1, BeginType DEF Steps, dealVars
<1> QED
  BY <1>2, TablesStay DEF TypeOK, Types

\* A join by id starts on a visible deal.
LEMMA CreateProposalType ==
  ASSUME TypeOK, NEW r \in Requests, NEW u \in Users, NEW d \in Deals, NEW x \in Items,
         CreateProposal(r, u, d, x)
  PROVE  TypeOK'
  BY EnterType, JobType DEF CreateProposal, EnterOpenDeal, Operations

\* An approval starts on a visible deal.
LEMMA ApproveType ==
  ASSUME TypeOK, NEW r \in Requests, NEW u \in Users, NEW d \in Deals, Approve(r, u, d)
  PROVE  TypeOK'
  BY EnterType, JobType DEF Approve, EnterOpenDeal, Operations

\* A withdrawal starts on a deal that is open.
LEMMA WithdrawType ==
  ASSUME TypeOK, NEW r \in Requests, NEW u \in Users, NEW d \in Deals, Withdraw(r, u, d)
  PROVE  TypeOK'
  BY EnterType, JobType DEF Withdraw, Operations

\* A handler that returns with the tables as they are.
LEMMA ReturnType ==
  ASSUME TypeOK, NEW r \in Requests, Respond(r), faults' \in 0 .. MaxFaults,
         UNCHANGED <<itemVars, dealVars, propVars>>
  PROVE  TypeOK'
<1>1. RequestTypes' /\ JobsFilled'
  BY RespondType DEF dealVars
<1> QED
  BY <1>1, TablesStay DEF TypeOK, Types

\* The chown that gets its lock joins an existing deal or returns.
LEMMA JoinFoundType ==
  ASSUME TypeOK, NEW r \in Requests, JoinFound(r)
  PROVE  TypeOK'
<1> DEFINE j == job[r]
<1>1. /\ j \in Jobs /\ j.user \in Users /\ j.deal \in Deals /\ j.item \in Items
      /\ pc[r] = "join" /\ faults' = faults /\ faults \in 0 .. MaxFaults
  BY DEF TypeOK, Types, RequestTypes, JobsFilled, JoinFound
<1>2. CASE Joinable(j.deal, j.user)
  <2>1. mutex' \in [Deals -> Requests \cup {NoRequest}]
    BY <1>1, <1>2 DEF JoinFound, EnterOpenDeal, LockDeal, TypeOK, Types, RequestTypes
  <2>2. PICK step \in {"cancel", "propose"} : Begin(r, j, step)
    BY <1>2 DEF JoinFound, EnterOpenDeal
  <2>3. dstatus'[j.deal] # "none" /\ (j.op = "chown" => j.claim \in Items)
    BY <1>1 DEF TypeOK, JobsFilled, JoinFound, dealVars
  <2>4. RequestTypes' /\ JobsFilled'
    BY <1>1, <2>1, <2>2, <2>3, BeginType DEF Steps, JoinFound, dealVars
  <2> QED
    BY <2>4, TablesStay DEF TypeOK, Types, JoinFound
<1>3. CASE ~Joinable(j.deal, j.user)
  BY <1>1, <1>3, ReturnType DEF JoinFound
<1> QED
  BY <1>2, <1>3

\* chown starts with either a deal that exists or none.
LEMMA ChownType ==
  ASSUME TypeOK, NEW r \in Requests, NEW u \in Users, NEW rt \in Items, NEW x \in Items,
         Chown(r, u, rt, x)
  PROVE  TypeOK'
<1>1. mutex' \in [Deals -> Requests \cup {NoRequest}] /\ faults' = faults
  BY DEF Chown, TypeOK, Types, RequestTypes
<1>2. CASE OpenDealsAsRecipient(rt, u) = {}
  <2> DEFINE j == [Job("chown", u, NoDeal, x) EXCEPT !.claim = rt]
  <2>1. j \in Jobs /\ j.op = "chown" /\ j.user = u /\ j.item = x /\ j.claim = rt /\ j.deal \notin Deals
    BY SentinelAssumption DEF Job, NoJob, Jobs, Operations
  <2>2. Begin(r, j, "create")
    BY <1>2 DEF Chown
  <2>3. RequestTypes' /\ JobsFilled'
    <3> HIDE DEF j
    <3> QED BY <1>1, <2>1, <2>2, BeginType DEF Steps, Chown, dealVars
  <2> QED
    BY <2>3, TablesStay DEF TypeOK, Types, Chown
<1>3. CASE OpenDealsAsRecipient(rt, u) # {}
  <2>1. PICK d \in OpenDealsAsRecipient(rt, u) : Begin(r, Job("join", u, d, x), "join")
    BY <1>3 DEF Chown
  <2>2. d \in Deals /\ dstatus[d] = "PENDING"
    BY DEF OpenDealsAsRecipient
  <2>3. RequestTypes' /\ JobsFilled'
    BY <1>1, <2>1, <2>2, BeginType, JobType DEF Steps, Operations, Chown, dealVars
  <2> QED
    BY <2>3, TablesStay DEF TypeOK, Types, Chown
<1> QED
  BY <1>2, <1>3

\* A new row of chain_deals, with the handler that goes on to its first proposal.
LEMMA InsertDealType ==
  ASSUME TypeOK, NEW r \in Requests, NEW u \in Users, NEW rt \in Items, NEW d \in Deals,
         NEW j \in Jobs, j.user \in Users, j.deal = d, j.item \in Items,
         j.op = "chown" => j.claim \in Items,
         InsertDeal(d, u, rt), Begin(r, j, "propose"),
         UNCHANGED <<itemVars, propVars, mutex, faults>>
  PROVE  TypeOK'
<1>1. /\ dstatus' = [dstatus EXCEPT ![d] = "PENDING"] /\ dstatus[d] = "none"
      /\ root' = [root EXCEPT ![d] = rt] /\ creator' = [creator EXCEPT ![d] = u]
      /\ UNCHANGED deadline
  BY DEF InsertDeal
<1>2. ItemTypes' /\ ProposalTypes'
  BY DEF TypeOK, Types, ItemTypes, ProposalTypes, itemVars, propVars
<1>3. DealTypes'
  BY <1>1 DEF TypeOK, Types, DealTypes, DealStatus
<1>4. dstatus'[d] = "PENDING" /\ \A e \in Deals : dstatus[e] # "none" => dstatus'[e] # "none"
  BY <1>1 DEF TypeOK, Types, DealTypes
<1>5. RequestTypes' /\ JobsFilled'
  <2>1. mutex' \in [Deals -> Requests \cup {NoRequest}]
    BY DEF TypeOK, Types, RequestTypes
  <2> QED
    BY <1>4, <2>1, BeginType DEF Steps
<1>6. RowsFilled'
  BY <1>1 DEF TypeOK, Types, DealTypes, RowsFilled, propVars
<1> QED
  BY <1>2, <1>3, <1>5, <1>6 DEF TypeOK, Types

\* CreateDeal goes on with the deal it has just inserted.
LEMMA CreateDealType ==
  ASSUME TypeOK, NEW r \in Requests, NEW u \in Users, NEW rt \in Items, NEW x \in Items,
         CreateDeal(r, u, rt, x)
  PROVE  TypeOK'
<1>1. PICK d \in Deals : InsertDeal(d, u, rt) /\ Begin(r, Job("deal", u, d, x), "propose")
  BY DEF CreateDeal
<1> QED
  BY <1>1, JobType, InsertDealType DEF CreateDeal, Operations

\* chown's new deal has the claimed item as its root.
LEMMA CreateForClaimType ==
  ASSUME TypeOK, NEW r \in Requests, CreateForClaim(r)
  PROVE  TypeOK'
<1>1. /\ job[r] \in Jobs /\ job[r].user \in Users /\ job[r].item \in Items
      /\ job[r].claim \in Items
  BY DEF TypeOK, Types, RequestTypes, JobsFilled, CreateForClaim
<1>2. PICK d \in Deals : /\ InsertDeal(d, job[r].user, job[r].claim)
                         /\ Begin(r, [job[r] EXCEPT !.deal = d], "propose")
  BY DEF CreateForClaim
<1> DEFINE j == [job[r] EXCEPT !.deal = d]
<1>3. j \in Jobs /\ j.user = job[r].user /\ j.deal = d /\ j.item = job[r].item /\ j.claim = job[r].claim
  BY <1>1 DEF Jobs
<1> HIDE DEF j
<1> QED
  BY <1>1, <1>2, <1>3, InsertDealType DEF CreateForClaim, j

\* Only a chown looks for its wish.
LEMMA EnsureWishType ==
  ASSUME TypeOK, NEW r \in Requests, EnsureWish(r)
  PROVE  TypeOK'
<1>1. CASE WishExists(r)
  BY <1>1, ReturnType DEF EnsureWish, TypeOK, Types, RequestTypes
<1>2. CASE ~WishExists(r)
  <2>1. pc[r] = "wish" /\ job[r].op = "chown"
    BY DEF EnsureWish, TypeOK, JobsFilled
  <2>2. RequestTypes' /\ JobsFilled'
    BY <1>2, <2>1, GotoType DEF EnsureWish, Steps, dealVars
  <2> QED
    BY <2>2, TablesStay DEF TypeOK, Types, EnsureWish
<1> QED
  BY <1>1, <1>2

\* A new wish is one more user at the end of the item's wishes.
LEMMA LinkWishType ==
  ASSUME TypeOK, NEW r \in Requests, LinkWish(r)
  PROVE  TypeOK'
<1>1. job[r].claim \in Items /\ job[r].user \in Users
  BY DEF LinkWish, TypeOK, JobsFilled
<1>2. wishes[job[r].claim] \in Seq(Users)
  BY <1>1 DEF TypeOK, Types, ItemTypes
<1>3. Append(wishes[job[r].claim], job[r].user) \in Seq(Users)
  BY <1>1, <1>2
<1>4. ItemTypes'
  BY <1>3 DEF LinkWish, TypeOK, Types, ItemTypes
<1>5. RequestTypes' /\ JobsFilled'
  BY RespondType DEF LinkWish, TypeOK, Types, RequestTypes, dealVars
<1>6. DealTypes' /\ ProposalTypes' /\ RowsFilled'
  BY DEF LinkWish, TypeOK, Types, DealTypes, ProposalTypes, RowsFilled, dealVars, propVars
<1> QED
  BY <1>4, <1>5, <1>6 DEF TypeOK, Types

\* Cancelling a set of deals that exist creates and removes no row.
LEMMA CascadeType ==
  ASSUME TypeOK, NEW S \in SUBSET Deals, \A e \in S : dstatus[e] = "PENDING",
         dstatus' = CancelledIn(S), pstatus' = DeclinedIn(S),
         UNCHANGED <<root, creator, deadline, pitem, pto>>
  PROVE  /\ DealTypes' /\ ProposalTypes' /\ RowsFilled'
         /\ \A e \in Deals : dstatus[e] # "none" => dstatus'[e] # "none"
<1>1. DealTypes'
  BY DEF CancelledIn, TypeOK, Types, DealTypes, DealStatus
<1>2. ProposalTypes'
  BY DEF DeclinedIn, TypeOK, Types, ProposalTypes, ProposalStatus
<1>3. \A e \in Deals : dstatus[e] # "none" <=> dstatus'[e] # "none"
  BY DEF CancelledIn
<1>4. \A e \in Deals, u \in Users : pstatus'[e][u] # "none" => pstatus[e][u] # "none"
  BY DEF DeclinedIn
<1> QED
  BY <1>1, <1>2, <1>3, <1>4 DEF TypeOK, RowsFilled

\* The cascade of a closed chain keeps the types.
LEMMA TryLockChainType ==
  ASSUME TypeOK, NEW r \in Requests, TryLockChain(r)
  PROVE  TypeOK'
<1> DEFINE d == job[r].deal
<1>1. d \in Deals /\ pc[r] = "chain"
  BY DEF TryLockChain, TypeOK, JobsFilled
<1>2. CASE ChainReady(d)
  <2> DEFINE rivals == CompetingForChain(d)
  <2>1. /\ rivals \in SUBSET Deals /\ \A e \in rivals : dstatus[e] = "PENDING"
        /\ dstatus' = CancelledIn(rivals) /\ pstatus' = DeclinedIn(rivals)
        /\ lock' = [x \in Items |-> IF x \in ItemsOf(d) THEN d ELSE FreedFrom(rivals)[x]]
    BY <1>2 DEF CompetingForChain, TryLockChain, LockChain
  <2>2. /\ DealTypes' /\ ProposalTypes' /\ RowsFilled'
        /\ \A e \in Deals : dstatus[e] # "none" => dstatus'[e] # "none"
    <3> HIDE DEF rivals
    <3> QED BY <2>1, CascadeType DEF TryLockChain
  <2>3. ItemTypes'
    BY <1>1, <2>1 DEF FreedFrom, TryLockChain, TypeOK, Types, ItemTypes
  <2>4. RequestTypes' /\ JobsFilled'
    BY <1>1, <2>2, GotoType DEF TryLockChain, Steps
  <2> QED
    BY <2>2, <2>3, <2>4 DEF TypeOK, Types
<1>3. CASE ~ChainReady(d)
  <2>1. UNCHANGED <<itemVars, dealVars, propVars>>
    BY <1>3 DEF TryLockChain, itemVars, dealVars, propVars
  <2>2. RequestTypes' /\ JobsFilled'
    BY <1>1, <2>1, GotoType DEF TryLockChain, Steps, dealVars
  <2> QED
    BY <2>1, <2>2, TablesStay DEF TypeOK, Types
<1> QED
  BY <1>2, <1>3

\* The check writes nothing and goes on to confirm or returns.
LEMMA CheckAllAcceptedType ==
  ASSUME TypeOK, NEW r \in Requests, CheckAllAccepted(r)
  PROVE  TypeOK'
<1>1. CASE AllAccepted(job[r].deal)
  <2>1. RequestTypes' /\ JobsFilled'
    BY <1>1, GotoType DEF CheckAllAccepted, Steps, dealVars
  <2> QED
    BY <2>1, TablesStay DEF TypeOK, Types, CheckAllAccepted
<1>2. CASE ~AllAccepted(job[r].deal)
  BY <1>2, ReturnType DEF CheckAllAccepted, TypeOK, Types, RequestTypes
<1> QED
  BY <1>1, <1>2

\* UpdateStatus on a deal that exists.
LEMMA UpdateStatusType ==
  ASSUME TypeOK, NEW d \in Deals, NEW status \in DealStatus \ {"none"},
         dstatus[d] # "none", UpdateStatus(d, status), UNCHANGED propVars
  PROVE  /\ DealTypes' /\ ProposalTypes' /\ RowsFilled'
         /\ \A e \in Deals : dstatus[e] # "none" => dstatus'[e] # "none"
<1>1. DealTypes' /\ ProposalTypes'
  BY DEF UpdateStatus, TypeOK, Types, DealTypes, ProposalTypes, propVars
<1>2. \A e \in Deals : dstatus[e] # "none" <=> dstatus'[e] # "none"
  BY DEF UpdateStatus, TypeOK, Types, DealTypes
<1> QED
  BY <1>1, <1>2 DEF TypeOK, RowsFilled, UpdateStatus, propVars

\* Confirming a deal that exists.
LEMMA ConfirmType ==
  ASSUME TypeOK, NEW r \in Requests, Confirm(r)
  PROVE  TypeOK'
<1>1. job[r].deal \in Deals /\ dstatus[job[r].deal] # "none"
  BY DEF Confirm, TypeOK, JobsFilled
<1>2. /\ DealTypes' /\ ProposalTypes' /\ RowsFilled'
      /\ \A e \in Deals : dstatus[e] # "none" => dstatus'[e] # "none"
  BY <1>1, UpdateStatusType DEF Confirm, DealStatus
<1>3. RequestTypes' /\ JobsFilled'
  BY <1>2, GotoType DEF Confirm, Steps
<1>4. ItemTypes'
  BY DEF Confirm, itemVars, TypeOK, Types, ItemTypes
<1> QED
  BY <1>2, <1>3, <1>4 DEF TypeOK, Types

\* Cancelling a deal that exists.
LEMMA CancelType ==
  ASSUME TypeOK, NEW r \in Requests, Cancel(r)
  PROVE  TypeOK'
<1>1. job[r].deal \in Deals /\ dstatus[job[r].deal] # "none"
  BY DEF Cancel, TypeOK, JobsFilled
<1>2. /\ DealTypes' /\ ProposalTypes' /\ RowsFilled'
      /\ \A e \in Deals : dstatus[e] # "none" => dstatus'[e] # "none"
  BY <1>1, UpdateStatusType DEF Cancel, DealStatus
<1>3. RequestTypes' /\ JobsFilled'
  BY <1>2, GotoType DEF Cancel, Steps
<1>4. ItemTypes'
  BY DEF Cancel, itemVars, TypeOK, Types, ItemTypes
<1> QED
  BY <1>2, <1>3, <1>4 DEF TypeOK, Types

\* Completing a deal that exists.
LEMMA CompleteType ==
  ASSUME TypeOK, NEW r \in Requests, Complete(r)
  PROVE  TypeOK'
<1>1. job[r].deal \in Deals /\ dstatus[job[r].deal] # "none"
  BY DEF Complete, TypeOK, JobsFilled
<1>2. /\ DealTypes' /\ ProposalTypes' /\ RowsFilled'
      /\ \A e \in Deals : dstatus[e] # "none" => dstatus'[e] # "none"
  BY <1>1, UpdateStatusType DEF Complete, DealStatus
<1>3. RequestTypes' /\ JobsFilled'
  BY <1>2, RespondType DEF Complete, TypeOK, Types, RequestTypes
<1>4. ItemTypes'
  BY DEF Complete, itemVars, TypeOK, Types, ItemTypes
<1> QED
  BY <1>2, <1>3, <1>4 DEF TypeOK, Types

\* The list of transfers pairs items with users.
LEMMA ListTransfersType ==
  ASSUME TypeOK, NEW r \in Requests, ListTransfers(r)
  PROVE  TypeOK'
<1>1. job[r].deal \in Deals /\ pc[r] = "list"
  BY DEF ListTransfers, TypeOK, JobsFilled
<1>2. Transfers(job[r].deal) \in SUBSET (Items \X Users)
  BY <1>1 DEF Transfers, TypeOK, RowsFilled
<1>3. RequestTypes'
  BY <1>2 DEF ListTransfers, Steps, TypeOK, Types, RequestTypes
<1>4. JobsFilled'
  BY <1>1 DEF ListTransfers, TypeOK, Types, RequestTypes, JobsFilled, dealVars
<1> QED
  BY <1>3, <1>4, TablesStay DEF TypeOK, Types, ListTransfers

\* An item goes to a user; the rest of the list stays a list of transfers.
LEMMA CompleteTransferType ==
  ASSUME TypeOK, NEW r \in Requests, CompleteTransfer(r)
  PROVE  TypeOK'
<1>1. PICK t \in todo[r] : /\ HandOver(t[1], t[2])
                           /\ todo' = [todo EXCEPT ![r] = @ \ {t}]
                           /\ Goto(r, IF todo[r] = {t} THEN "complete" ELSE "move")
  BY DEF CompleteTransfer
<1>2. t[1] \in Items /\ t[2] \in Users /\ pc[r] = "move"
  BY <1>1 DEF TypeOK, Types, RequestTypes, CompleteTransfer
<1>3. wishes' \in [Items -> Seq(Users)]
  <2> DEFINE mine == {i \in DOMAIN wishes[t[1]] : wishes[t[1]][i] = t[2]}
  <2>1. wishes \in [Items -> Seq(Users)] /\ wishes[t[1]] \in Seq(Users)
    BY <1>2 DEF TypeOK, Types, ItemTypes
  <2>2. CASE mine = {}
    BY <1>1, <2>1, <2>2 DEF HandOver, FulfilWish
  <2>3. CASE mine # {}
    <3>1. PICK i \in mine : wishes' = [wishes EXCEPT ![t[1]] = Without(@, i)]
      BY <1>1, <2>3 DEF HandOver, FulfilWish
    <3>2. i \in 1 .. Len(wishes[t[1]])
      BY <2>1
    <3>3. Without(wishes[t[1]], i) \in Seq(Users)
      BY <2>1, <3>2, WithoutType
    <3> QED
      BY <2>1, <3>1, <3>3
  <2> QED
    BY <2>2, <2>3
<1>4. ItemTypes'
  BY <1>1, <1>2, <1>3 DEF HandOver, TypeOK, Types, ItemTypes
<1>5. RequestTypes'
  BY <1>1 DEF CompleteTransfer, Steps, TypeOK, Types, RequestTypes
<1>6. JobsFilled'
  BY <1>1, <1>2 DEF CompleteTransfer, TypeOK, Types, RequestTypes, JobsFilled, dealVars
<1>7. DealTypes' /\ ProposalTypes' /\ RowsFilled'
  BY DEF CompleteTransfer, TypeOK, Types, DealTypes, ProposalTypes, RowsFilled, dealVars, propVars
<1> QED
  BY <1>4, <1>5, <1>6, <1>7 DEF TypeOK, Types

\* A withdrawal declines a proposal that exists.
LEMMA RetractType ==
  ASSUME TypeOK, NEW r \in Requests, Retract(r)
  PROVE  TypeOK'
<1> DEFINE d == job[r].deal
           u == job[r].user
<1>1. d \in Deals /\ u \in Users /\ pc[r] = "retract"
  BY DEF Retract, TypeOK, JobsFilled
<1>2. CASE pstatus[d][u] = "PENDING"
  <2>1. pstatus' = [pstatus EXCEPT ![d][u] = "DECLINED"] /\ UNCHANGED <<dealVars, pitem, pto>>
    BY <1>2 DEF Retract
  <2>2. RequestTypes' /\ JobsFilled'
    BY <1>1, <1>2, GotoType DEF Retract, Steps, dealVars
  <2>3. ItemTypes' /\ DealTypes'
    BY DEF Retract, itemVars, dealVars, TypeOK, Types, ItemTypes, DealTypes
  <2>4. ProposalTypes'
    BY <1>1, <2>1 DEF TypeOK, Types, ProposalTypes, ProposalStatus
  <2>5. RowsFilled'
    BY <1>1, <1>2, <2>1 DEF TypeOK, Types, ProposalTypes, RowsFilled, dealVars
  <2> QED
    BY <2>2, <2>3, <2>4, <2>5 DEF TypeOK, Types
<1>3. CASE pstatus[d][u] # "PENDING"
  BY <1>3, ReturnType DEF Retract, TypeOK, Types, RequestTypes, propVars
<1> QED
  BY <1>2, <1>3

\* Declining touches only proposals that exist.
LEMMA DeclineAllType ==
  ASSUME TypeOK, NEW r \in Requests, DeclineAll(r)
  PROVE  TypeOK'
<1>1. RequestTypes' /\ JobsFilled'
  BY GotoType DEF DeclineAll, Steps, dealVars
<1>2. ItemTypes' /\ DealTypes'
  BY DEF DeclineAll, itemVars, dealVars, TypeOK, Types, ItemTypes, DealTypes
<1>3. ProposalTypes'
  BY DEF DeclineAll, DeclinedIn, TypeOK, Types, ProposalTypes, ProposalStatus
<1>4. \A e \in Deals, u \in Users : pstatus'[e][u] # "none" => pstatus[e][u] # "none"
  BY DEF DeclineAll, DeclinedIn
<1>5. RowsFilled'
  BY <1>4 DEF DeclineAll, TypeOK, RowsFilled, dealVars
<1> QED
  BY <1>1, <1>2, <1>3, <1>5 DEF TypeOK, Types

\* Releasing a deal's items leaves no lock of a wrong type.
LEMMA UnlockAllForDealType ==
  ASSUME TypeOK, NEW r \in Requests, UnlockAllForDeal(r)
  PROVE  TypeOK'
<1>1. RequestTypes' /\ JobsFilled'
  BY RespondType DEF UnlockAllForDeal, TypeOK, Types, RequestTypes, dealVars
<1>2. ItemTypes'
  BY DEF UnlockAllForDeal, FreedFrom, TypeOK, Types, ItemTypes
<1>3. DealTypes' /\ ProposalTypes' /\ RowsFilled'
  BY DEF UnlockAllForDeal, TypeOK, Types, DealTypes, ProposalTypes, RowsFilled, dealVars, propVars
<1> QED
  BY <1>1, <1>2, <1>3 DEF TypeOK, Types

\* Transactions of the environment touch no handler.
LEMMA RequestsStay ==
  ASSUME TypeOK, UNCHANGED <<reqVars, faults, dstatus>>
  PROVE  RequestTypes' /\ JobsFilled'
  BY DEF TypeOK, Types, RequestTypes, JobsFilled, reqVars

\* An edited proposal has an item and a recipient again.
LEMMA PatchType ==
  ASSUME TypeOK, NEW u \in Users, NEW d \in Deals, NEW x \in Items, Patch(u, d, x)
  PROVE  TypeOK'
<1>1. PICK v \in Users : pto' = [pto EXCEPT ![d][u] = v]
  BY DEF Patch
<1>2. ItemTypes' /\ DealTypes'
  BY DEF Patch, dealVars, TypeOK, Types, ItemTypes, DealTypes
<1>3. ProposalTypes'
  BY <1>1 DEF Patch, TypeOK, Types, ProposalTypes
<1>4. RowsFilled'
  BY <1>1 DEF Patch, dealVars, TypeOK, Types, ProposalTypes, RowsFilled
<1> QED
  BY <1>2, <1>3, <1>4, RequestsStay DEF TypeOK, Types, Patch, dealVars

\* Deleting a wish shortens a list of users.
LEMMA DeleteWishType ==
  ASSUME TypeOK, NEW x \in Items, DeleteWish(x)
  PROVE  TypeOK'
<1>1. PICK i \in DOMAIN wishes[x] : wishes' = [wishes EXCEPT ![x] = Without(@, i)]
  BY DEF DeleteWish
<1>2. wishes[x] \in Seq(Users) /\ i \in 1 .. Len(wishes[x])
  BY DEF TypeOK, Types, ItemTypes
<1>3. Without(wishes[x], i) \in Seq(Users)
  BY <1>2, WithoutType
<1>4. ItemTypes'
  BY <1>1, <1>3 DEF DeleteWish, TypeOK, Types, ItemTypes
<1>5. DealTypes' /\ ProposalTypes' /\ RowsFilled'
  BY DEF DeleteWish, TypeOK, Types, DealTypes, ProposalTypes, RowsFilled, dealVars, propVars
<1> QED
  BY <1>4, <1>5, RequestsStay DEF TypeOK, Types, DeleteWish, dealVars

\* A deadline passes.
LEMMA PassDeadlineType ==
  ASSUME TypeOK, NEW d \in Deals, PassDeadline(d)
  PROVE  TypeOK'
<1>1. ItemTypes' /\ DealTypes' /\ ProposalTypes' /\ RowsFilled'
  BY DEF PassDeadline, TypeOK, Types, ItemTypes, DealTypes, ProposalTypes, RowsFilled, itemVars, propVars
<1> QED
  BY <1>1, RequestsStay DEF TypeOK, Types, PassDeadline

\* A request that is cut off returns.
LEMMA AbortType ==
  ASSUME TypeOK, NEW r \in Requests, Abort(r)
  PROVE  TypeOK'
<1>1. faults' \in 0 .. MaxFaults
  BY InputAssumption DEF Abort, TypeOK, Types, RequestTypes
<1> QED
  BY <1>1, ReturnType DEF Abort

\* A refused offer or approval returns.
LEMMA ProposeRejectedType ==
  ASSUME TypeOK, NEW r \in Requests, ProposeRejected(r) \/ AcceptRejected(r)
  PROVE  TypeOK'
  BY ReturnType DEF ProposeRejected, AcceptRejected, TypeOK, Types, RequestTypes

\* Every step of a running handler keeps the types.
LEMMA StepTypeOK ==
  ASSUME TypeOK, NEW r \in Requests, Step(r)
  PROVE  TypeOK'
  BY CreateForClaimType, ProposeType, ProposeRejectedType, EnsureWishType, LinkWishType,
     AcceptType, TryLockChainType, CheckAllAcceptedType, ConfirmType, ListTransfersType,
     CompleteTransferType, CompleteType, RetractType, CancelType, DeclineAllType,
     UnlockAllForDealType
  DEF Step

\* Every call keeps the types.
LEMMA CallTypeOK ==
  ASSUME TypeOK, NEW r \in Requests, Call(r)
  PROVE  TypeOK'
<1>1. RootItems \subseteq Items
  BY InputAssumption
<1> QED
  BY <1>1, CreateDealType, ChownType, CreateProposalType, ApproveType, WithdrawType
  DEF Call, Holding

\* Edits, wishes and time keep the types.
LEMMA EnvironmentTypeOK == TypeOK /\ Environment => TypeOK'
  BY PatchType, DeleteWishType, PassDeadlineType DEF Environment, Holding

\* The type invariant is inductive.
LEMMA NextTypeOK == TypeOK /\ [Next]_vars => TypeOK'
<1>1. ASSUME TypeOK, UNCHANGED vars PROVE TypeOK'
  BY <1>1, TablesStay, RequestsStay DEF vars, dealVars, TypeOK, Types
<1> QED
  BY <1>1, StepTypeOK, CallTypeOK, EnvironmentTypeOK, JoinFoundType, AbortType DEF Next

\* Every reachable state is well formed, and no handler of service/proposal or
\* service/chown ever reaches a step without the deal, user or item it uses.
THEOREM TypeCorrect == Spec => []TypeOK
  BY InitTypeOK, NextTypeOK, PTL DEF Spec

-----------------------------------------------------------------------------
(* A locked item has one claimant. *)

\* InDeal' follows from the columns of the proposals.
LEMMA InDealStays ==
  ASSUME \A e \in Deals, u \in Users :
           pstatus'[e][u] # "none" => pstatus[e][u] # "none" /\ pitem'[e][u] = pitem[e][u],
         NEW e \in Deals, NEW x \in Items, InDeal(e, x)'
  PROVE  InDeal(e, x)
  BY DEF InDeal

\* Steps that give no open deal an item and lock nothing keep the claim.
LEMMA ClaimStays ==
  ASSUME ExclusiveClaim,
         \A e \in Deals : dstatus'[e] = "PENDING" => dstatus[e] = "PENDING",
         \A x \in Items, d \in Deals : lock'[x] = d => lock[x] = d,
         \A e \in Deals, u \in Users :
           pstatus'[e][u] # "none" => pstatus[e][u] # "none" /\ pitem'[e][u] = pitem[e][u]
  PROVE  ExclusiveClaim'
  BY InDealStays DEF ExclusiveClaim

\* A new deal has no proposal, hence no item.
LEMMA NewDealClaims ==
  ASSUME TypeOK, ExclusiveClaim, NEW d \in Deals, NEW u \in Users, NEW rt \in Items,
         InsertDeal(d, u, rt), UNCHANGED <<itemVars, propVars>>
  PROVE  ExclusiveClaim'
<1>1. \A v \in Users : pstatus[d][v] = "none"
  BY DEF InsertDeal, TypeOK, RowsFilled
<1>2. \A x \in Items : ~InDeal(d, x)'
  BY <1>1 DEF InDeal, propVars
<1>3. \A e \in Deals \ {d} : dstatus'[e] = dstatus[e]
  BY DEF InsertDeal, TypeOK, Types, DealTypes
<1>4. \A e \in Deals, x \in Items : InDeal(e, x)' = InDeal(e, x)
  BY DEF InDeal, propVars
<1> QED
  BY <1>2, <1>3, <1>4 DEF ExclusiveClaim, itemVars

\* An item enters a deal only when no deal has it locked, and leaves unlocked.
LEMMA OfferClaims ==
  ASSUME TypeOK, ExclusiveClaim, NEW d \in Deals, NEW u \in Users, NEW x \in Items,
         lock[x] \notin Deals, lock' = [lock EXCEPT ![x] = NoDeal],
         pitem' = [pitem EXCEPT ![d][u] = x], UNCHANGED dstatus,
         \A e \in Deals, v \in Users :
           e # d \/ v # u => (pstatus'[e][v] # "none" => pstatus[e][v] # "none")
  PROVE  ExclusiveClaim'
<1> SUFFICES ASSUME NEW y \in Items, NEW c \in Deals, NEW e \in Deals,
                    lock'[y] = c, c # e, dstatus'[e] = "PENDING", InDeal(e, y)'
             PROVE  FALSE
  BY DEF ExclusiveClaim
<1>1. y # x /\ lock[y] = c
  BY SentinelAssumption DEF TypeOK, Types, ItemTypes
<1>2. InDeal(e, y)
  BY <1>1 DEF InDeal, TypeOK, Types, ProposalTypes
<1> QED
  BY <1>1, <1>2 DEF ExclusiveClaim

\* A proposal takes no item another deal has locked.
LEMMA ProposeClaims ==
  ASSUME TypeOK, ExclusiveClaim, NEW r \in Requests, Propose(r)
  PROVE  ExclusiveClaim'
<1> DEFINE d == job[r].deal
           u == job[r].user
           x == job[r].item
<1>1. d \in Deals /\ u \in Users /\ x \in Items
  BY DEF Propose, TypeOK, JobsFilled
<1>2. PICK v \in Users : CanPropose(d, u, x, v) /\ InsertProposal(d, u, x, v)
  BY DEF Propose
<1>3. \A e \in Deals, w \in Users :
        e # d \/ w # u => (pstatus'[e][w] # "none" => pstatus[e][w] # "none")
  BY <1>1, <1>2 DEF InsertProposal, TypeOK, Types, ProposalTypes
<1> HIDE DEF d, u, x
<1> QED
  BY <1>1, <1>2, <1>3, OfferClaims DEF CanPropose, CheckItemHolder, InsertProposal, Propose

\* Nor does an edited one.
LEMMA PatchClaims ==
  ASSUME TypeOK, ExclusiveClaim, NEW u \in Users, NEW d \in Deals, NEW x \in Items,
         Patch(u, d, x)
  PROVE  ExclusiveClaim'
  BY OfferClaims DEF Patch, CheckItemHolder, dealVars

\* Approval locks the offered item after cancelling every open deal it is in.
LEMMA AcceptClaims ==
  ASSUME TypeOK, ExclusiveClaim, NEW r \in Requests, Accept(r)
  PROVE  ExclusiveClaim'
<1> DEFINE d == job[r].deal
           u == job[r].user
           x == pitem[d][u]
           rivals == CompetingForItem(d, x)
<1>1. d \in Deals /\ u \in Users /\ pstatus[d][u] = "PENDING" /\ x \in Items
  BY DEF Accept, CanAccept, TypeOK, JobsFilled, RowsFilled
<1>2. \A e \in Deals, v \in Users : pstatus'[e][v] # "none" => pstatus[e][v] # "none"
  BY <1>1 DEF Accept, AcceptIn, DeclinedIn, TypeOK, Types, ProposalTypes
<1>3. UNCHANGED pitem /\ dstatus' = CancelledIn(rivals)
  BY DEF Accept, LockOfferedItem
<1>4. \A y \in Items : lock'[y] = lock[y] \/ lock'[y] = NoDeal \/ (y = x /\ lock'[y] = d)
  BY <1>1 DEF Accept, LockOfferedItem, LockOutcomes, FreedFrom
<1>5. \A e \in Deals : dstatus'[e] = "PENDING" =>
        dstatus[e] = "PENDING" /\ (e = d \/ ~InDeal(e, x))
  BY <1>3 DEF CancelledIn, CompetingForItem
<1> SUFFICES ASSUME NEW y \in Items, NEW c \in Deals, NEW e \in Deals,
                    lock'[y] = c, c # e, dstatus'[e] = "PENDING", InDeal(e, y)'
             PROVE  FALSE
  BY DEF ExclusiveClaim
<1>6. InDeal(e, y)
  BY <1>2, <1>3, InDealStays
<1>7. CASE lock[y] = c
  BY <1>5, <1>6, <1>7 DEF ExclusiveClaim
<1>8. CASE y = x /\ c = d
  BY <1>5, <1>6, <1>8
<1> QED
  BY <1>4, <1>7, <1>8, SentinelAssumption

\* TryLockChain locks the items of the chain after cancelling every open deal
\* that has one of them.
LEMMA TryLockChainClaims ==
  ASSUME TypeOK, ExclusiveClaim, NEW r \in Requests, TryLockChain(r)
  PROVE  ExclusiveClaim'
<1> DEFINE d == job[r].deal
           rivals == CompetingForChain(d)
<1>1. CASE ~ChainReady(d)
  BY <1>1, ClaimStays DEF TryLockChain
<1>2. CASE ChainReady(d)
  <2>1. \A e \in Deals, v \in Users : pstatus'[e][v] # "none" => pstatus[e][v] # "none"
    BY <1>2 DEF TryLockChain, LockChain, DeclinedIn
  <2>2. UNCHANGED pitem /\ dstatus' = CancelledIn(rivals)
    BY <1>2 DEF TryLockChain, LockChain
  <2>3. \A y \in Items : lock'[y] = lock[y] \/ lock'[y] = NoDeal \/ (InDeal(d, y) /\ lock'[y] = d)
    BY <1>2 DEF TryLockChain, LockChain, FreedFrom, ItemsOf
  <2>4. \A e \in Deals : dstatus'[e] = "PENDING" =>
          dstatus[e] = "PENDING" /\ (e = d \/ \A y \in Items : ~(InDeal(e, y) /\ InDeal(d, y)))
    BY <2>2 DEF CancelledIn, CompetingForChain, ItemsOf
  <2> SUFFICES ASSUME NEW y \in Items, NEW c \in Deals, NEW e \in Deals,
                      lock'[y] = c, c # e, dstatus'[e] = "PENDING", InDeal(e, y)'
               PROVE  FALSE
    BY DEF ExclusiveClaim
  <2>5. InDeal(e, y)
    BY <2>1, <2>2, InDealStays
  <2>6. CASE lock[y] = c
    BY <2>4, <2>5, <2>6 DEF ExclusiveClaim
  <2>7. CASE InDeal(d, y) /\ c = d
    BY <2>4, <2>5, <2>7
  <2> QED
    BY <2>3, <2>6, <2>7, SentinelAssumption
<1> QED
  BY <1>1, <1>2

\* Steps that at most close deals, release items or move one on.
LEMMA OtherStepClaims ==
  ASSUME TypeOK, ExclusiveClaim, NEW r \in Requests,
         \/ ProposeRejected(r) \/ EnsureWish(r) \/ LinkWish(r) \/ AcceptRejected(r)
         \/ CheckAllAccepted(r) \/ Confirm(r) \/ ListTransfers(r) \/ CompleteTransfer(r)
         \/ Complete(r) \/ Retract(r) \/ Cancel(r) \/ DeclineAll(r) \/ UnlockAllForDeal(r)
  PROVE  ExclusiveClaim'
<1>1. CASE ProposeRejected(r) \/ EnsureWish(r) \/ AcceptRejected(r) \/ CheckAllAccepted(r)
           \/ ListTransfers(r) \/ LinkWish(r)
  BY <1>1, ClaimStays
  DEF ProposeRejected, EnsureWish, LinkWish, AcceptRejected, CheckAllAccepted, ListTransfers,
      itemVars, dealVars, propVars
<1>2. CASE Confirm(r) \/ Complete(r) \/ Cancel(r)
  <2>1. \A e \in Deals : dstatus'[e] = "PENDING" => dstatus[e] = "PENDING"
    BY <1>2 DEF Confirm, Complete, Cancel, UpdateStatus, TypeOK, Types, DealTypes
  <2> QED
    BY <1>2, <2>1, ClaimStays DEF Confirm, Complete, Cancel, itemVars, propVars
<1>3. CASE CompleteTransfer(r)
  <2>1. \A x \in Items, d \in Deals : lock'[x] = d => lock[x] = d
    BY <1>3, SentinelAssumption DEF CompleteTransfer, HandOver, TypeOK, Types, ItemTypes
  <2> QED
    BY <1>3, <2>1, ClaimStays DEF CompleteTransfer, dealVars, propVars
<1>4. CASE Retract(r)
  <2>1. \A e \in Deals, u \in Users : pstatus'[e][u] # "none" => pstatus[e][u] # "none"
    <3>1. CASE pstatus[job[r].deal][job[r].user] = "PENDING"
      BY <1>4, <3>1 DEF Retract, TypeOK, Types, ProposalTypes
    <3>2. CASE pstatus[job[r].deal][job[r].user] # "PENDING"
      BY <1>4, <3>2 DEF Retract
    <3> QED
      BY <3>1, <3>2
  <2> QED
    BY <1>4, <2>1, ClaimStays DEF Retract, itemVars, dealVars
<1>5. CASE DeclineAll(r)
  <2>1. \A e \in Deals, u \in Users : pstatus'[e][u] # "none" => pstatus[e][u] # "none"
    BY <1>5 DEF DeclineAll, DeclinedIn
  <2> QED
    BY <1>5, <2>1, ClaimStays DEF DeclineAll, itemVars, dealVars
<1>6. CASE UnlockAllForDeal(r)
  <2>1. \A x \in Items, d \in Deals : lock'[x] = d => lock[x] = d
    BY <1>6, SentinelAssumption DEF UnlockAllForDeal, FreedFrom
  <2> QED
    BY <1>6, <2>1, ClaimStays DEF UnlockAllForDeal, dealVars, propVars
<1> QED
  BY <1>1, <1>2, <1>3, <1>4, <1>5, <1>6

\* No step gives a locked item a second claimant.
LEMMA NextClaims == TypeOK /\ ExclusiveClaim /\ [Next]_vars => ExclusiveClaim'
<1> SUFFICES ASSUME TypeOK, ExclusiveClaim, [Next]_vars PROVE ExclusiveClaim'
  OBVIOUS
<1>1. CASE UNCHANGED vars
  BY <1>1, ClaimStays DEF vars, itemVars, dealVars, propVars
<1>2. ASSUME NEW r \in Requests, Call(r) PROVE ExclusiveClaim'
  <2>1. ASSUME NEW u \in Users, NEW rt \in Items, NEW x \in Items, CreateDeal(r, u, rt, x)
        PROVE ExclusiveClaim'
    BY <2>1, NewDealClaims DEF CreateDeal
  <2>2. ASSUME NEW u \in Users, NEW d \in Deals, NEW rt \in Items, NEW x \in Items,
               \/ Chown(r, u, rt, x) \/ CreateProposal(r, u, d, x) \/ Approve(r, u, d)
               \/ Withdraw(r, u, d)
        PROVE ExclusiveClaim'
    BY <2>2, ClaimStays DEF Chown, CreateProposal, Approve, Withdraw, itemVars, dealVars, propVars
  <2>3. CASE Items = {}
    BY <2>3 DEF ExclusiveClaim
  <2>4. RootItems \subseteq Items
    BY InputAssumption
  <2>5. CASE Deals = {}
    BY <2>5 DEF ExclusiveClaim
  <2> QED
    BY <1>2, <2>1, <2>2, <2>3, <2>4, <2>5 DEF Call, Holding
<1>3. ASSUME NEW r \in Requests, JoinFound(r) \/ Abort(r) PROVE ExclusiveClaim'
  BY <1>3, ClaimStays DEF JoinFound, Abort, itemVars, dealVars, propVars
<1>4. ASSUME NEW r \in Requests, Step(r) PROVE ExclusiveClaim'
  <2>1. CASE CreateForClaim(r)
    <3>1. job[r].user \in Users /\ job[r].claim \in Items
      BY <2>1 DEF CreateForClaim, TypeOK, JobsFilled
    <3> QED
      BY <2>1, <3>1, NewDealClaims DEF CreateForClaim
  <2> QED
    BY <1>4, <2>1, ProposeClaims, AcceptClaims, TryLockChainClaims, OtherStepClaims DEF Step
<1>5. CASE Environment
  <2>1. ASSUME NEW x \in Items, DeleteWish(x) PROVE ExclusiveClaim'
    BY <2>1, ClaimStays DEF DeleteWish, dealVars, propVars
  <2>2. ASSUME NEW d \in Deals, PassDeadline(d) PROVE ExclusiveClaim'
    BY <2>2, ClaimStays DEF PassDeadline, itemVars, propVars
  <2> QED
    BY <1>5, <2>1, <2>2, PatchClaims DEF Environment, Holding
<1> QED
  BY <1>1, <1>2, <1>3, <1>4, <1>5 DEF Next

\* While a deal has an item locked, no other open deal counts on the item: for
\* any users, items and requests, with edits of closed chains and with requests
\* cut off at any step.
THEOREM LockedItemHasOneClaimant == Spec => []ExclusiveClaim
<1>1. Init => ExclusiveClaim
  BY DEF Init, ExclusiveClaim, InDeal
<1> QED
  BY <1>1, NextClaims, TypeCorrect, PTL DEF Spec

-----------------------------------------------------------------------------
(* An item is promised to one chain. *)

\* Nothing but an approval makes an accepted proposal of an open deal.
NoNewPromise ==
  \A e \in Deals, u \in Users :
    dstatus'[e] = "PENDING" /\ pstatus'[e][u] = "ACCEPTED" =>
      /\ dstatus[e] = "PENDING" /\ pstatus[e][u] = "ACCEPTED"
      /\ pitem'[e][u] = pitem[e][u]

\* Without a new promise there is no second one.
LEMMA PromisesStay == OneClaimPerItem /\ NoNewPromise => OneClaimPerItem'
  BY DEF OneClaimPerItem, NoNewPromise, Accepted

\* A new deal promises nothing.
LEMMA NewDealPromises ==
  ASSUME TypeOK, NEW d \in Deals, NEW u \in Users, NEW rt \in Items,
         InsertDeal(d, u, rt), UNCHANGED propVars
  PROVE  NoNewPromise
<1>1. \A v \in Users : pstatus[d][v] = "none"
  BY DEF InsertDeal, TypeOK, RowsFilled
<1>2. \A e \in Deals \ {d} : dstatus'[e] = dstatus[e]
  BY DEF InsertDeal, TypeOK, Types, DealTypes
<1> QED
  BY <1>1, <1>2 DEF NoNewPromise, propVars

\* A new proposal promises nothing yet.
LEMMA ProposePromises ==
  ASSUME TypeOK, NEW r \in Requests, Propose(r)
  PROVE  NoNewPromise
<1> DEFINE d == job[r].deal
           u == job[r].user
           x == job[r].item
<1>1. PICK v \in Users : InsertProposal(d, u, x, v)
  BY DEF Propose
<1>2. \A e \in Deals, w \in Users :
        pstatus'[e][w] = "ACCEPTED" =>
          pstatus[e][w] = "ACCEPTED" /\ pitem'[e][w] = pitem[e][w]
  BY <1>1 DEF InsertProposal, TypeOK, Types, ProposalTypes
<1> QED
  BY <1>2 DEF NoNewPromise, Propose

\* Only pending proposals are edited.
LEMMA PatchPromises ==
  ASSUME TypeOK, NEW u \in Users, NEW d \in Deals, NEW x \in Items, Patch(u, d, x)
  PROVE  NoNewPromise
<1>1. pstatus[d][u] = "PENDING" /\ pitem' = [pitem EXCEPT ![d][u] = x] /\ UNCHANGED <<pstatus, dstatus>>
  BY DEF Patch, dealVars
<1>2. \A e \in Deals, w \in Users : e # d \/ w # u => pitem'[e][w] = pitem[e][w]
  BY <1>1 DEF TypeOK, Types, ProposalTypes
<1> QED
  BY <1>1, <1>2 DEF NoNewPromise

\* A cascade only takes promises back.
LEMMA CascadePromises ==
  ASSUME NEW S, NEW T, dstatus' = CancelledIn(S) \/ dstatus' = dstatus,
         pstatus' = DeclinedIn(T), UNCHANGED pitem
  PROVE  NoNewPromise
  BY DEF NoNewPromise, CancelledIn, DeclinedIn

\* The other steps promise nothing.
LEMMA OtherStepPromises ==
  ASSUME TypeOK, NEW r \in Requests, Step(r), ~CreateForClaim(r), ~Propose(r), ~Accept(r)
  PROVE  NoNewPromise
<1>1. CASE \/ ProposeRejected(r) \/ EnsureWish(r) \/ LinkWish(r) \/ AcceptRejected(r)
           \/ CheckAllAccepted(r) \/ ListTransfers(r) \/ CompleteTransfer(r)
           \/ UnlockAllForDeal(r)
  BY <1>1
  DEF ProposeRejected, EnsureWish, LinkWish, AcceptRejected, CheckAllAccepted, ListTransfers,
      CompleteTransfer, UnlockAllForDeal, dealVars, propVars, NoNewPromise
<1>2. CASE TryLockChain(r)
  <2>1. CASE ChainReady(job[r].deal)
    BY <1>2, <2>1, CascadePromises DEF TryLockChain, LockChain
  <2>2. CASE ~ChainReady(job[r].deal)
    BY <1>2, <2>2 DEF TryLockChain, NoNewPromise
  <2> QED
    BY <2>1, <2>2
<1>3. CASE Confirm(r) \/ Complete(r) \/ Cancel(r)
  <2>1. \A e \in Deals : dstatus'[e] = "PENDING" => dstatus[e] = "PENDING"
    BY <1>3 DEF Confirm, Complete, Cancel, UpdateStatus, TypeOK, Types, DealTypes
  <2> QED
    BY <1>3, <2>1 DEF Confirm, Complete, Cancel, propVars, NoNewPromise
<1>4. CASE Retract(r)
  <2>1. CASE pstatus[job[r].deal][job[r].user] = "PENDING"
    <3>1. \A e \in Deals, u \in Users : pstatus'[e][u] = "ACCEPTED" => pstatus[e][u] = "ACCEPTED"
      BY <1>4, <2>1 DEF Retract, TypeOK, Types, ProposalTypes
    <3> QED
      BY <1>4, <3>1 DEF Retract, dealVars, NoNewPromise
  <2>2. CASE pstatus[job[r].deal][job[r].user] # "PENDING"
    BY <1>4, <2>2 DEF Retract, dealVars, NoNewPromise
  <2> QED
    BY <2>1, <2>2
<1>5. CASE DeclineAll(r)
  BY <1>5, CascadePromises DEF DeclineAll, dealVars
<1> QED
  BY <1>1, <1>2, <1>3, <1>4, <1>5 DEF Step

\* An approval cancels every other open deal that has the item.
LEMMA AcceptPromises ==
  ASSUME TypeOK, OneClaimPerItem, NEW r \in Requests, Accept(r)
  PROVE  OneClaimPerItem'
<1> DEFINE d == job[r].deal
           u == job[r].user
           x == pitem[d][u]
           rivals == CompetingForItem(d, x)
<1>1. d \in Deals /\ u \in Users
  BY DEF Accept, TypeOK, JobsFilled
<1>2. UNCHANGED pitem /\ dstatus' = CancelledIn(rivals)
  BY DEF Accept, LockOfferedItem
<1>3. \A e \in Deals, v \in Users : pstatus'[e][v] = "ACCEPTED" =>
        pstatus[e][v] = "ACCEPTED" \/ (e = d /\ v = u)
  BY <1>1 DEF Accept, AcceptIn, DeclinedIn, TypeOK, Types, ProposalTypes
<1>4. \A e \in Deals, v \in Users :
        dstatus'[e] = "PENDING" /\ e # d /\ pstatus[e][v] = "ACCEPTED" => pitem[e][v] # x
  BY <1>2 DEF CancelledIn, CompetingForItem, InDeal
<1>5. \A e \in Deals : dstatus'[e] = "PENDING" => dstatus[e] = "PENDING"
  BY <1>2 DEF CancelledIn
<1> HIDE DEF d, u, x, rivals
<1>6. SUFFICES ASSUME NEW e \in Deals, NEW c \in Deals, NEW v \in Users, NEW w \in Users,
                      e # c, dstatus'[e] = "PENDING", dstatus'[c] = "PENDING",
                      pstatus'[e][v] = "ACCEPTED", pstatus'[c][w] = "ACCEPTED"
               PROVE  pitem[e][v] # pitem[c][w]
  BY <1>2 DEF OneClaimPerItem, Accepted
<1>7. CASE pstatus[e][v] = "ACCEPTED" /\ pstatus[c][w] = "ACCEPTED"
  BY <1>5, <1>6, <1>7 DEF OneClaimPerItem, Accepted
<1>8. CASE e = d /\ v = u
  BY <1>3, <1>4, <1>6, <1>8 DEF x
<1>9. CASE c = d /\ w = u
  BY <1>3, <1>4, <1>6, <1>9 DEF x
<1> QED
  BY <1>3, <1>6, <1>7, <1>8, <1>9

\* No step promises an item a second time.
LEMMA NextPromises == TypeOK /\ OneClaimPerItem /\ [Next]_vars => OneClaimPerItem'
<1> SUFFICES ASSUME TypeOK, OneClaimPerItem, [Next]_vars PROVE OneClaimPerItem'
  OBVIOUS
<1> USE PromisesStay
<1>1. CASE UNCHANGED vars
  BY <1>1 DEF vars, dealVars, propVars, NoNewPromise
<1>2. ASSUME NEW r \in Requests, Call(r) PROVE OneClaimPerItem'
  <2>1. RootItems \subseteq Items
    BY InputAssumption
  <2>2. PICK u \in Users :
          \/ \E rt \in Items, x \in Items : CreateDeal(r, u, rt, x) \/ Chown(r, u, rt, x)
          \/ \E e \in Deals : \/ \E x \in Items : CreateProposal(r, u, e, x)
                              \/ Approve(r, u, e) \/ Withdraw(r, u, e)
    BY <1>2, <2>1 DEF Call, Holding
  <2>3. ASSUME NEW rt \in Items, NEW x \in Items, CreateDeal(r, u, rt, x) PROVE NoNewPromise
    BY <2>3, NewDealPromises DEF CreateDeal
  <2>4. ASSUME NEW rt \in Items, NEW x \in Items, Chown(r, u, rt, x) PROVE NoNewPromise
    BY <2>4 DEF Chown, dealVars, propVars, NoNewPromise
  <2>5. ASSUME NEW e \in Deals,
               \/ \E x \in Items : CreateProposal(r, u, e, x)
               \/ Approve(r, u, e) \/ Withdraw(r, u, e)
        PROVE NoNewPromise
    BY <2>5 DEF CreateProposal, Approve, Withdraw, dealVars, propVars, NoNewPromise
  <2> QED
    BY <2>2, <2>3, <2>4, <2>5
<1>3. ASSUME NEW r \in Requests, JoinFound(r) \/ Abort(r) PROVE OneClaimPerItem'
  BY <1>3 DEF JoinFound, Abort, dealVars, propVars, NoNewPromise
<1>4. ASSUME NEW r \in Requests, Step(r) PROVE OneClaimPerItem'
  <2>1. CASE CreateForClaim(r)
    <3>1. job[r].user \in Users /\ job[r].claim \in Items
      BY <2>1 DEF CreateForClaim, TypeOK, JobsFilled
    <3> QED
      BY <2>1, <3>1, NewDealPromises DEF CreateForClaim
  <2> QED
    BY <1>4, <2>1, ProposePromises, AcceptPromises, OtherStepPromises
<1>5. CASE Environment
  <2>1. ASSUME NEW x \in Items, DeleteWish(x) PROVE NoNewPromise
    BY <2>1 DEF DeleteWish, dealVars, propVars, NoNewPromise
  <2>2. ASSUME NEW e \in Deals, PassDeadline(e) PROVE NoNewPromise
    BY <2>2 DEF PassDeadline, propVars, NoNewPromise
  <2> QED
    BY <1>5, <2>1, <2>2, PatchPromises DEF Environment, Holding
<1> QED
  BY <1>1, <1>2, <1>3, <1>4, <1>5 DEF Next

\* Nobody promises one item to two chains: two open deals never both have it in
\* an accepted proposal.
THEOREM ItemPromisedOnce == Spec => []OneClaimPerItem
<1>1. Init => OneClaimPerItem
  BY DEF Init, OneClaimPerItem, Accepted
<1> QED
  BY <1>1, NextPromises, TypeCorrect, PTL DEF Spec
=============================================================================
