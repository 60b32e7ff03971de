-------------------------- MODULE ChainSafety_proofs --------------------------
(***************************************************************************)
(* Further proofs about ChainDeals: what the chains promise about locks,   *)
(* holders and transfers, for every value of the constants.                *)
(***************************************************************************)
EXTENDS ChainDeals_proofs

USE DEF Goto

-----------------------------------------------------------------------------
(* Approval runs back along the chain. *)

\* A handler that declines the proposals of a deal has closed the deal.
DeclinesClosed == \A r \in Requests : pc[r] = "decline" => dstatus[job[r].deal] # "PENDING"

\* No step reopens a deal that exists.
NoneReopened == \A e \in Deals : dstatus[e] # "none" /\ dstatus'[e] = "PENDING" => dstatus[e] = "PENDING"

\* A handler enters its decline step only by cancelling the deal.
DeclineEntered ==
  \A r \in Requests : pc'[r] = "decline" =>
    /\ job'[r] = job[r]
    /\ pc[r] = "decline" \/ dstatus'[job[r].deal] # "PENDING"

\* A deal that is closed stays so while its handler declines the proposals.
LEMMA DeclinesStay ==
  ASSUME TypeOK, TypeOK', DeclinesClosed, NoneReopened, DeclineEntered
  PROVE  DeclinesClosed'
  BY DEF DeclinesClosed, NoneReopened, DeclineEntered, TypeOK, JobsFilled

\* A handler that returns enters no decline step.
LEMMA RespondEnters == ASSUME NEW r \in Requests, Respond(r), TypeOK PROVE DeclineEntered
  BY DEF Respond, DeclineEntered, TypeOK, Types, RequestTypes

\* Moving on to a step other than decline.
LEMMA GotoEnters ==
  ASSUME NEW r \in Requests, NEW step, Goto(r, step), step # "decline", UNCHANGED job, TypeOK
  PROVE DeclineEntered
  BY DEF DeclineEntered, TypeOK, Types, RequestTypes

\* Beginning at a step other than decline.
LEMMA BeginEnters ==
  ASSUME NEW r \in Requests, NEW step, NEW j, Begin(r, j, step), step # "decline", TypeOK
  PROVE DeclineEntered
  BY DEF Begin, DeclineEntered, TypeOK, Types, RequestTypes

\* Every action reopens nothing and declines only what it has closed.
LEMMA NextEnters ==
  ASSUME TypeOK, [Next]_vars
  PROVE  NoneReopened /\ DeclineEntered
<1>1. CASE UNCHANGED vars
  BY <1>1 DEF vars, dealVars, reqVars, NoneReopened, DeclineEntered
<1>2. ASSUME NEW r \in Requests, Call(r) PROVE NoneReopened /\ DeclineEntered
  <2>1. PICK u \in Users :
          \/ \E rt \in RootItems, x \in Items : CreateDeal(r, u, rt, x) \/ Chown(r, u, rt, x)
          \/ \E e \in Deals : \/ \E x \in Items : CreateProposal(r, u, e, x)
                              \/ Approve(r, u, e) \/ Withdraw(r, u, e)
    BY <1>2 DEF Call, Holding
  <2>2. ASSUME NEW rt, NEW x, CreateDeal(r, u, rt, x) PROVE NoneReopened /\ DeclineEntered
    <3>1. PICK d \in Deals : InsertDeal(d, u, rt) /\ Begin(r, Job("deal", u, d, x), "propose")
      BY <2>2 DEF CreateDeal
    <3>2. NoneReopened
      BY <3>1 DEF InsertDeal, NoneReopened, TypeOK, Types, DealTypes
    <3> QED
      BY <3>1, <3>2, BeginEnters
  <2>3. ASSUME NEW rt, NEW x, Chown(r, u, rt, x) PROVE NoneReopened /\ DeclineEntered
    BY <2>3, BeginEnters DEF Chown, dealVars, NoneReopened
  <2>4. ASSUME NEW e \in Deals, NEW x, CreateProposal(r, u, e, x) PROVE NoneReopened /\ DeclineEntered
    BY <2>4, BeginEnters DEF CreateProposal, EnterOpenDeal, dealVars, NoneReopened
  <2>5. ASSUME NEW e \in Deals, Approve(r, u, e) \/ Withdraw(r, u, e) PROVE NoneReopened /\ DeclineEntered
    BY <2>5, BeginEnters DEF Approve, Withdraw, EnterOpenDeal, dealVars, NoneReopened
  <2> QED
    BY <2>1, <2>2, <2>3, <2>4, <2>5
<1>3. ASSUME NEW r \in Requests, JoinFound(r) \/ Abort(r) PROVE NoneReopened /\ DeclineEntered
  BY <1>3, BeginEnters, RespondEnters DEF JoinFound, Abort, EnterOpenDeal, dealVars, NoneReopened
<1>4. ASSUME NEW r \in Requests, Step(r) PROVE NoneReopened /\ DeclineEntered
  <2>1. CASE CreateForClaim(r)
    <3>1. PICK d \in Deals : /\ InsertDeal(d, job[r].user, job[r].claim)
                             /\ Begin(r, [job[r] EXCEPT !.deal = d], "propose")
      BY <2>1 DEF CreateForClaim
    <3>2. NoneReopened
      BY <3>1 DEF InsertDeal, NoneReopened, TypeOK, Types, DealTypes
    <3> QED
      BY <3>1, <3>2, BeginEnters
  <2>2. CASE \/ Propose(r) \/ ProposeRejected(r) \/ EnsureWish(r) \/ LinkWish(r) \/ AcceptRejected(r)
             \/ CheckAllAccepted(r) \/ ListTransfers(r) \/ Retract(r) \/ UnlockAllForDeal(r)
    <3>1. NoneReopened
      BY <2>2
      DEF Propose, ProposeRejected, EnsureWish, LinkWish, AcceptRejected, CheckAllAccepted,
          ListTransfers, Retract, UnlockAllForDeal, dealVars, NoneReopened
    <3>2. DeclineEntered
      BY <2>2, RespondEnters, GotoEnters
      DEF Propose, ProposeRejected, EnsureWish, LinkWish, AcceptRejected, CheckAllAccepted,
          ListTransfers, Retract, UnlockAllForDeal
    <3> QED
      BY <3>1, <3>2
  <2>3. CASE Accept(r) \/ TryLockChain(r)
    <3>1. NoneReopened
      BY <2>3 DEF Accept, LockOfferedItem, TryLockChain, LockChain, CancelledIn, NoneReopened
    <3> QED
      BY <2>3, <3>1, GotoEnters DEF Accept, TryLockChain
  <2>4. CASE CompleteTransfer(r)
    <3>1. DeclineEntered
      BY <2>4, GotoEnters DEF CompleteTransfer
    <3> QED
      BY <2>4, <3>1 DEF CompleteTransfer, dealVars, NoneReopened
  <2>5. CASE Confirm(r) \/ Complete(r) \/ Cancel(r)
    <3>1. job[r].deal \in Deals
      BY <2>5 DEF Confirm, Complete, Cancel, TypeOK, JobsFilled
    <3>2. NoneReopened
      BY <2>5 DEF Confirm, Complete, Cancel, UpdateStatus, NoneReopened, TypeOK, Types, DealTypes
    <3>3. CASE Confirm(r) \/ Complete(r)
      BY <3>2, <3>3, GotoEnters, RespondEnters DEF Confirm, Complete
    <3>4. CASE Cancel(r)
      <4>1. dstatus'[job[r].deal] = "CANCELLED"
        BY <3>1, <3>4 DEF Cancel, UpdateStatus, TypeOK, Types, DealTypes
      <4> QED
        BY <3>2, <3>4, <4>1 DEF Cancel, DeclineEntered, TypeOK, Types, RequestTypes
    <3> QED
      BY <2>5, <3>3, <3>4
  <2>6. CASE DeclineAll(r)
    BY <2>6, GotoEnters DEF DeclineAll, dealVars, NoneReopened
  <2> QED
    BY <1>4, <2>1, <2>2, <2>3, <2>4, <2>5, <2>6 DEF Step
<1>5. CASE Environment
  BY <1>5 DEF Environment, Patch, DeleteWish, PassDeadline, dealVars, reqVars, NoneReopened, DeclineEntered
<1> QED
  BY <1>1, <1>2, <1>3, <1>4, <1>5 DEF Next

\* The open deal e accepts nobody new, and keeps what its approvals rest on.
OrderKept(e) ==
  dstatus'[e] = "PENDING" /\ (\E u \in Users : pstatus'[e][u] = "ACCEPTED") =>
    /\ dstatus[e] = "PENDING" /\ creator'[e] = creator[e] /\ root'[e] = root[e]
    /\ \A u \in Users : pstatus'[e][u] = "ACCEPTED" <=> pstatus[e][u] = "ACCEPTED"
    /\ \A u \in Users : pstatus[e][u] = "ACCEPTED" =>
         pitem'[e][u] = pitem[e][u] /\ pto'[e][u] = pto[e][u]

\* A step that keeps the approvals of every open deal keeps their order.
LEMMA OrderStays ==
  ASSUME TypeOK, ChainOrder, \A e \in Deals : OrderKept(e)
  PROVE  ChainOrder'
<1> SUFFICES ASSUME NEW e \in Deals, NEW u \in Users,
                    dstatus'[e] = "PENDING", pstatus'[e][u] = "ACCEPTED"
             PROVE  \/ creator'[e] = u
                    \/ pitem'[e][u] = root'[e]
                    \/ pstatus'[e][pto'[e][u]] = "ACCEPTED"
  BY DEF ChainOrder, Accepted
<1>1. /\ dstatus[e] = "PENDING" /\ creator'[e] = creator[e] /\ root'[e] = root[e]
      /\ \A v \in Users : pstatus'[e][v] = "ACCEPTED" <=> pstatus[e][v] = "ACCEPTED"
      /\ pstatus[e][u] = "ACCEPTED"
      /\ pitem'[e][u] = pitem[e][u] /\ pto'[e][u] = pto[e][u]
  BY DEF OrderKept
<1>2. pto[e][u] \in Users
  BY <1>1 DEF TypeOK, RowsFilled
<1>3. creator[e] = u \/ pitem[e][u] = root[e] \/ pstatus[e][pto[e][u]] = "ACCEPTED"
  BY <1>1 DEF ChainOrder, Accepted
<1> QED
  BY <1>1, <1>2, <1>3

\* A new deal has nobody in it.
LEMMA NewDealOrder ==
  ASSUME TypeOK, NEW d \in Deals, NEW u \in Users, NEW rt, InsertDeal(d, u, rt), UNCHANGED propVars,
         NEW e \in Deals
  PROVE  OrderKept(e)
<1>1. \A v \in Users : pstatus[d][v] = "none"
  BY DEF InsertDeal, TypeOK, RowsFilled
<1>2. CASE e = d
  BY <1>1, <1>2 DEF OrderKept, propVars
<1>3. CASE e # d
  BY <1>3 DEF InsertDeal, OrderKept, propVars, TypeOK, Types, DealTypes
<1> QED
  BY <1>2, <1>3

\* A proposal that enters, is edited or is declined while pending is nobody's
\* approval yet.
LEMMA PendingOrder ==
  ASSUME TypeOK, NEW d \in Deals, NEW u \in Users, UNCHANGED <<dstatus, root, creator>>,
         pstatus[d][u] # "ACCEPTED", pstatus'[d][u] # "ACCEPTED",
         \A e \in Deals, v \in Users : e # d \/ v # u =>
           pstatus'[e][v] = pstatus[e][v] /\ pitem'[e][v] = pitem[e][v] /\ pto'[e][v] = pto[e][v],
         NEW e \in Deals
  PROVE  OrderKept(e)
  BY DEF OrderKept

\* A cascade closes the deals whose approvals it takes back.
LEMMA CascadeOrder ==
  ASSUME NEW S, dstatus' = CancelledIn(S), pstatus' = DeclinedIn(S),
         UNCHANGED <<root, creator, pitem, pto>>, NEW e \in Deals
  PROVE  OrderKept(e)
  BY DEF CancelledIn, DeclinedIn, OrderKept

\* SetStatus(ACCEPTED) asks isApprovalAllowed before it writes.
LEMMA AcceptOrder ==
  ASSUME TypeOK, ChainOrder, NEW r \in Requests, Accept(r)
  PROVE  ChainOrder'
<1> DEFINE d == job[r].deal
           u == job[r].user
           rivals == CompetingForItem(d, pitem[d][u])
<1>1. d \in Deals /\ u \in Users
  BY DEF Accept, TypeOK, JobsFilled
<1>2. /\ dstatus' = CancelledIn(rivals) /\ UNCHANGED <<root, creator, pitem, pto>>
      /\ pstatus' = [DeclinedIn(rivals) EXCEPT ![d][u] = "ACCEPTED"]
      /\ creator[d] = u \/ pitem[d][u] = root[d] \/ Accepted(d, pto[d][u])
      /\ d \notin rivals
  BY DEF Accept, LockOfferedItem, AcceptIn, CanAccept, IsApprovalAllowed, CompetingForItem
<1> HIDE DEF d, u, rivals
<1>3. \A e \in Deals, v \in Users : e \notin rivals /\ (e # d \/ v # u) => pstatus'[e][v] = pstatus[e][v]
  BY <1>1, <1>2 DEF DeclinedIn
<1>4. pstatus'[d][u] = "ACCEPTED"
  BY <1>1, <1>2 DEF DeclinedIn
<1> SUFFICES ASSUME NEW e \in Deals, NEW v \in Users,
                    dstatus'[e] = "PENDING", pstatus'[e][v] = "ACCEPTED"
             PROVE  \/ creator'[e] = v
                    \/ pitem'[e][v] = root'[e]
                    \/ pstatus'[e][pto'[e][v]] = "ACCEPTED"
  BY DEF ChainOrder, Accepted
<1>5. e \notin rivals /\ dstatus[e] = "PENDING"
  BY <1>2 DEF CancelledIn
<1>6. \A w \in Users : pstatus[e][w] = "ACCEPTED" => pstatus'[e][w] = "ACCEPTED"
  BY <1>3, <1>4, <1>5
<1>7. CASE e = d /\ v = u
  <2>1. pstatus[d][pto[d][u]] = "ACCEPTED" => pto[d][u] \in Users
    BY <1>1, <1>5, <1>7, SentinelAssumption, <1>2 DEF TypeOK, RowsFilled, Accept, CanAccept, d, u
  <2> QED
    BY <1>2, <1>6, <1>7, <2>1 DEF Accepted
<1>8. CASE e # d \/ v # u
  <2>1. pstatus[e][v] = "ACCEPTED"
    BY <1>3, <1>5, <1>8
  <2>2. pto[e][v] \in Users /\ (creator[e] = v \/ pitem[e][v] = root[e] \/ pstatus[e][pto[e][v]] = "ACCEPTED")
    BY <1>5, <2>1 DEF ChainOrder, Accepted, TypeOK, RowsFilled
  <2> QED
    BY <1>2, <1>6, <2>2
<1> QED
  BY <1>7, <1>8

\* No step puts an approval ahead of the one it must follow.
LEMMA NextOrder ==
  ASSUME TypeOK, TypeOK', DeclinesClosed, ChainOrder, [Next]_vars
  PROVE  ChainOrder'
<1> USE OrderStays
<1>1. CASE UNCHANGED <<dealVars, propVars>>
  BY <1>1 DEF dealVars, propVars, OrderKept
<1>2. ASSUME NEW d \in Deals, NEW u \in Users, NEW rt, InsertDeal(d, u, rt), UNCHANGED propVars
      PROVE  ChainOrder'
  BY <1>2, NewDealOrder
<1>3. ASSUME NEW r \in Requests, Call(r) \/ JoinFound(r) \/ Abort(r) PROVE ChainOrder'
  <2>1. CASE JoinFound(r) \/ Abort(r)
    BY <1>1, <2>1 DEF JoinFound, Abort
  <2>2. ASSUME NEW u \in Users, NEW rt \in Items, NEW x \in Items, CreateDeal(r, u, rt, x) PROVE ChainOrder'
    BY <1>2, <2>2 DEF CreateDeal
  <2>3. ASSUME NEW u \in Users, NEW rt \in Items, NEW x \in Items, Chown(r, u, rt, x) PROVE ChainOrder'
    BY <1>1, <2>3 DEF Chown
  <2>4. ASSUME NEW u \in Users, NEW d \in Deals, NEW x \in Items,
               CreateProposal(r, u, d, x) \/ Approve(r, u, d) \/ Withdraw(r, u, d)
        PROVE ChainOrder'
    BY <1>1, <2>4 DEF CreateProposal, Approve, Withdraw
  <2>5. RootItems \subseteq Items
    BY InputAssumption
  <2>6. CASE Items = {}
    BY <2>6 DEF TypeOK, RowsFilled, ChainOrder, Accepted
  <2> QED
    BY <1>3, <2>1, <2>2, <2>3, <2>4, <2>5, <2>6 DEF Call, Holding
<1>4. ASSUME NEW r \in Requests, Step(r) PROVE ChainOrder'
  <2> DEFINE d == job[r].deal
             u == job[r].user
  <2>1. CASE CreateForClaim(r)
    <3>1. job[r].user \in Users
      BY <2>1 DEF CreateForClaim, TypeOK, JobsFilled
    <3> QED
      BY <1>2, <2>1, <3>1 DEF CreateForClaim
  <2>2. CASE Propose(r)
    <3>1. d \in Deals /\ u \in Users
      BY <2>2 DEF Propose, TypeOK, JobsFilled
    <3>2. PICK v \in Users : CanPropose(d, u, job[r].item, v) /\ InsertProposal(d, u, job[r].item, v)
      BY <2>2 DEF Propose
    <3>3. pstatus[d][u] # "ACCEPTED" /\ pstatus'[d][u] # "ACCEPTED"
      BY <3>1, <3>2 DEF CanPropose, InsertProposal, TypeOK, Types, ProposalTypes
    <3>4. \A e \in Deals, w \in Users : e # d \/ w # u =>
            pstatus'[e][w] = pstatus[e][w] /\ pitem'[e][w] = pitem[e][w] /\ pto'[e][w] = pto[e][w]
      BY <3>1, <3>2 DEF InsertProposal, TypeOK, Types, ProposalTypes
    <3>5. UNCHANGED <<dstatus, root, creator>>
      BY <2>2 DEF Propose
    <3> HIDE DEF d, u
    <3> QED
      BY <3>1, <3>3, <3>4, <3>5, PendingOrder
  <2>3. CASE \/ ProposeRejected(r) \/ EnsureWish(r) \/ LinkWish(r) \/ AcceptRejected(r)
             \/ CheckAllAccepted(r) \/ ListTransfers(r) \/ CompleteTransfer(r) \/ UnlockAllForDeal(r)
    BY <1>1, <2>3
    DEF ProposeRejected, EnsureWish, LinkWish, AcceptRejected, CheckAllAccepted, ListTransfers,
        CompleteTransfer, UnlockAllForDeal
  <2>4. CASE TryLockChain(r)
    <3>1. CASE ChainReady(d)
      BY <2>4, <3>1, CascadeOrder DEF TryLockChain, LockChain
    <3>2. CASE ~ChainReady(d)
      BY <1>1, <2>4, <3>2 DEF TryLockChain, dealVars, propVars
    <3> QED
      BY <3>1, <3>2
  <2>5. CASE Confirm(r) \/ Complete(r) \/ Cancel(r)
    <3>1. \A e \in Deals : dstatus'[e] = "PENDING" => dstatus[e] = "PENDING"
      BY <2>5 DEF Confirm, Complete, Cancel, UpdateStatus, TypeOK, Types, DealTypes
    <3>2. UNCHANGED <<root, creator, propVars>>
      BY <2>5 DEF Confirm, Complete, Cancel, UpdateStatus
    <3> QED
      BY <3>1, <3>2 DEF OrderKept, propVars
  <2>6. CASE Retract(r)
    <3>1. d \in Deals /\ u \in Users
      BY <2>6 DEF Retract, TypeOK, JobsFilled
    <3>2. CASE pstatus[d][u] = "PENDING"
      <4>1. pstatus'[d][u] # "ACCEPTED" /\ pstatus[d][u] # "ACCEPTED"
        BY <2>6, <3>1, <3>2 DEF Retract, TypeOK, Types, ProposalTypes
      <4>2. \A e \in Deals, w \in Users : e # d \/ w # u =>
              pstatus'[e][w] = pstatus[e][w] /\ pitem'[e][w] = pitem[e][w] /\ pto'[e][w] = pto[e][w]
        BY <2>6, <3>1, <3>2 DEF Retract, TypeOK, Types, ProposalTypes
      <4>3. UNCHANGED <<dstatus, root, creator>>
        BY <2>6 DEF Retract, dealVars
      <4> HIDE DEF d, u
      <4> QED
        BY <3>1, <4>1, <4>2, <4>3, PendingOrder
    <3>3. CASE pstatus[d][u] # "PENDING"
      BY <1>1, <2>6, <3>3 DEF Retract, propVars
    <3> QED
      BY <3>2, <3>3
  <2>7. CASE DeclineAll(r)
    <3>1. \A e \in Deals : dstatus[e] = "PENDING" => e # d
      BY <2>7 DEF DeclineAll, DeclinesClosed
    <3>2. \A e \in Deals, v \in Users : e # d => pstatus'[e][v] = pstatus[e][v]
      BY <2>7 DEF DeclineAll, DeclinedIn
    <3>3. UNCHANGED <<dealVars, pitem, pto>>
      BY <2>7 DEF DeclineAll
    <3> QED
      BY <3>1, <3>2, <3>3 DEF OrderKept, dealVars
  <2> QED
    BY <1>4, <2>1, <2>2, <2>3, <2>4, <2>5, <2>6, <2>7, AcceptOrder DEF Step
<1>5. CASE Environment
  <2>1. ASSUME NEW x \in Items, DeleteWish(x) PROVE ChainOrder'
    BY <1>1, <2>1 DEF DeleteWish
  <2>2. ASSUME NEW d \in Deals, PassDeadline(d) PROVE ChainOrder'
    BY <2>2 DEF PassDeadline, propVars, OrderKept
  <2>3. ASSUME NEW u \in Users, NEW d \in Deals, NEW x \in Items, Patch(u, d, x) PROVE ChainOrder'
    <3>1. pstatus'[d][u] # "ACCEPTED" /\ pstatus[d][u] # "ACCEPTED" /\ UNCHANGED <<dstatus, root, creator>>
      BY <2>3 DEF Patch, dealVars
    <3>2. \A e \in Deals, w \in Users : e # d \/ w # u =>
            pstatus'[e][w] = pstatus[e][w] /\ pitem'[e][w] = pitem[e][w] /\ pto'[e][w] = pto[e][w]
      BY <2>3 DEF Patch, TypeOK, Types, ProposalTypes
    <3> QED
      BY <3>1, <3>2, PendingOrder
  <2> QED
    BY <1>5, <2>1, <2>2, <2>3 DEF Environment, Holding
<1>6. CASE UNCHANGED vars
  BY <1>1, <1>6 DEF vars
<1> QED
  BY <1>3, <1>4, <1>5, <1>6 DEF Next

\* Approval runs back along the chain, whatever edits, faults and cascades come
\* in between: SetStatus(ACCEPTED) asks isApprovalAllowed in the transaction
\* that writes, and a recipient's approval is only taken back with the deal.
THEOREM ApprovalFollowsChain == Spec => []ChainOrder
<1>1. Init => DeclinesClosed /\ ChainOrder
  BY DEF Init, DeclinesClosed, ChainOrder, Accepted
<1>2. TypeOK /\ DeclinesClosed /\ [Next]_vars => DeclinesClosed'
  BY NextTypeOK, NextEnters, DeclinesStay
<1>3. TypeOK /\ DeclinesClosed /\ ChainOrder /\ [Next]_vars => ChainOrder'
  BY NextTypeOK, NextOrder
<1> QED
  BY <1>1, <1>2, <1>3, TypeCorrect, PTL DEF Spec

-----------------------------------------------------------------------------
(***************************************************************************)
(* Locks, holders and transfers, with requests cut off anywhere, in the    *)
(* executions in which no offer of a closed chain is edited.               *)
(* UpdateProposal does not refuse such an edit: the theorems say so in     *)
(* their hypothesis.  What a handler relies on between two of its          *)
(* transactions is Sound, what a deal keeps while no handler, or another   *)
(* one, works on it is DealSafe.                                           *)
(***************************************************************************)

\* The steps taken with the advisory lock of the deal, whoever called.
Working == {"accept", "chain", "all", "confirm", "list", "move", "complete",
            "retract", "cancel", "decline", "unlock"}

\* The handler has taken the deal's advisory lock ...
Holds(r) == pc[r] \in Working \/ (pc[r] = "propose" /\ job[r].op = "join")

\* ... or is about to make the first proposal of the deal it has inserted, which
\* nobody else can name yet.
Fresh(r) == pc[r] = "propose" /\ job[r].op # "join"

\* No proposal has reached the deal; a cascade may have cancelled it by its root.
Blank(d) ==
  /\ dstatus[d] \in {"PENDING", "CANCELLED"} /\ deadline[d] = "null"
  /\ \A u \in Users : pstatus[d][u] = "none"

\* Another deal's cascade has cancelled the deal.
Undone(d) ==
  dstatus[d] = "CANCELLED" /\ \A u \in Users : pstatus[d][u] \in {"none", "DECLINED"}

\* What a participant gives, and to whom.
Offer(d, u) == <<pitem[d][u], pto[d][u]>>

\* The item offered is ready to change hands.
Secured(d, u) == lock[pitem[d][u]] = d /\ holder[pitem[d][u]] = u

\* What a handler relies on at each of its steps: the lock it has taken, the status
\* it has read or written, and, once it confirms, the answers of all participants
\* and the items the transfers move.
Sound(r) ==
  LET d == job[r].deal IN
  /\ pc[r] = "join" => job[r].op = "join"
  /\ Holds(r) => mutex[d] = r
  /\ Fresh(r) => Blank(d)
  /\ pc[r] \in {"accept", "chain", "all", "retract"} => dstatus[d] = "PENDING" \/ Undone(d)
  /\ pc[r] = "cancel" => dstatus[d] \in {"PENDING", "CANCELLED"}
  /\ pc[r] \in {"decline", "unlock"} => dstatus[d] = "CANCELLED"
  /\ pc[r] = "confirm" => dstatus[d] = "PENDING"
  /\ pc[r] \in {"list", "move", "complete"} => dstatus[d] = "CONFIRMED"
  /\ pc[r] \in {"confirm", "list", "move"} => AllAccepted(d)
  /\ pc[r] = "list" => \A u \in Users : Accepted(d, u) => Secured(d, u)
  /\ pc[r] = "move" =>
       /\ \A t \in todo[r] : \E u \in Users : Accepted(d, u) /\ t = Offer(d, u) /\ Secured(d, u)
       /\ \A t, s \in todo[r] : t[1] = s[1] => t = s

\* Nobody else names a deal before its first proposal.
Apart == \A r, q \in Requests : r # q /\ Fresh(r) => job[q].deal # job[r].deal

\* A deal with a deadline has its root in a proposal; an open deal has what its
\* participants offered, and what they accepted locked.
DealSafe(d) ==
  /\ deadline[d] # "null" => InDeal(d, root[d])
  /\ dstatus[d] = "PENDING" =>
       \A u \in Users : /\ Accepted(d, u) => lock[pitem[d][u]] = d
                        /\ pstatus[d][u] # "none" => holder[pitem[d][u]] = u

\* The inductive invariant: the tables and every handler that works on them.
Safe ==
  /\ \A d \in Deals : DealSafe(d)
  /\ \A r \in Requests : Sound(r)
  /\ Apart

-----------------------------------------------------------------------------
(* What a step does to the deals its handler does not work on. *)

\* Before the chain is closed a pending offer may be replaced by an item the
\* participant holds.
Edited(d, u) ==
  /\ pstatus[d][u] = "PENDING" /\ deadline[d] = "null"
  /\ pitem'[d][u] \in Items /\ holder'[pitem'[d][u]] = u

\* The deal keeps its rows and its locks; no item leaves its holder unless another
\* deal has it locked.
Untouched(d) ==
  /\ dstatus'[d] = dstatus[d] /\ root'[d] = root[d]
  /\ \A u \in Users : pstatus'[d][u] = pstatus[d][u]
  /\ deadline'[d] = "null" <=> deadline[d] = "null"
  /\ \A u \in Users : (pitem'[d][u] = pitem[d][u] /\ pto'[d][u] = pto[d][u]) \/ Edited(d, u)
  /\ \A x \in Items : /\ lock'[x] = d <=> lock[x] = d
                      /\ holder'[x] = holder[x] \/ \E e \in Deals \ {d} : lock[x] = e

\* A cascade cancels the deal because of an item it does not have locked.
Dropped(d) ==
  /\ dstatus[d] = "PENDING" /\ dstatus'[d] = "CANCELLED"
  /\ root'[d] = root[d] /\ deadline'[d] = deadline[d]
  /\ \A u \in Users : /\ pstatus[d][u] = "none" => pstatus'[d][u] = "none"
                      /\ pstatus[d][u] # "none" => pstatus'[d][u] = "DECLINED"
                      /\ pitem'[d][u] = pitem[d][u]
  /\ \A x \in Items : lock'[x] # d
  /\ \E x \in Items : (InDeal(d, x) \/ x = root[d]) /\ lock[x] # d

\* All that a step does to a deal its handler does not work on.
Foreign(d) == Untouched(d) \/ Dropped(d)

\* The other handlers stay where they are, and keep their locks.
Aside(r) ==
  \A q \in Requests \ {r} :
    /\ pc'[q] = pc[q] /\ job'[q] = job[q] /\ todo'[q] = todo[q]
    /\ \A e \in Deals : mutex[e] = q => mutex'[e] = q

\* A handler's step at most works on the deal it has, or gets.
Frame(r) ==
  /\ Aside(r)
  /\ \A e \in Deals : e \notin {job[r].deal, job'[r].deal} => Foreign(e)

\* A step no handler takes leaves every deal to itself.
AllForeign == UNCHANGED reqVars /\ \A e \in Deals : Foreign(e)

\* A deal nobody works on stays safe.
LEMMA ForeignDeal ==
  ASSUME TypeOK, ExclusiveClaim, NEW d \in Deals, DealSafe(d), Foreign(d)
  PROVE  DealSafe(d)'
<1>1. CASE Untouched(d)
  <2>1. deadline'[d] # "null" => InDeal(d, root[d])'
    <3>1. ASSUME deadline'[d] # "null" PROVE InDeal(d, root[d])'
      <4>1. deadline[d] # "null" /\ InDeal(d, root[d])
        BY <1>1, <3>1 DEF Untouched, DealSafe
      <4>2. PICK u \in Users : pstatus[d][u] # "none" /\ pitem[d][u] = root[d]
        BY <4>1 DEF InDeal
      <4>3. pitem'[d][u] = root'[d] /\ pstatus'[d][u] # "none"
        BY <1>1, <4>1, <4>2 DEF Untouched, Edited
      <4> QED
        BY <4>3 DEF InDeal
    <3> QED
      BY <3>1
  <2>2. ASSUME dstatus'[d] = "PENDING", NEW u \in Users, Accepted(d, u)'
        PROVE  lock'[pitem'[d][u]] = d
    <3>1. dstatus[d] = "PENDING" /\ pstatus[d][u] = "ACCEPTED" /\ pitem'[d][u] = pitem[d][u]
      BY <1>1, <2>2 DEF Untouched, Edited, Accepted
    <3>2. pitem[d][u] \in Items /\ lock[pitem[d][u]] = d
      BY <3>1 DEF TypeOK, RowsFilled, DealSafe, Accepted
    <3> QED
      BY <1>1, <3>1, <3>2 DEF Untouched
  <2>3. ASSUME dstatus'[d] = "PENDING", NEW u \in Users, pstatus'[d][u] # "none"
        PROVE  holder'[pitem'[d][u]] = u
    <3>1. CASE pitem'[d][u] = pitem[d][u]
      <4>1. dstatus[d] = "PENDING" /\ pstatus[d][u] # "none"
        BY <1>1, <2>3 DEF Untouched
      <4>2. pitem[d][u] \in Items /\ holder[pitem[d][u]] = u /\ InDeal(d, pitem[d][u])
        BY <4>1 DEF TypeOK, RowsFilled, DealSafe, InDeal
      <4>3. \A e \in Deals \ {d} : lock[pitem[d][u]] # e
        BY <4>1, <4>2 DEF ExclusiveClaim
      <4> QED
        BY <1>1, <3>1, <4>2, <4>3 DEF Untouched
    <3>2. CASE pitem'[d][u] # pitem[d][u]
      BY <1>1, <3>2 DEF Untouched, Edited
    <3> QED
      BY <3>1, <3>2
  <2> QED
    BY <2>1, <2>2, <2>3 DEF DealSafe
<1>2. CASE Dropped(d)
  <2>1. ASSUME deadline'[d] # "null" PROVE InDeal(d, root[d])'
    <3>1. PICK u \in Users : pstatus[d][u] # "none" /\ pitem[d][u] = root[d]
      BY <1>2, <2>1 DEF Dropped, DealSafe, InDeal
    <3>2. pitem'[d][u] = root'[d] /\ pstatus'[d][u] # "none"
      BY <1>2, <3>1 DEF Dropped
    <3> QED
      BY <3>2 DEF InDeal
  <2> QED
    BY <1>2, <2>1 DEF Dropped, DealSafe
<1> QED
  BY <1>1, <1>2 DEF Foreign

\* A deal that is about to be confirmed cannot be dropped: it has all its items
\* locked.
LEMMA ConfirmNotDropped ==
  ASSUME TypeOK, NEW d \in Deals, DealSafe(d), dstatus[d] = "PENDING", AllAccepted(d)
  PROVE  ~Dropped(d)
<1>1. \A x \in Items : InDeal(d, x) => lock[x] = d
  BY DEF InDeal, AllAccepted, DealSafe, Accepted
<1>2. InDeal(d, root[d])
  BY DEF AllAccepted, DealSafe
<1> QED
  BY <1>1, <1>2 DEF Dropped

\* A handler of an untouched or dropped deal can go on.
LEMMA ForeignHandler ==
  ASSUME TypeOK, NEW r \in Requests, Sound(r),
         job[r].deal \in Deals => DealSafe(job[r].deal) /\ Foreign(job[r].deal),
         pc'[r] = pc[r], job'[r] = job[r], todo'[r] = todo[r],
         \A e \in Deals : mutex[e] = r => mutex'[e] = r
  PROVE  Sound(r)'
<1> DEFINE d == job[r].deal
<1>1. CASE pc[r] \in {"idle", "create"}
  BY <1>1 DEF Sound, Holds, Fresh, Working
<1>2. CASE pc[r] \notin {"idle", "create"}
  <2>1. d \in Deals
    BY <1>2 DEF TypeOK, JobsFilled
  <2>2. DealSafe(d) /\ Foreign(d)
    BY <2>1
  <2> DEFINE T == todo[r]
  <2>3. CASE pc[r] \in {"list", "move", "confirm"}
    <3>1. Untouched(d)
      BY <2>1, <2>2, <2>3, ConfirmNotDropped DEF Sound, Foreign, Dropped
    <3>2. AllAccepted(d)
      BY <2>3 DEF Sound
    <3>3. \A u \in Users : /\ pstatus'[d][u] = pstatus[d][u] /\ pitem'[d][u] = pitem[d][u]
                           /\ pto'[d][u] = pto[d][u]
      BY <3>1, <3>2 DEF Untouched, Edited, AllAccepted
    <3>4. AllAccepted(d)'
      BY <3>1, <3>2, <3>3 DEF AllAccepted, Untouched
    <3>5. ASSUME NEW u \in Users, Accepted(d, u), Secured(d, u) PROVE Secured(d, u)'
      <4>1. pitem[d][u] \in Items
        BY <2>1, <3>5 DEF Accepted, TypeOK, RowsFilled
      <4> QED
        BY <3>1, <3>3, <3>5, <4>1 DEF Secured, Untouched
    <3>6. dstatus'[d] = dstatus[d]
      BY <3>1 DEF Untouched
    <3>7. Holds(r)' => mutex'[d] = r
      BY <2>1 DEF Sound, Holds
    <3>8. CASE pc[r] = "list"
      BY <3>3, <3>4, <3>5, <3>6, <3>7, <3>8 DEF Sound, Accepted, Holds, Fresh, Working
    <3>9. CASE pc[r] = "move"
      <4>1. \A u \in Users : Accepted(d, u) => Accepted(d, u)' /\ Offer(d, u)' = Offer(d, u)
        BY <3>3 DEF Accepted, Offer
      <4>2. \A t \in todo'[r] : \E u \in Users : Accepted(d, u)' /\ t = Offer(d, u)' /\ Secured(d, u)'
        BY <3>5, <3>9, <4>1 DEF Sound
      <4>3. \A t, s \in todo'[r] : t[1] = s[1] => t = s
        BY <3>9 DEF Sound
      <4> QED
        BY <3>4, <3>6, <3>7, <3>9, <4>2, <4>3 DEF Sound, Fresh
    <3>10. CASE pc[r] = "confirm"
      BY <3>4, <3>6, <3>7, <3>10 DEF Sound, Fresh
    <3> QED
      BY <2>3, <3>8, <3>9, <3>10
  <2>4. CASE pc[r] \notin {"list", "move", "confirm"}
    <3>1. Holds(r)' => mutex'[d] = r
      BY <2>1 DEF Sound, Holds
    <3>2. Blank(d) => Blank(d)'
      BY <2>2 DEF Foreign, Untouched, Dropped, Blank
    <3>3. dstatus[d] = "PENDING" \/ Undone(d) => dstatus'[d] = "PENDING" \/ Undone(d)'
      BY <2>2 DEF Foreign, Untouched, Dropped, Undone
    <3>4. /\ dstatus[d] # "PENDING" => dstatus'[d] = dstatus[d]
          /\ dstatus[d] = "PENDING" => dstatus'[d] \in {"PENDING", "CANCELLED"}
      BY <2>2 DEF Foreign, Untouched, Dropped
    <3> QED
      BY <2>4, <3>1, <3>2, <3>3, <3>4 DEF Sound, Fresh
  <2> QED
    BY <2>3, <2>4
<1> QED
  BY <1>1, <1>2

\* A step is safe if the deals it works on end up safe, the others are left to
\* themselves, and the handler that takes it can go on.
LEMMA SafeStep ==
  ASSUME TypeOK, ExclusiveClaim, Safe, NEW r \in Requests, NEW D \in SUBSET Deals, Aside(r),
         \A e \in Deals \ D : Foreign(e),
         \A e \in D : DealSafe(e)',
         \A q \in Requests \ {r} : Holds(q) \/ Fresh(q) => job[q].deal \notin D,
         \A q \in Requests \ {r} : Fresh(q) => job[q].deal # job'[r].deal,
         Fresh(r)' => \A q \in Requests \ {r} : job[q].deal # job'[r].deal,
         Sound(r)'
  PROVE  Safe'
<1>1. \A e \in Deals : DealSafe(e)'
  BY ForeignDeal DEF Safe
<1>2. ASSUME NEW q \in Requests \ {r} PROVE Sound(q)'
  <2>1. Sound(q) /\ pc'[q] = pc[q] /\ job'[q] = job[q] /\ todo'[q] = todo[q]
        /\ \A e \in Deals : mutex[e] = q => mutex'[e] = q
    BY <1>2 DEF Aside, Safe
  <2>2. CASE Holds(q) \/ Fresh(q)
    <3>1. job[q].deal \in Deals => DealSafe(job[q].deal) /\ Foreign(job[q].deal)
      BY <1>2, <2>2 DEF Safe
    <3> QED
      BY <2>1, <3>1, ForeignHandler
  <2>3. CASE ~(Holds(q) \/ Fresh(q))
    <3>1. /\ pc[q] = "join" => job[q].op = "join"
          /\ pc[q] \notin {"accept", "chain", "all", "confirm", "list", "move", "complete",
                           "retract", "cancel", "decline", "unlock", "propose"}
      BY <2>1, <2>3 DEF Sound, Holds, Fresh, Working
    <3> QED
      BY <2>1, <3>1 DEF Sound, Holds, Fresh, Working
  <2> QED
    BY <2>2, <2>3
<1>3. Apart'
  <2> SUFFICES ASSUME NEW p \in Requests, NEW q \in Requests, p # q, Fresh(p)'
               PROVE  job'[q].deal # job'[p].deal
    BY DEF Apart
  <2>1. CASE p = r
    BY <2>1 DEF Aside
  <2>2. CASE p # r
    <3>1. Fresh(p) /\ job'[p] = job[p]
      BY <2>2 DEF Aside, Fresh
    <3>2. CASE q = r
      BY <2>2, <3>1, <3>2
    <3>3. CASE q # r
      BY <3>1, <3>3 DEF Aside, Safe, Apart
    <3> QED
      BY <3>2, <3>3
  <2> QED
    BY <2>1, <2>2
<1> QED
  BY <1>1, <1>2, <1>3 DEF Safe

\* Nobody else works on the deal of a handler that has its lock, or that has
\* just inserted it.
LEMMA Alone ==
  ASSUME TypeOK, Safe, NEW r \in Requests, NEW q \in Requests, q # r,
         Holds(r) \/ Fresh(r), Holds(q) \/ Fresh(q)
  PROVE  job[q].deal # job[r].deal
<1>1. Sound(r) /\ Sound(q) /\ Apart
  BY DEF Safe
<1> QED
  BY <1>1 DEF Sound, Apart

\* The step of a handler on its own deal.
LEMMA OwnStep ==
  ASSUME TypeOK, ExclusiveClaim, Safe, NEW r \in Requests, Holds(r) \/ Fresh(r), Aside(r),
         NEW d \in Deals, d = job[r].deal, ~Fresh(r)', job'[r].deal \in {d, NoDeal},
         \A e \in Deals \ {d} : Foreign(e), DealSafe(d)', Sound(r)'
  PROVE  Safe' /\ Frame(r)
<1>1. \A q \in Requests \ {r} : Holds(q) \/ Fresh(q) => job[q].deal \notin {d}
  BY Alone
<1>2. \A q \in Requests \ {r} : Fresh(q) => job[q].deal # job'[r].deal
  BY <1>1, SentinelAssumption DEF Fresh, TypeOK, JobsFilled
<1>3. {d} \in SUBSET Deals /\ (\A e \in {d} : DealSafe(e)')
  OBVIOUS
<1>4. Frame(r)
  BY DEF Frame
<1> QED
  BY <1>1, <1>2, <1>3, <1>4, SafeStep

\* A step that leaves every deal to itself and starts no new deal.
LEMMA IdleStep ==
  ASSUME TypeOK, ExclusiveClaim, Safe, NEW r \in Requests, Aside(r), \A e \in Deals : Foreign(e),
         ~Fresh(r)', \A q \in Requests \ {r} : Fresh(q) => job[q].deal # job'[r].deal,
         Sound(r)'
  PROVE  Safe' /\ Frame(r)
<1>1. {} \in SUBSET Deals /\ (\A e \in Deals \ {} : Foreign(e)) /\ (\A e \in {} : DealSafe(e)')
      /\ (\A q \in Requests \ {r} : Holds(q) \/ Fresh(q) => job[q].deal \notin {})
  OBVIOUS
<1>2. Frame(r)
  BY DEF Frame
<1> QED
  BY <1>1, <1>2, SafeStep

\* Tables left alone leave every deal to itself.
LEMMA TablesForeign ==
  ASSUME UNCHANGED <<holder, lock, dealVars, propVars>>, NEW e \in Deals
  PROVE  Foreign(e)
  BY DEF dealVars, propVars, Foreign, Untouched

\* A handler that returns has nothing left to rely on, and disturbs nobody.
LEMMA RespondSound ==
  ASSUME TypeOK, NEW r \in Requests, Respond(r)
  PROVE  Aside(r) /\ Sound(r)' /\ ~Fresh(r)' /\ job'[r].deal = NoDeal
<1>1. pc'[r] = "idle" /\ job'[r] = NoJob
  BY DEF Respond, TypeOK, Types, RequestTypes
<1>2. Aside(r)
  BY DEF Respond, Aside, TypeOK, Types, RequestTypes
<1> QED
  BY <1>1, <1>2 DEF Sound, Holds, Fresh, Working, NoJob

\* A handler that moves on keeps its arguments and its lock.
LEMMA GotoAside ==
  ASSUME TypeOK, NEW r \in Requests, NEW step, Goto(r, step), UNCHANGED <<mutex, job, todo>>
  PROVE  Aside(r) /\ pc'[r] = step
  BY DEF Aside, TypeOK, Types, RequestTypes

\* A handler that returns from an unchanged database.
LEMMA ReturnSafe ==
  ASSUME TypeOK, ExclusiveClaim, Safe, NEW r \in Requests, Respond(r),
         UNCHANGED <<holder, lock, dealVars, propVars>>
  PROVE  Safe' /\ Frame(r)
<1>1. \A q \in Requests \ {r} : Fresh(q) => job[q].deal # NoDeal
  BY SentinelAssumption DEF Fresh, TypeOK, JobsFilled
<1> QED
  BY <1>1, RespondSound, TablesForeign, IdleStep

-----------------------------------------------------------------------------
(* The calls. *)

\* A handler that begins on the deal d with its lock.
LEMMA EnterSafe ==
  ASSUME TypeOK, ExclusiveClaim, Safe, NEW r \in Requests, NEW d \in Deals, NEW j, NEW step,
         j.deal = d, LockDeal(r, d), Begin(r, j, step),
         UNCHANGED <<holder, lock, dealVars, propVars>>,
         dstatus[d] = "PENDING",
         step \in {"accept", "retract", "cancel"} \/ (step = "propose" /\ j.op = "join"),
         \A q \in Requests \ {r} : Fresh(q) => job[q].deal # d
  PROVE  Safe' /\ Frame(r)
<1>1. pc'[r] = step /\ job'[r] = j /\ mutex'[d] = r
  BY DEF Begin, LockDeal, TypeOK, Types, RequestTypes
<1>2. dstatus'[d] = "PENDING"
  BY DEF dealVars
<1>3. Aside(r)
  <2>1. \A q \in Requests \ {r} : pc'[q] = pc[q] /\ job'[q] = job[q] /\ todo'[q] = todo[q]
    BY DEF Begin, TypeOK, Types, RequestTypes
  <2>2. \A q \in Requests, e \in Deals : mutex[e] = q => mutex'[e] = q
    BY SentinelAssumption DEF LockDeal, TypeOK, Types, RequestTypes
  <2> QED
    BY <2>1, <2>2 DEF Aside
<1>4. Sound(r)' /\ ~Fresh(r)'
  BY <1>1, <1>2 DEF Sound, Holds, Fresh, Working
<1> QED
  BY <1>1, <1>3, <1>4, TablesForeign, IdleStep

\* The deal a call names is one that has a proposal, hence no other handler's
\* new deal.
LEMMA VisibleNotFresh ==
  ASSUME Safe, NEW d \in Deals, NEW u \in Users, pstatus[d][u] # "none", NEW q \in Requests, Fresh(q)
  PROVE  job[q].deal # d
  BY DEF Safe, Sound, Blank

\* A proposal is made under the lock of a deal that others can see.
LEMMA CreateProposalSafe ==
  ASSUME TypeOK, ExclusiveClaim, Safe, NEW r \in Requests, NEW u \in Users, NEW d \in Deals, NEW x \in Items,
         CreateProposal(r, u, d, x)
  PROVE  Safe' /\ Frame(r)
<1>1. PICK v \in Users : pstatus[d][v] # "none"
  BY DEF CreateProposal, Visible
<1>2. \A q \in Requests \ {r} : Fresh(q) => job[q].deal # d
  BY <1>1, VisibleNotFresh
<1>3. Job("join", u, d, x).deal = d /\ Job("join", u, d, x).op = "join"
  BY DEF Job, NoJob
<1> HIDE DEF Job
<1> QED
  BY <1>2, <1>3, EnterSafe DEF CreateProposal, EnterOpenDeal, itemVars

\* An approval works under the lock of an open deal.
LEMMA ApproveSafe ==
  ASSUME TypeOK, ExclusiveClaim, Safe, NEW r \in Requests, NEW u \in Users, NEW d \in Deals, Approve(r, u, d)
  PROVE  Safe' /\ Frame(r)
<1>1. PICK v \in Users : pstatus[d][v] # "none"
  BY DEF Approve, Visible
<1>2. \A q \in Requests \ {r} : Fresh(q) => job[q].deal # d
  BY <1>1, VisibleNotFresh
<1>3. Job("approve", u, d, NoItem).deal = d
  BY DEF Job, NoJob
<1> QED
  BY <1>2, <1>3, EnterSafe DEF Approve, EnterOpenDeal, itemVars

\* A withdrawal works under the lock of an open deal.
LEMMA WithdrawSafe ==
  ASSUME TypeOK, ExclusiveClaim, Safe, NEW r \in Requests, NEW u \in Users, NEW d \in Deals, Withdraw(r, u, d)
  PROVE  Safe' /\ Frame(r)
<1>1. pstatus[d][u] # "none"
  BY DEF Withdraw
<1>2. \A q \in Requests \ {r} : Fresh(q) => job[q].deal # d
  BY <1>1, VisibleNotFresh
<1>3. Job("withdraw", u, d, NoItem).deal = d
  BY DEF Job, NoJob
<1> QED
  BY <1>2, <1>3, EnterSafe DEF Withdraw, itemVars

\* chown goes to join an open deal, or to create one.
LEMMA ChownSafe ==
  ASSUME TypeOK, ExclusiveClaim, Safe, NEW r \in Requests, NEW u \in Users, NEW rt \in Items, NEW x \in Items,
         Chown(r, u, rt, x)
  PROVE  Safe' /\ Frame(r)
<1>1. PICK j, step : /\ Begin(r, j, step)
                     /\ \/ step = "create" /\ j.deal = NoDeal
                        \/ step = "join" /\ j.op = "join" /\ j.deal \in OpenDealsAsRecipient(rt, u)
  <2>1. CASE OpenDealsAsRecipient(rt, u) = {}
    <3>1. Begin(r, [Job("chown", u, NoDeal, x) EXCEPT !.claim = rt], "create")
      BY <2>1 DEF Chown
    <3>2. [Job("chown", u, NoDeal, x) EXCEPT !.claim = rt].deal = NoDeal
      BY DEF Job, NoJob
    <3> QED
      BY <3>1, <3>2
  <2>2. CASE OpenDealsAsRecipient(rt, u) # {}
    <3>1. PICK d \in OpenDealsAsRecipient(rt, u) : Begin(r, Job("join", u, d, x), "join")
      BY <2>2 DEF Chown
    <3>2. Job("join", u, d, x).op = "join" /\ Job("join", u, d, x).deal = d
      BY DEF Job, NoJob
    <3> QED
      BY <3>1, <3>2
  <2> QED
    BY <2>1, <2>2
<1>2. pc'[r] = step /\ job'[r] = j
  BY <1>1 DEF Begin, TypeOK, Types, RequestTypes
<1>3. Aside(r)
  BY <1>1 DEF Chown, Begin, Aside, TypeOK, Types, RequestTypes
<1>4. Sound(r)' /\ ~Fresh(r)'
  BY <1>1, <1>2 DEF Sound, Holds, Fresh, Working
<1>5. \A q \in Requests \ {r} : Fresh(q) => job[q].deal # job'[r].deal
  <2>1. CASE j.deal = NoDeal
    BY <1>2, <2>1, SentinelAssumption DEF Fresh, TypeOK, JobsFilled
  <2>2. CASE j.deal \in OpenDealsAsRecipient(rt, u)
    BY <1>2, <2>2, VisibleNotFresh DEF OpenDealsAsRecipient
  <2> QED
    BY <1>1, <2>1, <2>2
<1> QED
  BY <1>3, <1>4, <1>5, TablesForeign, IdleStep DEF Chown, itemVars

\* The chown that finds its deal joinable enters it, or it returns.
LEMMA JoinFoundSafe ==
  ASSUME TypeOK, ExclusiveClaim, Safe, NEW r \in Requests, JoinFound(r)
  PROVE  Safe' /\ Frame(r)
<1>1. pc[r] = "join" /\ job[r].deal \in Deals /\ job[r].op = "join"
  BY DEF JoinFound, TypeOK, JobsFilled, Safe, Sound
<1>2. CASE Joinable(job[r].deal, job[r].user)
  <2>1. \A q \in Requests \ {r} : Fresh(q) => job[q].deal # job[r].deal
    BY DEF Safe, Apart
  <2>2. PICK step \in {"cancel", "propose"} : /\ Begin(r, job[r], step) /\ LockDeal(r, job[r].deal)
                                              /\ dstatus[job[r].deal] = "PENDING"
    BY <1>2 DEF JoinFound, EnterOpenDeal
  <2> QED
    BY <1>1, <2>1, <2>2, EnterSafe DEF JoinFound, itemVars
<1>3. CASE ~Joinable(job[r].deal, job[r].user)
  BY <1>3, ReturnSafe DEF JoinFound, itemVars
<1> QED
  BY <1>2, <1>3

\* A deal just inserted belongs to nobody else.
LEMMA InsertDealSafe ==
  ASSUME TypeOK, ExclusiveClaim, Safe, NEW r \in Requests, NEW d \in Deals, NEW u, NEW rt, NEW j,
         InsertDeal(d, u, rt), Begin(r, j, "propose"), j.deal = d, j.op # "join",
         UNCHANGED <<itemVars, propVars, mutex>>
  PROVE  Safe' /\ Frame(r)
<1>1. dstatus[d] = "none" /\ \A v \in Users : pstatus[d][v] = "none"
  BY DEF InsertDeal, TypeOK, RowsFilled
<1>2. deadline[d] = "null"
  BY <1>1 DEF Safe, DealSafe, InDeal
<1>3. \A q \in Requests : job[q].deal # d
  BY <1>1 DEF TypeOK, JobsFilled
<1>4. dstatus'[d] = "PENDING" /\ deadline'[d] = "null" /\ \A v \in Users : pstatus'[d][v] = "none"
  BY <1>1, <1>2 DEF InsertDeal, TypeOK, Types, DealTypes, propVars
<1>5. \A e \in Deals \ {d} : Foreign(e)
  BY DEF InsertDeal, Foreign, Untouched, TypeOK, Types, DealTypes, itemVars, propVars
<1>6. pc'[r] = "propose" /\ job'[r] = j
  BY DEF Begin, TypeOK, Types, RequestTypes
<1>7. Aside(r)
  BY DEF Begin, Aside, TypeOK, Types, RequestTypes
<1>8. DealSafe(d)'
  BY <1>4 DEF DealSafe, Accepted
<1>9. Sound(r)'
  BY <1>4, <1>6 DEF Sound, Holds, Working, Blank
<1>10. /\ {d} \in SUBSET Deals /\ (\A e \in {d} : DealSafe(e)')
       /\ \A q \in Requests \ {r} : job[q].deal \notin {d} /\ job[q].deal # job'[r].deal
  BY <1>3, <1>6, <1>8
<1>11. Frame(r)
  BY <1>5, <1>6, <1>7 DEF Frame
<1> QED
  BY <1>5, <1>7, <1>9, <1>10, <1>11, SafeStep

\* The client inserts a deal, then makes its first proposal.
LEMMA CreateDealSafe ==
  ASSUME TypeOK, ExclusiveClaim, Safe, NEW r \in Requests, NEW u \in Users, NEW rt \in Items, NEW x \in Items,
         CreateDeal(r, u, rt, x)
  PROVE  Safe' /\ Frame(r)
<1>1. PICK d \in Deals : InsertDeal(d, u, rt) /\ Begin(r, Job("deal", u, d, x), "propose")
  BY DEF CreateDeal
<1>2. Job("deal", u, d, x).deal = d /\ Job("deal", u, d, x).op # "join"
  BY DEF Job, NoJob
<1> QED
  BY <1>1, <1>2, InsertDealSafe DEF CreateDeal

\* So does the chown that has found none to join.
LEMMA CreateForClaimSafe ==
  ASSUME TypeOK, ExclusiveClaim, Safe, NEW r \in Requests, CreateForClaim(r)
  PROVE  Safe' /\ Frame(r)
<1>1. PICK d \in Deals : /\ InsertDeal(d, job[r].user, job[r].claim)
                         /\ Begin(r, [job[r] EXCEPT !.deal = d], "propose")
  BY DEF CreateForClaim
<1>2. job[r] \in Jobs /\ job[r].op = "chown"
  BY DEF CreateForClaim, TypeOK, Types, RequestTypes, JobsFilled
<1> DEFINE j == [job[r] EXCEPT !.deal = d]
<1>3. j.deal = d /\ j.op # "join"
  BY <1>2 DEF Jobs
<1> HIDE DEF j
<1> QED
  BY <1>1, <1>3, InsertDealSafe DEF CreateForClaim, j

-----------------------------------------------------------------------------
(* The handlers' steps. *)

\* A new proposal offers an item its user holds and no deal has locked.
LEMMA ProposeSafe ==
  ASSUME TypeOK, ExclusiveClaim, Safe, NEW r \in Requests, Propose(r)
  PROVE  Safe' /\ Frame(r)
<1>1. PICK d \in Deals, u \in Users, x \in Items : d = job[r].deal /\ u = job[r].user /\ x = job[r].item
  BY DEF Propose, TypeOK, JobsFilled
<1>2. PICK v \in Users : CanPropose(d, u, x, v) /\ InsertProposal(d, u, x, v)
  BY <1>1 DEF Propose
<1>3. /\ pstatus[d][u] = "none" /\ holder[x] = u /\ lock[x] \notin Deals
      /\ UNCHANGED <<holder, dstatus, root>> /\ lock' = [lock EXCEPT ![x] = NoDeal]
  BY <1>1, <1>2 DEF CanPropose, CheckItemHolder, InsertProposal, Propose
<1>4. \A y \in Items, e \in Deals : lock'[y] = e <=> lock[y] = e
  BY <1>3, SentinelAssumption DEF TypeOK, Types, ItemTypes
<1>5. \A e \in Deals, w \in Users : e # d \/ w # u =>
        pstatus'[e][w] = pstatus[e][w] /\ pitem'[e][w] = pitem[e][w] /\ pto'[e][w] = pto[e][w]
  BY <1>2 DEF InsertProposal, TypeOK, Types, ProposalTypes
<1>6. pstatus'[d][u] = "PENDING" /\ pitem'[d][u] = x
  BY <1>2 DEF InsertProposal, TypeOK, Types, ProposalTypes
<1>7. \A e \in Deals \ {d} : deadline'[e] = deadline[e]
  BY <1>2 DEF InsertProposal, TypeOK, Types, DealTypes
<1>8. deadline'[d] # "null" => x = root[d]
  BY <1>2 DEF InsertProposal, CanPropose
<1>9. \A e \in Deals \ {d} : Foreign(e)
  BY <1>3, <1>4, <1>5, <1>7 DEF Foreign, Untouched
<1>10. DealSafe(d)'
  <2>1. deadline'[d] # "null" => InDeal(d, root[d])'
    BY <1>3, <1>6, <1>8 DEF InDeal
  <2>2. ASSUME dstatus'[d] = "PENDING", NEW w \in Users, pstatus'[d][w] # "none"
        PROVE  /\ pstatus'[d][w] = "ACCEPTED" => lock'[pitem'[d][w]] = d
               /\ holder'[pitem'[d][w]] = w
    <3>1. CASE w = u
      BY <1>3, <1>6, <3>1
    <3>2. CASE w # u
      <4>1. dstatus[d] = "PENDING" /\ pstatus[d][w] # "none" /\ DealSafe(d)
        BY <1>3, <1>5, <2>2, <3>2 DEF Safe
      <4>2. pitem[d][w] \in Items
        BY <4>1 DEF TypeOK, RowsFilled
      <4> QED
        BY <1>3, <1>4, <1>5, <3>2, <4>1, <4>2 DEF DealSafe, Accepted
    <3> QED
      BY <3>1, <3>2
  <2> QED
    BY <2>1, <2>2 DEF DealSafe, Accepted
<1>11. Holds(r) \/ Fresh(r)
  BY DEF Propose, Holds, Fresh
<1>12. CASE job[r].op = "chown"
  <2>1. Goto(r, "wish") /\ UNCHANGED <<job, todo, mutex>>
    BY <1>12 DEF Propose
  <2>2. pc'[r] = "wish" /\ Aside(r) /\ job'[r] = job[r]
    BY <2>1, GotoAside
  <2>3. Sound(r)' /\ ~Fresh(r)'
    BY <2>2 DEF Sound, Holds, Fresh, Working
  <2> QED
    BY <1>1, <1>9, <1>10, <1>11, <2>2, <2>3, OwnStep
<1>13. CASE job[r].op # "chown"
  <2>1. Respond(r)
    BY <1>13 DEF Propose
  <2> QED
    BY <1>1, <1>9, <1>10, <1>11, <2>1, RespondSound, OwnStep
<1> QED
  BY <1>12, <1>13

\* A step of a handler that keeps its deal and its lock, and leaves the tables
\* alone.
LEMMA WaitStep ==
  ASSUME TypeOK, ExclusiveClaim, Safe, NEW r \in Requests, NEW step, Goto(r, step),
         UNCHANGED <<mutex, job, todo>>, UNCHANGED <<holder, lock, dealVars, propVars>>,
         step # "propose", Sound(r)'
  PROVE  Safe' /\ Frame(r)
<1>1. Aside(r) /\ pc'[r] = step /\ job'[r] = job[r]
  BY GotoAside
<1>2. ~Fresh(r)'
  BY <1>1 DEF Fresh
<1>3. ASSUME NEW q \in Requests \ {r}, Fresh(q) PROVE job[q].deal # job'[r].deal
  BY <1>1, <1>3 DEF Safe, Apart
<1> QED
  BY <1>1, <1>2, <1>3, TablesForeign, IdleStep

\* The wish a chown adds touches no deal.
LEMMA EnsureWishSafe ==
  ASSUME TypeOK, ExclusiveClaim, Safe, NEW r \in Requests, EnsureWish(r) \/ LinkWish(r)
  PROVE  Safe' /\ Frame(r)
<1>1. CASE LinkWish(r) \/ WishExists(r)
  BY <1>1, ReturnSafe DEF EnsureWish, LinkWish, itemVars
<1>2. CASE EnsureWish(r) /\ ~WishExists(r)
  <2>1. Goto(r, "link") /\ UNCHANGED <<mutex, job, todo>> /\ UNCHANGED <<holder, lock, dealVars, propVars>>
    BY <1>2 DEF EnsureWish, itemVars
  <2>2. pc'[r] = "link"
    BY <2>1, GotoAside
  <2>3. Sound(r)'
    BY <2>2 DEF Sound, Holds, Fresh, Working
  <2> QED
    BY <2>1, <2>3, WaitStep
<1> QED
  BY <1>1, <1>2

\* A rival a cascade cancels is Dropped: it has an item of d in a proposal or as
\* its root, and ExclusiveClaim says it cannot have that item locked.
LEMMA RivalDropped ==
  ASSUME TypeOK, ExclusiveClaim, NEW d \in Deals, NEW S \in SUBSET (Deals \ {d}), NEW e \in S,
         dstatus[d] = "PENDING", \A c \in S : dstatus[c] = "PENDING",
         dstatus' = CancelledIn(S), UNCHANGED <<root, pitem>>, deadline'[e] = deadline[e],
         \A v \in Users : pstatus'[e][v] = DeclinedIn(S)[e][v],
         \A y \in Items : lock'[y] # e,
         \E x \in Items : InDeal(d, x) /\ (InDeal(e, x) \/ x = root[e])
  PROVE  Dropped(e)
<1>1. PICK x \in Items : InDeal(d, x) /\ (InDeal(e, x) \/ x = root[e])
  OBVIOUS
<1>2. lock[x] # e
  BY <1>1 DEF ExclusiveClaim
<1>3. \A v \in Users : /\ pstatus[e][v] = "none" => pstatus'[e][v] = "none"
                       /\ pstatus[e][v] # "none" => pstatus'[e][v] = "DECLINED"
  BY DEF DeclinedIn
<1>4. dstatus'[e] = "CANCELLED"
  BY DEF CancelledIn
<1> QED
  BY <1>1, <1>2, <1>3, <1>4 DEF Dropped

\* Approval locks the item and drops the other open deals that have it.
LEMMA AcceptSafe ==
  ASSUME TypeOK, ExclusiveClaim, Safe, NEW r \in Requests, Accept(r)
  PROVE  Safe' /\ Frame(r)
<1>1. PICK d \in Deals, u \in Users : d = job[r].deal /\ u = job[r].user
  BY DEF Accept, TypeOK, JobsFilled
<1>2. pstatus[d][u] = "PENDING" /\ pc[r] = "accept" /\ Sound(r) /\ DealSafe(d)
  BY <1>1 DEF Accept, CanAccept, Safe
<1>3. dstatus[d] = "PENDING"
  BY <1>1, <1>2 DEF Sound, Undone
<1>4. PICK x \in Items : x = pitem[d][u]
  BY <1>2 DEF TypeOK, RowsFilled
<1>5. InDeal(d, x) /\ holder[x] = u
  BY <1>2, <1>3, <1>4 DEF InDeal, DealSafe
<1>6. PICK S \in SUBSET (Deals \ {d}) : S = CompetingForItem(d, x)
  BY DEF CompetingForItem
<1>7. \A e \in S : dstatus[e] = "PENDING" /\ InDeal(e, x) /\ lock[x] # e
  BY <1>3, <1>5, <1>6 DEF CompetingForItem, ExclusiveClaim
<1>8. lock' = [FreedFrom(S) EXCEPT ![x] = d]
  BY <1>1, <1>4, <1>6, <1>7 DEF Accept, LockOfferedItem, LockOutcomes
<1>9. /\ dstatus' = CancelledIn(S) /\ UNCHANGED <<holder, root, creator, pitem, pto>>
      /\ pstatus' = [DeclinedIn(S) EXCEPT ![d][u] = "ACCEPTED"]
      /\ deadline' = IF deadline[d] = "null" THEN deadline ELSE [deadline EXCEPT ![d] = "future"]
  BY <1>1, <1>4, <1>6 DEF Accept, LockOfferedItem, AcceptIn
<1>10. lock'[x] = d /\ \A y \in Items \ {x} : lock'[y] = IF lock[y] \in S THEN NoDeal ELSE lock[y]
  BY <1>8 DEF FreedFrom
<1>11. \A e \in Deals \ {d} : /\ \A v \in Users : pstatus'[e][v] = DeclinedIn(S)[e][v]
                              /\ deadline'[e] = deadline[e]
  BY <1>9 DEF DeclinedIn, TypeOK, Types, DealTypes
<1>12. /\ pstatus'[d][u] = "ACCEPTED" /\ dstatus'[d] = "PENDING"
       /\ deadline'[d] = "null" <=> deadline[d] = "null"
       /\ \A v \in Users \ {u} : pstatus'[d][v] = pstatus[d][v]
  BY <1>3, <1>9 DEF DeclinedIn, CancelledIn, TypeOK, Types, DealTypes
<1>13. ASSUME NEW e \in S PROVE Dropped(e)
  <2>1. \A y \in Items : lock'[y] # e
    BY <1>10, SentinelAssumption
  <2>2. \A v \in Users : pstatus'[e][v] = DeclinedIn(S)[e][v]
    BY <1>11
  <2>3. deadline'[e] = deadline[e]
    BY <1>11
  <2>4. InDeal(d, x) /\ InDeal(e, x)
    BY <1>5, <1>7
  <2> QED
    BY <1>3, <1>7, <1>9, <2>1, <2>2, <2>3, <2>4, RivalDropped
<1>14. ASSUME NEW e \in Deals \ {d}, e \notin S PROVE Untouched(e)
  <2>1. lock[x] # e
    BY <1>3, <1>5 DEF ExclusiveClaim
  <2>2. \A y \in Items : lock'[y] = e <=> lock[y] = e
    BY <1>10, <1>14, <2>1, SentinelAssumption
  <2>3. \A v \in Users : pstatus'[e][v] = pstatus[e][v]
    BY <1>11, <1>14 DEF DeclinedIn
  <2>4. dstatus'[e] = dstatus[e]
    BY <1>9, <1>14 DEF CancelledIn
  <2> QED
    BY <1>9, <1>11, <2>2, <2>3, <2>4 DEF Untouched
<1>15. \A e \in Deals \ {d} : Foreign(e)
  BY <1>13, <1>14 DEF Foreign
<1>16. DealSafe(d)'
  <2>1. deadline'[d] # "null" => InDeal(d, root[d])'
    <3>1. ASSUME deadline'[d] # "null" PROVE InDeal(d, root[d])'
      <4>1. PICK v \in Users : pstatus[d][v] # "none" /\ pitem[d][v] = root[d]
        BY <1>2, <1>12, <3>1 DEF DealSafe, InDeal
      <4>2. pstatus'[d][v] # "none"
        BY <1>12, <4>1
      <4> QED
        BY <1>9, <4>1, <4>2 DEF InDeal
    <3> QED
      BY <3>1
  <2>2. ASSUME NEW v \in Users, pstatus'[d][v] = "ACCEPTED" PROVE lock'[pitem'[d][v]] = d
    <3>1. CASE v = u
      BY <1>4, <1>9, <1>10, <3>1
    <3>2. CASE v # u
      <4>1. pstatus[d][v] = "ACCEPTED"
        BY <1>12, <2>2, <3>2
      <4>2. lock[pitem[d][v]] = d /\ pitem[d][v] \in Items
        BY <1>2, <1>3, <4>1 DEF DealSafe, Accepted, TypeOK, RowsFilled
      <4> QED
        BY <1>6, <1>9, <1>10, <4>2
    <3> QED
      BY <3>1, <3>2
  <2>3. ASSUME NEW v \in Users, pstatus'[d][v] # "none" PROVE holder'[pitem'[d][v]] = v
    <3>1. pstatus[d][v] # "none"
      BY <1>2, <1>12, <2>3
    <3> QED
      BY <1>2, <1>3, <1>9, <3>1 DEF DealSafe
  <2> QED
    BY <2>1, <2>2, <2>3 DEF DealSafe, Accepted
<1>17. pc'[r] = "chain" /\ job'[r] = job[r] /\ mutex' = mutex /\ Aside(r)
  BY GotoAside DEF Accept
<1>18. Sound(r)'
  BY <1>1, <1>2, <1>12, <1>17 DEF Sound, Holds, Fresh, Working
<1> QED
  BY <1>1, <1>2, <1>15, <1>16, <1>17, <1>18, OwnStep DEF Holds, Fresh, Working

\* TryLockChain locks every item of the chain and drops the deals that need one.
LEMMA TryLockChainSafe ==
  ASSUME TypeOK, ExclusiveClaim, Safe, NEW r \in Requests, TryLockChain(r)
  PROVE  Safe' /\ Frame(r)
<1>1. PICK d \in Deals : d = job[r].deal
  BY DEF TryLockChain, TypeOK, JobsFilled
<1>2. pc[r] = "chain" /\ Sound(r) /\ DealSafe(d)
  BY <1>1 DEF TryLockChain, Safe
<1>3. pc'[r] = "all" /\ job'[r] = job[r] /\ mutex' = mutex /\ Aside(r)
  BY GotoAside DEF TryLockChain
<1>4. CASE ~ChainReady(d)
  <2>1. UNCHANGED <<holder, lock, dealVars, propVars>>
    BY <1>1, <1>4 DEF TryLockChain, dealVars, propVars
  <2>2. Sound(r)'
    BY <1>1, <1>2, <1>3, <2>1 DEF Sound, Holds, Fresh, Working, Undone, dealVars, propVars
  <2>3. Goto(r, "all") /\ UNCHANGED <<mutex, job, todo>>
    BY DEF TryLockChain
  <2> QED
    BY <2>1, <2>2, <2>3, WaitStep
<1>5. CASE ChainReady(d)
  <2>1. dstatus[d] = "PENDING"
    <3>1. creator[d] \in Users /\ Accepted(d, creator[d])
      BY <1>1, <1>2, <1>5 DEF ChainReady, TypeOK, RowsFilled, JobsFilled
    <3> QED
      BY <1>1, <1>2, <3>1 DEF Sound, Undone, Accepted
  <2>2. PICK S \in SUBSET (Deals \ {d}) : S = CompetingForChain(d)
    BY DEF CompetingForChain
  <2>3. /\ dstatus' = CancelledIn(S) /\ pstatus' = DeclinedIn(S)
        /\ UNCHANGED <<holder, root, creator, deadline, pitem, pto>>
        /\ lock' = [x \in Items |-> IF x \in ItemsOf(d) THEN d ELSE FreedFrom(S)[x]]
    BY <1>1, <1>5, <2>2 DEF TryLockChain, LockChain
  <2>4. \A x \in Items : /\ InDeal(d, x) => lock'[x] = d
                         /\ ~InDeal(d, x) => lock'[x] = IF lock[x] \in S THEN NoDeal ELSE lock[x]
    BY <2>3 DEF ItemsOf, FreedFrom
  <2>5. ASSUME NEW e \in S PROVE Dropped(e)
    <3>1. \A y \in Items : lock'[y] # e
      BY <2>2, <2>4, SentinelAssumption
    <3>2. PICK x \in Items : InDeal(d, x) /\ (InDeal(e, x) \/ x = root[e])
      BY <2>2 DEF CompetingForChain, ItemsOf
    <3>3. \A v \in Users : pstatus'[e][v] = DeclinedIn(S)[e][v]
      BY <2>3
    <3>4. deadline'[e] = deadline[e] /\ \A c \in S : dstatus[c] = "PENDING"
      BY <2>2, <2>3 DEF CompetingForChain
    <3> QED
      BY <2>1, <2>3, <3>1, <3>2, <3>3, <3>4, RivalDropped
  <2>6. ASSUME NEW e \in Deals \ {d}, e \notin S PROVE Untouched(e)
    <3>1. \A y \in Items : lock'[y] = e <=> lock[y] = e
      <4>1. \A y \in Items : InDeal(d, y) => lock[y] # e
        BY <2>1 DEF ExclusiveClaim
      <4> QED
        BY <2>4, <2>6, <4>1, SentinelAssumption
    <3>2. dstatus'[e] = dstatus[e] /\ \A v \in Users : pstatus'[e][v] = pstatus[e][v]
      BY <2>3, <2>6 DEF CancelledIn, DeclinedIn
    <3> QED
      BY <2>3, <3>1, <3>2 DEF Untouched
  <2>7. \A e \in Deals \ {d} : Foreign(e)
    BY <2>5, <2>6 DEF Foreign
  <2>8. dstatus'[d] = "PENDING" /\ \A v \in Users : pstatus'[d][v] = pstatus[d][v]
    BY <2>1, <2>2, <2>3 DEF CancelledIn, DeclinedIn
  <2>9. DealSafe(d)'
    <3>1. InDeal(d, root[d]) => InDeal(d, root[d])'
      BY <2>3, <2>8 DEF InDeal
    <3>2. \A v \in Users : Accepted(d, v)' => lock'[pitem'[d][v]] = d
      BY <2>3, <2>4, <2>8 DEF Accepted, InDeal, TypeOK, RowsFilled
    <3> QED
      BY <1>2, <2>1, <2>3, <2>8, <3>1, <3>2 DEF DealSafe
  <2>10. Sound(r)'
    BY <1>1, <1>2, <1>3, <2>8 DEF Sound, Holds, Fresh, Working
  <2>11. ~Fresh(r)'
    BY <1>3 DEF Fresh
  <2> QED
    BY <1>1, <1>2, <1>3, <2>7, <2>9, <2>10, <2>11, OwnStep DEF Holds, Working
<1> QED
  BY <1>4, <1>5

\* A deal all of whose proposals are accepted is still open when it was open or
\* dropped before: a dropped one has its root's proposal declined.
LEMMA AllAcceptedOpen ==
  ASSUME NEW d \in Deals, DealSafe(d), AllAccepted(d), dstatus[d] = "PENDING" \/ Undone(d)
  PROVE  dstatus[d] = "PENDING"
<1>1. PICK u \in Users : pstatus[d][u] # "none"
  BY DEF DealSafe, AllAccepted, InDeal
<1> QED
  BY <1>1 DEF AllAccepted, Undone

\* A handler that finds everybody accepted knows the deal to be still open: a
\* dropped one has nobody accepted.
LEMMA CheckAllAcceptedSafe ==
  ASSUME TypeOK, ExclusiveClaim, Safe, NEW r \in Requests, CheckAllAccepted(r)
  PROVE  Safe' /\ Frame(r)
<1>1. PICK d \in Deals : d = job[r].deal
  BY DEF CheckAllAccepted, TypeOK, JobsFilled
<1>2. pc[r] = "all" /\ Sound(r) /\ DealSafe(d)
  BY <1>1 DEF CheckAllAccepted, Safe
<1>3. CASE AllAccepted(d)
  <2>1. /\ Goto(r, "confirm") /\ UNCHANGED <<mutex, job, todo>>
        /\ UNCHANGED <<holder, lock, dealVars, propVars>>
    BY <1>1, <1>3 DEF CheckAllAccepted, itemVars
  <2>2. pc'[r] = "confirm"
    BY <2>1, GotoAside
  <2>3. dstatus[d] = "PENDING"
    BY <1>1, <1>2, <1>3, AllAcceptedOpen DEF Sound
  <2>4. AllAccepted(d)'
    BY <1>3, <2>1 DEF AllAccepted, dealVars, propVars
  <2>5. Sound(r)'
    BY <1>1, <1>2, <2>1, <2>2, <2>3, <2>4 DEF Sound, Holds, Fresh, Working, dealVars
  <2> QED
    BY <2>1, <2>5, WaitStep
<1>4. CASE ~AllAccepted(d)
  BY <1>1, <1>4, ReturnSafe DEF CheckAllAccepted, itemVars
<1> QED
  BY <1>3, <1>4

\* UpdateStatus touches its deal only.
LEMMA UpdateStatusForeign ==
  ASSUME TypeOK, NEW d \in Deals, NEW status, UpdateStatus(d, status), UNCHANGED <<holder, lock, propVars>>
  PROVE  dstatus'[d] = status /\ \A e \in Deals \ {d} : Foreign(e)
  BY DEF UpdateStatus, Foreign, Untouched, propVars, TypeOK, Types, DealTypes

\* A deal that is no longer open keeps no promise but its root.
LEMMA ClosedDealSafe ==
  ASSUME NEW d \in Deals, DealSafe(d), dstatus'[d] # "PENDING", root'[d] = root[d],
         deadline'[d] = deadline[d], \A u \in Users : pitem'[d][u] = pitem[d][u],
         \A u \in Users : pstatus[d][u] # "none" => pstatus'[d][u] # "none"
  PROVE  DealSafe(d)'
<1>1. InDeal(d, root[d]) => InDeal(d, root[d])'
  BY DEF InDeal
<1> QED
  BY <1>1 DEF DealSafe

\* The handler's next UPDATE of its deal's row.
LEMMA UpdateStatusSafe ==
  ASSUME TypeOK, ExclusiveClaim, Safe, NEW r \in Requests, NEW d \in Deals, d = job[r].deal, NEW status,
         status # "PENDING", Holds(r), UpdateStatus(d, status), UNCHANGED <<holder, lock, propVars>>,
         Aside(r), ~Fresh(r)', job'[r].deal \in {d, NoDeal}, Sound(r)'
  PROVE  Safe' /\ Frame(r)
<1>1. dstatus'[d] = status /\ \A e \in Deals \ {d} : Foreign(e)
  BY UpdateStatusForeign
<1>2. DealSafe(d)'
  BY <1>1, ClosedDealSafe DEF Safe, UpdateStatus, propVars
<1> QED
  BY <1>1, <1>2, OwnStep

\* Confirming: every item of the chain is locked by the deal and held by the one
\* who offered it.
LEMMA ConfirmSafe ==
  ASSUME TypeOK, ExclusiveClaim, Safe, NEW r \in Requests, Confirm(r)
  PROVE  Safe' /\ Frame(r)
<1>1. PICK d \in Deals : d = job[r].deal
  BY DEF Confirm, TypeOK, JobsFilled
<1>2. pc[r] = "confirm" /\ Sound(r) /\ DealSafe(d)
  BY <1>1 DEF Confirm, Safe
<1>3. pc'[r] = "list" /\ job'[r] = job[r] /\ mutex' = mutex /\ Aside(r)
  BY GotoAside DEF Confirm
<1>4. UpdateStatus(d, "CONFIRMED") /\ UNCHANGED <<holder, lock, propVars>>
  BY <1>1 DEF Confirm, itemVars
<1>5. dstatus'[d] = "CONFIRMED"
  BY <1>4, UpdateStatusForeign
<1>6. AllAccepted(d) /\ dstatus[d] = "PENDING"
  BY <1>1, <1>2 DEF Sound
<1>7. AllAccepted(d)'
  BY <1>4, <1>6 DEF AllAccepted, UpdateStatus, propVars
<1>8. \A u \in Users : Accepted(d, u)' => Secured(d, u)'
  BY <1>2, <1>4, <1>6 DEF DealSafe, Accepted, Secured, propVars
<1>9. Sound(r)'
  BY <1>1, <1>2, <1>3, <1>5, <1>7, <1>8 DEF Sound, Holds, Fresh, Working
<1>10. Holds(r) /\ ~Fresh(r)' /\ job'[r].deal = d
  BY <1>1, <1>2, <1>3 DEF Holds, Fresh, Working
<1> QED
  BY <1>1, <1>3, <1>4, <1>9, <1>10, UpdateStatusSafe

\* The transfers listed are the accepted offers, each of an item of its own.
LEMMA ListTransfersSafe ==
  ASSUME TypeOK, ExclusiveClaim, Safe, NEW r \in Requests, ListTransfers(r)
  PROVE  Safe' /\ Frame(r)
<1>1. PICK d \in Deals : d = job[r].deal
  BY DEF ListTransfers, TypeOK, JobsFilled
<1>2. pc[r] = "list" /\ Sound(r)
  BY DEF ListTransfers, Safe
<1>3. AllAccepted(d) /\ dstatus[d] = "CONFIRMED" /\ \A u \in Users : Accepted(d, u) => Secured(d, u)
  BY <1>1, <1>2 DEF Sound
<1>4. /\ pc'[r] = "move" /\ job'[r] = job[r] /\ mutex' = mutex /\ Aside(r)
      /\ todo'[r] = Transfers(d)
  BY <1>1 DEF ListTransfers, Aside, TypeOK, Types, RequestTypes
<1>5. UNCHANGED <<holder, lock, dealVars, propVars>>
  BY DEF ListTransfers, itemVars
<1>6. \A t \in Transfers(d) : \E u \in Users : Accepted(d, u) /\ t = Offer(d, u) /\ Secured(d, u)
  BY <1>3 DEF Transfers, Offer, AllAccepted, Accepted
<1>7. \A t, s \in Transfers(d) : t[1] = s[1] => t = s
  BY <1>6 DEF Offer, Secured
<1>8. \A u \in Users : /\ Accepted(d, u)' = Accepted(d, u) /\ Offer(d, u)' = Offer(d, u)
                       /\ Secured(d, u)' = Secured(d, u)
  BY <1>5 DEF Accepted, Offer, Secured, propVars
<1>9. AllAccepted(d)' /\ dstatus'[d] = "CONFIRMED"
  BY <1>3, <1>5 DEF AllAccepted, dealVars, propVars
<1>10. \A t \in todo'[r] : \E u \in Users : Accepted(d, u)' /\ t = Offer(d, u)' /\ Secured(d, u)'
  BY <1>4, <1>6, <1>8
<1>11. Sound(r)'
  BY <1>1, <1>2, <1>4, <1>7, <1>9, <1>10 DEF Sound, Holds, Fresh, Working
<1>12. ~Fresh(r)'
  BY <1>4 DEF Fresh
<1>13. ASSUME NEW q \in Requests \ {r}, Fresh(q) PROVE job[q].deal # job'[r].deal
  BY <1>4, <1>13 DEF Safe, Apart
<1> QED
  BY <1>4, <1>5, <1>11, <1>12, <1>13, TablesForeign, IdleStep

\* Every transfer still to make is an accepted offer of the confirmed deal, whose
\* item the deal has locked and its offerer holds.
LEMMA MoveAgreed ==
  ASSUME TypeOK, Safe, NEW r \in Requests, pc[r] = "move", NEW t \in todo[r]
  PROVE  \E d \in Deals, u \in Users :
           /\ d = job[r].deal /\ dstatus[d] = "CONFIRMED" /\ AllAccepted(d)
           /\ Accepted(d, u) /\ t[1] = pitem[d][u] /\ t[2] = pto[d][u]
           /\ t[1] \in Items /\ lock[t[1]] = d /\ holder[t[1]] = u
<1>1. PICK d \in Deals : d = job[r].deal
  BY DEF TypeOK, JobsFilled
<1>2. Sound(r)
  BY DEF Safe
<1>3. PICK u \in Users : Accepted(d, u) /\ t = Offer(d, u) /\ Secured(d, u)
  BY <1>1, <1>2 DEF Sound
<1>4. pitem[d][u] \in Items
  BY <1>3 DEF Accepted, TypeOK, RowsFilled
<1> QED
  BY <1>1, <1>2, <1>3, <1>4 DEF Sound, Offer, Secured

\* A transfer disturbs neither the transfers that remain nor another deal.
LEMMA CompleteTransferSafe ==
  ASSUME TypeOK, ExclusiveClaim, Safe, NEW r \in Requests, CompleteTransfer(r)
  PROVE  Safe' /\ Frame(r)
<1>1. PICK t \in todo[r] : /\ HandOver(t[1], t[2])
                           /\ todo' = [todo EXCEPT ![r] = @ \ {t}]
                           /\ Goto(r, IF todo[r] = {t} THEN "complete" ELSE "move")
  BY DEF CompleteTransfer
<1>2. pc[r] = "move" /\ Sound(r) /\ UNCHANGED <<dealVars, propVars, mutex, job>>
  BY DEF CompleteTransfer, Safe
<1>3. PICK d \in Deals, u \in Users :
        /\ d = job[r].deal /\ dstatus[d] = "CONFIRMED" /\ AllAccepted(d)
        /\ t[1] \in Items /\ lock[t[1]] = d
  BY <1>2, MoveAgreed
<1>4. PICK x \in Items : x = t[1]
  BY <1>3
<1>5. /\ \A y \in Items \ {x} : lock'[y] = lock[y] /\ holder'[y] = holder[y]
      /\ lock'[x] = NoDeal
  BY <1>1, <1>4 DEF HandOver, TypeOK, Types, ItemTypes
<1>6. ASSUME NEW e \in Deals \ {d} PROVE Foreign(e)
  <2>1. \A y \in Items : lock'[y] = e <=> lock[y] = e
    BY <1>3, <1>4, <1>5, SentinelAssumption
  <2>2. \A y \in Items : holder'[y] = holder[y] \/ \E c \in Deals \ {e} : lock[y] = c
    BY <1>3, <1>4, <1>5
  <2> QED
    BY <1>2, <2>1, <2>2 DEF Foreign, Untouched, dealVars, propVars
<1>7. DealSafe(d)'
  BY <1>2, <1>3, ClosedDealSafe DEF Safe, dealVars, propVars
<1>8. Aside(r) /\ job'[r] = job[r]
  BY <1>1, <1>2 DEF Aside, TypeOK, Types, RequestTypes
<1>9. /\ todo'[r] = todo[r] \ {t}
      /\ pc'[r] = IF todo[r] = {t} THEN "complete" ELSE "move"
  BY <1>1 DEF TypeOK, Types, RequestTypes
<1>10. AllAccepted(d)' /\ dstatus'[d] = "CONFIRMED"
  BY <1>2, <1>3 DEF AllAccepted, dealVars, propVars
<1>11. ASSUME NEW s \in todo'[r]
       PROVE  \E w \in Users : Accepted(d, w)' /\ s = Offer(d, w)' /\ Secured(d, w)'
  <2>1. s \in todo[r] /\ s # t
    BY <1>9
  <2>2. PICK w \in Users : Accepted(d, w) /\ s = Offer(d, w) /\ Secured(d, w)
    BY <1>2, <1>3, <2>1 DEF Sound
  <2>3. s[1] # t[1]
    BY <1>2, <2>1 DEF Sound
  <2>4. pitem[d][w] \in Items \ {x}
    BY <1>4, <2>2, <2>3 DEF Accepted, Offer, TypeOK, RowsFilled
  <2> QED
    BY <1>2, <1>5, <2>2, <2>4 DEF Accepted, Offer, Secured, propVars
<1>12. \A s1, s2 \in todo'[r] : s1[1] = s2[1] => s1 = s2
  BY <1>2, <1>9 DEF Sound
<1>13. mutex'[d] = r
  BY <1>2, <1>3 DEF Sound, Holds, Working
<1>14. Sound(r)'
  <2>1. CASE pc'[r] = "move"
    BY <1>3, <1>8, <1>10, <1>11, <1>12, <1>13, <2>1 DEF Sound, Fresh
  <2>2. CASE pc'[r] = "complete"
    BY <1>3, <1>8, <1>10, <1>13, <2>2 DEF Sound, Fresh
  <2> QED
    BY <1>9, <2>1, <2>2
<1>15. Holds(r) /\ ~Fresh(r)' /\ job'[r].deal = d
  BY <1>2, <1>3, <1>8, <1>9 DEF Holds, Fresh, Working
<1> QED
  BY <1>6, <1>7, <1>8, <1>14, <1>15, <1>3, OwnStep

\* The last UPDATE of a confirmed deal.
LEMMA CompleteSafe ==
  ASSUME TypeOK, ExclusiveClaim, Safe, NEW r \in Requests, Complete(r)
  PROVE  Safe' /\ Frame(r)
<1>1. PICK d \in Deals : d = job[r].deal
  BY DEF Complete, TypeOK, JobsFilled
<1>2. Holds(r) /\ Respond(r) /\ UpdateStatus(d, "COMPLETED") /\ UNCHANGED <<holder, lock, propVars>>
  BY <1>1 DEF Complete, Holds, Working, itemVars
<1> QED
  BY <1>1, <1>2, RespondSound, UpdateStatusSafe

\* The caller's own proposal is declined in a deal that is open or dropped.
LEMMA RetractSafe ==
  ASSUME TypeOK, ExclusiveClaim, Safe, NEW r \in Requests, Retract(r)
  PROVE  Safe' /\ Frame(r)
<1>1. PICK d \in Deals, u \in Users : d = job[r].deal /\ u = job[r].user
  BY DEF Retract, TypeOK, JobsFilled
<1>2. pc[r] = "retract" /\ Sound(r) /\ DealSafe(d)
  BY <1>1 DEF Retract, Safe
<1>3. CASE pstatus[d][u] = "PENDING"
  <2>1. /\ pstatus' = [pstatus EXCEPT ![d][u] = "DECLINED"]
        /\ Goto(r, "cancel") /\ UNCHANGED <<mutex, job, todo>>
        /\ UNCHANGED <<holder, lock, dealVars, pitem, pto>>
    BY <1>1, <1>3 DEF Retract, itemVars
  <2>2. pc'[r] = "cancel" /\ Aside(r)
    BY <2>1, GotoAside
  <2>3. \A e \in Deals, v \in Users : e # d \/ v # u => pstatus'[e][v] = pstatus[e][v]
    BY <2>1
  <2>4. pstatus'[d][u] = "DECLINED"
    BY <2>1 DEF TypeOK, Types, ProposalTypes
  <2>5. \A e \in Deals \ {d} : Foreign(e)
    BY <2>1, <2>3 DEF Foreign, Untouched, dealVars
  <2>6. dstatus[d] = "PENDING"
    BY <1>1, <1>2, <1>3 DEF Sound, Undone
  <2>7. \A v \in Users : /\ pstatus[d][v] # "none" <=> pstatus'[d][v] # "none"
                         /\ pstatus'[d][v] = "ACCEPTED" => pstatus[d][v] = "ACCEPTED"
    BY <1>3, <2>3, <2>4
  <2>8. InDeal(d, root[d]) => InDeal(d, root[d])'
    BY <2>1, <2>7 DEF InDeal, dealVars
  <2>9. DealSafe(d)'
    BY <1>2, <2>1, <2>7, <2>8 DEF DealSafe, Accepted, dealVars
  <2>10. Sound(r)'
    BY <1>1, <1>2, <2>1, <2>2, <2>6 DEF Sound, Holds, Fresh, Working, dealVars
  <2>11. Holds(r) /\ ~Fresh(r)'
    BY <1>2, <2>2 DEF Holds, Fresh, Working
  <2> QED
    BY <1>1, <2>1, <2>2, <2>5, <2>9, <2>10, <2>11, OwnStep
<1>4. CASE pstatus[d][u] # "PENDING"
  BY <1>1, <1>4, ReturnSafe DEF Retract, itemVars, propVars
<1> QED
  BY <1>3, <1>4

\* An expired or withdrawn deal is cancelled by the handler that has its lock.
LEMMA CancelSafe ==
  ASSUME TypeOK, ExclusiveClaim, Safe, NEW r \in Requests, Cancel(r)
  PROVE  Safe' /\ Frame(r)
<1>1. PICK d \in Deals : d = job[r].deal
  BY DEF Cancel, TypeOK, JobsFilled
<1>2. pc[r] = "cancel" /\ Sound(r)
  BY DEF Cancel, Safe
<1>3. pc'[r] = "decline" /\ job'[r] = job[r] /\ mutex' = mutex /\ Aside(r)
  BY GotoAside DEF Cancel
<1>4. UpdateStatus(d, "CANCELLED") /\ UNCHANGED <<holder, lock, propVars>>
  BY <1>1 DEF Cancel, itemVars
<1>5. dstatus'[d] = "CANCELLED"
  BY <1>4, UpdateStatusForeign
<1>6. Sound(r)'
  BY <1>1, <1>2, <1>3, <1>5 DEF Sound, Holds, Fresh, Working
<1>7. Holds(r) /\ ~Fresh(r)' /\ job'[r].deal = d
  BY <1>1, <1>2, <1>3 DEF Holds, Fresh, Working
<1> QED
  BY <1>1, <1>3, <1>4, <1>6, <1>7, UpdateStatusSafe

\* Declining and releasing concern the proposals and the locks of a cancelled
\* deal only.
LEMMA DeclineAllSafe ==
  ASSUME TypeOK, ExclusiveClaim, Safe, NEW r \in Requests, DeclineAll(r)
  PROVE  Safe' /\ Frame(r)
<1>1. PICK d \in Deals : d = job[r].deal
  BY DEF DeclineAll, TypeOK, JobsFilled
<1>2. pc[r] = "decline" /\ Sound(r) /\ dstatus[d] = "CANCELLED" /\ DealSafe(d)
  BY <1>1 DEF DeclineAll, Safe, Sound
<1>3. pc'[r] = "unlock" /\ job'[r] = job[r] /\ mutex' = mutex /\ Aside(r)
  BY GotoAside DEF DeclineAll
<1>4. pstatus' = DeclinedIn({d}) /\ UNCHANGED <<holder, lock, dealVars, pitem, pto>>
  BY <1>1 DEF DeclineAll, itemVars
<1>5. \A e \in Deals \ {d} : Foreign(e)
  BY <1>4 DEF Foreign, Untouched, DeclinedIn, dealVars
<1>6. DealSafe(d)'
  <2>1. \A v \in Users : pstatus[d][v] # "none" => pstatus'[d][v] # "none"
    BY <1>4 DEF DeclinedIn
  <2> QED
    BY <1>2, <1>4, <2>1, ClosedDealSafe DEF dealVars
<1>7. Sound(r)'
  BY <1>1, <1>2, <1>3, <1>4 DEF Sound, Holds, Fresh, Working, dealVars
<1>8. Holds(r) /\ ~Fresh(r)' /\ job'[r].deal = d
  BY <1>1, <1>2, <1>3 DEF Holds, Fresh, Working
<1> QED
  BY <1>1, <1>3, <1>5, <1>6, <1>7, <1>8, OwnStep

\* The locks released are those of the cancelled deal only.
LEMMA UnlockAllForDealSafe ==
  ASSUME TypeOK, ExclusiveClaim, Safe, NEW r \in Requests, UnlockAllForDeal(r)
  PROVE  Safe' /\ Frame(r)
<1>1. PICK d \in Deals : d = job[r].deal
  BY DEF UnlockAllForDeal, TypeOK, JobsFilled
<1>2. pc[r] = "unlock" /\ dstatus[d] = "CANCELLED" /\ DealSafe(d)
  BY <1>1 DEF UnlockAllForDeal, Safe, Sound
<1>3. lock' = FreedFrom({d}) /\ UNCHANGED <<holder, dealVars, propVars>> /\ Respond(r)
  BY <1>1 DEF UnlockAllForDeal
<1>4. \A e \in Deals \ {d}, y \in Items : lock'[y] = e <=> lock[y] = e
  BY <1>3, SentinelAssumption DEF FreedFrom
<1>5. \A e \in Deals \ {d} : Foreign(e)
  BY <1>3, <1>4 DEF Foreign, Untouched, dealVars, propVars
<1>6. DealSafe(d)'
  BY <1>2, <1>3, ClosedDealSafe DEF dealVars, propVars
<1>7. Holds(r)
  BY <1>2 DEF Holds, Working
<1> QED
  BY <1>1, <1>3, <1>5, <1>6, <1>7, RespondSound, OwnStep

\* A step no handler takes.
LEMMA EnvironmentStep ==
  ASSUME TypeOK, ExclusiveClaim, Safe, UNCHANGED reqVars, \A e \in Deals : Foreign(e)
  PROVE  Safe' /\ AllForeign
<1>1. \A e \in Deals : DealSafe(e)'
  BY ForeignDeal DEF Safe
<1>2. ASSUME NEW q \in Requests PROVE Sound(q)'
  BY ForeignHandler DEF Safe, reqVars
<1>3. Apart'
  BY DEF Safe, Apart, Fresh, reqVars
<1> QED
  BY <1>1, <1>2, <1>3 DEF Safe, AllForeign

\* An edit of a chain that is not closed offers another item its user holds and
\* no deal has locked.
LEMMA PatchSafe ==
  ASSUME ClosedChainsUnedited, TypeOK, ExclusiveClaim, Safe, NEW u \in Users, NEW d \in Deals, NEW x \in Items,
         Patch(u, d, x)
  PROVE  Safe' /\ AllForeign
<1>1. /\ pstatus[d][u] = "PENDING" /\ holder[x] = u /\ lock[x] \notin Deals
      /\ lock' = [lock EXCEPT ![x] = NoDeal] /\ pitem' = [pitem EXCEPT ![d][u] = x]
      /\ UNCHANGED <<holder, dealVars, pstatus, reqVars>>
  BY DEF Patch, CheckItemHolder
<1>2. \A e \in Deals, w \in Users : e # d \/ w # u => pitem'[e][w] = pitem[e][w] /\ pto'[e][w] = pto[e][w]
  BY DEF Patch, TypeOK, Types, ProposalTypes
<1>3. Edited(d, u) \/ (pitem'[d][u] = pitem[d][u] /\ pto'[d][u] = pto[d][u])
  BY <1>1 DEF ClosedChainsUnedited, Edited, TypeOK, Types, ProposalTypes
<1>4. \A y \in Items, e \in Deals : lock'[y] = e <=> lock[y] = e
  BY <1>1, SentinelAssumption DEF TypeOK, Types, ItemTypes
<1>5. \A e \in Deals : Foreign(e)
  BY <1>1, <1>2, <1>3, <1>4 DEF Foreign, Untouched, dealVars
<1> QED
  BY <1>1, <1>5, EnvironmentStep

\* A deadline that passes changes no promise.
LEMMA PassDeadlineSafe ==
  ASSUME TypeOK, ExclusiveClaim, Safe, NEW d \in Deals, PassDeadline(d)
  PROVE  Safe' /\ AllForeign
<1>1. \A e \in Deals : Foreign(e)
  BY DEF PassDeadline, Foreign, Untouched, itemVars, propVars, TypeOK, Types, DealTypes
<1> QED
  BY <1>1, EnvironmentStep DEF PassDeadline

\* Edits, deleted wishes and time keep the tables safe.
LEMMA EnvironmentSafe ==
  ASSUME ClosedChainsUnedited, TypeOK, ExclusiveClaim, Safe, Environment
  PROVE  Safe' /\ AllForeign
<1>1. ASSUME NEW x \in Items, DeleteWish(x) PROVE Safe' /\ AllForeign
  BY <1>1, TablesForeign, EnvironmentStep DEF DeleteWish
<1> QED
  BY <1>1, PatchSafe, PassDeadlineSafe DEF Environment, Holding

\* So does a call.
LEMMA CallSafe ==
  ASSUME TypeOK, ExclusiveClaim, Safe, NEW r \in Requests, Call(r)
  PROVE  Safe' /\ Frame(r)
<1>1. RootItems \subseteq Items
  BY InputAssumption
<1> QED
  BY <1>1, CreateDealSafe, ChownSafe, CreateProposalSafe, ApproveSafe, WithdrawSafe DEF Call, Holding

\* And a step of a handler.
LEMMA StepSafe ==
  ASSUME TypeOK, ExclusiveClaim, Safe, NEW r \in Requests, Step(r)
  PROVE  Safe' /\ Frame(r)
<1>1. CASE ProposeRejected(r) \/ AcceptRejected(r)
  BY <1>1, ReturnSafe DEF ProposeRejected, AcceptRejected, itemVars
<1> QED
  BY <1>1, CreateForClaimSafe, ProposeSafe, EnsureWishSafe, AcceptSafe, TryLockChainSafe,
     CheckAllAcceptedSafe, ConfirmSafe, ListTransfersSafe, CompleteTransferSafe, CompleteSafe,
     RetractSafe, CancelSafe, DeclineAllSafe, UnlockAllForDealSafe
  DEF Step

\* The invariant is inductive.
LEMMA NextSafe ==
  ASSUME ClosedChainsUnedited, TypeOK, ExclusiveClaim, Safe, [Next]_vars
  PROVE  Safe'
<1>1. ASSUME NEW r \in Requests, Abort(r) PROVE Safe'
  BY <1>1, ReturnSafe DEF Abort, itemVars
<1>2. CASE UNCHANGED vars
  BY <1>2, TablesForeign, EnvironmentStep DEF vars, itemVars
<1> QED
  BY <1>1, <1>2, CallSafe, JoinFoundSafe, StepSafe, EnvironmentSafe DEF Next

\* Nothing is promised at the start.
LEMMA InitSafe == Init => Safe
  BY SentinelAssumption DEF Init, Safe, DealSafe, Sound, Apart, Holds, Fresh, Working, Accepted, NoJob

\* A step that changes nothing edits nothing.
LEMMA StutterUnedited == [ClosedChainsUnedited]_vars => ClosedChainsUnedited
  BY DEF vars, propVars, ClosedChainsUnedited

\* The hypothesis of the theorems is about one call only: Create reads the deadline
\* in the transaction that inserts, so that nothing but UpdateProposal for a deal
\* whose chain is closed changes an offer of such a deal.
THEOREM OnlyLatePatches == ASSUME ~LatePatch PROVE Spec => [][ClosedChainsUnedited]_vars
<1>1. ASSUME TypeOK, NEW r \in Requests, Propose(r) PROVE ClosedChainsUnedited
  BY <1>1 DEF Propose, CanPropose, InsertProposal, ClosedChainsUnedited, TypeOK, Types, ProposalTypes
<1>2. ASSUME TypeOK, NEW u \in Users, NEW d \in Deals, NEW x \in Items, Patch(u, d, x)
      PROVE  ClosedChainsUnedited
  BY <1>2 DEF Patch, ClosedChainsUnedited, TypeOK, Types, ProposalTypes
<1>3. ASSUME NEW r \in Requests, Call(r) PROVE UNCHANGED <<pitem, pto>>
  BY <1>3 DEF Call, CreateDeal, Chown, CreateProposal, Approve, Withdraw, propVars
<1>4. ASSUME NEW r \in Requests, Step(r), ~Propose(r) PROVE UNCHANGED <<pitem, pto>>
  BY <1>4 DEF Step, CreateForClaim, ProposeRejected, EnsureWish, LinkWish, Accept, AcceptRejected,
     TryLockChain, CheckAllAccepted, Confirm, ListTransfers, CompleteTransfer, Complete,
     Retract, Cancel, DeclineAll, UnlockAllForDeal, propVars
<1>5. ASSUME NEW r \in Requests, JoinFound(r) \/ Abort(r) PROVE UNCHANGED <<pitem, pto>>
  BY <1>5 DEF JoinFound, Abort, propVars
<1>6. ASSUME Environment, TypeOK PROVE ClosedChainsUnedited
  BY <1>2, <1>6 DEF Environment, Holding, DeleteWish, PassDeadline, propVars, ClosedChainsUnedited
<1>7. TypeOK /\ [Next]_vars => ClosedChainsUnedited
  BY <1>1, <1>3, <1>4, <1>5, <1>6 DEF Next, vars, propVars, ClosedChainsUnedited
<1>8. TypeOK /\ [Next]_vars => [ClosedChainsUnedited]_vars
  BY <1>7
<1> QED
  BY <1>8, TypeCorrect, PTL DEF Spec

\* With no edit of a closed chain every reachable state is safe, whatever
\* interleaving, deadline or cut-off request comes in between.
THEOREM StaysSafe == Spec /\ [][ClosedChainsUnedited]_vars => []Safe
<1>1. /\ TypeOK /\ ExclusiveClaim /\ Safe
      /\ [Next]_vars /\ [ClosedChainsUnedited]_vars
      => Safe'
  BY NextSafe, StutterUnedited
<1> QED
  BY <1>1, InitSafe, TypeCorrect, LockedItemHasOneClaimant, PTL DEF Spec

\* An accepted proposal of an open deal keeps its item locked by that deal: no
\* cascade of lockOfferedItem, TryLockChain or UnlockAllForDeal run for another
\* deal, no transfer and no edit of an open chain takes the lock away, as long as
\* no offer of a closed chain is edited.
THEOREM AcceptedStaysLocked == Spec /\ [][ClosedChainsUnedited]_vars => []AcceptedIsLocked
<1>1. Safe => AcceptedIsLocked
  BY DEF Safe, DealSafe, AcceptedIsLocked
<1> QED
  BY <1>1, StaysSafe, PTL

\* Whoever offers an item in an open deal holds it: CompleteTransfer moves no
\* item that another open deal still counts on, as long as no offer of a closed
\* chain is edited.
THEOREM OffererStaysHolder == Spec /\ [][ClosedChainsUnedited]_vars => []OffererHolds
<1>1. Safe => OffererHolds
  BY DEF Safe, DealSafe, OffererHolds
<1> QED
  BY <1>1, StaysSafe, PTL

-----------------------------------------------------------------------------
(* What a step may do. *)

\* A step of the action property TransferOnlyAgreed.
TransferAgreed ==
  \A x \in Items : holder'[x] # holder[x] =>
    \E d \in Deals, u \in Users :
      /\ dstatus[d] = "CONFIRMED" /\ lock[x] = d
      /\ pitem[d][u] = x /\ holder[x] = u /\ holder'[x] = pto[d][u]
      /\ \A v \in Users : pstatus[d][v] \in {"none", "ACCEPTED"}

\* Only CompleteTransfer gives an item another holder.
LEMMA OnlyTransferMoves ==
  ASSUME [Next]_vars, holder' # holder
  PROVE  \E r \in Requests : CompleteTransfer(r)
<1>1. ~Environment /\ ~UNCHANGED vars
  BY DEF Environment, Patch, DeleteWish, PassDeadline, vars, itemVars
<1>2. PICK r \in Requests : Call(r) \/ JoinFound(r) \/ Step(r) \/ Abort(r)
  BY <1>1 DEF Next
<1>3. ~Call(r)
  BY DEF Call, CreateDeal, Chown, CreateProposal, Approve, Withdraw, itemVars
<1>4. ~JoinFound(r) /\ ~Abort(r)
  BY DEF JoinFound, Abort, itemVars
<1>5. Step(r) => CompleteTransfer(r)
  BY DEF Step, CreateForClaim, Propose, ProposeRejected, EnsureWish, LinkWish, Accept, AcceptRejected,
         TryLockChain, CheckAllAccepted, Confirm, ListTransfers, Complete, Retract, Cancel, DeclineAll,
         UnlockAllForDeal, itemVars
<1> QED
  BY <1>2, <1>3, <1>4, <1>5

\* An item changes hands only as the deal that has it locked agreed.
LEMMA NextTransferAgreed ==
  ASSUME TypeOK, Safe, [Next]_vars
  PROVE  TransferAgreed
<1> SUFFICES ASSUME NEW x \in Items, holder'[x] # holder[x]
             PROVE  \E d \in Deals, u \in Users :
                      /\ dstatus[d] = "CONFIRMED" /\ lock[x] = d
                      /\ pitem[d][u] = x /\ holder[x] = u /\ holder'[x] = pto[d][u]
                      /\ \A v \in Users : pstatus[d][v] \in {"none", "ACCEPTED"}
  BY DEF TransferAgreed
<1>1. PICK r \in Requests : CompleteTransfer(r)
  BY OnlyTransferMoves
<1>2. PICK t \in todo[r] : HandOver(t[1], t[2])
  BY <1>1 DEF CompleteTransfer
<1>3. pc[r] = "move"
  BY <1>1 DEF CompleteTransfer
<1>4. PICK d \in Deals, u \in Users :
        /\ dstatus[d] = "CONFIRMED" /\ AllAccepted(d)
        /\ t[1] = pitem[d][u] /\ t[2] = pto[d][u]
        /\ lock[t[1]] = d /\ holder[t[1]] = u
  BY <1>3, MoveAgreed
<1>5. x = t[1] /\ holder'[x] = t[2]
  BY <1>2 DEF HandOver, TypeOK, Types, ItemTypes
<1> QED
  BY <1>4, <1>5 DEF AllAccepted

\* An item changes hands only from the participant who offered it to the
\* recipient fixed in its proposal, while the confirmed deal has it locked and
\* everybody in it has accepted, as long as no offer of a closed chain is edited.
THEOREM TransfersAgreed == Spec /\ [][ClosedChainsUnedited]_vars => TransferOnlyAgreed
<1>1. TypeOK /\ Safe /\ [Next]_vars => [TransferAgreed]_vars
  BY NextTransferAgreed
<1>2. Spec /\ [][ClosedChainsUnedited]_vars => [][TransferAgreed]_vars
  BY <1>1, StaysSafe, TypeCorrect, PTL DEF Spec
<1> QED
  BY <1>2 DEF TransferOnlyAgreed, TransferAgreed

\* A step of the action property StatusLifecycle.
StatusMoves ==
  \A d \in Deals :
    /\ dstatus[d] \in {"CANCELLED", "COMPLETED"} => dstatus'[d] = dstatus[d]
    /\ dstatus[d] = "CONFIRMED" => dstatus'[d] \in {"CONFIRMED", "COMPLETED"}
    /\ dstatus'[d] = "COMPLETED" => dstatus[d] \in {"CONFIRMED", "COMPLETED"}

\* A handler overwrites the status of its deal only from the one it relies on.
LEMMA StepStatusMoves ==
  ASSUME TypeOK, Safe, NEW r \in Requests, Step(r)
  PROVE  StatusMoves
<1> DEFINE d == job[r].deal
<1>1. CASE CreateForClaim(r)
  BY <1>1 DEF CreateForClaim, InsertDeal, StatusMoves, TypeOK, Types, DealTypes
<1>2. CASE \/ Propose(r) \/ ProposeRejected(r) \/ EnsureWish(r) \/ LinkWish(r) \/ AcceptRejected(r)
           \/ CheckAllAccepted(r) \/ ListTransfers(r) \/ CompleteTransfer(r) \/ Retract(r)
           \/ DeclineAll(r) \/ UnlockAllForDeal(r)
  <2>1. UNCHANGED dstatus
    BY <1>2
    DEF Propose, ProposeRejected, EnsureWish, LinkWish, AcceptRejected, CheckAllAccepted, ListTransfers,
        CompleteTransfer, Retract, DeclineAll, UnlockAllForDeal, dealVars
  <2> QED
    BY <2>1 DEF StatusMoves
<1>3. CASE Accept(r) \/ TryLockChain(r)
  <2>1. \A e \in Deals : dstatus'[e] = dstatus[e] \/ (dstatus[e] = "PENDING" /\ dstatus'[e] = "CANCELLED")
    BY <1>3 DEF Accept, LockOfferedItem, TryLockChain, LockChain, CancelledIn, CompetingForItem, CompetingForChain
  <2> QED
    BY <2>1 DEF StatusMoves
<1>4. CASE Confirm(r) \/ Complete(r) \/ Cancel(r)
  <2>1. d \in Deals /\ Sound(r)
    BY <1>4 DEF Confirm, Complete, Cancel, TypeOK, JobsFilled, Safe
  <2>2. \A e \in Deals \ {d} : dstatus'[e] = dstatus[e]
    BY <1>4 DEF Confirm, Complete, Cancel, UpdateStatus, TypeOK, Types, DealTypes
  <2>3. \/ dstatus[d] = "PENDING" /\ dstatus'[d] = "CONFIRMED"
        \/ dstatus[d] = "CONFIRMED" /\ dstatus'[d] = "COMPLETED"
        \/ dstatus[d] \in {"PENDING", "CANCELLED"} /\ dstatus'[d] = "CANCELLED"
    BY <1>4, <2>1 DEF Sound, Confirm, Complete, Cancel, UpdateStatus, TypeOK, Types, DealTypes
  <2> QED
    BY <2>2, <2>3 DEF StatusMoves
<1> QED
  BY <1>1, <1>2, <1>3, <1>4 DEF Step

\* Calls and the environment move no status but that of the deal they insert.
LEMMA NextStatusMoves ==
  ASSUME TypeOK, Safe, [Next]_vars
  PROVE  StatusMoves
<1>1. CASE UNCHANGED dstatus
  BY <1>1 DEF StatusMoves
<1>2. ASSUME NEW r \in Requests, Call(r) PROVE StatusMoves
  <2>1. CASE \E u \in Users : \E rt \in RootItems, x \in Holding(u) : CreateDeal(r, u, rt, x)
    BY <2>1 DEF CreateDeal, InsertDeal, StatusMoves, TypeOK, Types, DealTypes
  <2>2. CASE ~\E u \in Users : \E rt \in RootItems, x \in Holding(u) : CreateDeal(r, u, rt, x)
    BY <1>1, <1>2, <2>2 DEF Call, Chown, CreateProposal, Approve, Withdraw, dealVars
  <2> QED
    BY <2>1, <2>2
<1>3. ASSUME NEW r \in Requests, JoinFound(r) \/ Abort(r) PROVE StatusMoves
  BY <1>1, <1>3 DEF JoinFound, Abort, dealVars
<1>4. CASE Environment \/ UNCHANGED vars
  BY <1>1, <1>4 DEF Environment, Patch, DeleteWish, PassDeadline, vars, dealVars
<1> QED
  BY <1>2, <1>3, <1>4, StepStatusMoves DEF Next

\* A deal that is over stays over and a confirmed one can only be completed,
\* although UpdateStatus overwrites whatever it finds: the advisory lock and the
\* items the deal has locked keep everybody else from its row, as long as no offer
\* of a closed chain is edited.
THEOREM StatusNeverBack == Spec /\ [][ClosedChainsUnedited]_vars => StatusLifecycle
<1>1. TypeOK /\ Safe /\ [Next]_vars => [StatusMoves]_vars
  BY NextStatusMoves
<1>2. Spec /\ [][ClosedChainsUnedited]_vars => [][StatusMoves]_vars
  BY <1>1, StaysSafe, TypeCorrect, PTL DEF Spec
<1> QED
  BY <1>2 DEF StatusLifecycle, StatusMoves

-----------------------------------------------------------------------------
(***************************************************************************)
(* What a deal has locked, and what is left of it when it is over.  A      *)
(* request cut off between Cancel and UnlockAllForDeal leaves its locks,   *)
(* and an edit of a closed chain that of the item given up.                *)
(***************************************************************************)

\* The item is locked for a reason: an accepted offer, or TryLockChain.
Pledged(d, x) ==
  \/ \E u \in Users : Accepted(d, u) /\ pitem[d][u] = x
  \/ deadline[d] # "null" /\ InDeal(d, x)
  \/ deadline[d] = "null" /\ \E u \in Users : Accepted(d, u) /\ pitem[d][u] = root[d]

\* A handler is at one of the steps that take back what the deal has.
Releasing(d, steps) == \E r \in Requests : job[r].deal = d /\ pc[r] \in steps

\* A deal has locked what it needs and nothing else; a cancelled one has nothing,
\* unless the handler that cancelled it is still busy taking it back, or was cut
\* off before it did.
Tidy(d) ==
  /\ dstatus[d] \in {"none", "COMPLETED"} => \A x \in Items : lock[x] # d
  /\ dstatus[d] \in {"PENDING", "CONFIRMED"} => \A x \in Items : lock[x] = d => Pledged(d, x)
  /\ dstatus[d] = "CONFIRMED" => deadline[d] # "null"
  /\ dstatus[d] = "CANCELLED" /\ MaxFaults = 0 =>
       /\ (\E x \in Items : lock[x] = d) => Releasing(d, {"decline", "unlock"})
       /\ (\E u \in Users : Accepted(d, u)) => Releasing(d, {"decline"})

\* The transfers that remain cover the items still locked.
Delivered(r) ==
  /\ pc[r] = "move" => \A x \in Items : lock[x] = job[r].deal => \E t \in todo[r] : t[1] = x
  /\ pc[r] = "complete" => \A x \in Items : lock[x] # job[r].deal

\* The inductive invariant behind FinishedHoldsNothing.
AllTidy == (\A d \in Deals : Tidy(d)) /\ (\A r \in Requests : Delivered(r))

\* A deal left to itself stays tidy, if the handler that takes it back goes on.
LEMMA ForeignTidy ==
  ASSUME TypeOK, NEW d \in Deals, Tidy(d), Foreign(d),
         \A q \in Requests : job[q].deal = d /\ pc[q] \in {"decline", "unlock"} =>
           pc'[q] = pc[q] /\ job'[q] = job[q]
  PROVE  Tidy(d)'
<1>1. CASE Dropped(d)
  <2>1. \A u \in Users : pstatus'[d][u] # "ACCEPTED"
    BY <1>1 DEF Dropped
  <2> QED
    BY <1>1, <2>1 DEF Dropped, Tidy, Accepted
<1>2. CASE Untouched(d)
  <2>1. \A u \in Users : Accepted(d, u)' <=> Accepted(d, u)
    BY <1>2 DEF Untouched, Accepted
  <2>2. \A u \in Users : Accepted(d, u) => pitem'[d][u] = pitem[d][u]
    BY <1>2 DEF Untouched, Edited, Accepted
  <2>3. /\ root'[d] = root[d] /\ dstatus'[d] = dstatus[d]
        /\ deadline'[d] = "null" <=> deadline[d] = "null"
        /\ \A x \in Items : lock'[x] = d <=> lock[x] = d
    BY <1>2 DEF Untouched
  <2>4. deadline[d] # "null" => \A x \in Items : InDeal(d, x) => InDeal(d, x)'
    BY <1>2 DEF Untouched, Edited, InDeal
  <2>5. \A x \in Items : Pledged(d, x) => Pledged(d, x)'
    BY <2>1, <2>2, <2>3, <2>4 DEF Pledged
  <2>6. /\ Releasing(d, {"decline", "unlock"}) => Releasing(d, {"decline", "unlock"})'
        /\ Releasing(d, {"decline"}) => Releasing(d, {"decline"})'
    BY DEF Releasing
  <2> QED
    BY <2>1, <2>3, <2>5, <2>6 DEF Tidy
<1> QED
  BY <1>1, <1>2 DEF Foreign

\* The transfers of a deal left to itself still cover its locks.
LEMMA ForeignDelivered ==
  ASSUME TypeOK, Safe, NEW q \in Requests, Delivered(q),
         pc'[q] = pc[q], job'[q] = job[q], todo'[q] = todo[q],
         pc[q] \in {"move", "complete"} => Foreign(job[q].deal)
  PROVE  Delivered(q)'
<1>1. CASE pc[q] \in {"move", "complete"}
  <2>1. job[q].deal \in Deals /\ dstatus[job[q].deal] = "CONFIRMED"
    BY <1>1 DEF TypeOK, JobsFilled, Safe, Sound
  <2>2. \A x \in Items : lock'[x] = job[q].deal <=> lock[x] = job[q].deal
    BY <1>1, <2>1 DEF Foreign, Untouched, Dropped
  <2> QED
    BY <2>2 DEF Delivered
<1>2. CASE pc[q] \notin {"move", "complete"}
  BY <1>2 DEF Delivered
<1> QED
  BY <1>1, <1>2

\* The step of a handler that works on the deal d, and on no other.
LEMMA TidyStep ==
  ASSUME TypeOK, Safe, AllTidy, NEW r \in Requests, NEW d \in Deals, Aside(r),
         \A e \in Deals \ {d} : Foreign(e),
         Holds(r) \/ Fresh(r) => d = job[r].deal,
         ~(Holds(r) \/ Fresh(r)) => \A q \in Requests : job[q].deal # d,
         Tidy(d)', Delivered(r)'
  PROVE  AllTidy'
<1>1. ASSUME NEW e \in Deals \ {d} PROVE Tidy(e)'
  <2>1. \A q \in Requests : job[q].deal = e /\ pc[q] \in {"decline", "unlock"} =>
          pc'[q] = pc[q] /\ job'[q] = job[q]
    BY <1>1 DEF Aside, Holds, Working
  <2>2. Tidy(e) /\ Foreign(e)
    BY <1>1 DEF AllTidy
  <2> QED
    BY <2>1, <2>2, ForeignTidy
<1>2. ASSUME NEW q \in Requests \ {r} PROVE Delivered(q)'
  <2>1. pc[q] \in {"move", "complete"} => job[q].deal # d
    BY <1>2, Alone DEF Holds, Working
  <2>2. pc[q] \in {"move", "complete"} => Foreign(job[q].deal)
    BY <2>1 DEF TypeOK, JobsFilled
  <2> QED
    BY <1>2, <2>2, ForeignDelivered DEF Aside, AllTidy
<1> QED
  BY <1>1, <1>2 DEF AllTidy

\* A step that leaves every deal to itself and is none of the cascade's.
LEMMA IdleTidy ==
  ASSUME TypeOK, Safe, AllTidy, NEW r \in Requests, Aside(r), \A e \in Deals : Foreign(e),
         pc[r] \notin {"decline", "unlock"}, Delivered(r)'
  PROVE  AllTidy'
<1>1. ASSUME NEW e \in Deals PROVE Tidy(e)'
  <2>1. \A q \in Requests : pc[q] \in {"decline", "unlock"} => pc'[q] = pc[q] /\ job'[q] = job[q]
    BY DEF Aside
  <2> QED
    BY <2>1, ForeignTidy DEF AllTidy
<1>2. ASSUME NEW q \in Requests \ {r} PROVE Delivered(q)'
  <2>1. pc[q] \in {"move", "complete"} => Foreign(job[q].deal)
    BY DEF TypeOK, JobsFilled
  <2> QED
    BY <1>2, <2>1, ForeignDelivered DEF Aside, AllTidy
<1> QED
  BY <1>1, <1>2 DEF AllTidy

\* A handler that waits, begins or returns without a write, other than the
\* one that lists the transfers.
LEMMA WaitTidy ==
  ASSUME TypeOK, Safe, AllTidy, NEW r \in Requests, Aside(r),
         UNCHANGED <<holder, lock, dealVars, propVars>>,
         pc[r] \notin {"decline", "unlock"}, pc'[r] \notin {"move", "complete"}
  PROVE  AllTidy'
<1>1. Delivered(r)'
  BY DEF Delivered
<1> QED
  BY <1>1, TablesForeign, IdleTidy

\* A step that keeps the locks of the deal d or releases some, and keeps or adds
\* to what they are for, keeps an open or confirmed deal tidy.
LEMMA PledgesStay ==
  ASSUME NEW d \in Deals, Tidy(d), dstatus[d] \in {"PENDING", "CONFIRMED"},
         dstatus'[d] \in {"PENDING", "CONFIRMED"}, root'[d] = root[d],
         deadline'[d] = "null" <=> deadline[d] = "null",
         dstatus'[d] = "CONFIRMED" => deadline[d] # "null",
         \A u \in Users : /\ pitem'[d][u] = pitem[d][u]
                          /\ Accepted(d, u) => Accepted(d, u)'
                          /\ pstatus[d][u] # "none" => pstatus'[d][u] # "none",
         \A x \in Items : lock'[x] = d => lock[x] = d \/ Pledged(d, x)'
  PROVE  Tidy(d)'
<1>1. ASSUME NEW x \in Items, Pledged(d, x) PROVE Pledged(d, x)'
  <2>1. InDeal(d, x) => InDeal(d, x)'
    BY DEF InDeal
  <2>2. ASSUME NEW y, \E u \in Users : Accepted(d, u) /\ pitem[d][u] = y
        PROVE  \E u \in Users : Accepted(d, u)' /\ pitem'[d][u] = y
    BY <2>2
  <2> QED
    BY <1>1, <2>1, <2>2 DEF Pledged
<1> QED
  BY <1>1 DEF Tidy

\* A new deal has no item locked.
LEMMA InsertDealTidy ==
  ASSUME TypeOK, ExclusiveClaim, Safe, AllTidy, NEW r \in Requests, NEW d \in Deals, NEW u, NEW rt, NEW j,
         pc[r] \in {"idle", "create"},
         InsertDeal(d, u, rt), Begin(r, j, "propose"), j.deal = d, j.op # "join",
         UNCHANGED <<itemVars, propVars, mutex>>
  PROVE  AllTidy'
<1>1. dstatus[d] = "none" /\ \A q \in Requests : job[q].deal # d
  BY DEF InsertDeal, TypeOK, JobsFilled
<1>2. \A e \in Deals \ {d} : Foreign(e)
  BY DEF InsertDeal, Foreign, Untouched, TypeOK, Types, DealTypes, itemVars, propVars
<1>3. Aside(r) /\ pc'[r] = "propose"
  BY DEF Begin, Aside, TypeOK, Types, RequestTypes
<1>4. Tidy(d)'
  <2>1. \A x \in Items : lock'[x] # d
    BY <1>1 DEF AllTidy, Tidy, itemVars
  <2>2. dstatus'[d] = "PENDING"
    BY DEF InsertDeal, TypeOK, Types, DealTypes
  <2> QED
    BY <2>1, <2>2 DEF Tidy
<1>5. Delivered(r)' /\ ~(Holds(r) \/ Fresh(r))
  BY <1>3 DEF Delivered, Holds, Fresh, Working
<1> QED
  BY <1>1, <1>2, <1>3, <1>4, <1>5, TidyStep

\* A proposal takes no lock; if it closes the chain, nobody had accepted the root
\* before, for it would be locked.
LEMMA ProposeTidy ==
  ASSUME TypeOK, ExclusiveClaim, Safe, AllTidy, NEW r \in Requests, Propose(r)
  PROVE  AllTidy'
<1>1. PICK d \in Deals, u \in Users, x \in Items :
        d = job[r].deal /\ u = job[r].user /\ x = job[r].item
  BY DEF Propose, TypeOK, JobsFilled
<1>2. PICK v \in Users : CanPropose(d, u, x, v) /\ InsertProposal(d, u, x, v)
  BY <1>1 DEF Propose
<1>3. /\ pstatus[d][u] = "none" /\ deadline[d] = "null" /\ lock[x] \notin Deals
      /\ UNCHANGED <<dstatus, root>> /\ lock' = [lock EXCEPT ![x] = NoDeal]
  BY <1>1, <1>2 DEF CanPropose, CheckItemHolder, InsertProposal, Propose
<1>4. \A y \in Items : lock'[y] = d <=> lock[y] = d
  BY <1>3, SentinelAssumption DEF TypeOK, Types, ItemTypes
<1>5. \A w \in Users \ {u} : pstatus'[d][w] = pstatus[d][w] /\ pitem'[d][w] = pitem[d][w]
  BY <1>2 DEF InsertProposal, TypeOK, Types, ProposalTypes
<1>6. pstatus'[d][u] = "PENDING" /\ (deadline'[d] # "null" => x = root[d])
  BY <1>2, <1>3 DEF InsertProposal, TypeOK, Types, ProposalTypes
<1>7. \A w \in Users : Accepted(d, w) <=> Accepted(d, w)'
  BY <1>3, <1>5, <1>6 DEF Accepted
<1>8. \A w \in Users : Accepted(d, w) => pitem'[d][w] = pitem[d][w]
  BY <1>3, <1>5 DEF Accepted
<1>9. Frame(r)
  BY ProposeSafe
<1>10. pc[r] = "propose" /\ pc'[r] \in {"idle", "wish"} /\ job'[r] \in {job[r], NoJob}
  <2>1. pc[r] = "propose" /\ ((Goto(r, "wish") /\ UNCHANGED job) \/ Respond(r))
    BY DEF Propose
  <2> QED
    BY <2>1 DEF Respond, TypeOK, Types, RequestTypes
<1>11. \A steps : steps \in SUBSET {"decline", "unlock"} /\ Releasing(d, steps) => Releasing(d, steps)'
  BY <1>9, <1>10 DEF Releasing, Frame, Aside
<1>12. Tidy(d) /\ DealSafe(d)
  BY DEF AllTidy, Safe
<1>13. dstatus[d] # "CONFIRMED"
  BY <1>3, <1>12 DEF Tidy
<1>14. ASSUME dstatus[d] = "PENDING", NEW y \in Items, lock[y] = d PROVE Pledged(d, y)'
  <2>1. CASE \E w \in Users : Accepted(d, w) /\ pitem[d][w] = y
    BY <1>7, <1>8, <2>1 DEF Pledged
  <2>2. CASE \E w \in Users : Accepted(d, w) /\ pitem[d][w] = root[d]
    <3>1. PICK w \in Users : Accepted(d, w) /\ pitem[d][w] = root[d]
      BY <2>2
    <3>2. lock[root[d]] = d
      BY <1>12, <1>14, <3>1 DEF DealSafe
    <3>3. deadline'[d] = "null"
      BY <1>3, <1>6, <3>2
    <3> QED
      BY <1>3, <1>7, <1>8, <3>1, <3>3 DEF Pledged
  <2> QED
    BY <1>3, <1>12, <1>14, <2>1, <2>2 DEF Tidy, Pledged
<1>15. Tidy(d)'
  BY <1>3, <1>4, <1>7, <1>11, <1>12, <1>13, <1>14 DEF Tidy
<1>16. Delivered(r)'
  BY <1>10 DEF Delivered
<1>17. \A e \in Deals \ {d} : Foreign(e)
  BY <1>1, <1>9, <1>10, SentinelAssumption DEF Frame, NoJob
<1>18. Holds(r) \/ Fresh(r)
  BY <1>10 DEF Holds, Fresh
<1> QED
  BY <1>1, <1>9, <1>15, <1>16, <1>17, <1>18, TidyStep DEF Frame

\* The own deal of a handler, while it works on it.
LEMMA OwnTidy ==
  ASSUME TypeOK, Safe, AllTidy, NEW r \in Requests, NEW d \in Deals, d = job[r].deal, Frame(r),
         Holds(r), job'[r].deal \in {d, NoDeal}, Tidy(d)', Delivered(r)'
  PROVE  AllTidy'
<1>1. \A e \in Deals \ {d} : Foreign(e)
  BY SentinelAssumption DEF Frame
<1> QED
  BY <1>1, TidyStep DEF Frame

\* The item locked on approval is the one just accepted.
LEMMA AcceptTidy ==
  ASSUME TypeOK, ExclusiveClaim, Safe, AllTidy, NEW r \in Requests, Accept(r)
  PROVE  AllTidy'
<1>1. PICK d \in Deals, u \in Users : d = job[r].deal /\ u = job[r].user
  BY DEF Accept, TypeOK, JobsFilled
<1>2. pc[r] = "accept" /\ pstatus[d][u] = "PENDING" /\ Sound(r) /\ Tidy(d)
  BY <1>1 DEF Accept, CanAccept, Safe, AllTidy
<1>3. dstatus[d] = "PENDING"
  BY <1>1, <1>2 DEF Sound, Undone
<1>4. PICK x \in Items : x = pitem[d][u]
  BY <1>2 DEF TypeOK, RowsFilled
<1>5. PICK S \in SUBSET (Deals \ {d}) : S = CompetingForItem(d, x)
  BY DEF CompetingForItem
<1>6. \A y \in Items \ {x} : lock'[y] = d => lock[y] = d
  BY <1>1, <1>4, <1>5, SentinelAssumption DEF Accept, LockOfferedItem, FreedFrom
<1>7. /\ dstatus' = CancelledIn(S) /\ UNCHANGED <<root, pitem>>
      /\ pstatus' = [DeclinedIn(S) EXCEPT ![d][u] = "ACCEPTED"]
      /\ deadline' = IF deadline[d] = "null" THEN deadline ELSE [deadline EXCEPT ![d] = "future"]
  BY <1>1, <1>4, <1>5 DEF Accept, LockOfferedItem, AcceptIn
<1>8. /\ pstatus'[d][u] = "ACCEPTED" /\ dstatus'[d] = "PENDING"
      /\ deadline'[d] = "null" <=> deadline[d] = "null"
      /\ \A v \in Users \ {u} : pstatus'[d][v] = pstatus[d][v]
  BY <1>3, <1>7 DEF DeclinedIn, CancelledIn, TypeOK, Types, DealTypes
<1>9. \A y \in Items : lock'[y] = d => lock[y] = d \/ Pledged(d, y)'
  BY <1>4, <1>6, <1>7, <1>8 DEF Pledged, Accepted
<1>10. \A v \in Users : /\ pitem'[d][v] = pitem[d][v]
                        /\ Accepted(d, v) => Accepted(d, v)'
                        /\ pstatus[d][v] # "none" => pstatus'[d][v] # "none"
  BY <1>7, <1>8 DEF Accepted
<1>11. Tidy(d)'
  BY <1>2, <1>3, <1>7, <1>8, <1>9, <1>10, PledgesStay
<1>12. pc'[r] = "chain" /\ job'[r] = job[r]
  BY GotoAside DEF Accept
<1>13. Delivered(r)' /\ Holds(r)
  BY <1>2, <1>12 DEF Delivered, Holds, Working
<1> QED
  BY <1>1, <1>11, <1>12, <1>13, AcceptSafe, OwnTidy

\* TryLockChain locks items of the chain; it does so for a chain that is closed,
\* or whose root somebody has offered by an edit and accepted.
LEMMA TryLockChainTidy ==
  ASSUME TypeOK, ExclusiveClaim, Safe, AllTidy, NEW r \in Requests, TryLockChain(r)
  PROVE  AllTidy'
<1>1. PICK d \in Deals : d = job[r].deal
  BY DEF TryLockChain, TypeOK, JobsFilled
<1>2. pc[r] = "chain" /\ Sound(r) /\ Tidy(d)
  BY <1>1 DEF TryLockChain, Safe, AllTidy
<1>3. pc'[r] = "all" /\ job'[r] = job[r] /\ Aside(r)
  BY GotoAside DEF TryLockChain
<1>4. CASE ~ChainReady(d)
  <2>1. UNCHANGED <<holder, lock, dealVars, propVars>>
    BY <1>1, <1>4 DEF TryLockChain, dealVars, propVars
  <2> QED
    BY <1>2, <1>3, <2>1, WaitTidy
<1>5. CASE ChainReady(d)
  <2>1. dstatus[d] = "PENDING"
    <3>1. creator[d] \in Users /\ Accepted(d, creator[d])
      BY <1>1, <1>2, <1>5 DEF ChainReady, TypeOK, RowsFilled, JobsFilled
    <3> QED
      BY <1>1, <1>2, <3>1 DEF Sound, Undone, Accepted
  <2>2. PICK S \in SUBSET (Deals \ {d}) : S = CompetingForChain(d)
    BY DEF CompetingForChain
  <2>3. /\ dstatus' = CancelledIn(S) /\ pstatus' = DeclinedIn(S)
        /\ UNCHANGED <<root, deadline, pitem>>
        /\ lock' = [x \in Items |-> IF x \in ItemsOf(d) THEN d ELSE FreedFrom(S)[x]]
    BY <1>1, <1>5, <2>2 DEF TryLockChain, LockChain
  <2>4. dstatus'[d] = "PENDING" /\ \A v \in Users : pstatus'[d][v] = pstatus[d][v]
    BY <2>1, <2>2, <2>3 DEF CancelledIn, DeclinedIn
  <2>5. PICK w \in Users : Accepted(d, w) /\ pitem[d][w] = root[d]
    BY <1>5 DEF ChainReady
  <2>6. Accepted(d, w)' /\ pitem'[d][w] = root'[d]
    BY <2>3, <2>4, <2>5 DEF Accepted
  <2>7. \A y \in Items : InDeal(d, y) => InDeal(d, y)'
    BY <2>3, <2>4 DEF InDeal
  <2>8. \A y \in Items : InDeal(d, y) => Pledged(d, y)'
    BY <2>6, <2>7 DEF Pledged
  <2>9. \A y \in Items : lock'[y] = d => lock[y] = d \/ Pledged(d, y)'
    BY <2>2, <2>3, <2>8, SentinelAssumption DEF ItemsOf, FreedFrom
  <2>10. Tidy(d)'
    BY <1>2, <2>1, <2>3, <2>4, <2>9, PledgesStay DEF Accepted
  <2>11. Delivered(r)' /\ Holds(r)
    BY <1>2, <1>3 DEF Delivered, Holds, Working
  <2>12. Frame(r)
    BY TryLockChainSafe
  <2>13. job'[r].deal = d
    BY <1>1, <1>3
  <2> QED
    BY <1>1, <2>10, <2>11, <2>12, <2>13, OwnTidy
<1> QED
  BY <1>4, <1>5

\* A deal confirmed has its deadline, hence its locks are for items of the chain.
LEMMA ConfirmTidy ==
  ASSUME TypeOK, ExclusiveClaim, Safe, AllTidy, NEW r \in Requests, Confirm(r)
  PROVE  AllTidy'
<1>1. PICK d \in Deals : d = job[r].deal
  BY DEF Confirm, TypeOK, JobsFilled
<1>2. pc[r] = "confirm" /\ dstatus[d] = "PENDING" /\ deadline[d] # "null" /\ Tidy(d)
  BY <1>1 DEF Confirm, Safe, Sound, AllTidy, AllAccepted
<1>3. pc'[r] = "list" /\ job'[r] = job[r]
  BY GotoAside DEF Confirm
<1>4. UpdateStatus(d, "CONFIRMED") /\ UNCHANGED <<holder, lock, propVars>>
  BY <1>1 DEF Confirm, itemVars
<1>5. dstatus'[d] = "CONFIRMED"
  BY <1>4, UpdateStatusForeign
<1>6. Tidy(d)'
  BY <1>2, <1>4, <1>5, PledgesStay DEF UpdateStatus, propVars, Accepted
<1>7. Delivered(r)' /\ Holds(r)
  BY <1>2, <1>3 DEF Delivered, Holds, Working
<1> QED
  BY <1>1, <1>3, <1>6, <1>7, ConfirmSafe, OwnTidy

\* The list of transfers covers every item the deal has locked.
LEMMA ListTransfersTidy ==
  ASSUME TypeOK, ExclusiveClaim, Safe, AllTidy, NEW r \in Requests, ListTransfers(r)
  PROVE  AllTidy'
<1>1. PICK d \in Deals : d = job[r].deal
  BY DEF ListTransfers, TypeOK, JobsFilled
<1>2. pc[r] = "list" /\ dstatus[d] = "CONFIRMED" /\ deadline[d] # "null" /\ Tidy(d)
  BY <1>1 DEF ListTransfers, Safe, Sound, AllTidy, AllAccepted
<1>3. /\ pc'[r] = "move" /\ job'[r] = job[r] /\ Aside(r)
      /\ todo'[r] = Transfers(d)
  BY <1>1 DEF ListTransfers, Aside, TypeOK, Types, RequestTypes
<1>4. UNCHANGED <<holder, lock, dealVars, propVars>>
  BY DEF ListTransfers, itemVars
<1>5. ASSUME NEW x \in Items, lock[x] = d PROVE \E t \in Transfers(d) : t[1] = x
  <2>1. Pledged(d, x)
    BY <1>2, <1>5 DEF Tidy
  <2>2. PICK u \in Users : pstatus[d][u] # "none" /\ pitem[d][u] = x
    BY <1>2, <2>1 DEF Pledged, InDeal, Accepted
  <2>3. <<pitem[d][u], pto[d][u]>> \in Transfers(d)
    BY <2>2 DEF Transfers
  <2>4. <<pitem[d][u], pto[d][u]>>[1] = x
    BY <2>2
  <2> QED
    BY <2>3, <2>4
<1>6. Delivered(r)'
  BY <1>1, <1>3, <1>4, <1>5 DEF Delivered
<1> QED
  BY <1>2, <1>3, <1>4, <1>6, TablesForeign, IdleTidy

\* A transfer releases the item it moves.
LEMMA CompleteTransferTidy ==
  ASSUME TypeOK, ExclusiveClaim, Safe, AllTidy, NEW r \in Requests, CompleteTransfer(r)
  PROVE  AllTidy'
<1>1. PICK t \in todo[r] : /\ HandOver(t[1], t[2])
                           /\ todo' = [todo EXCEPT ![r] = @ \ {t}]
                           /\ Goto(r, IF todo[r] = {t} THEN "complete" ELSE "move")
  BY DEF CompleteTransfer
<1>2. pc[r] = "move" /\ UNCHANGED <<dealVars, propVars, mutex, job>> /\ Delivered(r)
  BY DEF CompleteTransfer, AllTidy
<1>3. PICK d \in Deals : /\ d = job[r].deal /\ dstatus[d] = "CONFIRMED" /\ deadline[d] # "null"
                         /\ t[1] \in Items
  BY <1>2, MoveAgreed DEF AllAccepted
<1>4. PICK x \in Items : x = t[1]
  BY <1>3
<1>5. \A y \in Items : lock'[y] = d => lock[y] = d /\ y # x
  BY <1>1, <1>4, SentinelAssumption DEF HandOver, TypeOK, Types, ItemTypes
<1>6. /\ todo'[r] = todo[r] \ {t} /\ job'[r] = job[r]
      /\ pc'[r] = IF todo[r] = {t} THEN "complete" ELSE "move"
  BY <1>1, <1>2 DEF TypeOK, Types, RequestTypes
<1>7. ASSUME NEW y \in Items, lock'[y] = d PROVE \E s \in todo'[r] : s[1] = y
  <2>1. PICK s \in todo[r] : s[1] = y
    BY <1>2, <1>3, <1>5, <1>7 DEF Delivered
  <2> QED
    BY <1>4, <1>5, <1>6, <1>7, <2>1
<1>8. Delivered(r)'
  BY <1>3, <1>6, <1>7 DEF Delivered
<1>9. Tidy(d)'
  BY <1>2, <1>3, <1>5, PledgesStay DEF AllTidy, dealVars, propVars, Accepted
<1>10. Holds(r)
  BY <1>2 DEF Holds, Working
<1> QED
  BY <1>3, <1>6, <1>8, <1>9, <1>10, CompleteTransferSafe, OwnTidy

\* The last transfer has released the last item of the deal it completes.
LEMMA CompleteTidy ==
  ASSUME TypeOK, ExclusiveClaim, Safe, AllTidy, NEW r \in Requests, Complete(r)
  PROVE  AllTidy'
<1>1. PICK d \in Deals : d = job[r].deal
  BY DEF Complete, TypeOK, JobsFilled
<1>2. pc[r] = "complete" /\ \A x \in Items : lock[x] # d
  BY <1>1 DEF Complete, AllTidy, Delivered
<1>3. UpdateStatus(d, "COMPLETED") /\ UNCHANGED <<holder, lock, propVars>> /\ Respond(r)
  BY <1>1 DEF Complete, itemVars
<1>4. dstatus'[d] = "COMPLETED"
  BY <1>3, UpdateStatusForeign
<1>5. pc'[r] = "idle" /\ job'[r].deal = NoDeal
  BY <1>3 DEF Respond, NoJob, TypeOK, Types, RequestTypes
<1>6. Tidy(d)'
  BY <1>2, <1>3, <1>4 DEF Tidy
<1>7. Delivered(r)' /\ Holds(r)
  BY <1>2, <1>5 DEF Delivered, Holds, Working
<1> QED
  BY <1>1, <1>5, <1>6, <1>7, CompleteSafe, OwnTidy

\* A withdrawn proposal was not accepted: nothing was locked for it.
LEMMA RetractTidy ==
  ASSUME TypeOK, ExclusiveClaim, Safe, AllTidy, NEW r \in Requests, Retract(r)
  PROVE  AllTidy'
<1>1. PICK d \in Deals, u \in Users : d = job[r].deal /\ u = job[r].user
  BY DEF Retract, TypeOK, JobsFilled
<1>2. pc[r] = "retract" /\ Sound(r) /\ Tidy(d)
  BY <1>1 DEF Retract, Safe, AllTidy
<1>3. CASE pstatus[d][u] = "PENDING"
  <2>1. /\ pstatus' = [pstatus EXCEPT ![d][u] = "DECLINED"]
        /\ Goto(r, "cancel") /\ UNCHANGED <<mutex, job, todo>>
        /\ UNCHANGED <<holder, lock, dealVars, pitem, pto>>
    BY <1>1, <1>3 DEF Retract, itemVars
  <2>2. pc'[r] = "cancel" /\ job'[r] = job[r]
    BY <2>1, GotoAside
  <2>3. dstatus[d] = "PENDING"
    BY <1>1, <1>2, <1>3 DEF Sound, Undone
  <2>4. \A v \in Users : v # u => pstatus'[d][v] = pstatus[d][v]
    BY <2>1
  <2>5. pstatus'[d][u] = "DECLINED"
    BY <2>1 DEF TypeOK, Types, ProposalTypes
  <2>6. \A v \in Users : /\ pitem'[d][v] = pitem[d][v]
                         /\ Accepted(d, v) => Accepted(d, v)'
                         /\ pstatus[d][v] # "none" => pstatus'[d][v] # "none"
    BY <1>3, <2>1, <2>4, <2>5 DEF Accepted
  <2>7. Tidy(d)'
    BY <1>2, <2>1, <2>3, <2>6, PledgesStay DEF dealVars
  <2>8. Delivered(r)' /\ Holds(r)
    BY <1>2, <2>2 DEF Delivered, Holds, Working
  <2> QED
    BY <1>1, <2>2, <2>7, <2>8, RetractSafe, OwnTidy
<1>4. CASE pstatus[d][u] # "PENDING"
  <2>1. Respond(r) /\ UNCHANGED <<holder, lock, dealVars, propVars>>
    BY <1>1, <1>4 DEF Retract, itemVars, propVars
  <2>2. pc'[r] = "idle" /\ Aside(r)
    BY <2>1, RespondSound DEF Respond, TypeOK, Types, RequestTypes
  <2> QED
    BY <1>2, <2>1, <2>2, WaitTidy
<1> QED
  BY <1>3, <1>4

\* The handler that cancels its deal goes on to take back what it has.
LEMMA CancelTidy ==
  ASSUME TypeOK, ExclusiveClaim, Safe, AllTidy, NEW r \in Requests, Cancel(r)
  PROVE  AllTidy'
<1>1. PICK d \in Deals : d = job[r].deal
  BY DEF Cancel, TypeOK, JobsFilled
<1>2. pc[r] = "cancel" /\ UpdateStatus(d, "CANCELLED") /\ UNCHANGED <<holder, lock, propVars>>
  BY <1>1 DEF Cancel, itemVars
<1>3. pc'[r] = "decline" /\ job'[r] = job[r]
  BY GotoAside DEF Cancel
<1>4. dstatus'[d] = "CANCELLED"
  BY <1>2, UpdateStatusForeign
<1>5. Releasing(d, {"decline"})' /\ Releasing(d, {"decline", "unlock"})'
  BY <1>1, <1>3 DEF Releasing
<1>6. Tidy(d)'
  BY <1>4, <1>5 DEF Tidy
<1>7. Delivered(r)' /\ Holds(r)
  BY <1>2, <1>3 DEF Delivered, Holds, Working
<1> QED
  BY <1>1, <1>3, <1>6, <1>7, CancelSafe, OwnTidy

\* The declined proposals are the cancelled deal's; its locks come next.
LEMMA DeclineAllTidy ==
  ASSUME TypeOK, ExclusiveClaim, Safe, AllTidy, NEW r \in Requests, DeclineAll(r)
  PROVE  AllTidy'
<1>1. PICK d \in Deals : d = job[r].deal
  BY DEF DeclineAll, TypeOK, JobsFilled
<1>2. pc[r] = "decline" /\ dstatus[d] = "CANCELLED"
  BY <1>1 DEF DeclineAll, Safe, Sound
<1>3. pc'[r] = "unlock" /\ job'[r] = job[r]
  BY GotoAside DEF DeclineAll
<1>4. pstatus' = DeclinedIn({d}) /\ UNCHANGED dealVars
  BY <1>1 DEF DeclineAll
<1>5. dstatus'[d] = "CANCELLED" /\ \A u \in Users : ~Accepted(d, u)'
  BY <1>2, <1>4 DEF DeclinedIn, Accepted, dealVars
<1>6. Releasing(d, {"decline", "unlock"})'
  BY <1>1, <1>3 DEF Releasing
<1>7. Tidy(d)'
  BY <1>5, <1>6 DEF Tidy
<1>8. Delivered(r)' /\ Holds(r)
  BY <1>2, <1>3 DEF Delivered, Holds, Working
<1> QED
  BY <1>1, <1>3, <1>7, <1>8, DeclineAllSafe, OwnTidy

\* The last step of a cancellation: nobody else is busy with the deal.
LEMMA UnlockAllForDealTidy ==
  ASSUME TypeOK, ExclusiveClaim, Safe, AllTidy, NEW r \in Requests, UnlockAllForDeal(r)
  PROVE  AllTidy'
<1>1. PICK d \in Deals : d = job[r].deal
  BY DEF UnlockAllForDeal, TypeOK, JobsFilled
<1>2. pc[r] = "unlock" /\ dstatus[d] = "CANCELLED" /\ Tidy(d)
  BY <1>1 DEF UnlockAllForDeal, Safe, Sound, AllTidy
<1>3. lock' = FreedFrom({d}) /\ UNCHANGED <<dealVars, propVars>> /\ Respond(r)
  BY <1>1 DEF UnlockAllForDeal
<1>4. ASSUME MaxFaults = 0, NEW u \in Users, Accepted(d, u) PROVE FALSE
  <2>1. PICK q \in Requests : job[q].deal = d /\ pc[q] = "decline"
    BY <1>2, <1>4 DEF Tidy, Releasing
  <2>2. q # r /\ Holds(q) /\ Holds(r)
    BY <1>2, <2>1 DEF Holds, Working
  <2> QED
    BY <1>1, <2>1, <2>2, Alone
<1>5. \A x \in Items : lock'[x] # d
  BY <1>3, SentinelAssumption DEF FreedFrom
<1>6. Tidy(d)'
  BY <1>2, <1>3, <1>4, <1>5 DEF Tidy, Accepted, dealVars, propVars
<1>7. pc'[r] = "idle" /\ job'[r].deal = NoDeal
  BY <1>3 DEF Respond, NoJob, TypeOK, Types, RequestTypes
<1>8. Delivered(r)' /\ Holds(r)
  BY <1>2, <1>7 DEF Delivered, Holds, Working
<1> QED
  BY <1>1, <1>6, <1>7, <1>8, UnlockAllForDealSafe, OwnTidy

\* A call writes nothing but the deal it inserts.
LEMMA CallTidy ==
  ASSUME TypeOK, ExclusiveClaim, Safe, AllTidy, NEW r \in Requests, Call(r)
  PROVE  AllTidy'
<1>1. CASE \E u \in Users : \E rt \in RootItems, x \in Holding(u) : CreateDeal(r, u, rt, x)
  <2>1. PICK u \in Users, rt \in RootItems, x \in Items : CreateDeal(r, u, rt, x)
    BY <1>1 DEF Holding
  <2>2. PICK d \in Deals : InsertDeal(d, u, rt) /\ Begin(r, Job("deal", u, d, x), "propose")
    BY <2>1 DEF CreateDeal
  <2>3. Job("deal", u, d, x).deal = d /\ Job("deal", u, d, x).op # "join"
    BY DEF Job, NoJob
  <2>4. pc[r] = "idle" /\ UNCHANGED <<itemVars, propVars, mutex>>
    BY <2>1 DEF CreateDeal
  <2> QED
    BY <2>2, <2>3, <2>4, InsertDealTidy
<1>2. CASE ~\E u \in Users : \E rt \in RootItems, x \in Holding(u) : CreateDeal(r, u, rt, x)
  <2>1. /\ pc[r] = "idle" /\ UNCHANGED <<holder, lock, dealVars, propVars>>
        /\ \E j, step : /\ Begin(r, j, step)
                        /\ step \in {"create", "join", "propose", "accept", "retract", "cancel"}
    BY <1>2 DEF Call, Chown, CreateProposal, Approve, Withdraw, EnterOpenDeal, itemVars
  <2>2. pc'[r] \notin {"move", "complete"}
    BY <2>1 DEF Begin, TypeOK, Types, RequestTypes
  <2> QED
    BY <2>1, <2>2, CallSafe, WaitTidy DEF Frame
<1> QED
  BY <1>1, <1>2

\* The other steps that write neither deals, proposals nor locks.
LEMMA ReadTidy ==
  ASSUME TypeOK, ExclusiveClaim, Safe, AllTidy, NEW r \in Requests,
         \/ JoinFound(r) \/ ProposeRejected(r) \/ AcceptRejected(r)
         \/ EnsureWish(r) \/ LinkWish(r) \/ CheckAllAccepted(r)
  PROVE  AllTidy'
<1>1. /\ pc[r] \in {"join", "propose", "accept", "wish", "link", "all"}
      /\ UNCHANGED <<holder, lock, dealVars, propVars>>
  BY DEF JoinFound, ProposeRejected, AcceptRejected, EnsureWish, LinkWish, CheckAllAccepted, itemVars
<1>2. \E step \in {"propose", "cancel", "idle", "link", "confirm"} : Goto(r, step)
  BY DEF JoinFound, ProposeRejected, AcceptRejected, EnsureWish, LinkWish, CheckAllAccepted,
         EnterOpenDeal, Begin, Respond
<1>3. pc'[r] \notin {"move", "complete"}
  BY <1>2 DEF TypeOK, Types, RequestTypes
<1>4. Frame(r)
  BY JoinFoundSafe, StepSafe DEF Step
<1> QED
  BY <1>1, <1>3, <1>4, WaitTidy DEF Frame

\* A step of a handler keeps every deal tidy.
LEMMA StepTidy ==
  ASSUME TypeOK, ExclusiveClaim, Safe, AllTidy, NEW r \in Requests, Step(r)
  PROVE  AllTidy'
<1>1. CASE CreateForClaim(r)
  <2>1. PICK d \in Deals : /\ InsertDeal(d, job[r].user, job[r].claim)
                           /\ Begin(r, [job[r] EXCEPT !.deal = d], "propose")
    BY <1>1 DEF CreateForClaim
  <2>2. job[r] \in Jobs /\ job[r].op = "chown" /\ pc[r] = "create"
    BY <1>1 DEF CreateForClaim, TypeOK, Types, RequestTypes, JobsFilled
  <2> DEFINE j == [job[r] EXCEPT !.deal = d]
  <2>3. j.deal = d /\ j.op # "join"
    BY <2>2 DEF Jobs
  <2>4. Begin(r, j, "propose") /\ UNCHANGED <<itemVars, propVars, mutex>>
    BY <1>1, <2>1 DEF CreateForClaim
  <2> HIDE DEF j
  <2> QED
    BY <2>1, <2>2, <2>3, <2>4, InsertDealTidy
<1> QED
  BY <1>1, ReadTidy, ProposeTidy, AcceptTidy, TryLockChainTidy, ConfirmTidy, ListTransfersTidy,
     CompleteTransferTidy, CompleteTidy, RetractTidy, CancelTidy, DeclineAllTidy, UnlockAllForDealTidy
  DEF Step

\* A step no handler takes leaves every deal, and every handler, to itself.
LEMMA ForeignAllTidy ==
  ASSUME TypeOK, Safe, AllTidy, AllForeign
  PROVE  AllTidy'
<1>1. ASSUME NEW e \in Deals PROVE Tidy(e)'
  BY ForeignTidy DEF AllTidy, AllForeign, reqVars
<1>2. ASSUME NEW q \in Requests PROVE Delivered(q)'
  <2>1. pc[q] \in {"move", "complete"} => Foreign(job[q].deal)
    BY DEF AllForeign, TypeOK, JobsFilled
  <2> QED
    BY <2>1, ForeignDelivered DEF AllTidy, AllForeign, reqVars
<1> QED
  BY <1>1, <1>2 DEF AllTidy

\* A request cut off writes nothing.
LEMMA AbortTidy ==
  ASSUME TypeOK, Safe, AllTidy, NEW r \in Requests, Abort(r)
  PROVE  AllTidy'
<1>1. MaxFaults # 0
  BY DEF Abort, TypeOK, Types, RequestTypes
<1>2. UNCHANGED <<holder, lock, dealVars, propVars>> /\ Respond(r)
  BY DEF Abort, itemVars
<1>3. pc'[r] = "idle" /\ Aside(r)
  BY <1>2, RespondSound DEF Respond, TypeOK, Types, RequestTypes
<1>4. ASSUME NEW e \in Deals PROVE Tidy(e)'
  BY <1>1, <1>2 DEF AllTidy, Tidy, Pledged, InDeal, Accepted, dealVars, propVars
<1>5. ASSUME NEW q \in Requests PROVE Delivered(q)'
  BY <1>2, <1>3 DEF AllTidy, Delivered, Aside
<1> QED
  BY <1>4, <1>5 DEF AllTidy

\* The invariant is inductive.
LEMMA NextTidy ==
  ASSUME ClosedChainsUnedited, TypeOK, ExclusiveClaim, Safe, AllTidy, [Next]_vars
  PROVE  AllTidy'
<1>1. CASE Environment
  BY <1>1, EnvironmentSafe, ForeignAllTidy
<1>2. CASE UNCHANGED vars
  <2>1. AllForeign
    BY <1>2, TablesForeign DEF vars, itemVars, AllForeign
  <2> QED
    BY <2>1, ForeignAllTidy
<1> QED
  BY <1>1, <1>2, CallTidy, ReadTidy, StepTidy, AbortTidy DEF Next

\* There is no deal at the start.
LEMMA InitTidy == Init => AllTidy
<1>1. ASSUME Init, NEW x \in Items, NEW d \in Deals PROVE lock[x] # d
  BY <1>1, InitAssumption, SentinelAssumption DEF Init
<1> QED
  BY <1>1 DEF Init, AllTidy, Tidy, Delivered

\* A deal has locked what it needs and nothing else, also when requests are cut off,
\* as long as no offer of a closed chain is edited.
THEOREM StaysTidy == Spec /\ [][ClosedChainsUnedited]_vars => []AllTidy
<1>1. /\ TypeOK /\ ExclusiveClaim /\ Safe /\ AllTidy
      /\ [Next]_vars /\ [ClosedChainsUnedited]_vars
      => AllTidy'
  BY NextTidy, StutterUnedited
<1> QED
  BY <1>1, InitTidy, TypeCorrect, LockedItemHasOneClaimant, StaysSafe, PTL DEF Spec

\* A deal that is over and on which no request works has no item locked and,
\* if it was cancelled, no accepted proposal: every way of cancelling a deal
\* runs through DeclineAll and UnlockAllForDeal, or is a cascade that does both
\* at once, and every item a confirmed deal has locked is among its transfers.
\* A request cut off in between is the reason for the assumption, an edited offer
\* of a closed chain the reason for the hypothesis.
THEOREM FinishedReleasesAll ==
  ASSUME MaxFaults = 0
  PROVE  Spec /\ [][ClosedChainsUnedited]_vars => []FinishedHoldsNothing
<1>1. AllTidy => FinishedHoldsNothing
  BY DEF AllTidy, Tidy, Releasing, Quiescent, FinishedHoldsNothing
<1> QED
  BY <1>1, StaysTidy, PTL
=============================================================================
