---------------------------- MODULE Barter_proofs ----------------------------
(* As long as nobody edits a proposal of a closed chain, the service        *)
(* implements Barter, requests cut off included.                            *)
EXTENDS ChainSafety_proofs

-----------------------------------------------------------------------------
(* What is due. *)

\* The participant has still to give his item, as agreed.
Owes(d, u) == dstatus[d] = "CONFIRMED" /\ Accepted(d, u) /\ lock[pitem[d][u]] = d

Deed(d, u) == <<pitem[d][u], u, pto[d][u]>>

LEMMA DueIsOwed ==
  ASSUME NEW d \in Deals
  PROVE  /\ \A m \in Due[d] : \E u \in Users : Owes(d, u) /\ m = Deed(d, u)
         /\ \A u \in Users : Owes(d, u) => Deed(d, u) \in Due[d]
         /\ \A m \in Due'[d] : \E u \in Users : Owes(d, u)' /\ m = Deed(d, u)'
         /\ \A u \in Users : Owes(d, u)' => Deed(d, u)' \in Due'[d]
<1>1. /\ Due[d] = {Deed(d, u) : u \in {v \in Users : Owes(d, v)}}
      /\ Due'[d] = {Deed(d, u)' : u \in {v \in Users : Owes(d, v)'}}
  BY DEF Due, Deed, Owes
<1> QED
  BY <1>1

\* Nothing is due of a deal that is not confirmed.
LEMMA NothingDue ==
  ASSUME NEW d \in Deals
  PROVE  /\ dstatus[d] # "CONFIRMED" => Due[d] = {}
         /\ dstatus'[d] # "CONFIRMED" => Due'[d] = {}
  BY DueIsOwed DEF Owes

\* Who owes the same gives the same.
LEMMA SameDue ==
  ASSUME NEW d \in Deals, \A u \in Users : Owes(d, u)' <=> Owes(d, u),
         \A u \in Users : Owes(d, u) => Deed(d, u)' = Deed(d, u)
  PROVE  Due'[d] = Due[d]
<1>1. \A m : m \in Due'[d] <=> m \in Due[d]
  BY DueIsOwed
<1> QED
  BY <1>1

-----------------------------------------------------------------------------
(* Steps that make no agreement and no move. *)

\* The deal stays as it is, or is dropped.
Settled(d) ==
  dstatus'[d] = dstatus[d] \/ (dstatus[d] = "PENDING" /\ dstatus'[d] = "CANCELLED")

LEMMA ForeignSettled ==
  ASSUME TypeOK, NEW d \in Deals, Foreign(d)
  PROVE  Settled(d) /\ Due'[d] = Due[d]
<1>1. CASE Dropped(d)
  BY <1>1, NothingDue DEF Dropped, Settled
<1>2. CASE Untouched(d)
  <2>1. \A u \in Users : Accepted(d, u)' <=> Accepted(d, u)
    BY <1>2 DEF Untouched, Accepted
  <2>2. \A u \in Users : Accepted(d, u) => pitem'[d][u] = pitem[d][u] /\ pto'[d][u] = pto[d][u]
    BY <1>2 DEF Untouched, Edited, Accepted
  <2>3. dstatus'[d] = dstatus[d]
    BY <1>2 DEF Untouched
  <2>4. ASSUME dstatus[d] = "CONFIRMED", NEW u \in Users
        PROVE  (Owes(d, u)' <=> Owes(d, u)) /\ (Owes(d, u) => Deed(d, u)' = Deed(d, u))
    <3>1. CASE Accepted(d, u)
      <4>1. pitem[d][u] \in Items
        BY <3>1 DEF Accepted, TypeOK, RowsFilled
      <4>2. lock'[pitem[d][u]] = d <=> lock[pitem[d][u]] = d
        BY <1>2, <4>1 DEF Untouched
      <4> QED
        BY <2>1, <2>2, <2>3, <2>4, <3>1, <4>2 DEF Owes, Deed
    <3>2. CASE ~ Accepted(d, u)
      BY <2>1, <3>2 DEF Owes
    <3> QED
      BY <3>1, <3>2
  <2>5. Due'[d] = Due[d]
    BY <2>3, <2>4, NothingDue, SameDue
  <2> QED
    BY <2>3, <2>5 DEF Settled
<1> QED
  BY <1>1, <1>2 DEF Foreign

\* Nobody gets anything, and deals at most are dropped.
LEMMA QuietStep ==
  ASSUME TypeOK, TypeOK', holder' = holder,
         \A d \in Deals : Settled(d) /\ Due'[d] = Due[d]
  PROVE  [Bargain!BarterNext]_Bargain!barterVars
<1> DEFINE S == {d \in Deals : dstatus'[d] # dstatus[d]}
<1>1. Due' = Due
  BY DEF Due
<1>2. CASE S = {}
  <2>1. dstatus' = dstatus
    BY <1>2 DEF TypeOK, Types, DealTypes
  <2> QED
    BY <1>1, <2>1 DEF Bargain!barterVars
<1>3. CASE S # {}
  <2>1. \A d \in S : dstatus[d] = "PENDING" /\ dstatus'[d] = "CANCELLED"
    BY DEF Settled
  <2>2. dstatus' = [d \in Deals |-> IF d \in S THEN "CANCELLED" ELSE dstatus[d]]
    BY <2>1 DEF TypeOK, Types, DealTypes
  <2>3. Bargain!Drop(S)
    BY <1>1, <1>3, <2>1, <2>2 DEF Bargain!Drop
  <2> QED
    BY <2>3 DEF Bargain!BarterNext
<1> QED
  BY <1>2, <1>3

\* A handler works on a deal that nobody has confirmed.
LEMMA OwnQuiet ==
  ASSUME TypeOK, TypeOK', NEW r \in Requests, NEW d \in Deals, d = job[r].deal, Frame(r),
         job'[r].deal \in {d, NoDeal}, holder' = holder,
         dstatus[d] # "CONFIRMED", Settled(d)
  PROVE  [Bargain!BarterNext]_Bargain!barterVars
<1>1. ASSUME NEW e \in Deals, e # d PROVE Settled(e) /\ Due'[e] = Due[e]
  BY <1>1, ForeignSettled, SentinelAssumption DEF Frame
<1>2. Due'[d] = Due[d]
  BY NothingDue DEF Settled
<1> QED
  BY <1>1, <1>2, QuietStep

\* The tables of deals and items stay as they are.
LEMMA IdleQuiet ==
  ASSUME TypeOK, TypeOK', UNCHANGED <<holder, lock, dealVars, propVars>>
  PROVE  [Bargain!BarterNext]_Bargain!barterVars
  BY TablesForeign, ForeignSettled, QuietStep

LEMMA ForeignQuiet ==
  ASSUME TypeOK, TypeOK', holder' = holder, AllForeign
  PROVE  [Bargain!BarterNext]_Bargain!barterVars
  BY ForeignSettled, QuietStep DEF AllForeign

-----------------------------------------------------------------------------
(* Deals that open, and proposals that come, are accepted or withdrawn. *)

LEMMA InsertBargain ==
  ASSUME TypeOK, NEW d \in Deals, NEW u, NEW rt, InsertDeal(d, u, rt),
         UNCHANGED <<itemVars, propVars>>
  PROVE  [Bargain!BarterNext]_Bargain!barterVars
<1>1. /\ dstatus[d] = "none" /\ dstatus' = [dstatus EXCEPT ![d] = "PENDING"]
      /\ UNCHANGED <<holder, lock, pstatus, pitem, pto>>
  BY DEF InsertDeal, itemVars, propVars
<1>2. dstatus'[d] = "PENDING" /\ \A e \in Deals \ {d} : dstatus'[e] = dstatus[e]
  BY <1>1 DEF TypeOK, Types, DealTypes
<1>3. ASSUME NEW e \in Deals PROVE Due'[e] = Due[e]
  <2>1. CASE e = d
    BY <1>1, <1>2, <2>1, NothingDue
  <2>2. CASE e # d
    BY <1>1, <1>2, <2>2, SameDue DEF Owes, Deed, Accepted
  <2> QED
    BY <2>1, <2>2
<1>4. Due' = Due
  BY <1>3 DEF Due
<1>5. Bargain!Open(d)
  BY <1>1, <1>4 DEF Bargain!Open
<1> QED
  BY <1>5 DEF Bargain!BarterNext

LEMMA ProposeBargain ==
  ASSUME TypeOK, TypeOK', ExclusiveClaim, Safe, AllTidy, NEW r \in Requests, Propose(r)
  PROVE  [Bargain!BarterNext]_Bargain!barterVars
<1>1. PICK d \in Deals : d = job[r].deal
  BY DEF Propose, TypeOK, JobsFilled
<1>2. deadline[d] = "null" /\ UNCHANGED <<holder, dstatus>>
  BY <1>1 DEF Propose, CanPropose
<1>3. dstatus[d] # "CONFIRMED" /\ Settled(d)
  BY <1>2 DEF AllTidy, Tidy, Settled
<1>4. job'[r] \in {job[r], NoJob}
  <2>1. UNCHANGED job \/ Respond(r)
    BY DEF Propose
  <2> QED
    BY <2>1 DEF Respond, TypeOK, Types, RequestTypes
<1>5. job'[r].deal \in {d, NoDeal}
  BY <1>1, <1>4 DEF NoJob
<1> QED
  BY <1>1, <1>2, <1>3, <1>5, ProposeSafe, OwnQuiet

\* Approving, closing the chain, withdrawing and cancelling: the deal is open, or
\* was cancelled meanwhile, and its rivals are dropped.
LEMMA PendingBargain ==
  ASSUME TypeOK, TypeOK', ExclusiveClaim, Safe, NEW r \in Requests,
         \/ Accept(r) \/ TryLockChain(r) \/ Retract(r)
         \/ Cancel(r) \/ DeclineAll(r) \/ UnlockAllForDeal(r)
  PROVE  [Bargain!BarterNext]_Bargain!barterVars
<1>0. pc[r] \in {"accept", "chain", "retract", "cancel", "decline", "unlock"}
  BY DEF Accept, TryLockChain, Retract, Cancel, DeclineAll, UnlockAllForDeal
<1>1. PICK d \in Deals : d = job[r].deal
  BY <1>0 DEF TypeOK, JobsFilled
<1>2. dstatus[d] \in {"PENDING", "CANCELLED"}
  <2>1. Sound(r)
    BY DEF Safe
  <2> QED
    BY <1>0, <1>1, <2>1 DEF Sound, Undone
<1>3. Settled(d)
  <2>1. CASE Accept(r)
    <3>1. d \notin CompetingForItem(d, pitem[d][job[r].user])
      BY DEF CompetingForItem
    <3>2. dstatus' = CancelledIn(CompetingForItem(d, pitem[d][job[r].user]))
      BY <1>1, <2>1 DEF Accept, LockOfferedItem
    <3> QED
      BY <3>1, <3>2 DEF CancelledIn, Settled
  <2>2. CASE TryLockChain(r)
    <3>1. d \notin CompetingForChain(d)
      BY DEF CompetingForChain
    <3>2. dstatus' = CancelledIn(CompetingForChain(d)) \/ dstatus' = dstatus
      BY <1>1, <2>2 DEF TryLockChain, LockChain
    <3> QED
      BY <3>1, <3>2 DEF CancelledIn, Settled
  <2>3. CASE Cancel(r)
    <3>1. dstatus'[d] = "CANCELLED"
      BY <1>1, <2>3 DEF Cancel, UpdateStatus, TypeOK, Types, DealTypes
    <3> QED
      BY <1>2, <3>1 DEF Settled
  <2>4. CASE Retract(r) \/ DeclineAll(r) \/ UnlockAllForDeal(r)
    BY <2>4 DEF Retract, DeclineAll, UnlockAllForDeal, dealVars, Settled
  <2> QED
    BY <2>1, <2>2, <2>3, <2>4
<1>4. holder' = holder
  BY DEF Accept, TryLockChain, Retract, Cancel, DeclineAll, UnlockAllForDeal, itemVars
<1>5. job'[r].deal \in {d, NoDeal}
  <2>1. job' = job \/ Respond(r)
    BY DEF Accept, TryLockChain, Retract, Cancel, DeclineAll, UnlockAllForDeal
  <2>2. Respond(r) => job'[r].deal = NoDeal
    BY RespondSound
  <2> QED
    BY <1>1, <2>1, <2>2
<1>6. Frame(r)
  BY StepSafe DEF Step
<1> QED
  BY <1>1, <1>2, <1>3, <1>4, <1>5, <1>6, OwnQuiet

-----------------------------------------------------------------------------
(* Deals that are confirmed, and their transfers. *)

LEMMA DeedParts ==
  ASSUME TypeOK, NEW d \in Deals, NEW u \in Users, Accepted(d, u)
  PROVE  /\ Deed(d, u) \in Bargain!Moves
         /\ Deed(d, u)[1] = pitem[d][u] /\ Deed(d, u)[2] = u /\ Deed(d, u)[3] = pto[d][u]
<1>1. pitem[d][u] \in Items /\ pto[d][u] \in Users
  BY DEF Accepted, TypeOK, RowsFilled
<1> QED
  BY <1>1 DEF Deed, Bargain!Moves

LEMMA DueParts ==
  ASSUME TypeOK, NEW d \in Deals, NEW m \in Due[d]
  PROVE  \E u \in Users : /\ Owes(d, u) /\ m = Deed(d, u) /\ m \in Bargain!Moves
                          /\ m[1] = pitem[d][u] /\ m[2] = u /\ m[3] = pto[d][u]
  BY DueIsOwed, DeedParts DEF Owes

\* Everybody in the deal has accepted, has what he offered and has it locked for
\* this deal, so no other confirmed deal waits for it.
LEMMA ConfirmBargain ==
  ASSUME TypeOK, ExclusiveClaim, Safe, NEW r \in Requests, Confirm(r)
  PROVE  [Bargain!BarterNext]_Bargain!barterVars
<1>1. PICK d \in Deals : d = job[r].deal
  BY DEF Confirm, TypeOK, JobsFilled
<1>2. dstatus[d] = "PENDING" /\ AllAccepted(d) /\ DealSafe(d)
  BY <1>1 DEF Confirm, Safe, Sound
<1>3. /\ dstatus' = [dstatus EXCEPT ![d] = "CONFIRMED"] /\ dstatus'[d] = "CONFIRMED"
      /\ UNCHANGED <<holder, lock, root, pstatus, pitem, pto>>
  BY <1>1 DEF Confirm, UpdateStatus, itemVars, propVars, TypeOK, Types, DealTypes
<1>4. \A u \in Users : Accepted(d, u) => Secured(d, u)
  BY <1>2 DEF DealSafe, Accepted, Secured
<1>5. \A u \in Users : (Owes(d, u)' <=> Accepted(d, u)) /\ Deed(d, u)' = Deed(d, u)
  BY <1>3, <1>4 DEF Owes, Deed, Accepted, Secured
<1>6. /\ \A m \in Due'[d] : \E u \in Users : Accepted(d, u) /\ m = Deed(d, u)
      /\ \A u \in Users : Accepted(d, u) => Deed(d, u) \in Due'[d]
  BY <1>5, DueIsOwed
<1>7. ASSUME NEW m \in Due'[d]
      PROVE  m \in Bargain!Moves /\ holder[m[1]] = m[2] /\ lock[m[1]] = d
                /\ m = Deed(d, m[2])
  BY <1>4, <1>6, DeedParts DEF Secured
<1>8. Due'[d] # {}
  <2>1. PICK u \in Users : pstatus[d][u] # "none"
    BY <1>2 DEF AllAccepted, DealSafe, InDeal
  <2>2. Accepted(d, u)
    BY <1>2, <2>1 DEF AllAccepted, Accepted
  <2> QED
    BY <1>6, <2>2
<1>9. \A m, n \in Due'[d] : m[1] = n[1] \/ m[2] = n[2] => m = n
  BY <1>7
<1>10. ASSUME NEW m \in Due'[d], NEW e \in Deals, NEW n \in Due[e]
       PROVE  n[1] # m[1]
  <2>1. dstatus[e] = "CONFIRMED" /\ lock[n[1]] = e
    BY DueParts DEF Owes
  <2> QED
    BY <1>2, <1>7, <2>1
<1>11. \A e \in Deals : e # d => Due'[e] = Due[e]
  BY <1>1, <1>3, ConfirmSafe, ForeignSettled, GotoAside DEF Frame, Confirm
<1>12. Due' = [Due EXCEPT ![d] = Due'[d]]
  <2>1. Due = [e \in Deals |-> Due[e]] /\ Due' = [e \in Deals |-> Due'[e]]
    BY DEF Due
  <2> QED
    BY <1>11, <2>1
<1>13. Bargain!Agree(d)
  BY <1>2, <1>3, <1>7, <1>8, <1>9, <1>10, <1>12 DEF Bargain!Agree
<1> QED
  BY <1>13 DEF Bargain!BarterNext

\* CompleteTransfer makes one of the moves that are due.
LEMMA TransferBargain ==
  ASSUME TypeOK, ExclusiveClaim, Safe, TransfersPossible,
         NEW r \in Requests, CompleteTransfer(r)
  PROVE  [Bargain!BarterNext]_Bargain!barterVars
<1>1. pc[r] = "move" /\ UNCHANGED <<dealVars, propVars, job>>
  BY DEF CompleteTransfer
<1>2. PICK t \in todo[r] : HandOver(t[1], t[2])
  BY DEF CompleteTransfer
<1>3. PICK d \in Deals, u \in Users :
        /\ d = job[r].deal /\ dstatus[d] = "CONFIRMED"
        /\ Accepted(d, u) /\ t[1] = pitem[d][u] /\ t[2] = pto[d][u]
        /\ t[1] \in Items /\ lock[t[1]] = d
  BY <1>1, MoveAgreed
<1>4. PICK x \in Items : x = t[1]
  BY <1>3
<1> DEFINE m == Deed(d, u)
<1>5. Owes(d, u) /\ m \in Due[d] /\ m[1] = x /\ m[3] = t[2]
  BY <1>3, <1>4, DueIsOwed, DeedParts DEF Owes
<1> HIDE DEF m
<1>6. /\ holder' = [holder EXCEPT ![m[1]] = m[3]]
      /\ lock'[x] = NoDeal /\ \A y \in Items \ {x} : lock'[y] = lock[y]
  BY <1>2, <1>4, <1>5 DEF HandOver, TypeOK, Types, ItemTypes
<1>7. ASSUME NEW w \in Users
      PROVE  /\ Owes(d, w)' <=> Owes(d, w) /\ w # u
             /\ Deed(d, w)' = Deed(d, w)
  <2>1. Deed(d, w)' = Deed(d, w) /\ (Accepted(d, w)' <=> Accepted(d, w))
    BY <1>1 DEF Deed, Accepted, propVars
  <2>2. ASSUME Owes(d, w), pitem[d][w] = x PROVE w = u
    <3>1. Deed(d, w) \in Due[d] /\ Deed(d, w)[1] = x /\ Deed(d, w)[2] = w
      BY <2>2, DueIsOwed, DeedParts DEF Owes
    <3>2. m[2] = u
      BY <1>3, DeedParts DEF m
    <3> QED
      BY <1>5, <3>1, <3>2 DEF TransfersPossible, Bargain!StillPossible
  <2>3. Accepted(d, w) => pitem[d][w] \in Items
    BY DEF Accepted, TypeOK, RowsFilled
  <2>4. pitem[d][u] = x
    BY <1>3, <1>4
  <2>5. Owes(d, w)' <=> Accepted(d, w) /\ lock'[pitem[d][w]] = d
    BY <1>1, <1>3, <2>1 DEF Owes, dealVars, propVars
  <2>6. Owes(d, w) <=> Accepted(d, w) /\ lock[pitem[d][w]] = d
    BY <1>3 DEF Owes
  <2>7. CASE w = u
    BY <1>6, <2>1, <2>4, <2>5, <2>7, SentinelAssumption
  <2>8. CASE w # u
    <3>1. ASSUME Accepted(d, w) PROVE lock'[pitem[d][w]] = d <=> lock[pitem[d][w]] = d
      <4>1. CASE pitem[d][w] = x
        BY <1>3, <1>4, <2>2, <2>6, <2>8, <3>1, <4>1
      <4>2. CASE pitem[d][w] # x
        BY <1>6, <2>3, <3>1, <4>2
      <4> QED
        BY <4>1, <4>2
    <3> QED
      BY <2>1, <2>5, <2>6, <2>8, <3>1
  <2> QED
    BY <2>7, <2>8
<1>8. Due'[d] = Due[d] \ {m}
  <2>1. \A w \in Users : Owes(d, w) /\ Deed(d, w) = m => w = u
    BY <1>3, DeedParts DEF m, Owes
  <2>2. \A n : n \in Due'[d] <=> n \in Due[d] /\ n # m
    BY <1>7, <2>1, DueIsOwed DEF m
  <2> QED
    BY <2>2
<1>9. \A e \in Deals : e # d => Due'[e] = Due[e]
  <2>1. job'[r].deal = d
    BY <1>1, <1>3
  <2> QED
    BY <1>3, <2>1, CompleteTransferSafe, ForeignSettled DEF Frame
<1>10. Due' = [Due EXCEPT ![d] = @ \ {m}]
  BY <1>8, <1>9 DEF Due
<1>11. Bargain!Move(d, m)
  BY <1>1, <1>3, <1>5, <1>6, <1>10 DEF Bargain!Move, dealVars
<1> QED
  BY <1>5, <1>11 DEF Bargain!BarterNext

\* A deal is completed when nothing is due of it any more.
LEMMA CompleteBargain ==
  ASSUME TypeOK, ExclusiveClaim, Safe, AllTidy, NEW r \in Requests, Complete(r)
  PROVE  [Bargain!BarterNext]_Bargain!barterVars
<1>1. PICK d \in Deals : d = job[r].deal
  BY DEF Complete, TypeOK, JobsFilled
<1>2. dstatus[d] = "CONFIRMED" /\ \A x \in Items : lock[x] # d
  BY <1>1 DEF Complete, Safe, Sound, AllTidy, Delivered
<1>3. /\ dstatus' = [dstatus EXCEPT ![d] = "COMPLETED"] /\ dstatus'[d] = "COMPLETED"
      /\ holder' = holder /\ Respond(r)
  BY <1>1 DEF Complete, UpdateStatus, itemVars, TypeOK, Types, DealTypes
<1>4. Due[d] = {}
  <2>1. \A u \in Users : Accepted(d, u) => pitem[d][u] \in Items
    BY DEF Accepted, TypeOK, RowsFilled
  <2> QED
    BY <1>2, <2>1, DueIsOwed DEF Owes
<1>5. Due'[d] = {}
  BY <1>3, NothingDue
<1>6. \A e \in Deals : e # d => Due'[e] = Due[e]
  <2>1. job'[r].deal = NoDeal
    BY <1>3, RespondSound
  <2> QED
    BY <1>1, <2>1, CompleteSafe, ForeignSettled, SentinelAssumption DEF Frame
<1>7. Due' = Due
  BY <1>4, <1>5, <1>6 DEF Due
<1>8. Bargain!Close(d)
  BY <1>2, <1>3, <1>4, <1>7 DEF Bargain!Close
<1> QED
  BY <1>8 DEF Bargain!BarterNext

-----------------------------------------------------------------------------
(* Every step. *)

LEMMA CallBargain ==
  ASSUME TypeOK, TypeOK', ExclusiveClaim, Safe, NEW r \in Requests, Call(r)
  PROVE  [Bargain!BarterNext]_Bargain!barterVars
<1>1. CASE \E u \in Users : \E rt \in RootItems, x \in Holding(u) : CreateDeal(r, u, rt, x)
  BY <1>1, InsertBargain DEF CreateDeal
<1>2. CASE ~\E u \in Users : \E rt \in RootItems, x \in Holding(u) : CreateDeal(r, u, rt, x)
  <2>1. UNCHANGED <<holder, lock, dealVars, propVars>>
    BY <1>2 DEF Call, Chown, CreateProposal, Approve, Withdraw, itemVars
  <2> QED
    BY <2>1, IdleQuiet
<1> QED
  BY <1>1, <1>2

\* The steps of a handler that write neither deals, proposals nor locks.
LEMMA ReadBargain ==
  ASSUME TypeOK, TypeOK', NEW r \in Requests,
         \/ JoinFound(r) \/ ProposeRejected(r) \/ AcceptRejected(r) \/ EnsureWish(r)
         \/ LinkWish(r) \/ CheckAllAccepted(r) \/ ListTransfers(r) \/ Abort(r)
  PROVE  [Bargain!BarterNext]_Bargain!barterVars
<1>1. UNCHANGED <<holder, lock, dealVars, propVars>>
  BY DEF JoinFound, ProposeRejected, AcceptRejected, EnsureWish, LinkWish, CheckAllAccepted,
         ListTransfers, Abort, itemVars
<1> QED
  BY <1>1, IdleQuiet

LEMMA StepBargain ==
  ASSUME TypeOK, TypeOK', ExclusiveClaim, Safe, AllTidy, TransfersPossible,
         NEW r \in Requests, Step(r)
  PROVE  [Bargain!BarterNext]_Bargain!barterVars
<1>1. CASE CreateForClaim(r)
  BY <1>1, InsertBargain DEF CreateForClaim
<1> QED
  BY <1>1, ReadBargain, ProposeBargain, PendingBargain, ConfirmBargain, TransferBargain,
     CompleteBargain
  DEF Step

\* Every step of the service is one of Barter's, or none.
LEMMA NextBargain ==
  ASSUME ClosedChainsUnedited, TypeOK, TypeOK', ExclusiveClaim, Safe, AllTidy, TransfersPossible,
         [Next]_vars
  PROVE  [Bargain!BarterNext]_Bargain!barterVars
<1>1. CASE Environment
  <2>1. AllForeign
    BY <1>1, EnvironmentSafe
  <2>2. holder' = holder
    BY <1>1 DEF Environment, Patch, DeleteWish, PassDeadline, itemVars
  <2> QED
    BY <2>1, <2>2, ForeignQuiet
<1>2. CASE UNCHANGED vars
  BY <1>2, IdleQuiet DEF vars, itemVars
<1> QED
  BY <1>1, <1>2, CallBargain, ReadBargain, StepBargain DEF Next

\* Barter's steps leave possible what is due: nobody agrees on an item that another
\* deal waits for, and an item that moves was due once.
LEMMA MovesStayPossible ==
  ASSUME TypeOK, TransfersPossible, [Bargain!BarterNext]_Bargain!barterVars
  PROVE  TransfersPossible'
<1>0. /\ dstatus = [e \in Deals |-> dstatus[e]] /\ Due = [e \in Deals |-> Due[e]]
      /\ holder = [x \in Items |-> holder[x]]
  BY DEF TypeOK, Types, DealTypes, ItemTypes, Due
<1>1. \A e \in Deals : \A m \in Due[e] :
        /\ m[1] \in Items /\ dstatus[e] = "CONFIRMED" /\ holder[m[1]] = m[2]
        /\ \A f \in Deals : \A n \in Due[f] : n[1] = m[1] => e = f /\ m = n
  BY DueParts DEF TransfersPossible, Bargain!StillPossible, Bargain!Moves
<1>2. ASSUME \A e \in Deals : \A m \in Due'[e] :
               /\ dstatus'[e] = "CONFIRMED" /\ holder'[m[1]] = m[2]
               /\ \A f \in Deals : \A n \in Due'[f] : n[1] = m[1] => e = f /\ m = n
      PROVE  TransfersPossible'
  BY <1>2 DEF TransfersPossible, Bargain!StillPossible
<1>3. ASSUME NEW d \in Deals, Bargain!Open(d) \/ Bargain!Close(d) PROVE TransfersPossible'
  BY <1>0, <1>1, <1>2, <1>3 DEF Bargain!Open, Bargain!Close
<1>4. ASSUME NEW d \in Deals, Bargain!Agree(d) PROVE TransfersPossible'
  BY <1>0, <1>1, <1>2, <1>4 DEF Bargain!Agree
<1>5. ASSUME NEW d \in Deals, NEW m \in Due[d], Bargain!Move(d, m) PROVE TransfersPossible'
  BY <1>0, <1>1, <1>2, <1>5 DEF Bargain!Move
<1>6. ASSUME NEW S \in SUBSET Deals, Bargain!Drop(S) PROVE TransfersPossible'
  BY <1>0, <1>1, <1>2, <1>6 DEF Bargain!Drop
<1>7. CASE UNCHANGED Bargain!barterVars
  BY <1>1, <1>2, <1>7 DEF Bargain!barterVars
<1> QED
  BY <1>3, <1>4, <1>5, <1>6, <1>7 DEF Bargain!BarterNext

\* The invariants a step to Barter's rests on.
BargainInv == TypeOK /\ ExclusiveClaim /\ Safe /\ AllTidy

\* They hold as long as no offer of a closed chain is edited.
LEMMA BargainInvariant == Spec /\ [][ClosedChainsUnedited]_vars => []BargainInv
<1>1. TypeOK /\ ExclusiveClaim /\ Safe /\ AllTidy => BargainInv
  BY DEF BargainInv
<1> QED
  BY <1>1, TypeCorrect, LockedItemHasOneClaimant, StaysSafe, StaysTidy, PTL

LEMMA NothingDueAtFirst == ASSUME Init PROVE Due = [d \in Deals |-> {}]
<1>1. \A d \in Deals : Due[d] = {}
  BY NothingDue DEF Init
<1> QED
  BY <1>1 DEF Due

\* The transfers that a confirmed deal has still to make can be made, whatever
\* other requests do and wherever the request that confirmed it was cut off: the
\* items are locked for the deal from the approvals on, if no offer of a closed
\* chain is edited.
THEOREM TransfersStayPossible == Spec /\ [][ClosedChainsUnedited]_vars => []TransfersPossible
<1>1. Init => TransfersPossible
  BY NothingDueAtFirst DEF TransfersPossible, Bargain!StillPossible
<1>2. /\ BargainInv /\ BargainInv' /\ TransfersPossible
      /\ [Next]_vars /\ [ClosedChainsUnedited]_vars
      => TransfersPossible'
  BY NextBargain, StutterUnedited, MovesStayPossible DEF BargainInv
<1> QED
  BY <1>1, <1>2, BargainInvariant, PTL DEF Spec

\* In every execution in which no offer of a closed chain is edited (the service does
\* not see to that) it implements Barter: a confirmed deal has agreed on moves that are its
\* participants' to make and that no other deal counts on, its items move as agreed
\* and once, and it is completed when all of them have moved.
THEOREM ServiceKeepsBargains == Spec /\ [][ClosedChainsUnedited]_vars => KeepsBargains
<1>1. Init => Bargain!BarterInit
  BY NothingDueAtFirst DEF Init, Bargain!BarterInit
<1>2. /\ BargainInv /\ BargainInv' /\ TransfersPossible
      /\ [Next]_vars /\ [ClosedChainsUnedited]_vars
      => [Bargain!BarterNext]_Bargain!barterVars
  BY NextBargain, StutterUnedited DEF BargainInv
<1> QED
  BY <1>1, <1>2, BargainInvariant, TransfersStayPossible, PTL
  DEF Spec, KeepsBargains, Bargain!BarterSpec
=============================================================================
