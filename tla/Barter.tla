-------------------------------- MODULE Barter --------------------------------
(***************************************************************************)
(* What the barter service promises of the chains it runs, with nothing of *)
(* how: no proposals, approvals, locks or requests.  A deal that is        *)
(* confirmed has agreed on moves, each of an item by the one who holds it, *)
(* and no other deal counts on these items.  Items then move one by one,   *)
(* only as agreed, and the deal is completed when all have moved.          *)
(***************************************************************************)

CONSTANTS
  Users, Items, Deals,
  InitHolder             \* [Items -> Users]

VARIABLES
  holder,                \* who has which item
  status,                \* of the deals
  due                    \* what a deal has agreed on and not moved yet

barterVars == <<holder, status, due>>

\* An item, who gives it and who gets it.
Moves == Items \X Users \X Users

Open(d) ==
  /\ status[d] = "none" /\ status' = [status EXCEPT ![d] = "PENDING"]
  /\ UNCHANGED <<holder, due>>

\* Everybody gives one item, which he has and which nobody else's deal waits for.
Agree(d) ==
  /\ status[d] = "PENDING" /\ status' = [status EXCEPT ![d] = "CONFIRMED"]
  /\ due' = [due EXCEPT ![d] = due'[d]]
  /\ due'[d] # {} /\ due'[d] \subseteq Moves
  /\ \A m, n \in due'[d] : m[1] = n[1] \/ m[2] = n[2] => m = n
  /\ \A m \in due'[d] : /\ holder[m[1]] = m[2]
                        /\ \A e \in Deals : \A n \in due[e] : n[1] # m[1]
  /\ UNCHANGED holder

Move(d, m) ==
  /\ status[d] = "CONFIRMED" /\ m \in due[d]
  /\ holder' = [holder EXCEPT ![m[1]] = m[3]]
  /\ due' = [due EXCEPT ![d] = @ \ {m}]
  /\ UNCHANGED status

Close(d) ==
  /\ status[d] = "CONFIRMED" /\ due[d] = {}
  /\ status' = [status EXCEPT ![d] = "COMPLETED"]
  /\ UNCHANGED <<holder, due>>

\* One deal's agreement may be the end of several others.
Drop(S) ==
  /\ S # {} /\ \A d \in S : status[d] = "PENDING"
  /\ status' = [d \in Deals |-> IF d \in S THEN "CANCELLED" ELSE status[d]]
  /\ UNCHANGED <<holder, due>>

BarterInit ==
  /\ holder = InitHolder
  /\ status = [d \in Deals |-> "none"] /\ due = [d \in Deals |-> {}]

BarterNext ==
  \/ \E d \in Deals : Open(d) \/ Agree(d) \/ Close(d) \/ \E m \in due[d] : Move(d, m)
  \/ \E S \in SUBSET Deals : Drop(S)

BarterSpec == BarterInit /\ [][BarterNext]_barterVars

\* Whatever else happens, each move still due can be made: the item is with its
\* giver, and no other move waits for it.
StillPossible ==
  \A d \in Deals : \A m \in due[d] :
    /\ status[d] = "CONFIRMED" /\ holder[m[1]] = m[2]
    /\ \A e \in Deals : \A n \in due[e] : n[1] = m[1] => d = e /\ m = n
=============================================================================
