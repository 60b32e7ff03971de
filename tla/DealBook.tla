------------------------------- MODULE DealBook -------------------------------
(***************************************************************************)
(* What the web client's deals promise, with nothing of how they are kept: *)
(* no chains, tabs, timers or storage.  A deal promises items.  While it   *)
(* is pending it may gain items; once agreed its items are locked, and     *)
(* only then; while it is alive, an item it promises may be with somebody  *)
(* else than its author; when it is dropped its items go back.             *)
(***************************************************************************)
EXTENDS Naturals, Sequences

CONSTANT Goods          \* every item there may be

VARIABLES
  book,    \* the deals in the order they were opened
  shelf,   \* the items on show
  locked,  \* the items on show that cannot be offered, edited or deleted
  away     \* the items on show that are not with their author

bookVars == <<book, shelf, locked, away>>

Promised(b, statuses) ==
  UNION {b[k].gives : k \in {j \in DOMAIN b : b[j].status \in statuses}}

LockAgreed == locked' = Promised(book', {"ACTIVE"}) \cap shelf'

\* Nobody but the holders of S changes.
HandOver(S) == away \ S \subseteq away' /\ away' \subseteq away \cup (S \cap shelf)

Open(S) ==
  /\ book' = Append(book, [status |-> "PENDING", gives |-> S])
  /\ HandOver(S) /\ LockAgreed
  /\ UNCHANGED shelf

Grow(k, i) ==
  /\ book[k].status = "PENDING"
  /\ book' = [book EXCEPT ![k] = [status |-> "PENDING", gives |-> @.gives \cup {i}]]
  /\ HandOver({i}) /\ LockAgreed
  /\ UNCHANGED shelf

Agree(k) ==
  /\ book[k].status = "PENDING"
  /\ book' = [book EXCEPT ![k] = [status |-> "ACTIVE", gives |-> @.gives]]
  /\ LockAgreed
  /\ UNCHANGED <<shelf, away>>

Drop(k) ==
  /\ book[k].status # "CANCELLED"
  /\ book' = [book EXCEPT ![k] = [status |-> "CANCELLED", gives |-> @.gives]]
  /\ away' = away \ book[k].gives
  /\ LockAgreed
  /\ UNCHANGED shelf

Wipe ==
  /\ book' = <<>> /\ locked' = {} /\ away' = {}
  /\ UNCHANGED shelf

Withdraw(i) ==
  /\ i \in shelf \ locked
  /\ shelf' = shelf \ {i} /\ away' = away \ {i}
  /\ UNCHANGED <<book, locked>>

\* What was withdrawn is on show again.
Restock ==
  /\ shelf \subseteq shelf'
  /\ LockAgreed
  /\ UNCHANGED <<book, away>>

BookInit == book = <<>> /\ shelf \subseteq Goods /\ locked = {} /\ away = {}

BookNext ==
  \/ \E S \in SUBSET Goods : Open(S)
  \/ \E k \in DOMAIN book : Agree(k) \/ Drop(k) \/ \E i \in Goods : Grow(k, i)
  \/ Wipe \/ Restock
  \/ \E i \in Goods : Withdraw(i)

BookSpec == BookInit /\ [][BookNext]_bookVars
=============================================================================
