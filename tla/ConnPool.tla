------------------------------ MODULE ConnPool ------------------------------
(***************************************************************************)
(* The connections of one server process.  Every handler that locks a deal *)
(* (CreateProposal, Approve, WithdrawProposal) keeps one connection of the *)
(* pgxpool for pg_advisory_lock, while it waits for the lock as well, and  *)
(* takes a second one for each of its statements and transactions.  The    *)
(* other handlers take one connection at a time.                           *)
(*                                                                         *)
(* pgxpool and PostgreSQL serve their waiters in the order they came; what *)
(* the statements do is the business of ChainDeals.                        *)
(***************************************************************************)
EXTENDS Naturals, Sequences, FiniteSets, SequencesExt

CONSTANTS
  Requests,    \* the HTTP requests that may be in flight together
  Deals,       \* the deals whose advisory locks they take
  NoDeal,      \* the target of a handler that locks no deal
  MaxConns,    \* pgxpool.Config.MaxConns
  Statements   \* bound: statements of one handler

ASSUME PoolAssumption ==
  /\ IsFiniteSet(Requests) /\ NoDeal \notin Deals
  /\ MaxConns \in Nat \ {0} /\ Statements \in Nat

VARIABLES
  pc,        \* where each handler is
  target,    \* the deal it locks
  left,      \* statements it still has to run
  lockConn,  \* handlers that keep a connection for the advisory lock
  stmtConn,  \* handlers that have a connection for a statement
  poolq,     \* handlers waiting for a connection, in order
  lockq      \* the sessions at a deal's advisory lock, its owner first

vars == <<pc, target, left, lockConn, stmtConn, poolq, lockq>>

Init ==
  /\ pc = [r \in Requests |-> "idle"]
  /\ target = [r \in Requests |-> NoDeal]
  /\ left = [r \in Requests |-> 0]
  /\ lockConn = {} /\ stmtConn = {}
  /\ poolq = <<>>
  /\ lockq = [d \in Deals |-> <<>>]

Used == Cardinality(lockConn) + Cardinality(stmtConn)

Goto(r, step) == pc' = [pc EXCEPT ![r] = step]

\* A queue without r, who waits in it once at most.
Others(q, r) ==
  IF r \in Range(q) THEN RemoveAt(q, CHOOSE i \in DOMAIN q : q[i] = r) ELSE q

-----------------------------------------------------------------------------
(* A handler waits in the pool's queue for each connection. *)

ArriveLocking(r, d) ==
  /\ pc[r] = "idle"
  /\ target' = [target EXCEPT ![r] = d]
  /\ left' = [left EXCEPT ![r] = Statements]
  /\ poolq' = Append(poolq, r)
  /\ Goto(r, "acquire")
  /\ UNCHANGED <<lockConn, stmtConn, lockq>>

ArrivePlain(r) ==
  /\ pc[r] = "idle"
  /\ poolq' = Append(poolq, r)
  /\ Goto(r, "stmt")
  /\ UNCHANGED <<target, left, lockConn, stmtConn, lockq>>

CanGrant(r) == poolq # <<>> /\ Head(poolq) = r /\ Used < MaxConns

GrantLockConn(r) ==
  /\ pc[r] = "acquire" /\ CanGrant(r)
  /\ poolq' = Tail(poolq)
  /\ lockConn' = lockConn \cup {r}
  /\ Goto(r, "lock")
  /\ UNCHANGED <<target, left, stmtConn, lockq>>

GrantStatement(r) ==
  /\ pc[r] = "stmt" /\ CanGrant(r)
  /\ poolq' = Tail(poolq)
  /\ stmtConn' = stmtConn \cup {r}
  /\ Goto(r, "exec")
  /\ UNCHANGED <<target, left, lockConn, lockq>>

-----------------------------------------------------------------------------
(* LockDeal and the statements under it. *)

AskLock(r) ==
  /\ pc[r] = "lock"
  /\ lockq' = [lockq EXCEPT ![target[r]] = Append(@, r)]
  /\ Goto(r, "wait")
  /\ UNCHANGED <<target, left, lockConn, stmtConn, poolq>>

\* Mutant: the lock is asked for, not waited for.
OwnsAnyway(r) == lockq[target[r]] # <<>>

OwnsLock(r) == lockq[target[r]] # <<>> /\ Head(lockq[target[r]]) = r

Locked(r) ==
  /\ pc[r] = "wait" /\ OwnsLock(r)
  /\ Goto(r, "next")
  /\ UNCHANGED <<target, left, lockConn, stmtConn, poolq, lockq>>

NextStatement(r) ==
  /\ pc[r] = "next" /\ left[r] > 0
  /\ left' = [left EXCEPT ![r] = @ - 1]
  /\ poolq' = Append(poolq, r)
  /\ Goto(r, "stmt")
  /\ UNCHANGED <<target, lockConn, stmtConn, lockq>>

Execute(r) ==
  /\ pc[r] = "exec"
  /\ stmtConn' = stmtConn \ {r}
  /\ Goto(r, IF target[r] = NoDeal THEN "idle" ELSE "next")
  /\ UNCHANGED <<target, left, lockConn, poolq, lockq>>

\* Mutant: the connection goes back to the pool without pg_advisory_unlock.
UnlockForgotten(r) ==
  /\ UNCHANGED lockq
  /\ lockConn' = lockConn \ {r}
  /\ target' = [target EXCEPT ![r] = NoDeal]
  /\ left' = [left EXCEPT ![r] = 0]
  /\ Goto(r, "idle")

\* The deferred release: pg_advisory_unlock, then conn.Release.
Unlock(r) ==
  /\ lockq' = [lockq EXCEPT ![target[r]] = Others(@, r)]
  /\ lockConn' = lockConn \ {r}
  /\ target' = [target EXCEPT ![r] = NoDeal]
  /\ left' = [left EXCEPT ![r] = 0]
  /\ Goto(r, "idle")

Return(r) == pc[r] = "next" /\ Unlock(r) /\ UNCHANGED <<stmtConn, poolq>>

-----------------------------------------------------------------------------
(* The client hangs up: the context is cancelled wherever the handler waits. *)

\* Mutant: the connection goes back although its session still asks for the lock.
HangUpAsking(r) ==
  /\ pc[r] \in {"acquire", "lock", "wait"}
  /\ poolq' = Others(poolq, r)
  /\ UnlockForgotten(r)
  /\ UNCHANGED stmtConn

HangUpBeforeLock(r) ==
  /\ pc[r] \in {"acquire", "lock", "wait"}
  /\ poolq' = Others(poolq, r)
  /\ Unlock(r)
  /\ UNCHANGED stmtConn

\* Mutant: a failed statement keeps its connection.
HangUpLeaking(r) ==
  /\ pc[r] \in {"stmt", "exec"}
  /\ poolq' = Others(poolq, r)
  /\ left' = [left EXCEPT ![r] = 0]
  /\ Goto(r, IF target[r] = NoDeal THEN "idle" ELSE "next")
  /\ UNCHANGED <<target, lockConn, stmtConn, lockq>>

\* The statement fails, the handler returns; its release is not cancelled.
HangUpInside(r) ==
  /\ pc[r] \in {"stmt", "exec"}
  /\ poolq' = Others(poolq, r)
  /\ stmtConn' = stmtConn \ {r}
  /\ left' = [left EXCEPT ![r] = 0]
  /\ Goto(r, IF target[r] = NoDeal THEN "idle" ELSE "next")
  /\ UNCHANGED <<target, lockConn, lockq>>

Arrive(r) == ArrivePlain(r) \/ \E d \in Deals : ArriveLocking(r, d)

Proceed(r) ==
  \/ GrantLockConn(r) \/ GrantStatement(r) \/ AskLock(r) \/ Locked(r)
  \/ NextStatement(r) \/ Execute(r) \/ Return(r)

HangUp(r) == HangUpBeforeLock(r) \/ HangUpInside(r)

Next == \E r \in Requests : Arrive(r) \/ Proceed(r) \/ HangUp(r)

Spec == Init /\ [][Next]_vars

\* What can go on does; nobody has to call or to hang up.
FairSpec == Spec /\ \A r \in Requests : WF_vars(Proceed(r))

-----------------------------------------------------------------------------
Steps == {"idle", "acquire", "lock", "wait", "next", "stmt", "exec"}

TypeOK ==
  /\ pc \in [Requests -> Steps]
  /\ target \in [Requests -> Deals \cup {NoDeal}]
  /\ left \in [Requests -> 0 .. Statements]
  /\ lockConn \subseteq Requests /\ stmtConn \subseteq Requests
  /\ poolq \in Seq(Requests)
  /\ lockq \in [Deals -> Seq(Requests)]

\* The connections out of the pool are those of the handlers' steps: a handler
\* keeps one from LockDeal to its release, a second one only while a statement
\* runs, none when it has returned, however it returned.
ConnsMatchSteps ==
  /\ \A r \in Requests :
       /\ pc[r] = "idle" => target[r] = NoDeal
       /\ pc[r] \in {"acquire", "lock", "wait", "next"} => target[r] # NoDeal
  /\ lockConn = {r \in Requests : /\ target[r] # NoDeal
                                  /\ pc[r] \in {"lock", "wait", "next", "stmt", "exec"}}
  /\ stmtConn = {r \in Requests : pc[r] = "exec"}
  /\ Used <= MaxConns

\* The queues hold those who wait, each once, the lock's also who has it: whoever
\* hung up or returned leaves no place behind, in the pool's queue or at a deal's
\* lock, for a connection or the lock to be given to nobody.
QueuesHoldWaiters ==
  /\ IsInjective(poolq)
  /\ Range(poolq) = {r \in Requests : pc[r] \in {"acquire", "stmt"}}
  /\ \A d \in Deals :
       /\ IsInjective(lockq[d])
       /\ Range(lockq[d]) = {r \in Requests : /\ target[r] = d
                                             /\ pc[r] \in {"wait", "next", "stmt", "exec"}}

\* Two handlers are never past the advisory lock of one deal.
DealLockExclusive ==
  \A p, r \in Requests :
    /\ p # r /\ target[p] = target[r] /\ target[p] # NoDeal
    /\ pc[p] \in {"next", "stmt", "exec"}
    => pc[r] \notin {"next", "stmt", "exec"}

\* A handler that waits neither for a connection nor for a deal held by another.
Runs(r) == pc[r] \in {"lock", "next", "exec"} \/ (pc[r] = "wait" /\ OwnsLock(r))

\* Whoever waits for a connection waits for somebody who can go on: a connection
\* is free, or a handler runs that will give its own back.
NotWedged == poolq # <<>> => Used < MaxConns \/ \E r \in Requests : Runs(r)

\* deal/postgres_test.go:424: handlers of different deals do not block each
\* other; when each is alone on its deal, one of them can go on.
DifferentDealsDoNotBlock ==
  (\A p, r \in Requests : p # r /\ target[p] # NoDeal => target[p] # target[r])
    => NotWedged

\* Every request is answered.
Answered == \A r \in Requests : pc[r] # "idle" ~> pc[r] = "idle"
=============================================================================
