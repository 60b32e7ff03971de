---------------------------- MODULE ConnPool_proofs ----------------------------
(* Proofs about ConnPool, for every value of its constants. *)
EXTENDS ConnPool, RemovalLemmas, FiniteSetTheorems, SequenceTheorems, TLAPS

USE DEF Goto

\* The part of the types the accounting of connections needs.
StepTypes ==
  /\ pc \in [Requests -> Steps]
  /\ target \in [Requests -> Deals \cup {NoDeal}]

IInv == StepTypes /\ ConnsMatchSteps

\* A free connection can be given to either side.
LEMMA GrantKeepsBound ==
  ASSUME NEW S \in SUBSET Requests, NEW T \in SUBSET Requests, NEW r \in Requests,
         Cardinality(S) + Cardinality(T) < MaxConns
  PROVE  /\ Cardinality(S \cup {r}) + Cardinality(T) <= MaxConns
         /\ Cardinality(S) + Cardinality(T \cup {r}) <= MaxConns
<1>1. IsFiniteSet(S) /\ IsFiniteSet(T)
  BY PoolAssumption, FS_Subset
<1>2. Cardinality(S) \in Nat /\ Cardinality(T) \in Nat
  BY <1>1, FS_CardinalityType
<1>3. Cardinality(S \cup {r}) \in {Cardinality(S), Cardinality(S) + 1}
  BY <1>1, FS_AddElement, Zenon
<1>4. Cardinality(T \cup {r}) \in {Cardinality(T), Cardinality(T) + 1}
  BY <1>1, FS_AddElement, Zenon
<1>5. MaxConns \in Nat
  BY PoolAssumption
<1> QED
  BY <1>2, <1>3, <1>4, <1>5

\* Giving connections back keeps the bound.
LEMMA ReleaseKeepsBound ==
  ASSUME NEW S \in SUBSET Requests, NEW T \in SUBSET Requests,
         NEW U \in SUBSET S, NEW V \in SUBSET T,
         Cardinality(S) + Cardinality(T) <= MaxConns
  PROVE  Cardinality(U) + Cardinality(V) <= MaxConns
<1>1. IsFiniteSet(S) /\ IsFiniteSet(T)
  BY PoolAssumption, FS_Subset
<1>2. /\ Cardinality(U) <= Cardinality(S) /\ Cardinality(V) <= Cardinality(T)
      /\ Cardinality(U) \in Nat /\ Cardinality(V) \in Nat
      /\ Cardinality(S) \in Nat /\ Cardinality(T) \in Nat
  BY <1>1, FS_Subset, FS_CardinalityType
<1> QED
  BY <1>2, PoolAssumption

\* The invariant holds when nobody has called yet.
LEMMA InitIInv == Init => IInv
  BY PoolAssumption, FS_EmptySet DEF Init, IInv, StepTypes, ConnsMatchSteps, Steps, Used

\* Every step keeps the accounts.
LEMMA NextIInv == IInv /\ [Next]_vars => IInv'
<1> SUFFICES ASSUME IInv, [Next]_vars PROVE IInv'
  OBVIOUS
<1> USE DEF IInv, StepTypes, ConnsMatchSteps, Steps
<1>0. lockConn \in SUBSET Requests /\ stmtConn \in SUBSET Requests
  OBVIOUS
<1>1. CASE UNCHANGED vars
  BY <1>1 DEF vars, Used
<1>2. ASSUME NEW r \in Requests, NEW d \in Deals, ArriveLocking(r, d) PROVE IInv'
  BY <1>2, PoolAssumption DEF ArriveLocking, Used
<1>3. ASSUME NEW r \in Requests, ArrivePlain(r) PROVE IInv'
  BY <1>3 DEF ArrivePlain, Used
<1>4. ASSUME NEW r \in Requests, GrantLockConn(r) PROVE IInv'
  <2>1. Used' <= MaxConns
    BY <1>0, <1>4, GrantKeepsBound DEF GrantLockConn, CanGrant, Used
  <2> QED
    BY <1>4, <2>1 DEF GrantLockConn
<1>5. ASSUME NEW r \in Requests, GrantStatement(r) PROVE IInv'
  <2>1. Used' <= MaxConns
    BY <1>0, <1>5, GrantKeepsBound DEF GrantStatement, CanGrant, Used
  <2> QED
    BY <1>5, <2>1 DEF GrantStatement
<1>6. ASSUME NEW r \in Requests, AskLock(r) \/ Locked(r) \/ NextStatement(r) PROVE IInv'
  BY <1>6 DEF AskLock, Locked, NextStatement, Used
<1>7. ASSUME NEW r \in Requests, Execute(r) \/ HangUpInside(r) PROVE IInv'
  <2>1. Used' <= MaxConns
    <3>1. stmtConn' \in SUBSET stmtConn /\ UNCHANGED lockConn
      BY <1>7 DEF Execute, HangUpInside
    <3> QED
      BY <1>0, <3>1, ReleaseKeepsBound DEF Used
  <2> QED
    BY <1>7, <2>1 DEF Execute, HangUpInside
<1>8. ASSUME NEW r \in Requests, Return(r) \/ HangUpBeforeLock(r) PROVE IInv'
  <2>1. Used' <= MaxConns
    <3>1. lockConn' \in SUBSET lockConn /\ UNCHANGED stmtConn
      BY <1>8 DEF Return, HangUpBeforeLock, Unlock
    <3> QED
      BY <1>0, <3>1, ReleaseKeepsBound DEF Used
  <2> QED
    BY <1>8, <2>1 DEF Return, HangUpBeforeLock, Unlock
<1> QED
  BY <1>1, <1>2, <1>3, <1>4, <1>5, <1>6, <1>7, <1>8 DEF Next, Arrive, Proceed, HangUp

\* The pool is never overdrawn, and a handler that has returned, by whatever
\* path, has given back both its connections.
THEOREM ConnectionsAccounted == Spec => []ConnsMatchSteps
<1>1. IInv => ConnsMatchSteps
  BY DEF IInv
<1> QED
  BY <1>1, InitIInv, NextIInv, PTL DEF Spec

\* Handlers that only wait hold at most one connection each.
LEMMA RoomyNotWedged ==
  ASSUME IInv, MaxConns > Cardinality(Requests)
  PROVE  NotWedged
<1> SUFFICES ASSUME ~(Used < MaxConns), \A r \in Requests : ~Runs(r)
             PROVE  FALSE
  BY DEF NotWedged
<1>1. stmtConn = {} /\ lockConn \subseteq Requests
  BY DEF IInv, ConnsMatchSteps, Runs
<1>2. /\ Cardinality(stmtConn) = 0
      /\ Cardinality(lockConn) <= Cardinality(Requests)
      /\ Cardinality(lockConn) \in Nat /\ Cardinality(Requests) \in Nat
  BY <1>1, PoolAssumption, FS_Subset, FS_EmptySet, FS_CardinalityType
<1> QED
  BY <1>2, PoolAssumption DEF Used

\* With more connections than requests in flight the handlers never all wait
\* for each other's connections.
THEOREM RoomyPoolNeverWedges ==
  MaxConns > Cardinality(Requests) => (Spec => []NotWedged)
<1> SUFFICES ASSUME MaxConns > Cardinality(Requests) PROVE Spec => []NotWedged
  OBVIOUS
<1>1. IInv => NotWedged
  BY RoomyNotWedged
<1> QED
  BY <1>1, InitIInv, NextIInv, PTL DEF Spec

-----------------------------------------------------------------------------
(* Types and the exclusion of the advisory lock. *)

\* Whoever leaves a queue leaves the others in their order.
LEMMA OthersKeepsHead ==
  ASSUME NEW q \in Seq(Requests), NEW r \in Requests
  PROVE  /\ Others(q, r) \in Seq(Requests)
         /\ q # <<>> /\ Head(q) # r
              => Others(q, r) # <<>> /\ Head(Others(q, r)) = Head(q)
<1>1. CASE r \notin Range(q)
  BY <1>1 DEF Others
<1>2. CASE r \in Range(q)
  <2> DEFINE i == CHOOSE j \in DOMAIN q : q[j] = r
  <2>1. i \in DOMAIN q /\ q[i] = r
    BY <1>2 DEF Range
  <2>2. Others(q, r) = RemoveAt(q, i)
    BY <1>2 DEF Others
  <2> HIDE DEF i
  <2>3. ASSUME q # <<>>, Head(q) # r PROVE i # 1
    BY <2>1, <2>3
  <2> QED
    BY <2>1, <2>2, <2>3, RemoveAtType, RemoveAtKeepsHead
<1> QED
  BY <1>1, <1>2

\* Whoever joins a queue joins at its end.
LEMMA AppendKeepsHead ==
  ASSUME NEW q \in Seq(Requests), q # <<>>, NEW r \in Requests
  PROVE  Append(q, r) # <<>> /\ Head(Append(q, r)) = Head(q)
<1>1. Len(q) \in Nat /\ Len(q) > 0
  BY EmptySeq
<1>2. Append(q, r) \in Seq(Requests) /\ Len(Append(q, r)) = Len(q) + 1 /\ Append(q, r)[1] = q[1]
  BY <1>1, AppendProperties
<1>3. Head(q) = q[1] /\ Head(Append(q, r)) = Append(q, r)[1]
  BY <1>2, HeadTailProperties
<1> QED
  BY <1>1, <1>2, <1>3

\* A handler past the lock is the first at its deal, until it releases it.
HoldersFirst ==
  \A r \in Requests :
    target[r] # NoDeal /\ pc[r] \in {"next", "stmt", "exec"} => OwnsLock(r)

QueueInv == TypeOK /\ ConnsMatchSteps /\ HoldersFirst

LEMMA InitQueueInv == Init => TypeOK /\ HoldersFirst
  BY PoolAssumption DEF Init, TypeOK, Steps, HoldersFirst

\* The variables keep their types.
LEMMA NextTypes ==
  ASSUME TypeOK, ConnsMatchSteps, [Next]_vars
  PROVE  TypeOK'
<1> USE PoolAssumption DEF TypeOK, Steps
<1>1. CASE UNCHANGED vars
  BY <1>1 DEF vars
<1>0. \A r \in Requests : Append(poolq, r) \in Seq(Requests)
  OBVIOUS
<1>2. ASSUME NEW r \in Requests, Arrive(r) PROVE TypeOK'
  <2>1. CASE ArrivePlain(r)
    BY <1>0, <2>1 DEF ArrivePlain
  <2>2. ASSUME NEW d \in Deals, ArriveLocking(r, d) PROVE TypeOK'
    <3>1. Statements \in 0 .. Statements
      OBVIOUS
    <3> QED
      BY <1>0, <2>2, <3>1 DEF ArriveLocking
  <2> QED
    BY <1>2, <2>1, <2>2 DEF Arrive
<1>3. ASSUME NEW r \in Requests, GrantLockConn(r) \/ GrantStatement(r) PROVE TypeOK'
  <2>1. Tail(poolq) \in Seq(Requests)
    BY <1>3, HeadTailProperties DEF GrantLockConn, GrantStatement, CanGrant
  <2> QED
    BY <1>3, <2>1 DEF GrantLockConn, GrantStatement
<1>4. ASSUME NEW r \in Requests, AskLock(r) PROVE TypeOK'
  <2>1. target[r] \in Deals
    BY <1>4 DEF AskLock, ConnsMatchSteps
  <2>2. Append(lockq[target[r]], r) \in Seq(Requests)
    BY <2>1
  <2>3. lockq' \in [Deals -> Seq(Requests)]
    BY <1>4, <2>1, <2>2 DEF AskLock
  <2> QED
    BY <1>4, <2>3 DEF AskLock
<1>5. ASSUME NEW r \in Requests, Locked(r) \/ NextStatement(r) PROVE TypeOK'
  <2>1. CASE Locked(r)
    BY <2>1 DEF Locked
  <2>2. CASE NextStatement(r)
    <3>1. left[r] - 1 \in 0 .. Statements
      BY <2>2 DEF NextStatement
    <3> QED
      BY <1>0, <2>2, <3>1 DEF NextStatement
  <2> QED
    BY <1>5, <2>1, <2>2
<1>6. ASSUME NEW r \in Requests, Execute(r) PROVE TypeOK'
  BY <1>6 DEF Execute
<1>7. ASSUME NEW r \in Requests, HangUpInside(r) PROVE TypeOK'
  BY <1>7, OthersKeepsHead DEF HangUpInside
<1>8. ASSUME NEW r \in Requests, Return(r) \/ HangUpBeforeLock(r) PROVE TypeOK'
  <2>1. target[r] \in Deals
    BY <1>8 DEF Return, HangUpBeforeLock, ConnsMatchSteps
  <2>2. Others(lockq[target[r]], r) \in Seq(Requests)
    BY <2>1, OthersKeepsHead
  <2>3. Unlock(r) /\ stmtConn' = stmtConn
    BY <1>8 DEF Return, HangUpBeforeLock
  <2>4. lockq' \in [Deals -> Seq(Requests)]
    BY <2>1, <2>2, <2>3 DEF Unlock
  <2>5. poolq' \in Seq(Requests)
    BY <1>8, OthersKeepsHead DEF Return, HangUpBeforeLock
  <2> QED
    BY <2>3, <2>4, <2>5 DEF Unlock
<1> QED
  BY <1>1, <1>2, <1>3, <1>4, <1>5, <1>6, <1>7, <1>8 DEF Next, Proceed, HangUp

\* Nobody gets past the lock but its first, and nobody overtakes him.
LEMMA NextHoldersFirst ==
  ASSUME QueueInv, [Next]_vars
  PROVE  HoldersFirst'
<1> USE DEF QueueInv, TypeOK, Steps
<1>1. ASSUME UNCHANGED <<pc, target, lockq>> PROVE HoldersFirst'
  BY <1>1 DEF HoldersFirst, OwnsLock
<1>2. ASSUME NEW r \in Requests, Arrive(r) PROVE HoldersFirst'
  BY <1>2 DEF Arrive, ArrivePlain, ArriveLocking, HoldersFirst, OwnsLock, ConnsMatchSteps
<1>3. ASSUME NEW r \in Requests, UNCHANGED <<target, lockq>>,
             pc[r] \in {"acquire", "stmt", "next", "exec"},
             \A p \in Requests \ {r} : pc'[p] = pc[p],
             pc[r] = "acquire" => pc'[r] = "lock"
      PROVE  HoldersFirst'
  BY <1>3 DEF HoldersFirst, OwnsLock
<1>4. ASSUME NEW r \in Requests,
             GrantLockConn(r) \/ GrantStatement(r) \/ NextStatement(r) \/ Execute(r) \/ HangUpInside(r)
      PROVE  HoldersFirst'
  BY <1>3, <1>4 DEF GrantLockConn, GrantStatement, NextStatement, Execute, HangUpInside
<1>5. ASSUME NEW r \in Requests, Locked(r) PROVE HoldersFirst'
  BY <1>5 DEF Locked, HoldersFirst, OwnsLock
<1>6. ASSUME NEW r \in Requests, AskLock(r) PROVE HoldersFirst'
  <2> SUFFICES ASSUME NEW p \in Requests,
                      target'[p] # NoDeal, pc'[p] \in {"next", "stmt", "exec"}
               PROVE  OwnsLock(p)'
    BY DEF HoldersFirst
  <2>1. p # r /\ OwnsLock(p) /\ target'[p] = target[p] /\ target[p] \in Deals
    BY <1>6 DEF AskLock, HoldersFirst
  <2>2. \/ lockq'[target[p]] = lockq[target[p]]
        \/ lockq'[target[p]] = Append(lockq[target[p]], r)
    BY <1>6, <2>1 DEF AskLock
  <2>3. lockq[target[p]] \in Seq(Requests) /\ lockq[target[p]] # <<>>
    BY <2>1 DEF OwnsLock
  <2>4. lockq'[target[p]] # <<>> /\ Head(lockq'[target[p]]) = Head(lockq[target[p]])
    <3>1. /\ Append(lockq[target[p]], r) # <<>>
          /\ Head(Append(lockq[target[p]], r)) = Head(lockq[target[p]])
      BY <2>3, AppendKeepsHead
    <3> QED
      BY <2>2, <2>3, <3>1
  <2> QED
    BY <2>1, <2>4 DEF OwnsLock
<1>7. ASSUME NEW r \in Requests, Return(r) \/ HangUpBeforeLock(r) PROVE HoldersFirst'
  <2> SUFFICES ASSUME NEW p \in Requests,
                      target'[p] # NoDeal, pc'[p] \in {"next", "stmt", "exec"}
               PROVE  OwnsLock(p)'
    BY DEF HoldersFirst
  <2>0. Unlock(r)
    BY <1>7 DEF Return, HangUpBeforeLock
  <2>1. p # r /\ OwnsLock(p) /\ target'[p] = target[p] /\ target[p] \in Deals
    BY <2>0 DEF Unlock, HoldersFirst
  <2>2. \/ lockq'[target[p]] = lockq[target[p]]
        \/ lockq'[target[p]] = Others(lockq[target[p]], r)
    BY <2>0, <2>1 DEF Unlock
  <2>3. lockq[target[p]] \in Seq(Requests) /\ lockq[target[p]] # <<>>
        /\ Head(lockq[target[p]]) = p
    BY <2>1 DEF OwnsLock
  <2>4. lockq'[target[p]] # <<>> /\ Head(lockq'[target[p]]) = Head(lockq[target[p]])
    BY <2>1, <2>2, <2>3, OthersKeepsHead
  <2> QED
    BY <2>1, <2>3, <2>4 DEF OwnsLock
<1> QED
  BY <1>1, <1>2, <1>4, <1>5, <1>6, <1>7 DEF Next, Proceed, HangUp, vars

LEMMA QueueInvariant == Spec => []QueueInv
<1>1. QueueInv /\ [Next]_vars => (TypeOK /\ HoldersFirst)'
  BY NextTypes, NextHoldersFirst DEF QueueInv
<1> QED
  BY <1>1, InitQueueInv, ConnectionsAccounted, PTL DEF QueueInv, Spec

\* Every variable keeps its type, however handlers wait, hang up and return.
THEOREM PoolTypes == Spec => []TypeOK
<1>1. QueueInv => TypeOK
  BY DEF QueueInv
<1> QED
  BY <1>1, QueueInvariant, PTL

\* Two handlers are never past the advisory lock of one deal: both would be the
\* first in its queue.
THEOREM DealLockExcludes == Spec => []DealLockExclusive
<1>1. QueueInv => DealLockExclusive
  BY DEF QueueInv, HoldersFirst, OwnsLock, DealLockExclusive
<1> QED
  BY <1>1, QueueInvariant, PTL

-----------------------------------------------------------------------------
(* Who is in the queues. *)

\* Whoever joins a queue is in it once, if he was not there.
LEMMA AppendOnce ==
  ASSUME NEW q \in Seq(Requests), NEW r \in Requests, IsInjective(q), r \notin Range(q)
  PROVE  IsInjective(Append(q, r)) /\ Range(Append(q, r)) = Range(q) \cup {r}
<1> DEFINE p == Append(q, r)
<1>1. /\ p \in Seq(Requests) /\ Len(p) = Len(q) + 1 /\ p[Len(q) + 1] = r
      /\ \A i \in 1 .. Len(q) : p[i] = q[i]
  BY AppendProperties
<1> HIDE DEF p
<1>2. DOMAIN p = DOMAIN q \cup {Len(q) + 1} /\ Len(q) + 1 \notin DOMAIN q
  BY <1>1
<1>3. \A i \in DOMAIN q : p[i] = q[i] /\ q[i] # r
  BY <1>1 DEF Range
<1>4. IsInjective(p)
  BY <1>1, <1>2, <1>3 DEF IsInjective
<1>5. Range(p) = Range(q) \cup {r}
  BY <1>1, <1>2, <1>3 DEF Range
<1> QED
  BY <1>4, <1>5 DEF p

\* Who is served leaves, the others stay.
LEMMA TailOnce ==
  ASSUME NEW q \in Seq(Requests), q # <<>>, IsInjective(q)
  PROVE  IsInjective(Tail(q)) /\ Range(Tail(q)) = Range(q) \ {Head(q)}
<1> DEFINE p == Tail(q)
<1>1. /\ p \in Seq(Requests) /\ Len(p) = Len(q) - 1 /\ Head(q) = q[1]
      /\ \A i \in 1 .. Len(p) : p[i] = q[i + 1]
  BY HeadTailProperties
<1> HIDE DEF p
<1>2. \A i \in DOMAIN p : i + 1 \in DOMAIN q /\ i + 1 # 1 /\ p[i] = q[i + 1]
  BY <1>1
<1>3. 1 \in DOMAIN q
  BY EmptySeq
<1>4. IsInjective(p)
  BY <1>1, <1>2 DEF IsInjective
<1>5. \A i \in DOMAIN q \ {1} : i - 1 \in DOMAIN p /\ p[i - 1] = q[i]
  BY <1>1
<1>6. Range(p) = Range(q) \ {q[1]}
  BY <1>2, <1>3, <1>5 DEF Range, IsInjective
<1> QED
  BY <1>1, <1>4, <1>6 DEF p

\* And who hangs up or returns leaves, wherever he is.
LEMMA OthersOnce ==
  ASSUME NEW q \in Seq(Requests), NEW r \in Requests, IsInjective(q)
  PROVE  IsInjective(Others(q, r)) /\ Range(Others(q, r)) = Range(q) \ {r}
<1>1. CASE r \notin Range(q)
  BY <1>1 DEF Others
<1>2. CASE r \in Range(q)
  <2> DEFINE i == CHOOSE j \in DOMAIN q : q[j] = r
  <2>1. i \in DOMAIN q /\ q[i] = r
    BY <1>2 DEF Range
  <2>2. Others(q, r) = RemoveAt(q, i)
    BY <1>2 DEF Others
  <2> HIDE DEF i
  <2> QED
    BY <2>1, <2>2, RemoveAtInjective
<1> QED
  BY <1>1, <1>2

\* Those who should be in a queue.
PoolWaiters == {r \in Requests : pc[r] \in {"acquire", "stmt"}}
Sessions(d) == {r \in Requests : target[r] = d /\ pc[r] \in {"wait", "next", "stmt", "exec"}}

\* The two halves of the invariant.
PoolQueueFits == IsInjective(poolq) /\ Range(poolq) = PoolWaiters
LockQueueFits(d) == IsInjective(lockq[d]) /\ Range(lockq[d]) = Sessions(d)

\* Every step keeps the pool's queue to those who wait for a connection.
LEMMA NextPoolQueue ==
  ASSUME QueueInv, PoolQueueFits, [Next]_vars
  PROVE  PoolQueueFits'
<1> USE DEF QueueInv, TypeOK, Steps, PoolQueueFits, PoolWaiters
<1>1. ASSUME NEW r \in Requests, pc[r] \notin {"acquire", "stmt"}, poolq' = Append(poolq, r),
             \A p \in Requests \ {r} : pc'[p] = pc[p], pc'[r] \in {"acquire", "stmt"}
      PROVE  PoolQueueFits'
  <2>1. IsInjective(poolq') /\ Range(poolq') = Range(poolq) \cup {r}
    BY <1>1, AppendOnce
  <2> QED
    BY <1>1, <2>1
<1>2. ASSUME NEW r \in Requests, Arrive(r) \/ NextStatement(r) PROVE PoolQueueFits'
  BY <1>1, <1>2 DEF Arrive, ArrivePlain, ArriveLocking, NextStatement
<1>3. ASSUME NEW r \in Requests, GrantLockConn(r) \/ GrantStatement(r) PROVE PoolQueueFits'
  <2>1. poolq # <<>> /\ Head(poolq) = r /\ poolq' = Tail(poolq)
    BY <1>3 DEF GrantLockConn, GrantStatement, CanGrant
  <2>2. IsInjective(poolq') /\ Range(poolq') = Range(poolq) \ {r}
    BY <2>1, TailOnce
  <2> QED
    BY <1>3, <2>2 DEF GrantLockConn, GrantStatement
<1>4. ASSUME NEW r \in Requests, HangUp(r) PROVE PoolQueueFits'
  <2>1. IsInjective(poolq') /\ Range(poolq') = Range(poolq) \ {r}
    BY <1>4, OthersOnce DEF HangUp, HangUpBeforeLock, HangUpInside
  <2> QED
    BY <1>4, <2>1 DEF HangUp, HangUpBeforeLock, HangUpInside, Unlock
<1>5. ASSUME NEW r \in Requests, AskLock(r) \/ Locked(r) \/ Execute(r) \/ Return(r) PROVE PoolQueueFits'
  BY <1>5 DEF AskLock, Locked, Execute, Return, Unlock
<1> QED
  BY <1>2, <1>3, <1>4, <1>5 DEF Next, Proceed, vars

\* And the queue of each deal's lock to those who have it or wait for it.
LEMMA NextLockQueue ==
  ASSUME QueueInv, NEW d \in Deals, LockQueueFits(d), [Next]_vars
  PROVE  LockQueueFits(d)'
<1> USE DEF QueueInv, TypeOK, Steps, LockQueueFits, Sessions
<1>0. d # NoDeal
  BY PoolAssumption
<1>1. ASSUME NEW r \in Requests, AskLock(r) PROVE LockQueueFits(d)'
  <2>1. CASE target[r] = d
    <3>1. lockq'[d] = Append(lockq[d], r)
      BY <1>1, <2>1 DEF AskLock
    <3>2. IsInjective(lockq'[d]) /\ Range(lockq'[d]) = Range(lockq[d]) \cup {r}
      BY <1>1, <3>1, AppendOnce DEF AskLock
    <3> QED
      BY <1>1, <2>1, <3>2 DEF AskLock
  <2>2. CASE target[r] # d
    BY <1>1, <2>2 DEF AskLock
  <2> QED
    BY <2>1, <2>2
<1>2. ASSUME NEW r \in Requests, Unlock(r), target[r] # NoDeal PROVE LockQueueFits(d)'
  <2>1. CASE target[r] = d
    <3>1. lockq'[d] = Others(lockq[d], r)
      BY <1>2, <2>1 DEF Unlock
    <3>2. IsInjective(lockq'[d]) /\ Range(lockq'[d]) = Range(lockq[d]) \ {r}
      BY <3>1, OthersOnce
    <3> QED
      BY <1>2, <2>1, <3>2 DEF Unlock
  <2>2. CASE target[r] # d
    BY <1>0, <1>2, <2>2 DEF Unlock
  <2> QED
    BY <2>1, <2>2
<1>3. ASSUME NEW r \in Requests, Return(r) \/ HangUpBeforeLock(r) PROVE LockQueueFits(d)'
  BY <1>2, <1>3 DEF Return, HangUpBeforeLock, ConnsMatchSteps
<1>4. ASSUME NEW r \in Requests, Arrive(r) PROVE LockQueueFits(d)'
  BY <1>0, <1>4 DEF Arrive, ArrivePlain, ArriveLocking, ConnsMatchSteps
<1>5. ASSUME NEW r \in Requests,
             \/ GrantLockConn(r) \/ GrantStatement(r) \/ Locked(r) \/ NextStatement(r)
             \/ Execute(r) \/ HangUpInside(r)
      PROVE  LockQueueFits(d)'
  <2>1. lockq' = lockq /\ target' = target
    BY <1>5 DEF GrantLockConn, GrantStatement, Locked, NextStatement, Execute, HangUpInside
  <2>2. Sessions(d)' = Sessions(d)
    <3>1. CASE GrantLockConn(r)
      BY <3>1 DEF GrantLockConn, Goto
    <3>2. CASE GrantStatement(r) \/ Locked(r) \/ NextStatement(r)
      BY <3>2 DEF GrantStatement, Locked, NextStatement, Goto
    <3>3. CASE Execute(r) \/ HangUpInside(r)
      BY <1>0, <3>3 DEF Execute, HangUpInside, Goto
    <3> QED
      BY <1>5, <3>1, <3>2, <3>3
  <2> HIDE DEF Sessions
  <2> QED
    BY <2>1, <2>2
<1>6. CASE UNCHANGED vars
  BY <1>6 DEF vars
<1> HIDE DEF QueueInv, TypeOK, Steps, LockQueueFits, Sessions
<1> QED
  BY <1>1, <1>3, <1>4, <1>5, <1>6 DEF Next, Proceed, HangUp

\* Nobody keeps a place in a queue that he does not wait in, however he left: by
\* being served, by returning or by hanging up.
THEOREM NobodyQueuedInVain == Spec => []QueuesHoldWaiters
<1>1. QueuesHoldWaiters <=> PoolQueueFits /\ \A d \in Deals : LockQueueFits(d)
  BY DEF QueuesHoldWaiters, PoolQueueFits, PoolWaiters, LockQueueFits, Sessions
<1>2. Init => QueuesHoldWaiters
  BY DEF Init, QueuesHoldWaiters, IsInjective, Range
<1>3. QueueInv /\ QueuesHoldWaiters /\ [Next]_vars => QueuesHoldWaiters'
  <2> SUFFICES ASSUME QueueInv, QueuesHoldWaiters, [Next]_vars PROVE QueuesHoldWaiters'
    OBVIOUS
  <2>1. PoolQueueFits' /\ \A d \in Deals : LockQueueFits(d)'
    BY <1>1, NextPoolQueue, NextLockQueue
  <2> QED
    BY <2>1 DEF QueuesHoldWaiters, PoolQueueFits, PoolWaiters, LockQueueFits, Sessions
<1> QED
  BY <1>2, <1>3, QueueInvariant, PTL DEF Spec
=============================================================================
