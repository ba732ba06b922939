------------------------- MODULE ConnectionPoolProofs -------------------------
(* Theorems about ConnectionPool for every set of hosts, targets and tasks *)
(* and every pool size.                                                    *)
EXTENDS ConnectionPool, FiniteSetTheorems, SequenceTheorems, TLAPS

\* What the other lemmas use of TypeOK once it is expanded.
USE DEF Conns, NoConn, Idle, Unopened

-----------------------------------------------------------------------------
(* Type correctness.                                                       *)

\* Loading hosts.yaml gives a registry.
LEMMA LoadedRegistryType ==
  ASSUME TypeOK
  PROVE  LoadedRegistry \in [Hosts -> Targets \cup {None}]
  BY YamlAssumption DEF TypeOK, LoadedRegistry

\* A connection that was opened, or that is pooled, is a connection.
LEMMA OpenedType ==
  ASSUME TypeOK
  PROVE  /\ opened \in Nat
         /\ 1..opened \subseteq Conns
         /\ \A h \in Hosts : pool[h] \subseteq Conns
         /\ \A t \in Tasks : task[t].st = "holding" => task[t].conn \in Conns
  BY BoundsAssumption DEF TypeOK

\* Counting one more use, in use or lost, or closing, leaves a connection.
LEMMA ConnectionUpdateType ==
  ASSUME NEW f \in [Conns -> Connection], NEW c \in Conns
  PROVE  /\ [f EXCEPT ![c].inUse = @ + 1] \in [Conns -> Connection]
         /\ [f EXCEPT ![c].inUse = IF @ > 0 THEN @ - 1 ELSE 0] \in [Conns -> Connection]
         /\ [f EXCEPT ![c].lost = @ + 1] \in [Conns -> Connection]
         /\ [f EXCEPT ![c].alive = FALSE] \in [Conns -> Connection]
<1>1. f[c] \in Connection
  OBVIOUS
<1>2. f[c].inUse \in Nat /\ f[c].lost \in Nat
  BY <1>1 DEF Connection
<1>3. [f[c] EXCEPT !.inUse = @ + 1] \in Connection
  BY <1>1, <1>2 DEF Connection
<1>4. [f[c] EXCEPT !.inUse = IF @ > 0 THEN @ - 1 ELSE 0] \in Connection
  BY <1>1, <1>2 DEF Connection
<1>5. [f[c] EXCEPT !.lost = @ + 1] \in Connection
  BY <1>1, <1>2 DEF Connection
<1>6. [f[c] EXCEPT !.alive = FALSE] \in Connection
  BY <1>1 DEF Connection
<1>7. QED BY <1>3, <1>4, <1>5, <1>6

\* Cancelling the wait of one task leaves a list of tasks.
LEMMA RemoveAtType ==
  ASSUME NEW S, NEW s \in Seq(S), NEW i \in 1..Len(s)
  PROVE  RemoveAt(s, i) \in Seq(S)
  BY DEF RemoveAt

\* What get_connection does once it is inside the lock keeps every type.
LEMMA UnderLockType ==
  ASSUME TypeOK, NEW t \in Tasks, NEW h \in Hosts, NEW g \in Targets \cup {None},
         UnderLock(t, h, g), queue' \in [Hosts -> Seq(Tasks)],
         registry' \in [Hosts -> Targets \cup {None}], loaded' \in BOOLEAN
  PROVE  TypeOK'
<1>1. CASE Reuse(t, h)
  <2>1. PICK c \in Reusable(h) :
          /\ conn' = [conn EXCEPT ![c].inUse = @ + 1]
          /\ task' = [task EXCEPT ![t] =
                        [st |-> "holding", host |-> h, cfg |-> None, conn |-> c]]
          /\ UNCHANGED <<pool, opened, lock>>
    BY <1>1 DEF Reuse
  <2>2. c \in 1..opened /\ c \in Conns
    BY OpenedType DEF Reusable, TypeOK
  <2>3. conn' \in [Conns -> Connection]
    BY <2>1, <2>2, ConnectionUpdateType DEF TypeOK
  <2>4. task' \in [Tasks -> TaskState]
    BY <2>1, <2>2 DEF TypeOK, TaskState
  <2>5. QED BY <2>1, <2>2, <2>3, <2>4 DEF TypeOK
<1>2. CASE StartConnect(t, h, g)
  <2>1. task' \in [Tasks -> TaskState]
    BY <1>2 DEF StartConnect, TypeOK, TaskState
  <2>2. pool' \in [Hosts -> SUBSET (1..opened)]
    BY <1>2 DEF StartConnect, TypeOK, Pruned
  <2>3. QED BY <1>2, <2>1, <2>2 DEF StartConnect, TypeOK
<1>3. QED BY <1>1, <1>2 DEF UnderLock

\* Every step keeps every type.
LEMMA TypeStep == TypeOK /\ [Next]_vars => TypeOK'
<1> SUFFICES ASSUME TypeOK, [Next]_vars PROVE TypeOK'
  OBVIOUS
<1>0. LoadedRegistry \in [Hosts -> Targets \cup {None}]
  BY LoadedRegistryType
<1>1. CASE ListHosts
  BY <1>0, <1>1 DEF ListHosts, TypeOK, connVars, lockVars
<1>2. ASSUME NEW h \in Hosts, RemoveHost(h) PROVE TypeOK'
  BY <1>0, <1>2 DEF RemoveHost, TypeOK, connVars, lockVars
<1>3. ASSUME NEW h \in Hosts, NEW g \in Targets, RegisterHost(h, g) PROVE TypeOK'
  BY <1>0, <1>3 DEF RegisterHost, TypeOK, connVars, lockVars
<1>4. ASSUME NEW t \in Tasks, NEW h \in Hosts, GetConnection(t, h) PROVE TypeOK'
  <2>1. registry' \in [Hosts -> Targets \cup {None}] /\ loaded' \in BOOLEAN
    BY <1>0, <1>4 DEF GetConnection
  <2>2. LoadedRegistry[h] \in Targets \cup {None}
    BY <1>0
  <2>3. CASE UNCHANGED <<connVars, lockVars, task>>
    BY <2>1, <2>3 DEF TypeOK, connVars, lockVars
  <2>4. CASE UnderLock(t, h, LoadedRegistry[h]) /\ UNCHANGED queue
    BY <2>1, <2>2, <2>4, UnderLockType DEF TypeOK
  <2>5. CASE Enqueue(t, h, LoadedRegistry[h])
    <3>1. task' \in [Tasks -> TaskState]
      BY <2>2, <2>5 DEF Enqueue, TypeOK, TaskState
    <3>2. QED BY <2>1, <2>5, <3>1 DEF Enqueue, TypeOK, connVars
  <2>6. QED BY <1>4, <2>3, <2>4, <2>5 DEF GetConnection
<1>5. ASSUME NEW t \in Tasks, Wake(t) PROVE TypeOK'
  <2>1. task[t].host \in Hosts /\ task[t].cfg \in Targets \cup {None}
    BY <1>5 DEF Wake, TypeOK, TaskState
  <2>2. queue' \in [Hosts -> Seq(Tasks)]
    BY <1>5, <2>1 DEF Wake, TypeOK
  <2>3. QED BY <1>5, <2>1, <2>2, UnderLockType DEF Wake, TypeOK, regVars
<1>6. ASSUME NEW t \in Tasks, CancelWait(t) PROVE TypeOK'
  <2>1. task[t].host \in Hosts
    BY <1>6 DEF CancelWait, TypeOK
  <2>2. queue' \in [Hosts -> Seq(Tasks)]
    BY <1>6, <2>1, RemoveAtType DEF CancelWait, TypeOK
  <2>3. task' \in [Tasks -> TaskState]
    BY <1>6 DEF CancelWait, TypeOK, TaskState
  <2>4. QED BY <1>6, <2>2, <2>3 DEF CancelWait, TypeOK, regVars, connVars
<1>7. ASSUME NEW t \in Tasks, ConnectOk(t) PROVE TypeOK'
  <2>1. /\ task[t].host \in Hosts
        /\ task[t].cfg \in Targets \cup {None}
        /\ opened + 1 \in Conns
        /\ opened' = opened + 1
    BY <1>7, BoundsAssumption DEF ConnectOk, TypeOK, TaskState
  <2>2. task' \in [Tasks -> TaskState]
    BY <1>7, <2>1 DEF ConnectOk, TypeOK, TaskState
  <2>3. conn' \in [Conns -> Connection]
    BY <1>7, <2>1 DEF ConnectOk, TypeOK, Connection
  <2>4. pool' \in [Hosts -> SUBSET (1..opened')]
    BY <1>7, <2>1 DEF ConnectOk, TypeOK
  <2>5. opened' \in 0..MaxConns
    BY <2>1
  <2>6. \A u \in Tasks : /\ task'[u].st # "idle" => task'[u].host \in Hosts
                         /\ task'[u].st = "holding" => task'[u].conn \in 1..opened'
    BY <1>7, <2>1 DEF ConnectOk, TypeOK
  <2>7. QED BY <1>7, <2>2, <2>3, <2>4, <2>5, <2>6 DEF ConnectOk, TypeOK, regVars
<1>8. ASSUME NEW t \in Tasks, ConnectFail(t) PROVE TypeOK'
  BY <1>8 DEF ConnectFail, TypeOK, TaskState, regVars, connVars
<1>9. ASSUME NEW t \in Tasks, Release(t) PROVE TypeOK'
  <2>1. conn' \in [Conns -> Connection]
    BY <1>9, OpenedType, ConnectionUpdateType DEF Release, TypeOK
  <2>2. task' \in [Tasks -> TaskState]
    BY <1>9 DEF Release, TypeOK, TaskState
  <2>3. QED BY <1>9, <2>1, <2>2 DEF Release, TypeOK, regVars, lockVars
<1>10. ASSUME NEW t \in Tasks, Leave(t) PROVE TypeOK'
  <2>1. conn' \in [Conns -> Connection]
    BY <1>10, OpenedType, ConnectionUpdateType DEF Leave, TypeOK
  <2>2. task' \in [Tasks -> TaskState]
    BY <1>10 DEF Leave, TypeOK, TaskState
  <2>3. QED BY <1>10, <2>1, <2>2 DEF Leave, TypeOK, regVars, lockVars
<1>11. ASSUME NEW c \in Conns, Die(c) PROVE TypeOK'
  <2>1. conn' \in [Conns -> Connection]
    BY <1>11, ConnectionUpdateType DEF Die, TypeOK
  <2>2. QED BY <1>11, <2>1 DEF Die, TypeOK, regVars, lockVars
<1>12. CASE UNCHANGED vars
  BY <1>12 DEF vars, TypeOK
<1>13. QED
  BY <1>1, <1>2, <1>3, <1>4, <1>5, <1>6, <1>7, <1>8, <1>9, <1>10, <1>11, <1>12
  DEF Next

\* The program starts with every type right.
LEMMA InitTypeOK == Init => TypeOK
<1>1. ASSUME Init PROVE TypeOK
  <2>1. conn \in [Conns -> Connection]
    BY <1>1 DEF Init, Connection
  <2>2. task \in [Tasks -> TaskState]
    BY <1>1 DEF Init, TaskState
  <2>3. opened \in 0..MaxConns /\ pool \in [Hosts -> SUBSET (1..opened)]
    BY <1>1, BoundsAssumption DEF Init
  <2>4. lock \in [Hosts -> Tasks \cup {None}] /\ queue \in [Hosts -> Seq(Tasks)]
    BY <1>1 DEF Init
  <2>5. \A t \in Tasks : task[t].st = "idle"
    BY <1>1 DEF Init
  <2>6. registry \in [Hosts -> Targets \cup {None}] /\ loaded \in BOOLEAN
    BY <1>1 DEF Init
  <2>7. QED BY <2>1, <2>2, <2>3, <2>4, <2>5, <2>6 DEF TypeOK
<1>2. QED BY <1>1

\* Type correctness of the registry and the pool, in every reachable state.
THEOREM TypeCorrect == Spec => []TypeOK
  BY InitTypeOK, TypeStep, PTL DEF Spec

-----------------------------------------------------------------------------
(* The inductive invariant.  Accounting alone is not inductive: it needs   *)
(* every holder to release at the host that pools its connection           *)
(* (PoolOwner), a connection that is being opened to be fresh (the last    *)
(* conjunct of TypeOK and FreshConn) and a live one to be in one pool.     *)

PoolOwner ==
  \A t \in Tasks, h \in Hosts :
    task[t].st = "holding" /\ task[t].conn \in pool[h] => task[t].host = h

OnlyHoldersHaveConn == \A t \in Tasks : task[t].st # "holding" => task[t].conn = NoConn

FreshConn == \A c \in Conns : c > opened => conn[c] = Unopened

IndInv ==
  /\ TypeOK
  /\ OneConnectPerHost
  /\ NoLiveConnectionForgotten
  /\ PoolOwner
  /\ OnlyHoldersHaveConn
  /\ FreshConn
  /\ Accounting
  /\ Capacity

-----------------------------------------------------------------------------
(* Steps that hand out or give up no connection, and the five that do.     *)

\* The pool may be pruned; holders, connections and counters stay as they are.
Quiet ==
  /\ UNCHANGED <<conn, opened>>
  /\ \A h \in Hosts : pool'[h] = pool[h] \/ pool'[h] = Pruned(h)
  /\ \A t \in Tasks :
       IF task[t].st = "holding" THEN task'[t] = task[t]
       ELSE task'[t].st # "holding" /\ task'[t].conn = NoConn

Take(t, h) == task[t].st # "holding" /\ Reuse(t, h)

\* get_connection inside the lock either takes a pooled connection or is quiet.
LEMMA UnderLockKind ==
  ASSUME IndInv, NEW t \in Tasks, NEW h \in Hosts, NEW g,
         task[t].st # "holding", UnderLock(t, h, g)
  PROVE  Take(t, h) \/ Quiet
<1>1. CASE Reuse(t, h)
  BY <1>1 DEF Take
<1>2. CASE StartConnect(t, h, g)
  BY <1>2 DEF StartConnect, Quiet, IndInv, TypeOK, OnlyHoldersHaveConn
<1>3. QED BY <1>1, <1>2 DEF UnderLock

\* Every step is quiet or one of the five that move a connection.
LEMMA StepKind ==
  ASSUME IndInv, [Next]_vars
  PROVE  \/ Quiet
         \/ \E t \in Tasks, h \in Hosts : Take(t, h)
         \/ \E t \in Tasks : ConnectOk(t) \/ Release(t) \/ Leave(t)
         \/ \E c \in Conns : Die(c)
<1> USE DEF IndInv, Quiet, OnlyHoldersHaveConn
<1>1. CASE UNCHANGED <<connVars, task>>
  BY <1>1 DEF connVars
<1>2. ASSUME NEW t \in Tasks, NEW h \in Hosts, GetConnection(t, h)
      PROVE  Take(t, h) \/ Quiet
  <2>1. CASE UNCHANGED <<connVars, lockVars, task>>
    BY <2>1 DEF connVars
  <2>2. CASE UnderLock(t, h, LoadedRegistry[h])
    BY <1>2, <2>2, UnderLockKind DEF GetConnection
  <2>3. CASE Enqueue(t, h, LoadedRegistry[h])
    BY <1>2, <2>3 DEF GetConnection, Enqueue, connVars, TypeOK
  <2>4. QED BY <1>2, <2>1, <2>2, <2>3 DEF GetConnection
<1>3. ASSUME NEW t \in Tasks, Wake(t)
      PROVE  Take(t, task[t].host) \/ Quiet
  BY <1>3, UnderLockKind DEF Wake, TypeOK
<1>4. ASSUME NEW t \in Tasks, CancelWait(t) PROVE Quiet
  BY <1>4 DEF CancelWait, connVars, TypeOK
<1>5. ASSUME NEW t \in Tasks, ConnectFail(t) PROVE Quiet
  BY <1>5 DEF ConnectFail, connVars, TypeOK
<1>6. ASSUME NEW t \in Tasks, Wake(t) PROVE task[t].host \in Hosts
  BY <1>6 DEF Wake, TypeOK
<1>7. QED
  BY <1>1, <1>2, <1>3, <1>4, <1>5, <1>6
  DEF Next, vars, ListHosts, RegisterHost, RemoveHost

-----------------------------------------------------------------------------
(* How those steps move the holders of a connection.                       *)

\* The holders of a connection can be counted: there are finitely many tasks.
LEMMA HoldersFinite ==
  ASSUME NEW c
  PROVE  IsFiniteSet(Holders(c)) /\ Cardinality(Holders(c)) \in Nat
  BY TasksAssumption, FS_Subset, FS_CardinalityType DEF Holders

\* A task that takes c joins its holders and no others.
LEMMA HolderJoins ==
  ASSUME TypeOK, NEW t \in Tasks, NEW h, NEW c \in Conns, task[t].st # "holding",
         task' = [task EXCEPT ![t] =
                    [st |-> "holding", host |-> h, cfg |-> None, conn |-> c]]
  PROVE  /\ Cardinality(Holders(c)') = Cardinality(Holders(c)) + 1
         /\ \A d \in Conns \ {c} : Holders(d)' = Holders(d)
<1>1. Holders(c)' = Holders(c) \cup {t} /\ t \notin Holders(c)
  BY DEF Holders, TypeOK
<1>2. \A d \in Conns \ {c} : Holders(d)' = Holders(d)
  BY DEF Holders, TypeOK
<1>3. QED BY <1>1, <1>2, HoldersFinite, FS_AddElement

\* A task that ends its use of c leaves its holders and no others.
LEMMA HolderLeaves ==
  ASSUME TypeOK, NEW t \in Tasks, NEW c \in Conns, task[t].st = "holding", task[t].conn = c,
         task' = [task EXCEPT ![t] = Idle]
  PROVE  /\ Cardinality(Holders(c)) > 0
         /\ Cardinality(Holders(c)') = Cardinality(Holders(c)) - 1
         /\ \A d \in Conns \ {c} : Holders(d)' = Holders(d)
<1>1. Holders(c)' = Holders(c) \ {t} /\ t \in Holders(c)
  BY DEF Holders, TypeOK
<1>2. \A d \in Conns \ {c} : Holders(d)' = Holders(d)
  BY DEF Holders, TypeOK
<1>3. Cardinality(Holders(c)') = Cardinality(Holders(c)) - 1
  BY <1>1, HoldersFinite, FS_RemoveElement
<1>4. Cardinality(Holders(c)') \in Nat
  BY <1>1, HoldersFinite, FS_Subset, FS_CardinalityType
<1>5. QED BY <1>2, <1>3, <1>4, HoldersFinite

\* A quiet step changes the holders of no connection.
LEMMA QuietHolders ==
  ASSUME Quiet, NEW c
  PROVE  Holders(c)' = Holders(c)
  BY DEF Quiet, Holders

\* The connection about to be opened has no holder and no lost use.
LEMMA NextConnUnheld ==
  ASSUME TypeOK, FreshConn, opened < MaxConns
  PROVE  /\ opened + 1 \in Conns
         /\ Cardinality(Holders(opened + 1)) = 0
         /\ conn[opened + 1].lost = 0
<1>1. opened \in Nat /\ opened + 1 \in Conns
  BY BoundsAssumption DEF TypeOK
<1>2. Holders(opened + 1) = {}
  BY <1>1 DEF Holders, TypeOK
<1>3. QED BY <1>1, <1>2, FS_EmptySet DEF FreshConn

-----------------------------------------------------------------------------
(* Each conjunct of the inductive invariant is kept.                       *)

\* Every step keeps the host's lock with exactly the task that connects.
LEMMA OneConnectStep ==
  ASSUME IndInv, [Next]_vars
  PROVE  OneConnectPerHost'
<1>0. TypeOK /\ OneConnectPerHost
  BY DEF IndInv
<1> USE <1>0, NoneAssumption DEF OneConnectPerHost, TypeOK
<1>1. CASE UNCHANGED <<lock, task>>
  BY <1>1
<1>2. ASSUME NEW t \in Tasks, NEW h \in Hosts, NEW g, UnderLock(t, h, g),
             lock[h] = None, task[t].st \in {"idle", "waiting"}
      PROVE  OneConnectPerHost'
  <2>1. \A k \in Hosts : lock[k] # t
    BY <1>2
  <2>2. \A u \in Tasks \ {t} : task'[u] = task[u]
    BY <1>2 DEF UnderLock, Reuse, StartConnect
  <2>3. CASE Reuse(t, h)
    <3>1. task'[t].st = "holding" /\ lock' = lock
      BY <2>3 DEF Reuse
    <3>2. ASSUME NEW u \in Tasks, NEW k \in Hosts
          PROVE  (task'[u].st = "connecting" /\ task'[u].host = k) <=> lock'[k] = u
      <4>1. CASE u = t
        BY <2>1, <3>1, <4>1
      <4>2. CASE u # t
        <5>1. task'[u] = task[u] /\ (lock'[k] = u <=> lock[k] = u)
          BY <1>2, <2>2, <3>1, <4>2
        <5>2. QED BY <5>1
      <4>3. QED BY <4>1, <4>2
    <3>3. QED BY <3>2
  <2>4. CASE StartConnect(t, h, g)
    <3>1. /\ task'[t].st = "connecting" /\ task'[t].host = h
          /\ lock' = [lock EXCEPT ![h] = t]
      BY <2>4 DEF StartConnect
    <3>2. ASSUME NEW u \in Tasks, NEW k \in Hosts
          PROVE  (task'[u].st = "connecting" /\ task'[u].host = k) <=> lock'[k] = u
      <4>1. CASE u = t
        BY <2>1, <3>1, <4>1
      <4>2. CASE u # t
        <5>1. task'[u] = task[u] /\ (lock'[k] = u <=> lock[k] = u)
          BY <1>2, <2>2, <3>1, <4>2
        <5>2. QED BY <5>1
      <4>3. QED BY <4>1, <4>2
    <3>3. QED BY <3>2
  <2>5. QED BY <1>2, <2>3, <2>4 DEF UnderLock
<1>3. ASSUME NEW t \in Tasks, NEW h \in Hosts, GetConnection(t, h)
      PROVE  OneConnectPerHost'
  <2>1. CASE UnderLock(t, h, LoadedRegistry[h]) /\ LockFree(h)
    BY <1>2, <1>3, <2>1 DEF GetConnection, LockFree
  <2>2. CASE Enqueue(t, h, LoadedRegistry[h])
    <3>1. /\ lock' = lock /\ task[t].st = "idle" /\ task'[t].st = "waiting"
          /\ \A u \in Tasks \ {t} : task'[u] = task[u]
      BY <1>3, <2>2 DEF GetConnection, Enqueue
    <3>2. QED BY <3>1
  <2>3. QED BY <1>1, <1>3, <2>1, <2>2 DEF GetConnection, lockVars
<1>4. ASSUME NEW t \in Tasks, Wake(t) PROVE OneConnectPerHost'
  BY <1>2, <1>4 DEF Wake
<1>5. ASSUME NEW t \in Tasks, CancelWait(t) PROVE OneConnectPerHost'
  BY <1>5 DEF CancelWait
<1>6. ASSUME NEW t \in Tasks, ConnectOk(t) PROVE OneConnectPerHost'
  BY <1>6 DEF ConnectOk
<1>7. ASSUME NEW t \in Tasks, ConnectFail(t) PROVE OneConnectPerHost'
  BY <1>7 DEF ConnectFail
<1>8. ASSUME NEW t \in Tasks, Release(t) \/ Leave(t) PROVE OneConnectPerHost'
  <2>1. lock' = lock /\ task' = [task EXCEPT ![t] = Idle] /\ task[t].st = "holding"
    BY <1>8 DEF Release, Leave, lockVars
  <2>2. QED BY <2>1
<1>9. QED
  BY <1>1, <1>3, <1>4, <1>5, <1>6, <1>7, <1>8
  DEF Next, vars, lockVars, ListHosts, RegisterHost, RemoveHost, Die

\* Every step keeps what is known of pools, holders and unopened connections.
LEMMA BookkeepingStep ==
  ASSUME IndInv, [Next]_vars
  PROVE  /\ NoLiveConnectionForgotten'
         /\ PoolOwner'
         /\ OnlyHoldersHaveConn'
         /\ FreshConn'
<1> USE DEF IndInv, NoLiveConnectionForgotten, PoolOwner, OnlyHoldersHaveConn, FreshConn
<1>0. TypeOK /\ TypeOK' /\ opened \in Nat
  BY TypeStep, OpenedType
<1>1. CASE Quiet
  <2>1. /\ UNCHANGED <<conn, opened>>
        /\ \A h \in Hosts : /\ pool'[h] \subseteq pool[h]
                            /\ \A c \in pool[h] : conn[c].alive => c \in pool'[h]
    BY <1>1 DEF Quiet, Pruned
  <2>2. NoLiveConnectionForgotten' /\ FreshConn'
    BY <2>1
  <2>3. PoolOwner' /\ OnlyHoldersHaveConn'
    BY <1>1, <2>1 DEF Quiet
  <2>4. QED BY <2>2, <2>3
<1>2. ASSUME NEW t \in Tasks, NEW h \in Hosts, Take(t, h)
      PROVE  NoLiveConnectionForgotten' /\ PoolOwner' /\ OnlyHoldersHaveConn' /\ FreshConn'
  <2>1. PICK c \in pool[h] :
          /\ conn[c].alive
          /\ conn' = [conn EXCEPT ![c].inUse = @ + 1]
          /\ task' = [task EXCEPT ![t] =
                        [st |-> "holding", host |-> h, cfg |-> None, conn |-> c]]
          /\ UNCHANGED <<pool, opened>>
    BY <1>2 DEF Take, Reuse, Reusable
  <2>2. c \in Conns /\ c <= opened
    BY <1>0, <2>1, OpenedType DEF TypeOK
  <2>3. \A d \in Conns : conn'[d].alive = conn[d].alive
    BY <1>0, <2>1, <2>2 DEF TypeOK, Connection
  <2>4. \A k \in Hosts : c \in pool[k] => k = h
    BY <2>1, <2>2
  <2>5. PoolOwner'
    BY <1>0, <2>1, <2>4 DEF TypeOK
  <2>6. FreshConn'
    <3>1. \A d \in Conns : d > opened => conn'[d] = conn[d]
      BY <1>0, <2>1, <2>2 DEF TypeOK
    <3>2. QED BY <2>1, <3>1
  <2>7. QED BY <1>0, <2>1, <2>3, <2>5, <2>6 DEF TypeOK
<1>3. ASSUME NEW t \in Tasks, ConnectOk(t)
      PROVE  NoLiveConnectionForgotten' /\ PoolOwner' /\ OnlyHoldersHaveConn' /\ FreshConn'
  <2> DEFINE c == opened + 1
  <2>1. task[t].host \in Hosts /\ c \in Conns /\ \A h \in Hosts : c \notin pool[h]
    BY <1>0, <1>3, NextConnUnheld DEF ConnectOk, TypeOK
  <2>2. /\ pool'[task[t].host] = pool[task[t].host] \cup {c}
        /\ \A h \in Hosts \ {task[t].host} : pool'[h] = pool[h]
        /\ \A d \in Conns \ {c} : conn'[d] = conn[d]
        /\ opened' = c
    BY <1>3, <2>1 DEF ConnectOk, TypeOK
  <2>3. /\ \A u \in Tasks \ {t} : task'[u] = task[u]
        /\ task'[t].st = "holding" /\ task'[t].host = task[t].host /\ task'[t].conn = c
    BY <1>3 DEF ConnectOk, TypeOK
  <2>4. NoLiveConnectionForgotten'
    <3>1. ASSUME NEW d \in Conns, conn'[d].alive
          PROVE  \E h \in Hosts : d \in pool'[h] /\ \A k \in Hosts \ {h} : d \notin pool'[k]
      <4>1. CASE d = c
        BY <2>1, <2>2, <4>1
      <4>2. CASE d # c
        BY <2>1, <2>2, <3>1, <4>2
      <4>3. QED BY <4>1, <4>2
    <3>2. QED BY <3>1
  <2>5. PoolOwner'
    <3>1. \A u \in Tasks : task[u].st = "holding" => task[u].conn # c
      BY <1>0 DEF TypeOK
    <3>2. QED BY <2>1, <2>2, <2>3, <3>1
  <2>6. FreshConn'
    <3>1. ASSUME NEW d \in Conns, d > opened' PROVE conn'[d] = Unopened
      <4>1. d # c /\ d > opened
        BY <1>0, <2>2, <3>1
      <4>2. QED BY <2>2, <4>1
    <3>2. QED BY <3>1
  <2>7. OnlyHoldersHaveConn'
    BY <2>3
  <2>8. QED BY <2>4, <2>5, <2>6, <2>7
<1>4. ASSUME NEW t \in Tasks, Release(t) \/ Leave(t)
      PROVE  NoLiveConnectionForgotten' /\ PoolOwner' /\ OnlyHoldersHaveConn' /\ FreshConn'
  <2>1. task[t].conn \in Conns /\ task[t].conn <= opened
    BY <1>0, <1>4, OpenedType DEF Release, Leave, TypeOK
  <2>2. /\ task' = [task EXCEPT ![t] = Idle]
        /\ UNCHANGED <<pool, opened>>
    BY <1>4 DEF Release, Leave
  <2>3. conn \in [Conns -> Connection]
    BY <1>0 DEF TypeOK
  <2>4. /\ \A d \in Conns : conn'[d].alive = conn[d].alive
        /\ \A d \in Conns \ {task[t].conn} : conn'[d] = conn[d]
    <3>1. CASE Release(t)
      BY <2>1, <2>3, <3>1 DEF Release, Connection
    <3>2. CASE Leave(t)
      BY <2>1, <2>3, <3>2 DEF Leave, Connection
    <3>3. QED BY <1>4, <3>1, <3>2
  <2>5. NoLiveConnectionForgotten'
    BY <2>2, <2>4
  <2>6. FreshConn'
    <3>1. ASSUME NEW d \in Conns, d > opened' PROVE conn'[d] = Unopened
      <4>1. d # task[t].conn /\ d > opened
        BY <1>0, <2>1, <2>2, <3>1
      <4>2. QED BY <2>4, <4>1
    <3>2. QED BY <3>1
  <2>7. PoolOwner' /\ OnlyHoldersHaveConn'
    BY <1>0, <2>2 DEF TypeOK
  <2>8. QED BY <2>5, <2>6, <2>7
<1>5. ASSUME NEW c \in Conns, Die(c)
      PROVE  NoLiveConnectionForgotten' /\ PoolOwner' /\ OnlyHoldersHaveConn' /\ FreshConn'
  <2>1. /\ UNCHANGED <<pool, opened, task>>
        /\ \A d \in Conns \ {c} : conn'[d] = conn[d]
        /\ ~conn'[c].alive
    BY <1>0, <1>5 DEF Die, TypeOK, Connection
  <2>2. c <= opened
    BY <1>0, <1>5 DEF Die, TypeOK
  <2>3. FreshConn'
    <3>1. ASSUME NEW d \in Conns, d > opened' PROVE conn'[d] = Unopened
      <4>1. d # c /\ d > opened
        BY <1>0, <2>1, <2>2, <3>1
      <4>2. QED BY <2>1, <4>1
    <3>2. QED BY <3>1
  <2>4. NoLiveConnectionForgotten' /\ PoolOwner' /\ OnlyHoldersHaveConn'
    BY <2>1
  <2>5. QED BY <2>3, <2>4
<1>6. QED BY <1>1, <1>2, <1>3, <1>4, <1>5, StepKind

\* The counters stay exact and the capacity is kept, whichever task takes the step.
LEMMA CountersStep ==
  ASSUME IndInv, [Next]_vars
  PROVE  Accounting' /\ Capacity'
<1>0. /\ TypeOK /\ PoolOwner /\ FreshConn /\ Accounting /\ Capacity
      /\ TypeOK' /\ opened \in Nat /\ conn \in [Conns -> Connection]
      /\ \A c \in Conns : conn[c].lost \in Nat /\ conn[c].inUse \in Nat
  BY TypeStep, OpenedType DEF IndInv, TypeOK, Connection
<1>1. CASE Quiet
  <2>1. \A c \in Conns : Holders(c)' = Holders(c) /\ conn'[c] = conn[c]
    BY <1>1, QuietHolders DEF Quiet
  <2>2. opened' = opened /\ \A h \in Hosts : pool'[h] \subseteq pool[h]
    BY <1>1 DEF Quiet, Pruned
  <2>3. Accounting'
    BY <1>0, <2>1, <2>2, OpenedType DEF Accounting
  <2>4. Capacity'
    BY <1>0, <2>1, <2>2, OpenedType DEF Capacity
  <2>5. QED BY <2>3, <2>4
<1>2. ASSUME NEW t \in Tasks, NEW h \in Hosts, Take(t, h) PROVE Accounting' /\ Capacity'
  <2>1. PICK c \in Reusable(h) :
          /\ conn' = [conn EXCEPT ![c].inUse = @ + 1]
          /\ task' = [task EXCEPT ![t] =
                        [st |-> "holding", host |-> h, cfg |-> None, conn |-> c]]
          /\ UNCHANGED <<pool, opened>>
    BY <1>2 DEF Take, Reuse
  <2>2. c \in pool[h] /\ c \in Conns /\ conn[c].inUse < PoolSize
    BY <1>0, <2>1, OpenedType DEF Reusable
  <2>3. /\ Cardinality(Holders(c)') = Cardinality(Holders(c)) + 1
        /\ \A d \in Conns \ {c} : Holders(d)' = Holders(d)
    BY <1>0, <1>2, <2>1, <2>2, HolderJoins DEF Take
  <2>4. /\ conn'[c].inUse = conn[c].inUse + 1 /\ conn'[c].lost = conn[c].lost
        /\ \A d \in Conns \ {c} : conn'[d] = conn[d]
    BY <1>0, <2>1, <2>2 DEF Connection
  <2>5. Accounting'
    <3>1. ASSUME NEW k \in Hosts, NEW d \in pool'[k]
          PROVE  conn'[d].inUse = Cardinality(Holders(d)') + conn'[d].lost
      <4>1. d \in pool[k] /\ d \in Conns
        BY <1>0, <2>1, OpenedType
      <4>2. CASE d = c
        BY <1>0, <2>2, <2>3, <2>4, <4>1, <4>2, HoldersFinite DEF Accounting
      <4>3. CASE d # c
        BY <1>0, <2>3, <2>4, <4>1, <4>3 DEF Accounting
      <4>4. QED BY <4>2, <4>3
    <3>2. QED BY <3>1 DEF Accounting
  <2>6. Capacity'
    <3>1. ASSUME NEW d \in 1..opened
          PROVE  Cardinality(Holders(d)') + conn'[d].lost <= PoolSize
      <4>1. CASE d = c
        <5>1. Cardinality(Holders(c)) + conn[c].lost < PoolSize
          BY <1>0, <2>2 DEF Accounting
        <5>2. QED BY <1>0, <2>2, <2>3, <2>4, <4>1, <5>1, HoldersFinite, BoundsAssumption
      <4>2. CASE d # c
        BY <1>0, <2>3, <2>4, <4>2, OpenedType DEF Capacity
      <4>3. QED BY <4>1, <4>2
    <3>2. QED BY <2>1, <3>1 DEF Capacity
  <2>7. QED BY <2>5, <2>6
<1>3. ASSUME NEW t \in Tasks, ConnectOk(t) PROVE Accounting' /\ Capacity'
  <2>1. PICK e \in Conns : e = opened + 1 /\ e = opened' /\ Cardinality(Holders(e)) = 0
    BY <1>0, <1>3, NextConnUnheld DEF ConnectOk
  <2>2. PICK h \in Hosts :
          task' = [task EXCEPT ![t] =
                     [st |-> "holding", host |-> h, cfg |-> None, conn |-> e]]
    BY <1>0, <1>3, <2>1 DEF ConnectOk, TypeOK
  <2>3. /\ Cardinality(Holders(e)') = 1
        /\ \A d \in Conns \ {e} : Holders(d)' = Holders(d)
    <3>1. task[t].st # "holding"
      BY <1>3 DEF ConnectOk
    <3>2. Cardinality(Holders(e)') = Cardinality(Holders(e)) + 1
      BY <1>0, <2>2, <3>1, HolderJoins
    <3>3. \A d \in Conns \ {e} : Holders(d)' = Holders(d)
      BY <1>0, <2>2, <3>1, HolderJoins
    <3>4. QED BY <2>1, <3>2, <3>3
  <2>4. /\ conn'[e].inUse = 1 /\ conn'[e].lost = 0
        /\ \A d \in Conns \ {e} : conn'[d] = conn[d]
    BY <1>0, <1>3, <2>1 DEF ConnectOk, TypeOK
  <2>5. \A k \in Hosts : \A d \in pool'[k] : d # e => d \in pool[k] /\ d \in Conns
    BY <1>0, <1>3, <2>1, OpenedType DEF ConnectOk, TypeOK
  <2>6. Accounting'
    <3>1. ASSUME NEW k \in Hosts, NEW d \in pool'[k]
          PROVE  conn'[d].inUse = Cardinality(Holders(d)') + conn'[d].lost
      <4>1. CASE d = e
        BY <2>3, <2>4, <4>1
      <4>2. CASE d # e
        BY <1>0, <2>3, <2>4, <2>5, <4>2 DEF Accounting
      <4>3. QED BY <4>1, <4>2
    <3>2. QED BY <3>1 DEF Accounting
  <2>7. Capacity'
    <3>1. ASSUME NEW d \in 1..opened'
          PROVE  Cardinality(Holders(d)') + conn'[d].lost <= PoolSize
      <4>1. CASE d = e
        BY <2>3, <2>4, <4>1, BoundsAssumption
      <4>2. CASE d # e
        <5>1. d \in 1..opened /\ d \in Conns
          BY <1>0, <2>1, <4>2, OpenedType
        <5>2. QED BY <1>0, <2>3, <2>4, <4>2, <5>1 DEF Capacity
      <4>3. QED BY <4>1, <4>2
    <3>2. QED BY <3>1 DEF Capacity
  <2>8. QED BY <2>6, <2>7
<1>4. ASSUME NEW t \in Tasks, Release(t) \/ Leave(t) PROVE Accounting' /\ Capacity'
  <2>1. /\ task[t].st = "holding" /\ task' = [task EXCEPT ![t] = Idle]
        /\ UNCHANGED <<pool, opened>>
    BY <1>4 DEF Release, Leave
  <2>2. PICK c \in Conns : c = task[t].conn /\ c <= opened /\ c >= 1
    <3>1. task[t].conn \in 1..opened
      BY <1>0, <2>1 DEF TypeOK
    <3>2. QED BY <1>0, <2>1, <3>1, OpenedType
  <2>3. /\ Cardinality(Holders(c)) > 0
        /\ Cardinality(Holders(c)') = Cardinality(Holders(c)) - 1
        /\ \A d \in Conns \ {c} : Holders(d)' = Holders(d)
    BY <1>0, <2>1, <2>2, HolderLeaves
  <2>4. \A d \in Conns \ {c} : conn'[d] = conn[d]
    BY <1>0, <1>4, <2>2 DEF Release, Leave
  <2>5. /\ conn'[c].lost \in {conn[c].lost, conn[c].lost + 1}
        /\ \A k \in Hosts : c \in pool[k] =>
             conn'[c].inUse - conn'[c].lost = conn[c].inUse - conn[c].lost - 1
    <3>1. CASE Release(t)
      <4>1. conn'[c].lost = conn[c].lost
        BY <1>0, <2>2, <3>1 DEF Release, Connection
      <4>2. ASSUME NEW k \in Hosts, c \in pool[k]
            PROVE  conn'[c].inUse = conn[c].inUse - 1
        <5>1. task[t].host = k /\ conn[c].inUse > 0
          BY <1>0, <2>1, <2>2, <2>3, <4>2, HoldersFinite DEF PoolOwner, Accounting
        <5>2. QED BY <1>0, <2>2, <3>1, <4>2, <5>1 DEF Release, Connection
      <4>3. QED BY <1>0, <4>1, <4>2
    <3>2. CASE Leave(t)
      <4>1. conn'[c].lost = conn[c].lost + 1 /\ conn'[c].inUse = conn[c].inUse
        BY <1>0, <2>2, <3>2 DEF Leave, Connection
      <4>2. QED BY <1>0, <4>1
    <3>3. QED BY <1>4, <3>1, <3>2
  <2>6. conn'[c].inUse \in Nat /\ conn'[c].lost \in Nat
    BY <1>0 DEF TypeOK, Connection
  <2>7. Accounting'
    <3>1. ASSUME NEW k \in Hosts, NEW d \in pool'[k]
          PROVE  conn'[d].inUse = Cardinality(Holders(d)') + conn'[d].lost
      <4>1. d \in pool[k] /\ d \in Conns
        BY <1>0, <2>1, OpenedType
      <4>2. CASE d = c
        <5>1. conn[c].inUse = Cardinality(Holders(c)) + conn[c].lost
          BY <1>0, <4>1, <4>2 DEF Accounting
        <5>2. /\ Cardinality(Holders(c)) \in Nat
              /\ conn[c].inUse \in Nat /\ conn[c].lost \in Nat
          BY <1>0, HoldersFinite DEF TypeOK, Connection
        <5>3. conn'[c].inUse - conn'[c].lost = conn[c].inUse - conn[c].lost - 1
          BY <2>5, <4>1, <4>2
        <5>4. conn'[c].inUse = Cardinality(Holders(c)') + conn'[c].lost
          BY <2>3, <2>6, <5>1, <5>2, <5>3
        <5>5. QED BY <4>2, <5>4
      <4>3. CASE d # c
        BY <1>0, <2>3, <2>4, <4>1, <4>3 DEF Accounting
      <4>4. QED BY <4>2, <4>3
    <3>2. QED BY <3>1 DEF Accounting
  <2>8. Capacity'
    <3>1. ASSUME NEW d \in 1..opened
          PROVE  Cardinality(Holders(d)') + conn'[d].lost <= PoolSize
      <4>1. CASE d = c
        <5>1. Cardinality(Holders(c)) + conn[c].lost <= PoolSize
          BY <1>0, <4>1 DEF Capacity
        <5>2. QED BY <1>0, <2>3, <2>5, <4>1, <5>1, HoldersFinite, BoundsAssumption
      <4>2. CASE d # c
        BY <1>0, <2>3, <2>4, <4>2, OpenedType DEF Capacity
      <4>3. QED BY <4>1, <4>2
    <3>2. QED BY <2>1, <3>1 DEF Capacity
  <2>9. QED BY <2>7, <2>8
<1>5. ASSUME NEW c \in Conns, Die(c) PROVE Accounting' /\ Capacity'
  <2>1. /\ UNCHANGED <<pool, opened, task>>
        /\ \A d \in Conns : conn'[d].inUse = conn[d].inUse /\ conn'[d].lost = conn[d].lost
    BY <1>0, <1>5 DEF Die, Connection
  <2>2. \A d \in Conns : Holders(d)' = Holders(d)
    BY <2>1 DEF Holders
  <2>3. Accounting'
    BY <1>0, <2>1, <2>2, OpenedType DEF Accounting
  <2>4. Capacity'
    BY <1>0, <2>1, <2>2, OpenedType DEF Capacity
  <2>5. QED BY <2>3, <2>4
<1>6. QED BY <1>1, <1>2, <1>3, <1>4, <1>5, StepKind

\* Every step keeps the inductive invariant.
LEMMA IndInvStep == IndInv /\ [Next]_vars => IndInv'
<1> SUFFICES ASSUME IndInv, [Next]_vars PROVE IndInv'
  OBVIOUS
<1>1. TypeOK'
  BY TypeStep DEF IndInv
<1>2. QED BY <1>1, OneConnectStep, BookkeepingStep, CountersStep DEF IndInv

\* The program starts in the inductive invariant.
LEMMA IndInvInit == Init => IndInv
<1> SUFFICES ASSUME Init PROVE IndInv
  OBVIOUS
<1>1. TypeOK
  BY InitTypeOK
<1>2. OneConnectPerHost /\ PoolOwner /\ OnlyHoldersHaveConn
  BY NoneAssumption DEF Init, OneConnectPerHost, PoolOwner, OnlyHoldersHaveConn
<1>3. NoLiveConnectionForgotten /\ FreshConn
  BY DEF Init, NoLiveConnectionForgotten, FreshConn
<1>4. Accounting /\ Capacity
  BY DEF Init, Accounting, Capacity
<1>5. QED BY <1>1, <1>2, <1>3, <1>4 DEF IndInv

\* The inductive invariant holds in every reachable state.
LEMMA Inductive == Spec => []IndInv
  BY IndInvInit, IndInvStep, PTL DEF Spec

-----------------------------------------------------------------------------
(* The theorems.                                                           *)

\* in_use is exact in every reachable state.
THEOREM AccountingHolds == Spec => []Accounting
<1>1. IndInv => Accounting
  BY DEF IndInv
<1>2. QED BY <1>1, Inductive, PTL

\* No connection ever serves more than pool_size uses.
THEOREM CapacityHolds == Spec => []Capacity
<1>1. IndInv => Capacity
  BY DEF IndInv
<1>2. QED BY <1>1, Inductive, PTL

\* A host's lock is held exactly by the task that connects to it.
THEOREM OneConnectPerHostHolds == Spec => []OneConnectPerHost
<1>1. IndInv => OneConnectPerHost
  BY DEF IndInv
<1>2. QED BY <1>1, Inductive, PTL

\* No live connection drops out of the pool.
THEOREM NoLiveConnectionForgottenHolds == Spec => []NoLiveConnectionForgotten
<1>1. IndInv => NoLiveConnectionForgotten
  BY DEF IndInv
<1>2. QED BY <1>1, Inductive, PTL

\* Whatever a task is given is alive when it is given.
THEOREM HandsOutLiveHolds == Spec => HandsOutLive
<1>1. ASSUME IndInv, [Next]_vars, NEW t \in Tasks,
             task[t].st # "holding", task'[t].st = "holding"
      PROVE  conn'[task'[t].conn].alive
  <2>1. conn \in [Conns -> Connection] /\ TypeOK
    BY <1>1 DEF IndInv, TypeOK
  <2>2. ~Quiet
    BY <1>1 DEF Quiet
  <2>3. ASSUME NEW u \in Tasks, NEW h \in Hosts, Take(u, h)
        PROVE  conn'[task'[t].conn].alive
    <3>1. PICK c \in Reusable(h) :
            /\ conn' = [conn EXCEPT ![c].inUse = @ + 1]
            /\ task' = [task EXCEPT ![u] =
                          [st |-> "holding", host |-> h, cfg |-> None, conn |-> c]]
      BY <2>3 DEF Take, Reuse
    <3>2. t = u /\ task'[t].conn = c
      BY <1>1, <2>1, <3>1 DEF TypeOK
    <3>3. c \in Conns /\ conn[c].alive
      BY <2>1, <3>1, OpenedType DEF Reusable
    <3>4. QED BY <2>1, <3>1, <3>2, <3>3 DEF Connection
  <2>4. ASSUME NEW u \in Tasks, ConnectOk(u) PROVE conn'[task'[t].conn].alive
    <3>1. t = u /\ task'[t].conn = opened + 1
      BY <1>1, <2>1, <2>4 DEF ConnectOk, TypeOK
    <3>2. opened + 1 \in Conns
      BY <1>1, <2>4, NextConnUnheld DEF ConnectOk, IndInv
    <3>3. QED BY <2>1, <2>4, <3>1, <3>2 DEF ConnectOk
  <2>5. ASSUME NEW u \in Tasks, Release(u) \/ Leave(u) PROVE FALSE
    BY <1>1, <2>1, <2>5 DEF Release, Leave, TypeOK
  <2>6. ASSUME NEW c \in Conns, Die(c) PROVE FALSE
    BY <1>1, <2>6 DEF Die
  <2>7. QED BY <1>1, <2>2, <2>3, <2>4, <2>5, <2>6, StepKind
<1>2. IndInv /\ [Next]_vars =>
        [\A t \in Tasks :
           task[t].st # "holding" /\ task'[t].st = "holding" => conn'[task'[t].conn].alive]_vars
  BY <1>1
<1>3. QED BY <1>2, Inductive, PTL DEF Spec, HandsOutLive

\* Loading hosts.yaml never overwrites a registration: there is none before it.
THEOREM LoadKeepsRegistrationsHolds == Spec => LoadKeepsRegistrations
<1> DEFINE NothingBefore == ~loaded => \A h \in Hosts : registry[h] = None
           Keeps == loaded' # loaded =>
                      \A h \in Hosts : registry[h] # None => registry'[h] = registry[h]
<1>1. Init => NothingBefore
  BY DEF Init
<1>2. [Next]_vars => loaded' = TRUE \/ UNCHANGED regVars
  BY DEF Next, vars, regVars, ListHosts, RegisterHost, RemoveHost, GetConnection, Wake,
         CancelWait, ConnectOk, ConnectFail, Release, Leave, Die
<1>3. NothingBefore /\ [Next]_vars => NothingBefore'
  BY <1>2 DEF regVars
<1>4. TypeOK /\ NothingBefore /\ [Next]_vars => [Keeps]_vars
  BY <1>2 DEF regVars, TypeOK
<1>5. QED BY <1>1, <1>3, <1>4, TypeCorrect, PTL DEF Spec, LoadKeepsRegistrations

-----------------------------------------------------------------------------
(* The growth of a pool.  While a task connects, every use of the live     *)
(* connections is covered, the newest connection's too: they were all full *)
(* when it found none to reuse, and since then only Leave gives up a use   *)
(* for good and only Die takes a connection away.                          *)

CoveredBut(h, n) ==
  (Cardinality(Pruned(h)) - n) * PoolSize < Cardinality(Tasks) + Cardinality(LostUses(h))

GrowthInv ==
  \A h \in Hosts :
    IF lock[h] # None THEN CoveredBut(h, 0) ELSE Pruned(h) # {} => CoveredBut(h, 1)

Countable(h) ==
  /\ IsFiniteSet(Pruned(h)) /\ Cardinality(Pruned(h)) \in Nat
  /\ IsFiniteSet(LostUses(h)) /\ Cardinality(LostUses(h)) \in Nat
  /\ Cardinality(Tasks) \in Nat

\* What is counted can be counted, before and after a step.
LEMMA GrowthFinite ==
  ASSUME NEW h \in Hosts
  PROVE  (TypeOK => Countable(h)) /\ (TypeOK' => Countable(h)')
<1>1. ASSUME TypeOK PROVE Countable(h)
  <2>1. opened \in Int /\ PoolSize \in Int /\ 1 \in Int
    BY <1>1, OpenedType, BoundsAssumption
  <2>2. IsFiniteSet(1..opened) /\ IsFiniteSet(1..PoolSize)
    BY <2>1, FS_Interval
  <2>3. Pruned(h) \in SUBSET (1..opened)
    BY <1>1 DEF Pruned, TypeOK
  <2>4. IsFiniteSet(Pruned(h))
    BY <2>2, <2>3, FS_Subset
  <2>5. IsFiniteSet(Pruned(h) \X (1..PoolSize))
    BY <2>2, <2>4, FS_Product
  <2>6. LostUses(h) \in SUBSET (Pruned(h) \X (1..PoolSize))
    BY DEF LostUses
  <2>7. IsFiniteSet(LostUses(h))
    BY <2>5, <2>6, FS_Subset
  <2>8. QED BY <2>4, <2>7, TasksAssumption, FS_CardinalityType DEF Countable
<1>2. TypeOK => Countable(h)
  BY <1>1
<1>3. TypeOK' => Countable(h)'
  BY <1>2, PTL
<1>4. QED BY <1>2, <1>3

\* A covered pool stays covered by more uses that are lost, and by fewer
\* connections to cover.
LEMMA CoveredMore ==
  ASSUME TypeOK, TypeOK', NEW h \in Hosts, NEW m \in {0, 1}, NEW n \in {0, 1},
         CoveredBut(h, m),
         Cardinality(Pruned(h)') - n <= Cardinality(Pruned(h)) - m,
         Cardinality(LostUses(h)) <= Cardinality(LostUses(h)')
  PROVE  CoveredBut(h, n)'
<1>1. /\ Cardinality(Pruned(h)) \in Nat /\ Cardinality(Pruned(h)') \in Nat
      /\ Cardinality(LostUses(h)) \in Nat /\ Cardinality(LostUses(h)') \in Nat
      /\ Cardinality(Tasks) \in Nat
  BY GrowthFinite DEF Countable
<1>2. \A a, b \in Int : a <= b => a * PoolSize <= b * PoolSize
  BY BoundsAssumption
<1>3. DEFINE a == Cardinality(Pruned(h)') - n
             b == Cardinality(Pruned(h)) - m
<1>4. a \in Int /\ b \in Int /\ a <= b /\ a * PoolSize <= b * PoolSize
  BY <1>1, <1>2
<1>5. a * PoolSize \in Int /\ b * PoolSize \in Int
  BY <1>4, BoundsAssumption
<1>6. b * PoolSize < Cardinality(Tasks) + Cardinality(LostUses(h))
  BY DEF CoveredBut
<1>7. a * PoolSize < Cardinality(Tasks) + Cardinality(LostUses(h)')
  <2> HIDE DEF a, b
  <2>1. QED BY <1>1, <1>4, <1>5, <1>6
<1>8. QED BY <1>7 DEF CoveredBut

\* If no live connection has a use to spare, each use of each is lost or is one
\* task's, and a task that holds none is left over.
LEMMA AllCovered ==
  ASSUME IndInv, NEW t \in Tasks, task[t].st # "holding", NEW h \in Hosts, Reusable(h) = {}
  PROVE  CoveredBut(h, 0)
<1> DEFINE Slots == Pruned(h) \X (1..PoolSize)
           Used  == Slots \ LostUses(h)
           Hold(c) == CHOOSE f : f \in Bijection(1..Cardinality(Holders(c)), Holders(c))
           give  == [u \in Used |-> Hold(u[1])[u[2] - conn[u[1]].lost]]
<1>0. TypeOK /\ Countable(h) /\ PoolSize \in Nat /\ conn \in [Conns -> Connection]
  BY GrowthFinite, BoundsAssumption DEF IndInv, TypeOK
<1>1. ASSUME NEW c \in Pruned(h)
      PROVE  /\ conn[c].lost \in Nat /\ Cardinality(Holders(c)) \in Nat
             /\ Cardinality(Holders(c)) + conn[c].lost = PoolSize
             /\ Hold(c) \in Bijection(1..Cardinality(Holders(c)), Holders(c))
  <2>1. c \in pool[h] /\ c \in 1..opened /\ c \in Conns
    BY <1>0, <1>1, OpenedType DEF Pruned, TypeOK
  <2>2. conn[c].lost \in Nat /\ conn[c].inUse \in Nat
    BY <1>0, <2>1 DEF Connection
  <2>3. ~(conn[c].inUse < PoolSize)
    BY <1>1, <2>1 DEF Reusable, Pruned
  <2>4. conn[c].inUse = Cardinality(Holders(c)) + conn[c].lost
    BY <2>1 DEF IndInv, Accounting
  <2>5. Cardinality(Holders(c)) + conn[c].lost <= PoolSize
    BY <2>1 DEF IndInv, Capacity
  <2>6. Cardinality(Holders(c)) \in Nat
    BY HoldersFinite
  <2>7. ExistsBijection(1..Cardinality(Holders(c)), Holders(c))
    BY HoldersFinite, FS_CardinalityType
  <2>8. Hold(c) \in Bijection(1..Cardinality(Holders(c)), Holders(c))
    BY <2>7 DEF ExistsBijection
  <2>9. QED BY <1>0, <2>2, <2>3, <2>4, <2>5, <2>6, <2>8
<1>2. ASSUME NEW u \in Used
      PROVE  /\ u[1] \in Pruned(h)
             /\ u[2] - conn[u[1]].lost \in 1..Cardinality(Holders(u[1]))
  <2>1. u[1] \in Pruned(h) /\ u[2] \in 1..PoolSize /\ ~(u[2] <= conn[u[1]].lost)
    BY <1>2 DEF LostUses
  <2>2. /\ conn[u[1]].lost \in Nat /\ Cardinality(Holders(u[1])) \in Nat
        /\ Cardinality(Holders(u[1])) + conn[u[1]].lost = PoolSize
    BY <1>1, <2>1
  <2>3. QED BY <1>0, <2>1, <2>2
<1> HIDE DEF Hold
<1>3. ASSUME NEW u \in Used PROVE give[u] \in Holders(u[1])
  BY <1>1, <1>2 DEF Bijection, Injection
<1>4. ASSUME NEW u \in Used, NEW v \in Used, give[u] = give[v] PROVE u = v
  <2>1. u[1] = v[1]
    BY <1>3, <1>4 DEF Holders
  <2>2. Hold(u[1]) \in Injection(1..Cardinality(Holders(u[1])), Holders(u[1]))
    BY <1>1, <1>2 DEF Bijection
  <2>3. u[2] - conn[u[1]].lost = v[2] - conn[v[1]].lost
    BY <1>2, <1>4, <2>1, <2>2 DEF Injection, IsInjective
  <2>4. u[2] \in Nat /\ v[2] \in Nat /\ conn[u[1]].lost \in Nat
    BY <1>1, <1>2
  <2>5. u[2] = v[2]
    BY <2>1, <2>3, <2>4
  <2>6. QED BY <2>1, <2>5
<1>5. give \in Injection(Used, Tasks \ {t})
  <2>1. give \in [Used -> Tasks \ {t}]
    BY <1>3 DEF Holders
  <2>2. QED BY <1>4, <2>1 DEF Injection, IsInjective
<1>6. Cardinality(Used) <= Cardinality(Tasks \ {t})
  BY <1>5, TasksAssumption, FS_RemoveElement, FS_Injection
<1>7. Cardinality(Tasks \ {t}) = Cardinality(Tasks) - 1
  BY TasksAssumption, FS_RemoveElement
<1>8. /\ IsFiniteSet(Slots)
      /\ Cardinality(Slots) = Cardinality(Pruned(h)) * PoolSize
  <2>1. IsFiniteSet(1..PoolSize) /\ Cardinality(1..PoolSize) = PoolSize
    BY BoundsAssumption, FS_Interval
  <2>2. QED BY <1>0, <2>1, FS_Product DEF Countable
<1>9. Cardinality(Used) = Cardinality(Slots) - Cardinality(LostUses(h))
  <2>1. Slots \cap LostUses(h) = LostUses(h)
    BY DEF LostUses
  <2>2. Cardinality(Used) = Cardinality(Slots) - Cardinality(Slots \cap LostUses(h))
    <3> HIDE DEF Slots
    <3>1. QED BY <1>8, FS_Difference
  <2>3. QED BY <2>1, <2>2
<1>10. Cardinality(Pruned(h)) * PoolSize < Cardinality(Tasks) + Cardinality(LostUses(h))
  <2>1. Cardinality(Slots) \in Nat /\ Cardinality(LostUses(h)) \in Nat /\ Cardinality(Tasks) \in Nat
    BY <1>0, <1>8, FS_CardinalityType DEF Countable
  <2> HIDE DEF Slots, Used
  <2>2. QED BY <1>6, <1>7, <1>8, <1>9, <2>1
<1>11. QED BY <1>0, <1>10 DEF CoveredBut, Countable

\* A step keeps a host's lock with who has it, frees it, or connects with the
\* pool pruned and none of it reusable.
LEMMA LockKind ==
  ASSUME IndInv, [Next]_vars, NEW h \in Hosts
  PROVE  \/ lock'[h] \in {lock[h], None}
         \/ /\ Reusable(h) = {} /\ lock[h] = None
            /\ \E t \in Tasks : task[t].st # "holding"
<1> USE DEF IndInv, TypeOK
<1>1. CASE lock' = lock
  BY <1>1
<1>2. ASSUME NEW t \in Tasks, NEW k \in Hosts, NEW g, UnderLock(t, k, g),
             lock[k] = None, task[t].st # "holding", lock'[h] # lock[h]
      PROVE  Reusable(h) = {} /\ lock[h] = None
  BY <1>2 DEF UnderLock, Reuse, StartConnect
<1>3. ASSUME NEW t \in Tasks, NEW k \in Hosts, GetConnection(t, k)
      PROVE  lock' = lock \/ \E g : /\ UnderLock(t, k, g) /\ lock[k] = None
                                    /\ task[t].st # "holding"
  BY <1>3 DEF GetConnection, lockVars, LockFree, Enqueue
<1>4. ASSUME NEW t \in Tasks, Wake(t)
      PROVE  /\ task[t].host \in Hosts /\ UnderLock(t, task[t].host, task[t].cfg)
             /\ lock[task[t].host] = None /\ task[t].st # "holding"
  BY <1>4 DEF Wake
<1>5. ASSUME NEW t \in Tasks, ConnectOk(t) \/ ConnectFail(t)
      PROVE  lock'[h] \in {lock[h], None}
  BY <1>5 DEF ConnectOk, ConnectFail
<1>6. ASSUME NEW t \in Tasks, CancelWait(t) \/ Release(t) \/ Leave(t) PROVE lock' = lock
  BY <1>6 DEF CancelWait, Release, Leave, lockVars
<1>7. QED
  BY <1>1, <1>2, <1>3, <1>4, <1>5, <1>6
  DEF Next, vars, lockVars, ListHosts, RegisterHost, RemoveHost, Die

\* What a step does to the live connections of a host and to their lost uses:
\* a connect adds one connection and frees the lock, a death takes one away.
LEMMA GrowthKind ==
  ASSUME IndInv, [Next]_vars, NEW h \in Hosts
  PROVE  \/ Pruned(h)' = Pruned(h) /\ LostUses(h) \subseteq LostUses(h)'
         \/ /\ Pruned(h)' = Pruned(h) \cup {opened + 1} /\ LostUses(h) \subseteq LostUses(h)'
            /\ lock[h] # None /\ lock'[h] = None
         \/ \E c \in Pruned(h) : /\ Pruned(h)' = Pruned(h) \ {c} /\ lock' = lock
                                 /\ LostUses(h) \subseteq LostUses(h)' \cup ({c} \X (1..PoolSize))
<1>0. /\ TypeOK /\ conn \in [Conns -> Connection] /\ pool \in [Hosts -> SUBSET (1..opened)]
      /\ opened \in Nat /\ \A k \in Hosts : pool[k] \subseteq Conns
  BY OpenedType DEF IndInv, TypeOK
<1> DEFINE Kept == Pruned(h)' = Pruned(h) /\ LostUses(h) \subseteq LostUses(h)'
<1>1. ASSUME Pruned(h)' = Pruned(h), \A c \in Pruned(h) : conn'[c].lost >= conn[c].lost
      PROVE  Kept
  <2>1. \A c \in Pruned(h) : conn[c].lost \in Nat /\ conn'[c].lost \in Nat
    <3>1. TypeOK'
      BY TypeStep DEF IndInv
    <3>2. QED BY <1>0, <3>1 DEF Pruned, TypeOK, Connection
  <2>2. QED BY <1>1, <2>1 DEF LostUses
<1>2. CASE Quiet
  <2>1. Pruned(h)' = Pruned(h)
    BY <1>2 DEF Quiet, Pruned
  <2>2. QED BY <1>0, <1>2, <2>1 DEF Quiet, LostUses
<1>3. ASSUME pool' = pool,
             \A c \in Conns : conn'[c].alive = conn[c].alive /\ conn'[c].lost >= conn[c].lost
      PROVE  Kept
  <2>1. Pruned(h)' = Pruned(h) /\ Pruned(h) \subseteq Conns
    BY <1>0, <1>3 DEF Pruned
  <2>2. QED BY <1>1, <1>3, <2>1
<1>4. ASSUME NEW t \in Tasks, NEW k \in Hosts, Take(t, k) PROVE Kept
  <2>1. PICK c \in Reusable(k) : conn' = [conn EXCEPT ![c].inUse = @ + 1] /\ pool' = pool
    BY <1>4 DEF Take, Reuse
  <2>2. \A d \in Conns : conn'[d].alive = conn[d].alive /\ conn'[d].lost = conn[d].lost
    BY <1>0, <2>1 DEF Connection
  <2>3. \A d \in Conns : conn[d].lost \in Nat
    BY <1>0 DEF Connection
  <2>4. QED BY <1>3, <2>1, <2>2, <2>3
<1>5. ASSUME NEW t \in Tasks, Release(t) \/ Leave(t) PROVE Kept
  <2>1. \A d \in Conns : conn[d].lost \in Nat
    BY <1>0 DEF Connection
  <2>2. \A d \in Conns : conn'[d].alive = conn[d].alive /\ conn'[d].lost >= conn[d].lost
    <3>1. task[t].conn \in Conns
      BY <1>0, <1>5, OpenedType DEF Release, Leave
    <3>2. CASE Release(t)
      BY <1>0, <2>1, <3>1, <3>2 DEF Release, Connection
    <3>3. CASE Leave(t)
      BY <1>0, <2>1, <3>1, <3>3 DEF Leave, Connection
    <3>4. QED BY <1>5, <3>2, <3>3
  <2>3. QED BY <1>3, <1>5, <2>2 DEF Release, Leave
<1>6. ASSUME NEW t \in Tasks, ConnectOk(t)
      PROVE  \/ Kept
             \/ /\ Pruned(h)' = Pruned(h) \cup {opened + 1} /\ LostUses(h) \subseteq LostUses(h)'
                /\ lock[h] # None /\ lock'[h] = None
  <2>1. /\ opened + 1 \in Conns
        /\ task[t].host \in Hosts /\ lock[task[t].host] = t
        /\ conn'[opened + 1].alive
        /\ \A d \in Conns \ {opened + 1} : conn'[d] = conn[d]
    BY <1>0, <1>6, NextConnUnheld DEF ConnectOk, IndInv, TypeOK, OneConnectPerHost
  <2>2. opened + 1 \notin pool[h]
    BY <1>0
  <2>3. \A d \in Pruned(h) : conn'[d] = conn[d]
    BY <1>0, <2>1, <2>2 DEF Pruned
  <2>4. CASE h = task[t].host
    <3>1. Pruned(h)' = Pruned(h) \cup {opened + 1}
      BY <1>0, <1>6, <2>1, <2>2, <2>4 DEF ConnectOk, Pruned
    <3>2. LostUses(h) \subseteq LostUses(h)'
      BY <2>3, <3>1 DEF LostUses
    <3>3. lock[h] # None /\ lock'[h] = None
      BY <1>0, <1>6, <2>1, <2>4, NoneAssumption DEF ConnectOk, TypeOK
    <3>4. QED BY <3>1, <3>2, <3>3
  <2>5. CASE h # task[t].host
    <3>1. Pruned(h)' = Pruned(h)
      BY <1>0, <1>6, <2>1, <2>2, <2>5 DEF ConnectOk, Pruned
    <3>2. QED BY <2>3, <3>1 DEF LostUses
  <2>6. QED BY <2>4, <2>5
<1>7. ASSUME NEW c \in Conns, Die(c)
      PROVE  \/ Kept
             \/ /\ c \in Pruned(h) /\ Pruned(h)' = Pruned(h) \ {c} /\ lock' = lock
                /\ LostUses(h) \subseteq LostUses(h)' \cup ({c} \X (1..PoolSize))
  <2>1. /\ pool' = pool /\ lock' = lock /\ ~conn'[c].alive
        /\ conn'[c].lost = conn[c].lost
        /\ \A d \in Conns \ {c} : conn'[d] = conn[d]
    BY <1>0, <1>7 DEF Die, lockVars, Connection
  <2>2. Pruned(h)' = Pruned(h) \ {c}
    BY <1>0, <2>1 DEF Pruned
  <2>3. \A d \in Pruned(h) : conn'[d].lost = conn[d].lost
    BY <1>0, <2>1 DEF Pruned
  <2>4. CASE c \in Pruned(h)
    BY <2>1, <2>2, <2>3, <2>4 DEF LostUses
  <2>5. CASE c \notin Pruned(h)
    BY <2>2, <2>3, <2>5 DEF LostUses
  <2>6. QED BY <2>4, <2>5
<1>8. QED BY <1>2, <1>4, <1>5, <1>6, <1>7, StepKind

\* Every step keeps the live connections of every host covered.
LEMMA GrowthStep == IndInv /\ GrowthInv /\ [Next]_vars => GrowthInv'
<1> SUFFICES ASSUME IndInv, GrowthInv, [Next]_vars, NEW h \in Hosts
             PROVE  (IF lock[h] # None THEN CoveredBut(h, 0)
                     ELSE Pruned(h) # {} => CoveredBut(h, 1))'
  BY DEF GrowthInv
<1>0. /\ TypeOK /\ TypeOK' /\ Countable(h) /\ Countable(h)' /\ PoolSize \in Nat \ {0}
  BY TypeStep, GrowthFinite, BoundsAssumption DEF IndInv
<1> DEFINE P == Cardinality(Pruned(h))
           L == Cardinality(LostUses(h))
<1>1. P \in Nat /\ P' \in Nat /\ L \in Nat /\ L' \in Nat /\ Cardinality(Tasks) \in Nat
  BY <1>0 DEF Countable
<1>2. lock[h] # None => CoveredBut(h, 0)
  BY DEF GrowthInv
<1>3. lock[h] = None /\ Pruned(h) # {} => CoveredBut(h, 1)
  BY DEF GrowthInv
<1>4. Reusable(h) = {} /\ (\E t \in Tasks : task[t].st # "holding") => CoveredBut(h, 0)
  BY AllCovered
<1>5. LostUses(h) \subseteq LostUses(h)' => L <= L'
  BY <1>0, FS_Subset DEF Countable
<1>6. CASE Pruned(h)' = Pruned(h) /\ LostUses(h) \subseteq LostUses(h)'
  <2>1. P' = P /\ L <= L'
    BY <1>5, <1>6
  <2>2. CoveredBut(h, 0) => CoveredBut(h, 0)' /\ CoveredBut(h, 1)'
    BY <1>0, <1>1, <2>1, CoveredMore
  <2>3. CoveredBut(h, 1) => CoveredBut(h, 1)'
    BY <1>0, <1>1, <2>1, CoveredMore
  <2>4. QED BY <1>2, <1>3, <1>4, <1>6, <2>2, <2>3, LockKind
<1>7. CASE /\ Pruned(h)' = Pruned(h) \cup {opened + 1} /\ LostUses(h) \subseteq LostUses(h)'
           /\ lock[h] # None /\ lock'[h] = None
  <2>1. P' <= P + 1
    BY <1>0, <1>1, <1>7, FS_AddElement DEF Countable
  <2>2. CoveredBut(h, 1)'
    BY <1>0, <1>1, <1>2, <1>5, <1>7, <2>1, CoveredMore
  <2>3. QED BY <1>7, <2>2
<1>8. ASSUME NEW c \in Pruned(h), Pruned(h)' = Pruned(h) \ {c}, lock' = lock,
             LostUses(h) \subseteq LostUses(h)' \cup ({c} \X (1..PoolSize)),
             NEW n \in {0, 1}, CoveredBut(h, n)
      PROVE  CoveredBut(h, n)'
  <2>1. P' = P - 1
    BY <1>0, <1>8, FS_RemoveElement DEF Countable
  <2>2. L <= L' + PoolSize
    <3> DEFINE Gone == {c} \X (1..PoolSize)
    <3>1. IsFiniteSet({c}) /\ Cardinality({c}) = 1
      BY FS_Singleton
    <3>2. IsFiniteSet(1..PoolSize) /\ Cardinality(1..PoolSize) = PoolSize
      BY <1>0, FS_Interval
    <3>3. IsFiniteSet(Gone) /\ Cardinality(Gone) = PoolSize
      <4>1. IsFiniteSet(Gone) /\ Cardinality(Gone) = Cardinality({c}) * Cardinality(1..PoolSize)
        BY <3>1, <3>2, FS_Product
      <4>2. QED BY <1>0, <3>1, <3>2, <4>1
    <3> HIDE DEF Gone
    <3>4. /\ IsFiniteSet(LostUses(h)' \cup Gone)
          /\ Cardinality(LostUses(h)' \cup Gone)
               = L' + Cardinality(Gone) - Cardinality(LostUses(h)' \cap Gone)
      BY <1>0, <3>3, FS_Union DEF Countable
    <3>5. Cardinality(LostUses(h)' \cap Gone) \in Nat
      BY <1>0, FS_Intersection, FS_CardinalityType DEF Countable
    <3>6. L <= Cardinality(LostUses(h)' \cup Gone)
      BY <1>8, <3>4, FS_Subset DEF Gone
    <3>7. QED BY <1>0, <1>1, <3>3, <3>4, <3>5, <3>6
  <2>3. (P - n) * PoolSize < Cardinality(Tasks) + L
    BY <1>8 DEF CoveredBut
  <2>4. (P' - n) * PoolSize = (P - n) * PoolSize - PoolSize
    <3>1. \A x \in Int : (x - 1) * PoolSize = x * PoolSize - PoolSize
      BY <1>0
    <3>2. P - n \in Int /\ P' - n = (P - n) - 1
      BY <1>1, <1>8, <2>1
    <3> HIDE DEF P
    <3>3. QED BY <3>1, <3>2
  <2>5. (P - n) * PoolSize \in Int
    BY <1>0, <1>1, <1>8
  <2>6. (P' - n) * PoolSize < Cardinality(Tasks) + L'
    <3>1. \A x, y, z, k, l \in Int :
             x < k + l /\ l <= z + PoolSize /\ y = x - PoolSize => y < k + z
      BY <1>0
    <3> DEFINE X == (P - n) * PoolSize
               Y == (P' - n) * PoolSize
    <3>2. X \in Int /\ Y \in Int /\ X < Cardinality(Tasks) + L /\ Y = X - PoolSize
      BY <1>0, <1>1, <1>8, <2>3, <2>4, <2>5
    <3>3. L \in Int /\ L' \in Int /\ Cardinality(Tasks) \in Int
      BY <1>1
    <3> HIDE DEF X, Y, L
    <3>4. Y < Cardinality(Tasks) + L'
      BY <2>2, <3>1, <3>2, <3>3, Zenon
    <3>5. QED BY <3>4 DEF Y
  <2>7. QED BY <2>6 DEF CoveredBut
<1>9. ASSUME NEW c \in Pruned(h), Pruned(h)' = Pruned(h) \ {c}, lock' = lock,
             LostUses(h) \subseteq LostUses(h)' \cup ({c} \X (1..PoolSize))
      PROVE  (IF lock[h] # None THEN CoveredBut(h, 0)
              ELSE Pruned(h) # {} => CoveredBut(h, 1))'
  <2>1. CoveredBut(h, 0) => CoveredBut(h, 0)'
    BY <1>8, <1>9
  <2>2. CoveredBut(h, 1) => CoveredBut(h, 1)'
    BY <1>8, <1>9
  <2>3. QED BY <1>2, <1>3, <1>9, <2>1, <2>2
<1>10. QED BY <1>6, <1>7, <1>9, GrowthKind

\* The pool of a host grows only under demand.
THEOREM PoolGrowthJustifiedHolds == Spec => []PoolGrowthJustified
<1>1. Init => GrowthInv
  BY DEF Init, GrowthInv, Pruned
<1>2. IndInv /\ GrowthInv => PoolGrowthJustified
  <2>1. ASSUME IndInv, NEW h \in Hosts, CoveredBut(h, 0) PROVE CoveredBut(h, 1)
    <3>0. TypeOK
      BY <2>1 DEF IndInv
    <3>1. Countable(h) /\ PoolSize \in Nat
      BY <3>0, GrowthFinite, BoundsAssumption
    <3>2. \A p \in Nat : (p - 1) * PoolSize <= (p - 0) * PoolSize
      BY <3>1
    <3>3. QED BY <2>1, <3>1, <3>2 DEF CoveredBut, Countable
  <2>2. QED BY <2>1 DEF GrowthInv, PoolGrowthJustified, CoveredBut
<1>3. QED BY <1>1, <1>2, GrowthStep, Inductive, PTL DEF Spec

-----------------------------------------------------------------------------
(* The queue of a host's lock.  What ServedOrRefused rests on besides      *)
(* fairness: nobody who waits is lost, and there is always one whose turn  *)
(* it is.                                                                  *)

Waiters(h) == {t \in Tasks : task[t].st = "waiting" /\ task[t].host = h}

\* Whoever waits at a host is in its queue, once, and nobody else is.
WaitersQueued ==
  \A h \in Hosts : IsInjective(queue[h]) /\ ToSet(queue[h]) = Waiters(h)

\* Who waits at a host waits for a connect of another there, which can fail at any
\* time, or the lock is free and the guard of Wake holds for the first in the queue.
SomeoneHasTheTurn ==
  \A t \in Tasks :
    LET h == task[t].host IN
    task[t].st = "waiting" =>
      \/ /\ lock[h] \in Tasks \ {t}
         /\ task[lock[h]].st = "connecting" /\ task[lock[h]].host = h
      \/ /\ lock[h] = None /\ queue[h] # <<>>
         /\ Head(queue[h]) \in Tasks
         /\ task[Head(queue[h])].st = "waiting" /\ task[Head(queue[h])].host = h

\* Joining a queue of others, leaving its head or leaving any place of it keeps
\* it without repetition, and adds or takes away one.
LEMMA QueueMoves ==
  ASSUME NEW S, NEW q \in Seq(S), IsInjective(q)
  PROVE  /\ \A t \in S \ ToSet(q) : /\ IsInjective(Append(q, t))
                                    /\ ToSet(Append(q, t)) = ToSet(q) \cup {t}
         /\ q # <<>> => IsInjective(Tail(q)) /\ ToSet(Tail(q)) = ToSet(q) \ {Head(q)}
         /\ \A i \in 1..Len(q) : /\ IsInjective(RemoveAt(q, i))
                                 /\ ToSet(RemoveAt(q, i)) = ToSet(q) \ {q[i]}
<1> USE DEF IsInjective, ToSet
<1>0. Len(q) \in Nat /\ DOMAIN q = 1..Len(q)
  OBVIOUS
<1>1. ASSUME NEW t \in S \ ToSet(q)
      PROVE  IsInjective(Append(q, t)) /\ ToSet(Append(q, t)) = ToSet(q) \cup {t}
  <2>1. /\ DOMAIN Append(q, t) = 1..(Len(q) + 1) /\ Append(q, t)[Len(q) + 1] = t
        /\ \A k \in 1..Len(q) : Append(q, t)[k] = q[k]
    OBVIOUS
  <2>2. \A k \in 1..(Len(q) + 1) : k = Len(q) + 1 \/ k \in 1..Len(q)
    BY <1>0
  <2>3. \A k \in 1..Len(q) : q[k] # t /\ k # Len(q) + 1
    BY <1>0, <1>1
  <2>4. QED BY <1>0, <2>1, <2>2, <2>3
<1>2. ASSUME q # <<>>
      PROVE  IsInjective(Tail(q)) /\ ToSet(Tail(q)) = ToSet(q) \ {Head(q)}
  <2>1. /\ Len(q) \in Nat \ {0} /\ DOMAIN Tail(q) = 1..(Len(q) - 1) /\ Head(q) = q[1]
        /\ \A k \in 1..(Len(q) - 1) : Tail(q)[k] = q[k + 1]
    BY <1>2
  <2>2. /\ \A k \in 1..(Len(q) - 1) : k + 1 \in 1..Len(q) /\ k + 1 # 1
        /\ \A k \in 1..Len(q) : k = 1 \/ k - 1 \in 1..(Len(q) - 1)
    BY <2>1
  <2>3. IsInjective(Tail(q))
    BY <1>0, <2>1, <2>2
  <2>4. ToSet(Tail(q)) \subseteq ToSet(q) \ {Head(q)}
    BY <1>0, <2>1, <2>2
  <2>5. ASSUME NEW k \in 1..Len(q), k # 1 PROVE q[k] \in ToSet(Tail(q))
    <3>1. k - 1 \in 1..(Len(q) - 1) /\ Tail(q)[k - 1] = q[k]
      BY <2>1, <2>2, <2>5
    <3>2. QED BY <2>1, <3>1
  <2>6. QED BY <1>0, <2>1, <2>3, <2>4, <2>5
<1>3. ASSUME NEW i \in 1..Len(q)
      PROVE  IsInjective(RemoveAt(q, i)) /\ ToSet(RemoveAt(q, i)) = ToSet(q) \ {q[i]}
  <2> DEFINE r == RemoveAt(q, i)
             Src(k) == IF k < i THEN k ELSE k + 1
  <2>1. /\ DOMAIN r = 1..(Len(q) - 1)
        /\ \A k \in 1..(Len(q) - 1) : r[k] = q[Src(k)]
    <3> DEFINE a == SubSeq(q, 1, i - 1)
               b == SubSeq(q, i + 1, Len(q))
    <3>1. /\ a \in Seq(S) /\ Len(a) = i - 1 /\ \A k \in 1..(i - 1) : a[k] = q[k]
          /\ b \in Seq(S) /\ Len(b) = Len(q) - i /\ \A k \in 1..(Len(q) - i) : b[k] = q[k + i]
      <4>1. /\ 1 \in Int /\ i - 1 \in Int /\ i + 1 \in Int /\ Len(q) \in Int
            /\ \A k \in 1..(i - 1) : q[k] \in S
            /\ \A k \in (i + 1)..Len(q) : q[k] \in S
        BY <1>0
      <4>2. /\ a \in Seq(S) /\ Len(a) = IF 1 <= i - 1 THEN (i - 1) - 1 + 1 ELSE 0
            /\ \A k \in 1..((i - 1) - 1 + 1) : a[k] = q[1 + k - 1]
        BY <4>1, SubSeqProperties
      <4>3. /\ b \in Seq(S) /\ Len(b) = IF i + 1 <= Len(q) THEN Len(q) - (i + 1) + 1 ELSE 0
            /\ \A k \in 1..(Len(q) - (i + 1) + 1) : b[k] = q[(i + 1) + k - 1]
        BY <4>1, SubSeqProperties
      <4> HIDE DEF a, b
      <4>4. Len(a) = i - 1 /\ Len(b) = Len(q) - i
        <5> DEFINE n == Len(q)
                   la == Len(a)
                   lb == Len(b)
        <5>1. /\ n \in Nat /\ i \in 1..n
              /\ la = IF 1 <= i - 1 THEN (i - 1) - 1 + 1 ELSE 0
              /\ lb = IF i + 1 <= n THEN n - (i + 1) + 1 ELSE 0
          BY <1>0, <4>2, <4>3
        <5> HIDE DEF n, la, lb
        <5>2. la = i - 1 /\ lb = n - i
          BY <5>1
        <5>3. QED BY <5>2 DEF n, la, lb
      <4>5. ASSUME NEW k \in 1..(i - 1) PROVE a[k] = q[k]
        <5>1. k \in 1..((i - 1) - 1 + 1) /\ 1 + k - 1 = k
          BY <1>0
        <5>2. QED BY <4>2, <5>1
      <4>6. ASSUME NEW k \in 1..(Len(q) - i) PROVE b[k] = q[k + i]
        <5>1. k \in 1..(Len(q) - (i + 1) + 1) /\ (i + 1) + k - 1 = k + i
          BY <1>0
        <5>2. QED BY <4>3, <5>1
      <4>7. QED BY <4>2, <4>3, <4>4, <4>5, <4>6
    <3>2. r = a \o b
      BY DEF RemoveAt
    <3> HIDE DEF a, b, r
    <3>3. DOMAIN r = 1..(Len(q) - 1)
      <4>1. r \in Seq(S) /\ Len(r) = Len(a) + Len(b)
        BY <3>1, <3>2, ConcatProperties
      <4>2. Len(a) + Len(b) = Len(q) - 1
        BY <1>0, <3>1
      <4>3. QED BY <4>1, <4>2
    <3>4. ASSUME NEW k \in 1..(Len(q) - 1) PROVE r[k] = q[Src(k)]
      <4>1. CASE k < i
        <5>1. k \in 1..(i - 1) /\ r[k] = a[k]
          BY <1>0, <3>1, <3>2, <4>1
        <5>2. QED BY <3>1, <4>1, <5>1
      <4>2. CASE ~(k < i)
        <5>1. k - (i - 1) \in 1..(Len(q) - i) /\ (k - (i - 1)) + i = k + 1
          BY <1>0, <4>2
        <5>2. r[k] = b[k - (i - 1)]
          BY <1>0, <3>1, <3>2, <4>2
        <5>3. QED BY <3>1, <4>2, <5>1, <5>2
      <4>3. QED BY <4>1, <4>2
    <3>5. QED BY <3>3, <3>4
  <2>2. /\ \A k \in 1..(Len(q) - 1) : Src(k) \in 1..Len(q) /\ Src(k) # i
        /\ \A k, l \in 1..(Len(q) - 1) : Src(k) = Src(l) => k = l
        /\ \A m \in 1..Len(q) : m # i => \E k \in 1..(Len(q) - 1) : Src(k) = m
    <3>1. \A k \in 1..(Len(q) - 1) : Src(k) \in 1..Len(q) /\ Src(k) # i
      BY <1>0
    <3>2. \A k, l \in 1..(Len(q) - 1) : Src(k) = Src(l) => k = l
      BY <1>0
    <3>3. ASSUME NEW m \in 1..Len(q), m # i PROVE \E k \in 1..(Len(q) - 1) : Src(k) = m
      <4>1. CASE m < i
        <5>1. m \in 1..(Len(q) - 1) /\ Src(m) = m
          BY <1>0, <4>1
        <5>2. QED BY <5>1
      <4>2. CASE ~(m < i)
        <5>1. m - 1 \in 1..(Len(q) - 1) /\ Src(m - 1) = m
          BY <1>0, <3>3, <4>2
        <5>2. QED BY <5>1
      <4>3. QED BY <4>1, <4>2
    <3>4. QED BY <3>1, <3>2, <3>3
  <2> HIDE DEF r, Src
  <2>3. IsInjective(r)
    BY <1>0, <2>1, <2>2
  <2>4. ToSet(r) = ToSet(q) \ {q[i]}
    <3>1. ASSUME NEW k \in DOMAIN r PROVE r[k] \in ToSet(q) \ {q[i]}
      <4>1. r[k] = q[Src(k)] /\ Src(k) \in 1..Len(q) /\ Src(k) # i
        BY <2>1, <2>2
      <4>2. QED BY <1>0, <4>1
    <3>2. ASSUME NEW m \in 1..Len(q), q[m] # q[i] PROVE q[m] \in ToSet(r)
      <4>1. PICK k \in 1..(Len(q) - 1) : Src(k) = m
        BY <2>2, <3>2
      <4>2. k \in DOMAIN r /\ r[k] = q[m]
        BY <2>1, <4>1
      <4>3. QED BY <4>2
    <3>3. QED BY <1>0, <3>1, <3>2
  <2>5. QED BY <2>3, <2>4 DEF r
<1>4. QED BY <1>1, <1>2, <1>3

\* A task that neither waited nor waits now leaves every queue right.
LEMMA BystandersKeepQueues ==
  ASSUME TypeOK, WaitersQueued, NEW t \in Tasks, NEW x,
         task' = [task EXCEPT ![t] = x], UNCHANGED queue,
         task[t].st # "waiting", x.st # "waiting"
  PROVE  WaitersQueued'
<1>1. ASSUME NEW h \in Hosts PROVE Waiters(h)' = Waiters(h)
  BY DEF Waiters, TypeOK
<1>2. QED BY <1>1 DEF WaitersQueued

\* Whoever enters or leaves the waiters of one host enters or leaves its queue.
LEMMA OneQueueMoves ==
  ASSUME TypeOK, WaitersQueued, NEW t \in Tasks, NEW h \in Hosts, NEW q, NEW x,
         task' = [task EXCEPT ![t] = x], queue' = [queue EXCEPT ![h] = q],
         task[t].st = "waiting" => task[t].host = h,
         x.st = "waiting" => x.host = h,
         IsInjective(q),
         ToSet(q) = IF x.st = "waiting" THEN Waiters(h) \cup {t} ELSE Waiters(h) \ {t}
  PROVE  WaitersQueued'
<1>1. queue'[h] = q /\ \A k \in Hosts \ {h} : queue'[k] = queue[k]
  BY DEF TypeOK
<1>2. task'[t] = x /\ \A u \in Tasks \ {t} : task'[u] = task[u]
  BY DEF TypeOK
<1>3. ToSet(q) = Waiters(h)'
  BY <1>2 DEF Waiters
<1>4. ASSUME NEW k \in Hosts \ {h} PROVE Waiters(k)' = Waiters(k)
  BY <1>2 DEF Waiters
<1>5. QED BY <1>1, <1>3, <1>4 DEF WaitersQueued

\* What get_connection does inside the lock makes nobody wait.
LEMMA UnderLockServes ==
  ASSUME NEW t \in Tasks, NEW h \in Hosts, NEW g, UnderLock(t, h, g)
  PROVE  \E x : task' = [task EXCEPT ![t] = x] /\ x.st # "waiting"
<1>1. CASE Reuse(t, h)
  <2>1. PICK c \in Reusable(h) :
          task' = [task EXCEPT ![t] = [st |-> "holding", host |-> h, cfg |-> None, conn |-> c]]
    BY <1>1 DEF Reuse
  <2> DEFINE x == [st |-> "holding", host |-> h, cfg |-> None, conn |-> c]
  <2>2. x.st # "waiting"
    OBVIOUS
  <2>3. task' = [task EXCEPT ![t] = x]
    BY <2>1
  <2> HIDE DEF x
  <2>4. QED BY <2>2, <2>3
<1>2. CASE StartConnect(t, h, g)
  <2> DEFINE x == [st |-> "connecting", host |-> h, cfg |-> g, conn |-> NoConn]
  <2>1. x.st # "waiting"
    OBVIOUS
  <2>2. task' = [task EXCEPT ![t] = x]
    BY <1>2 DEF StartConnect
  <2> HIDE DEF x
  <2>3. QED BY <2>1, <2>2
<1>3. QED BY <1>1, <1>2 DEF UnderLock

LEMMA QueueStep == TypeOK /\ WaitersQueued /\ [Next]_vars => WaitersQueued'
<1> SUFFICES ASSUME TypeOK, WaitersQueued, [Next]_vars PROVE WaitersQueued'
  OBVIOUS
<1>0. \A h \in Hosts : queue[h] \in Seq(Tasks)
  BY DEF TypeOK
<1>1. CASE UNCHANGED <<queue, task>>
  BY <1>1 DEF WaitersQueued, Waiters
<1>2. ASSUME NEW t \in Tasks, NEW h \in Hosts, GetConnection(t, h)
      PROVE  WaitersQueued'
  <2>1. CASE UNCHANGED <<connVars, lockVars, task>>
    BY <1>1, <2>1 DEF lockVars
  <2>2. CASE UnderLock(t, h, LoadedRegistry[h]) /\ UNCHANGED queue
    <3>1. PICK x : task' = [task EXCEPT ![t] = x] /\ x.st # "waiting"
      BY <2>2, UnderLockServes
    <3>2. task[t].st # "waiting"
      BY <1>2 DEF GetConnection
    <3>3. QED BY <2>2, <3>1, <3>2, BystandersKeepQueues
  <2>3. CASE Enqueue(t, h, LoadedRegistry[h])
    <3> DEFINE x == [st |-> "waiting", host |-> h, cfg |-> LoadedRegistry[h], conn |-> NoConn]
               q == Append(queue[h], t)
    <3>1. task' = [task EXCEPT ![t] = x] /\ queue' = [queue EXCEPT ![h] = q]
      BY <1>0, <2>3 DEF Enqueue
    <3>2. task[t].st # "waiting" /\ x.st = "waiting" /\ x.host = h
      BY <1>2 DEF GetConnection
    <3>3. t \notin ToSet(queue[h]) /\ ToSet(queue[h]) = Waiters(h) /\ IsInjective(queue[h])
      BY <3>2 DEF WaitersQueued, Waiters
    <3>4. IsInjective(q) /\ ToSet(q) = Waiters(h) \cup {t}
      BY <1>0, <3>3, QueueMoves
    <3> HIDE DEF x, q
    <3>5. QED BY <3>1, <3>2, <3>4, OneQueueMoves
  <2>4. QED BY <1>2, <2>1, <2>2, <2>3 DEF GetConnection
<1>3. ASSUME NEW t \in Tasks, Wake(t) PROVE WaitersQueued'
  <2> DEFINE h == task[t].host
             q == Tail(queue[h])
  <2>1. h \in Hosts /\ task[t].st = "waiting" /\ queue[h] # <<>> /\ Head(queue[h]) = t
    BY <1>3 DEF Wake, TypeOK
  <2>2. queue' = [queue EXCEPT ![h] = q]
    BY <1>3 DEF Wake
  <2>3. UnderLock(t, h, task[t].cfg)
    BY <1>3 DEF Wake
  <2>4. ToSet(queue[h]) = Waiters(h) /\ IsInjective(queue[h])
    BY <2>1 DEF WaitersQueued
  <2>5. IsInjective(q) /\ ToSet(q) = Waiters(h) \ {t}
    BY <1>0, <2>1, <2>4, QueueMoves
  <2>6. PICK x : task' = [task EXCEPT ![t] = x] /\ x.st # "waiting"
    BY <2>1, <2>3, UnderLockServes
  <2>7. task[t].host = h
    OBVIOUS
  <2> HIDE DEF h, q
  <2>8. QED BY <2>1, <2>2, <2>5, <2>6, <2>7, OneQueueMoves
<1>4. ASSUME NEW t \in Tasks, CancelWait(t) PROVE WaitersQueued'
  <2> DEFINE h == task[t].host
  <2>1. h \in Hosts /\ task[t].st = "waiting" /\ task' = [task EXCEPT ![t] = Idle]
    BY <1>4 DEF CancelWait, TypeOK
  <2>2. PICK i \in 1..Len(queue[h]) :
          queue[h][i] = t /\ queue' = [queue EXCEPT ![h] = RemoveAt(queue[h], i)]
    BY <1>4 DEF CancelWait
  <2>3. ToSet(queue[h]) = Waiters(h) /\ IsInjective(queue[h])
    BY <2>1 DEF WaitersQueued
  <2> DEFINE q == RemoveAt(queue[h], i)
  <2>4. IsInjective(q) /\ ToSet(q) = Waiters(h) \ {t}
    BY <1>0, <2>1, <2>2, <2>3, QueueMoves
  <2>5. Idle.st # "waiting" /\ task[t].host = h
    OBVIOUS
  <2>6. queue' = [queue EXCEPT ![h] = q]
    BY <2>2
  <2> HIDE DEF h, q, Idle
  <2>7. QED BY <2>1, <2>4, <2>5, <2>6, OneQueueMoves
<1>5. ASSUME NEW t \in Tasks, ConnectOk(t) \/ ConnectFail(t) \/ Release(t) \/ Leave(t)
      PROVE  WaitersQueued'
  <2>1. task[t].st # "waiting" /\ UNCHANGED queue
    BY <1>5 DEF ConnectOk, ConnectFail, Release, Leave, lockVars
  <2>2. PICK x : task' = [task EXCEPT ![t] = x] /\ x.st # "waiting"
    BY <1>5 DEF ConnectOk, ConnectFail, Release, Leave
  <2>3. QED BY <2>1, <2>2, BystandersKeepQueues
<1>6. QED
  BY <1>1, <1>2, <1>3, <1>4, <1>5
  DEF Next, vars, lockVars, ListHosts, RemoveHost, RegisterHost, Die

\* From the first state on, the queue of a host's lock is its waiters, each once.
LEMMA QueueInvariance == Spec => []WaitersQueued
<1>1. Init => WaitersQueued
  BY DEF Init, WaitersQueued, Waiters, IsInjective, ToSet
<1>2. QED BY <1>1, TypeCorrect, QueueStep, PTL DEF Spec

\* Nobody who waits is forgotten: either another task is connecting inside the
\* lock, and every end of a connect frees it, or the lock is free and the first
\* in the queue is a live waiter that may take it.  Cancelled waiters included,
\* no queue ever holds a task that is not there to be woken.
THEOREM SomeoneHasTheTurnHolds == Spec => []SomeoneHasTheTurn
<1>1. IndInv /\ WaitersQueued => SomeoneHasTheTurn
  <2> SUFFICES ASSUME IndInv, WaitersQueued, NEW t \in Tasks, task[t].st = "waiting"
               PROVE  LET h == task[t].host IN
                      \/ /\ lock[h] \in Tasks \ {t}
                         /\ task[lock[h]].st = "connecting" /\ task[lock[h]].host = h
                      \/ /\ lock[h] = None /\ queue[h] # <<>>
                         /\ Head(queue[h]) \in Tasks
                         /\ task[Head(queue[h])].st = "waiting"
                         /\ task[Head(queue[h])].host = h
    BY DEF SomeoneHasTheTurn
  <2> DEFINE h == task[t].host
  <2>1. h \in Hosts /\ lock[h] \in Tasks \cup {None} /\ queue[h] \in Seq(Tasks)
    BY DEF IndInv, TypeOK
  <2>2. CASE lock[h] \in Tasks
    <3>1. task[lock[h]].st = "connecting" /\ task[lock[h]].host = h
      BY <2>1, <2>2 DEF IndInv, OneConnectPerHost
    <3>2. lock[h] # t
      BY <3>1
    <3>3. QED BY <2>2, <3>1, <3>2
  <2>3. CASE lock[h] = None
    <3>1. ToSet(queue[h]) = Waiters(h) /\ t \in Waiters(h)
      BY <2>1 DEF WaitersQueued, Waiters
    <3>2. queue[h] # <<>>
      BY <2>1, <3>1 DEF ToSet
    <3>3. Head(queue[h]) \in ToSet(queue[h])
      BY <2>1, <3>2 DEF ToSet
    <3>4. QED BY <2>3, <3>1, <3>2, <3>3 DEF Waiters
  <2>4. QED BY <2>1, <2>2, <2>3
<1>2. QED BY <1>1, Inductive, QueueInvariance, PTL

-----------------------------------------------------------------------------
(* The pool implements ConnectionLease: a quiet step is a stutter, and     *)
(* the five others are its five operations.                                *)

liveBar  == {c \in Conns : conn[c].alive}
leaseBar == [t \in Tasks |-> task[t].conn]
lostBar  == [c \in Conns |-> conn[c].lost]

\* The borrowers the lease counts are the holders the pool counts.
LEMMA BorrowersAreHolders ==
  ASSUME IndInv, NEW c \in Conns
  PROVE  Lease!Borrowers(c) = Holders(c)
  BY DEF IndInv, OnlyHoldersHaveConn, Holders, Lease!Borrowers

\* The module FiniteSets of the instance is the one used here.
LEMMA SameCardinality == \A S : Lease!Cardinality(S) = Cardinality(S)
  BY DEF Cardinality, Lease!Cardinality

\* A quiet step is invisible to the lease.
LEMMA QuietRefines ==
  ASSUME IndInv, Quiet
  PROVE  UNCHANGED Lease!leaseVars
<1>1. leaseBar' = leaseBar
  BY DEF leaseBar, Quiet, IndInv, OnlyHoldersHaveConn
<1>2. liveBar' = liveBar /\ lostBar' = lostBar /\ opened' = opened
  BY DEF liveBar, lostBar, Quiet
<1>3. QED BY <1>1, <1>2 DEF Lease!leaseVars, liveBar, leaseBar, lostBar

\* Taking a pooled connection is a borrow: the exact counter leaves a use to spare.
LEMMA TakeRefines ==
  ASSUME IndInv, NEW t \in Tasks, NEW h \in Hosts, Take(t, h)
  PROVE  \E c \in Conns : Lease!Borrow(t, c)
<1>0. TypeOK /\ Accounting /\ conn \in [Conns -> Connection]
  BY DEF IndInv, TypeOK
<1>1. PICK c \in Reusable(h) :
        /\ conn' = [conn EXCEPT ![c].inUse = @ + 1]
        /\ task' = [task EXCEPT ![t] =
                      [st |-> "holding", host |-> h, cfg |-> None, conn |-> c]]
        /\ UNCHANGED opened
  BY DEF Take, Reuse
<1>2. c \in Conns /\ c \in pool[h] /\ conn[c].alive /\ conn[c].inUse < PoolSize
  BY <1>0, <1>1, OpenedType DEF Reusable
<1>3. lostBar[c] = conn[c].lost /\ Cardinality(Holders(c)) + conn[c].lost < PoolSize
  BY <1>0, <1>2 DEF Accounting, lostBar
<1>4. leaseBar[t] = NoConn /\ c \in liveBar
  BY <1>2 DEF Take, IndInv, OnlyHoldersHaveConn, leaseBar, liveBar
<1>5. leaseBar' = [leaseBar EXCEPT ![t] = c]
  BY <1>0, <1>1 DEF leaseBar, TypeOK
<1>6. \A d \in Conns : conn'[d].alive = conn[d].alive /\ conn'[d].lost = conn[d].lost
  BY <1>0, <1>1, <1>2 DEF Connection
<1>7. liveBar' = liveBar /\ lostBar' = lostBar
  BY <1>6 DEF liveBar, lostBar
<1>8. Lease!Borrow(t, c)
  <2>1. Lease!Cardinality(Lease!Borrowers(c)) + lostBar[c] < PoolSize
    BY <1>2, <1>3, BorrowersAreHolders, SameCardinality
  <2>2. QED BY <1>1, <1>4, <1>5, <1>7, <2>1 DEF Lease!Borrow, liveBar, leaseBar, lostBar
<1>9. QED BY <1>2, <1>8

\* A successful connect opens a fresh connection for its caller.
LEMMA ConnectOkRefines ==
  ASSUME IndInv, NEW t \in Tasks, ConnectOk(t)
  PROVE  Lease!Open(t)
<1>0. TypeOK /\ conn \in [Conns -> Connection] /\ opened \in Nat
  BY OpenedType DEF IndInv, TypeOK
<1>1. opened' = opened + 1 /\ opened' \in Conns /\ conn[opened'].lost = 0
  BY NextConnUnheld DEF ConnectOk, IndInv
<1>2. /\ conn'[opened'].alive /\ conn'[opened'].lost = 0
      /\ \A d \in Conns \ {opened'} : conn'[d] = conn[d]
  BY <1>0, <1>1 DEF ConnectOk
<1>3. leaseBar[t] = NoConn
  BY DEF ConnectOk, IndInv, OnlyHoldersHaveConn, leaseBar
<1>4. leaseBar' = [leaseBar EXCEPT ![t] = opened']
  BY <1>0 DEF ConnectOk, leaseBar, TypeOK
<1>5. liveBar' = liveBar \cup {opened'}
  BY <1>1, <1>2 DEF liveBar
<1>6. lostBar' = lostBar
  BY <1>1, <1>2 DEF lostBar
<1>7. QED BY <1>1, <1>3, <1>4, <1>5, <1>6 DEF Lease!Open, liveBar, leaseBar, lostBar

\* A release gives the lease back; leaving without one forgets it.
LEMMA EndOfUseRefines ==
  ASSUME IndInv, NEW t \in Tasks
  PROVE  (Release(t) => Lease!GiveBack(t)) /\ (Leave(t) => Lease!Forget(t))
<1>0. TypeOK /\ conn \in [Conns -> Connection]
  BY DEF IndInv, TypeOK
<1>1. ASSUME Release(t) \/ Leave(t)
      PROVE  /\ leaseBar[t] # NoConn /\ leaseBar[t] = task[t].conn
             /\ task[t].conn \in Conns
             /\ leaseBar' = [leaseBar EXCEPT ![t] = NoConn]
             /\ opened' = opened
  <2>1. task[t].st = "holding" /\ task' = [task EXCEPT ![t] = Idle] /\ opened' = opened
    BY <1>1 DEF Release, Leave
  <2>2. task[t].conn \in 1..opened /\ task[t].conn \in Conns
    BY <1>0, <2>1, OpenedType DEF TypeOK
  <2>3. leaseBar[t] # NoConn /\ leaseBar[t] = task[t].conn
    BY <1>0, <2>2, OpenedType DEF leaseBar
  <2>4. leaseBar' = [leaseBar EXCEPT ![t] = NoConn]
    BY <1>0, <2>1 DEF leaseBar, TypeOK
  <2>5. QED BY <2>1, <2>2, <2>3, <2>4
<1>2. ASSUME Release(t) PROVE Lease!GiveBack(t)
  <2>1. \A d \in Conns : conn'[d].alive = conn[d].alive /\ conn'[d].lost = conn[d].lost
    BY <1>0, <1>1, <1>2 DEF Release, Connection
  <2>2. liveBar' = liveBar /\ lostBar' = lostBar
    BY <2>1 DEF liveBar, lostBar
  <2>3. QED BY <1>1, <1>2, <2>2 DEF Lease!GiveBack, liveBar, leaseBar, lostBar
<1>3. ASSUME Leave(t) PROVE Lease!Forget(t)
  <2>1. /\ \A d \in Conns : conn'[d].alive = conn[d].alive
        /\ conn'[task[t].conn].lost = conn[task[t].conn].lost + 1
        /\ \A d \in Conns \ {task[t].conn} : conn'[d] = conn[d]
    BY <1>0, <1>1, <1>3 DEF Leave, Connection
  <2>2. liveBar' = liveBar
    BY <2>1 DEF liveBar
  <2>3. lostBar' = [lostBar EXCEPT ![leaseBar[t]] = @ + 1]
    BY <1>1, <1>3, <2>1 DEF lostBar
  <2>4. QED BY <1>1, <1>3, <2>2, <2>3 DEF Lease!Forget, liveBar, leaseBar, lostBar
<1>4. QED BY <1>2, <1>3

\* The death of a connection drops it.
LEMMA DieRefines ==
  ASSUME IndInv, NEW c \in Conns, Die(c)
  PROVE  Lease!Drop(c)
<1>0. conn \in [Conns -> Connection]
  BY DEF IndInv, TypeOK
<1>1. /\ conn[c].alive /\ ~conn'[c].alive
      /\ \A d \in Conns \ {c} : conn'[d] = conn[d]
      /\ conn'[c].lost = conn[c].lost
  BY <1>0 DEF Die, Connection
<1>2. c \in liveBar /\ liveBar' = liveBar \ {c} /\ lostBar' = lostBar
  BY <1>1 DEF liveBar, lostBar
<1>3. leaseBar' = leaseBar /\ opened' = opened
  BY DEF Die, leaseBar
<1>4. QED BY <1>2, <1>3 DEF Lease!Drop, liveBar, leaseBar, lostBar

\* Every behaviour of the pool is one of callers borrowing live connections
\* within their capacity.
THEOREM PoolImplementsLease == Spec => ImplementsLease
<1>1. Init => Lease!LeaseInit
  BY DEF Init, Lease!LeaseInit
<1>2. IndInv /\ [Next]_vars => [Lease!LeaseNext]_(Lease!leaseVars)
  <2> SUFFICES ASSUME IndInv, [Next]_vars
               PROVE  Lease!LeaseNext \/ UNCHANGED Lease!leaseVars
    OBVIOUS
  <2>1. CASE Quiet
    BY <2>1, QuietRefines
  <2>2. ASSUME NEW t \in Tasks, NEW h \in Hosts, Take(t, h) PROVE Lease!LeaseNext
    BY <2>2, TakeRefines DEF Lease!LeaseNext
  <2>3. ASSUME NEW t \in Tasks, ConnectOk(t) \/ Release(t) \/ Leave(t) PROVE Lease!LeaseNext
    BY <2>3, ConnectOkRefines, EndOfUseRefines DEF Lease!LeaseNext
  <2>4. ASSUME NEW c \in Conns, Die(c) PROVE Lease!LeaseNext
    BY <2>4, DieRefines DEF Lease!LeaseNext
  <2>5. QED BY <2>1, <2>2, <2>3, <2>4, StepKind
<1>3. QED BY <1>1, <1>2, Inductive, PTL DEF Spec, ImplementsLease, Lease!LeaseSpec
===============================================================================
