---------------------------- MODULE ConnectionPool ----------------------------
(***************************************************************************)
(* The host registry and the SSH connection pool of                        *)
(* server/connection_manager.py, shared by every asyncio task that runs a  *)
(* tool.  The event loop switches tasks only at an await that suspends, so *)
(* an action is the code between two suspension points: the wait for a     *)
(* host's lock and the wait for asyncssh.connect.  A lock that is free is  *)
(* taken without suspending.                                               *)
(*                                                                         *)
(* Definitions named Fault... are plausible defects of the definition that *)
(* follows them; no specification uses them.                               *)
(***************************************************************************)
EXTENDS Naturals, FiniteSets, Sequences, SequencesExt

CONSTANTS
  Hosts,      (* host names, the keys of the registry and of the pool      *)
  Targets,    (* host configurations: address, user and credentials        *)
  Tasks,      (* concurrent callers of get_connection                      *)
  None,       (* no target, no host, no task                               *)
  HostsYaml,  (* what hosts.yaml registers, up to the first malformed entry*)
  PoolSize,   (* the uses one connection may have at a time                *)
  MaxConns    (* bound: connections opened in one behaviour                *)

ASSUME NoneAssumption == None \notin Hosts \cup Targets \cup Tasks
ASSUME YamlAssumption == HostsYaml \in [Hosts -> Targets \cup {None}]
ASSUME TasksAssumption == IsFiniteSet(Tasks)
ASSUME BoundsAssumption == PoolSize \in Nat \ {0} /\ MaxConns \in Nat

Conns == 1..MaxConns      \* numbered in the order they are opened
NoConn == 0

VARIABLES
  registry,  (* registry[h] is the target configured for h, or None        *)
  loaded,    (* _registry_loaded                                           *)
  pool,      (* pool[h] is the list of pooled connections, oldest first:   *)
             (* as numbers grow with age, the set of them says it all      *)
  conn,      (* conn[c] is the PooledConnection and the SSH connection in  *)
             (* it; lost counts uses whose holder left without a release   *)
  opened,    (* how many connections were ever opened                      *)
  lock,      (* lock[h] is the task inside h's asyncio.Lock, or None       *)
  queue,     (* queue[h] is the FIFO of tasks waiting for that lock        *)
  task       (* task[t] is where t stands in get_connection / release      *)

regVars == <<registry, loaded>>
connVars == <<pool, conn, opened>>
lockVars == <<lock, queue>>
vars == <<registry, loaded, pool, conn, opened, lock, queue, task>>

Idle == [st |-> "idle", host |-> None, cfg |-> None, conn |-> NoConn]

Unopened == [alive |-> FALSE, inUse |-> 0, target |-> None, lost |-> 0]

Init ==
  /\ registry = [h \in Hosts |-> None]
  /\ loaded = FALSE
  /\ pool = [h \in Hosts |-> {}]
  /\ conn = [c \in Conns |-> Unopened]
  /\ opened = 0
  /\ lock = [h \in Hosts |-> None]
  /\ queue = [h \in Hosts |-> <<>>]
  /\ task = [t \in Tasks |-> Idle]

-----------------------------------------------------------------------------
(* The registry, loaded from hosts.yaml on first use.                      *)

\* The registry once _load_registry has run, which every public method starts with.
LoadedRegistry == IF loaded THEN registry ELSE HostsYaml

ListHosts ==
  /\ loaded' = TRUE
  /\ registry' = LoadedRegistry
  /\ UNCHANGED <<connVars, lockVars, task>>

FaultRegisterBeforeLoad(h, g) ==
  /\ registry' = [registry EXCEPT ![h] = g]
  /\ UNCHANGED <<loaded, connVars, lockVars, task>>

RegisterHost(h, g) ==
  /\ loaded' = TRUE
  /\ registry' = [LoadedRegistry EXCEPT ![h] = g]
  /\ UNCHANGED <<connVars, lockVars, task>>

RemoveHost(h) ==
  /\ loaded' = TRUE
  /\ registry' = [LoadedRegistry EXCEPT ![h] = None]
  /\ UNCHANGED <<connVars, lockVars, task>>

-----------------------------------------------------------------------------
(* get_connection.  A task is idle, waiting for the lock, connecting with  *)
(* the lock held, or holding the connection it was given.                  *)

FaultReuseDead(h) == {c \in pool[h] : conn[c].inUse < PoolSize}

FaultReuseFull(h) == {c \in pool[h] : conn[c].alive /\ conn[c].inUse <= PoolSize}

\* Pooled connections a caller may be given: alive and with a use to spare.
Reusable(h) == {c \in pool[h] : conn[c].alive /\ conn[c].inUse < PoolSize}

FaultPruneFull(h) == {c \in pool[h] : conn[c].inUse < PoolSize}

\* The pool without its dead connections.
Pruned(h) == {c \in pool[h] : conn[c].alive}

FaultNoLock(h) == TRUE

\* The lock can be taken without suspending: it is free and nobody is queued.
LockFree(h) == lock[h] = None /\ queue[h] = <<>>

FaultTakeUncounted(t, h) ==
  \E c \in Reusable(h) :
    /\ \A d \in Reusable(h) : c <= d
    /\ task' = [task EXCEPT ![t] = [st |-> "holding", host |-> h, cfg |-> None, conn |-> c]]
    /\ UNCHANGED <<pool, conn, opened, lock>>

\* The oldest reusable connection is handed out; the lock is taken and freed within the step.
Reuse(t, h) ==
  \E c \in Reusable(h) :
    /\ \A d \in Reusable(h) : c <= d
    /\ conn' = [conn EXCEPT ![c].inUse = @ + 1]
    /\ task' = [task EXCEPT ![t] = [st |-> "holding", host |-> h, cfg |-> None, conn |-> c]]
    /\ UNCHANGED <<pool, opened, lock>>

\* Nothing to reuse: prune the dead and suspend in asyncssh.connect, keeping the lock.
StartConnect(t, h, g) ==
  /\ Reusable(h) = {}
  /\ pool' = [pool EXCEPT ![h] = Pruned(h)]
  /\ lock' = [lock EXCEPT ![h] = t]
  /\ task' = [task EXCEPT ![t] = [st |-> "connecting", host |-> h, cfg |-> g, conn |-> NoConn]]
  /\ UNCHANGED <<conn, opened>>

UnderLock(t, h, g) == Reuse(t, h) \/ StartConnect(t, h, g)

\* The configuration is read before the wait and used after it.
Enqueue(t, h, g) ==
  /\ queue' = [queue EXCEPT ![h] = Append(@, t)]
  /\ task' = [task EXCEPT ![t] = [st |-> "waiting", host |-> h, cfg |-> g, conn |-> NoConn]]
  /\ UNCHANGED <<connVars, lock>>

GetConnection(t, h) ==
  /\ task[t].st = "idle"
  /\ loaded' = TRUE
  /\ registry' = LoadedRegistry
  /\ \/ /\ LoadedRegistry[h] = None                     \* raises ValueError
        /\ UNCHANGED <<connVars, lockVars, task>>
     \/ /\ LoadedRegistry[h] # None /\ LockFree(h)
        /\ UnderLock(t, h, LoadedRegistry[h])
        /\ UNCHANGED queue
     \/ /\ LoadedRegistry[h] # None /\ ~LockFree(h)
        /\ Enqueue(t, h, LoadedRegistry[h])

\* The lock was released and t is the first of its waiters.
Wake(t) ==
  LET h == task[t].host IN
  /\ task[t].st = "waiting"
  /\ lock[h] = None /\ queue[h] # <<>> /\ Head(queue[h]) = t
  /\ queue' = [queue EXCEPT ![h] = Tail(@)]
  /\ UnderLock(t, h, task[t].cfg)
  /\ UNCHANGED regVars

\* A caller's wait_for, or the client, cancels a task queued for the lock.
CancelWait(t) ==
  LET h == task[t].host IN
  /\ task[t].st = "waiting"
  /\ \E i \in 1..Len(queue[h]) :
        /\ queue[h][i] = t
        /\ queue' = [queue EXCEPT ![h] = RemoveAt(@, i)]
  /\ task' = [task EXCEPT ![t] = Idle]
  /\ UNCHANGED <<regVars, connVars, lock>>

FaultConnectOkForgetsOthers(t) ==
  LET h == task[t].host  c == opened + 1 IN
  /\ task[t].st = "connecting" /\ opened < MaxConns
  /\ opened' = c
  /\ conn' = [conn EXCEPT ![c] = [alive |-> TRUE, inUse |-> 1, target |-> task[t].cfg, lost |-> 0]]
  /\ pool' = [pool EXCEPT ![h] = {c}]
  /\ lock' = [lock EXCEPT ![h] = None]
  /\ task' = [task EXCEPT ![t] = [st |-> "holding", host |-> h, cfg |-> None, conn |-> c]]
  /\ UNCHANGED <<regVars, queue>>

ConnectOk(t) ==
  LET h == task[t].host  c == opened + 1 IN
  /\ task[t].st = "connecting" /\ opened < MaxConns
  /\ opened' = c
  /\ conn' = [conn EXCEPT ![c] = [alive |-> TRUE, inUse |-> 1, target |-> task[t].cfg, lost |-> 0]]
  /\ pool' = [pool EXCEPT ![h] = @ \cup {c}]
  /\ lock' = [lock EXCEPT ![h] = None]
  /\ task' = [task EXCEPT ![t] = [st |-> "holding", host |-> h, cfg |-> None, conn |-> c]]
  /\ UNCHANGED <<regVars, queue>>

FaultConnectFailKeepsLock(t) ==
  /\ task[t].st = "connecting"
  /\ task' = [task EXCEPT ![t] = Idle]
  /\ UNCHANGED <<regVars, connVars, lockVars>>

\* asyncssh.connect raises, times out or is cancelled; async with frees the lock.
ConnectFail(t) ==
  /\ task[t].st = "connecting"
  /\ lock' = [lock EXCEPT ![task[t].host] = None]
  /\ task' = [task EXCEPT ![t] = Idle]
  /\ UNCHANGED <<regVars, connVars, queue>>

-----------------------------------------------------------------------------
(* The end of a use, and the end of a connection.                          *)

FaultReleaseRepeats(t) ==
  /\ task[t].st = "holding"
  /\ conn' = [conn EXCEPT ![task[t].conn].inUse = @ - 1]
  /\ UNCHANGED <<regVars, pool, opened, lockVars, task>>

\* release_connection: counts down if the connection is still in the pool.
Release(t) ==
  LET c == task[t].conn IN
  /\ task[t].st = "holding"
  /\ conn' = IF c \in pool[task[t].host]
               THEN [conn EXCEPT ![c].inUse = IF @ > 0 THEN @ - 1 ELSE 0]
               ELSE conn
  /\ task' = [task EXCEPT ![t] = Idle]
  /\ UNCHANGED <<regVars, pool, opened, lockVars>>

\* A holder is done without calling release_connection: every operation of
\* file_ops, and every session and tunnel once closed.
Leave(t) ==
  /\ task[t].st = "holding"
  /\ conn' = [conn EXCEPT ![task[t].conn].lost = @ + 1]
  /\ task' = [task EXCEPT ![t] = Idle]
  /\ UNCHANGED <<regVars, pool, opened, lockVars>>

\* The peer or the network ends an SSH connection; is_alive turns false.
Die(c) ==
  /\ conn[c].alive
  /\ conn' = [conn EXCEPT ![c].alive = FALSE]
  /\ UNCHANGED <<regVars, pool, opened, lockVars, task>>

Next ==
  \/ ListHosts
  \/ \E h \in Hosts : RemoveHost(h) \/ \E g \in Targets : RegisterHost(h, g)
  \/ \E t \in Tasks :
       \/ \E h \in Hosts : GetConnection(t, h)
       \/ Wake(t) \/ CancelWait(t)
       \/ ConnectOk(t) \/ ConnectFail(t)
       \/ Release(t) \/ Leave(t)
  \/ \E c \in Conns : Die(c)

Spec == Init /\ [][Next]_vars

\* The event loop resumes a woken waiter, and connect_timeout ends every connect.
Fairness ==
  \A t \in Tasks : WF_vars(Wake(t)) /\ WF_vars(ConnectOk(t) \/ ConnectFail(t))

FairSpec == Spec /\ Fairness
-----------------------------------------------------------------------------
(* Properties.                                                             *)

TaskState ==
  [st : {"idle", "waiting", "connecting", "holding"},
   host : Hosts \cup {None}, cfg : Targets \cup {None}, conn : Conns \cup {NoConn}]

Connection ==
  [alive : BOOLEAN, inUse : Nat, target : Targets \cup {None}, lost : Nat]

\* Every variable keeps its type; a task that has called get_connection has a
\* host, and one that holds a connection holds one that was opened.
TypeOK ==
  /\ registry \in [Hosts -> Targets \cup {None}]
  /\ loaded \in BOOLEAN
  /\ opened \in 0..MaxConns
  /\ pool \in [Hosts -> SUBSET (1..opened)]
  /\ conn \in [Conns -> Connection]
  /\ lock \in [Hosts -> Tasks \cup {None}]
  /\ queue \in [Hosts -> Seq(Tasks)]
  /\ task \in [Tasks -> TaskState]
  /\ \A t \in Tasks : /\ task[t].st # "idle" => task[t].host \in Hosts
                      /\ task[t].st = "holding" => task[t].conn \in 1..opened

\* The tasks that were given connection c and have not finished with it.
Holders(c) == {t \in Tasks : task[t].st = "holding" /\ task[t].conn = c}

\* The counter get_connection and release_connection keep is exact: in_use is
\* the number of uses handed out and not given back, over every interleaving
\* of waits, connects, prunes and deaths.
Accounting ==
  \A h \in Hosts : \A c \in pool[h] :
    conn[c].inUse = Cardinality(Holders(c)) + conn[c].lost

\* No connection, pooled or already pruned, ever serves more than pool_size
\* uses at once, the ones never given back included.
Capacity ==
  \A c \in 1..opened : Cardinality(Holders(c)) + conn[c].lost <= PoolSize

\* At most one connect per host is in flight, and exactly its task owns the
\* host's lock: two callers that find the pool full do not both open.
OneConnectPerHost ==
  \A t \in Tasks, h \in Hosts :
    (task[t].st = "connecting" /\ task[t].host = h) <=> lock[h] = t

\* A connection that is alive is always in the pool of exactly one host: a
\* prune or an append racing with a connect never forgets one.
NoLiveConnectionForgotten ==
  \A c \in Conns : conn[c].alive =>
    \E h \in Hosts : c \in pool[h] /\ \A k \in Hosts \ {h} : c \notin pool[k]

\* The uses of h's live connections that were never given back, each as its
\* connection and a number: a connection has pool_size uses.
LostUses(h) == {u \in Pruned(h) \X (1..PoolSize) : u[2] <= conn[u[1]].lost}

\* The pool of a host grows only under demand: its live connections, but for
\* the newest, are covered by the tasks there are and by uses never given back.
PoolGrowthJustified ==
  \A h \in Hosts :
    Pruned(h) # {} =>
      (Cardinality(Pruned(h)) - 1) * PoolSize < Cardinality(Tasks) + Cardinality(LostUses(h))

\* The lazy load of hosts.yaml never overwrites a host registered at run time:
\* nothing can be registered before it.
LoadKeepsRegistrations ==
  [][loaded' # loaded => \A h \in Hosts : registry[h] # None => registry'[h] = registry[h]]_vars

\* The pool implements the lease of ConnectionLease: pools, locks and counters
\* come down to callers borrowing live connections within their capacity.
Lease == INSTANCE ConnectionLease WITH
  live  <- {c \in Conns : conn[c].alive},
  lease <- [t \in Tasks |-> task[t].conn],
  lost  <- [c \in Conns |-> conn[c].lost]

ImplementsLease == Lease!LeaseSpec

\* A task is only ever given a connection that is alive at that moment.
HandsOutLive ==
  [][\A t \in Tasks :
       task[t].st # "holding" /\ task'[t].st = "holding" => conn'[task'[t].conn].alive]_vars

\* A caller that has to wait for a host's lock or for a connect gets a
\* connection or an exception: the lock is freed on every path and is fair.
ServedOrRefused ==
  \A t \in Tasks :
    task[t].st \in {"waiting", "connecting"} ~> task[t].st \in {"holding", "idle"}

\* connection_manager.py:184, "Decrement in-use counter for a connection", and
\* file_ops.py:16, "Context manager helper": once every caller is done, no
\* live connection is left counted as in use.
IdleMeansUnused ==
  (\A t \in Tasks : task[t].st = "idle") =>
    \A c \in Conns : conn[c].alive => conn[c].inUse = 0
===============================================================================
