---------------------------- MODULE ConnectionLease ----------------------------
(***************************************************************************)
(* What the connection pool promises its callers, whatever its locks, its  *)
(* per-host lists and its counters do: a caller borrows one live           *)
(* connection, and a connection never serves more than PoolSize uses at a  *)
(* time, counting those whose borrower left without giving them back.      *)
(***************************************************************************)
EXTENDS Naturals, FiniteSets

CONSTANTS
  Tasks,     (* callers                                                    *)
  Conns,     (* connections, in the order they are opened                  *)
  NoConn,    (* no connection                                              *)
  PoolSize   (* the uses one connection may have at a time                 *)

VARIABLES
  opened,    (* the connections opened so far are 1..opened                *)
  live,      (* those that are still up                                    *)
  lease,     (* lease[t] is the connection t has borrowed, or NoConn       *)
  lost       (* lost[c] counts the uses of c that can never be given back  *)

leaseVars == <<opened, live, lease, lost>>

Borrowers(c) == {t \in Tasks : lease[t] = c}

LeaseInit ==
  /\ opened = 0
  /\ live = {}
  /\ lease = [t \in Tasks |-> NoConn]
  /\ lost = [c \in Conns |-> 0]

\* t borrows a connection opened for it.
Open(t) ==
  /\ lease[t] = NoConn
  /\ opened + 1 \in Conns
  /\ opened' = opened + 1
  /\ live' = live \cup {opened'}
  /\ lease' = [lease EXCEPT ![t] = opened']
  /\ UNCHANGED lost

\* t borrows a connection that is up and has a use to spare.
Borrow(t, c) ==
  /\ lease[t] = NoConn
  /\ c \in live
  /\ Cardinality(Borrowers(c)) + lost[c] < PoolSize
  /\ lease' = [lease EXCEPT ![t] = c]
  /\ UNCHANGED <<opened, live, lost>>

\* What get_connection gives t: a new connection, or one that is pooled.
Obtain(t) == Open(t) \/ \E c \in Conns : Borrow(t, c)

GiveBack(t) ==
  /\ lease[t] # NoConn
  /\ lease' = [lease EXCEPT ![t] = NoConn]
  /\ UNCHANGED <<opened, live, lost>>

\* t is done and its use of the connection stays counted for ever.
Forget(t) ==
  /\ lease[t] # NoConn
  /\ lease' = [lease EXCEPT ![t] = NoConn]
  /\ lost' = [lost EXCEPT ![lease[t]] = @ + 1]
  /\ UNCHANGED <<opened, live>>

Drop(c) ==
  /\ c \in live
  /\ live' = live \ {c}
  /\ UNCHANGED <<opened, lease, lost>>

LeaseNext ==
  \/ \E t \in Tasks :
       Open(t) \/ GiveBack(t) \/ Forget(t) \/ \E c \in Conns : Borrow(t, c)
  \/ \E c \in Conns : Drop(c)

LeaseSpec == LeaseInit /\ [][LeaseNext]_leaseVars
===============================================================================
