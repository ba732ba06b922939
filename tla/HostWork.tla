-------------------------------- MODULE HostWork -------------------------------
(***************************************************************************)
(* Tunnels and scripts over the connections of one host.  They share what  *)
(* the pool promises (ConnectionLease, which ConnectionPool implements):   *)
(* uses that tunnels never give back, and connections that are lost under  *)
(* both.                                                                   *)
(***************************************************************************)
EXTENDS Tunnels, Scripts

ASSUME CallersAssumption ==
  /\ Tasks = Opens \cup {Upload(s) : s \in Scripts} \cup {Command(s) : s \in Scripts}
  /\ \A s \in Scripts : Upload(s) \notin Opens /\ Command(s) \notin Opens

hostVars == <<leaseVars, tunnelVars, scriptVars>>

HostInit == LeaseInit /\ TunnelInit /\ ScriptInit

HostNext ==
  \/ TunnelNext /\ UNCHANGED scriptVars
  \/ ScriptNext /\ UNCHANGED tunnelVars

HostSpec == HostInit /\ [][HostNext]_hostVars
-----------------------------------------------------------------------------
LeaseTypeOK ==
  /\ opened \in Nat /\ live \subseteq Conns
  /\ lease \in [Tasks -> Conns \cup {NoConn}]
  /\ lost \in [Conns -> Nat]

TypeOK == LeaseTypeOK /\ TunnelTypeOK /\ ScriptTypeOK

\* Who holds a use of a connection is still at work with it: a script returns both
\* of its own on every way out, the upload's as the last thing, and a tunnel keeps
\* the one it forwards over until it is closed.
UsesAreHeld ==
  /\ \A s \in Scripts :
       /\ lease[Upload(s)] = NoConn <=> At(s) \in {"idle", "connecting", "raised", "failed", "done"}
       /\ lease[Command(s)] = NoConn <=> At(s) \notin {"running", "removing"}
  /\ \A o \in Opens : lease[o] # NoConn <=> tunnel[o].st \in {"forwarding", "up", "open"}
===============================================================================
