-------------------------------- MODULE Tunnels --------------------------------
(***************************************************************************)
(* TunnelManager of server/network_tools.py: port forwards and proxies     *)
(* that are opened over a borrowed connection, listed, and closed by their *)
(* id.  A local forward and a dynamic proxy listen in this process, a     *)
(* remote forward on the host; a port stands for a side and a number.      *)
(*                                                                         *)
(* Nothing awaits while it holds TunnelManager._lock, so taking it never   *)
(* suspends.  An open and a close are calls of their own; a close may come *)
(* at any time, also for a tunnel that is gone or not yet there.           *)
(*                                                                         *)
(* Definitions named Fault... are plausible defects of the definition that *)
(* follows them; no specification uses them.                               *)
(***************************************************************************)
EXTENDS ConnectionLease

CONSTANTS
  Opens,     (* calls that open a tunnel; each is a caller of the pool     *)
  Closes,    (* calls of close_tunnel                                      *)
  Ports,     (* ports, for 0 one that nothing else asks for                *)
  HostPorts, (* those that are on the side of the host                     *)
  NoPort     (* no port asked for yet                                      *)

ASSUME OpensAssumption == Opens \subseteq Tasks /\ NoConn \notin Conns
ASSUME PortsAssumption == NoPort \notin Ports /\ HostPorts \subseteq Ports

VARIABLES
  tunnel,     (* tunnel[o]: where the call o and its tunnel stand, and the *)
              (* port it wants or has                                      *)
  table,      (* _tunnels, by the calls that opened them                   *)
  listener,   (* listener[o]: the connection that the listener of o is up  *)
              (* over, or NoConn                                           *)
  close       (* close[k]: where the call k stands                         *)

tunnelVars == <<tunnel, table, listener, close>>

TunnelInit ==
  /\ tunnel = [o \in Opens |-> [st |-> "idle", port |-> NoPort]]
  /\ table = {} /\ listener = [o \in Opens |-> NoConn]
  /\ close = [k \in Closes |-> "idle"]

Listening == {o \in Opens : listener[o] # NoConn}

PortFree(p) == \A o \in Listening : tunnel[o].port # p

OnHost(o) == tunnel[o].port \in HostPorts

\* The call has ended without a tunnel.
Failed(o) == tunnel' = [tunnel EXCEPT ![o] = [st |-> "failed", port |-> NoPort]]

OpenTunnel(o, p) ==
  /\ tunnel[o].st = "idle"
  /\ tunnel' = [tunnel EXCEPT ![o] = [st |-> "connecting", port |-> p]]
  /\ UNCHANGED <<leaseVars, table, listener, close>>

TunnelConnected(o) ==
  /\ tunnel[o].st = "connecting" /\ Obtain(o)
  /\ tunnel' = [tunnel EXCEPT ![o].st = "forwarding"]
  /\ UNCHANGED <<table, listener, close>>

\* get_connection raises, outside the try.
TunnelUnreachable(o) ==
  /\ tunnel[o].st = "connecting" /\ Failed(o)
  /\ UNCHANGED <<leaseVars, table, listener, close>>

\* The listener comes up: here, also when the connection was lost meanwhile; on the
\* host, which then answers.
ListenerUp(o) ==
  /\ tunnel[o].st = "forwarding" /\ PortFree(tunnel[o].port)
  /\ OnHost(o) => lease[o] \in live
  /\ tunnel' = [tunnel EXCEPT ![o].st = "up"]
  /\ listener' = [listener EXCEPT ![o] = lease[o]]
  /\ UNCHANGED <<leaseVars, table, close>>

\* The call goes on and lists the tunnel.
Forwarded(o) ==
  /\ tunnel[o].st = "up"
  /\ tunnel' = [tunnel EXCEPT ![o].st = "open"]
  /\ table' = table \cup {o}
  /\ UNCHANGED <<leaseVars, listener, close>>

\* The port is taken, the other side refuses, or the connection is lost, maybe with
\* the answer of the host.  The connection is not released.
ForwardFails(o) ==
  /\ \/ tunnel[o].st = "forwarding"
     \/ tunnel[o].st = "up" /\ OnHost(o) /\ lease[o] \notin live
  /\ Forget(o) /\ Failed(o)
  /\ UNCHANGED <<table, listener, close>>

FaultPopKeepsListener(k, o) ==
  /\ table' = table \ {o}
  /\ tunnel' = [tunnel EXCEPT ![o].st = "closing"]
  /\ close' = [close EXCEPT ![k] = "closing"]
  /\ Forget(o) /\ UNCHANGED listener

\* The entry is popped and its listener asked to close, in one go: one that is here
\* has closed then.  The connection is not released.
Pop(k, o) ==
  /\ table' = table \ {o}
  /\ tunnel' = [tunnel EXCEPT ![o].st = "closing"]
  /\ listener' = IF OnHost(o) THEN listener ELSE [listener EXCEPT ![o] = NoConn]
  /\ close' = [close EXCEPT ![k] = "closing"]
  /\ Forget(o)

CloseTunnel(k, o) ==
  /\ close[k] = "idle"
  /\ \/ o \in table /\ Pop(k, o)
     \/ /\ o \notin table
        /\ close' = [close EXCEPT ![k] = "notFound"]
        /\ UNCHANGED <<tunnel, table, listener, leaseVars>>

\* The host does as it was asked to.
HostCloses(o) ==
  /\ tunnel[o].st = "closing" /\ o \in Listening
  /\ listener' = [listener EXCEPT ![o] = NoConn]
  /\ UNCHANGED <<leaseVars, tunnel, table, close>>

\* wait_closed returns or raises, which is answered the same, also when the host has
\* not closed its listener; nothing bounds how long it takes.
CloseEnds(k) ==
  /\ close[k] = "closing"
  /\ close' = [close EXCEPT ![k] = "closed"]
  /\ UNCHANGED <<leaseVars, tunnel, table, listener>>

\* A connection is lost, and its listeners with it, but maybe one here that it was
\* not told of yet.  Nothing tells the table.
Lost(c) ==
  /\ Drop(c)
  /\ \E late \in SUBSET {o \in Opens : tunnel[o].st = "up" /\ ~OnHost(o)} :
       listener' = [o \in Opens |->
                     IF listener[o] = c /\ o \notin late THEN NoConn ELSE listener[o]]
  /\ UNCHANGED <<tunnel, table, close>>

TunnelNext ==
  \/ \E o \in Opens : \/ \E p \in Ports : OpenTunnel(o, p)
                      \/ TunnelConnected(o) \/ TunnelUnreachable(o)
                      \/ ListenerUp(o) \/ Forwarded(o) \/ ForwardFails(o)
                      \/ HostCloses(o)
  \/ \E k \in Closes : CloseEnds(k) \/ \E o \in Opens : CloseTunnel(k, o)
  \/ \E c \in Conns : Lost(c)
-----------------------------------------------------------------------------
(* Properties.                                                             *)

TunnelTypeOK ==
  /\ tunnel \in [Opens -> [st : {"idle", "connecting", "forwarding", "up", "failed", "open",
                                  "closing"},
                           port : Ports \cup {NoPort}]]
  /\ table \subseteq Opens /\ listener \in [Opens -> Conns \cup {NoConn}]
  /\ close \in [Closes -> {"idle", "notFound", "closing", "closed"}]

\* Whatever fails or is lost between get_connection and close_tunnel, a listener
\* that ssh_active_tunnels does not show is one that its call is about to list, or
\* one that the host was asked to close and has not; it outlives its connection in
\* this process only.  A tunnel that is shown is deaf only for a lost connection.
ListenersAreListed ==
  /\ \A o \in Listening :
       /\ o \in table \/ tunnel[o].st = "up" \/ (tunnel[o].st = "closing" /\ OnHost(o))
       /\ listener[o] \in live \/ ~OnHost(o)
  /\ \A o \in table \ Listening : lease[o] \notin live
===============================================================================
