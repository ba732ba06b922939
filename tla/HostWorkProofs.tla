----------------------------- MODULE HostWorkProofs ----------------------------
(* Theorems about HostWork for any tunnels, closes, scripts, ports and     *)
(* connections, and connections of any number of uses.                     *)
EXTENDS HostWork, TLAPS

-----------------------------------------------------------------------------
(* The connections.                                                        *)

\* What is borrowed or up has been opened.
LeaseInv ==
  /\ LeaseTypeOK
  /\ live \subseteq 1..opened
  /\ \A t \in Tasks : lease[t] # NoConn => lease[t] \in 1..opened

\* The uses of all callers but those of T stay, and of the connections that were
\* opened the same are up.
Spares(T) ==
  /\ \A t \in Tasks \ T : lease'[t] = lease[t]
  /\ \A c \in 1..opened : c \in live' <=> c \in live
  /\ 1..opened \subseteq 1..opened'

\* Obtaining a connection changes the use of one caller only, who then has one.
LEMMA ObtainLease ==
  ASSUME LeaseInv, NEW t \in Tasks, Obtain(t)
  PROVE  LeaseInv' /\ Spares({t}) /\ lease'[t] # NoConn /\ lease[t] = NoConn
<1>1. CASE Open(t)
  <2>1. /\ opened' = opened + 1 /\ live' = live \cup {opened'} /\ opened' \in Conns
        /\ lease' = [lease EXCEPT ![t] = opened'] /\ lost' = lost /\ lease[t] = NoConn
    BY <1>1 DEF Open
  <2>2. LeaseTypeOK' BY <2>1 DEF LeaseInv, LeaseTypeOK
  <2>3. opened \in Nat /\ 1..opened \subseteq 1..opened' /\ opened' \notin 1..opened
    BY <2>1 DEF LeaseInv, LeaseTypeOK
  <2>4. lease \in [Tasks -> Conns \cup {NoConn}] BY DEF LeaseInv, LeaseTypeOK
  <2>5. QED BY <2>1, <2>2, <2>3, <2>4, OpensAssumption DEF LeaseInv, Spares
<1>2. CASE \E c \in Conns : Borrow(t, c)
  BY <1>2, OpensAssumption DEF Borrow, LeaseInv, LeaseTypeOK, Spares
<1>3. QED BY <1>1, <1>2 DEF Obtain

\* Giving a use back, or forgetting it, changes the use of one caller only.
LEMMA EndLease ==
  ASSUME LeaseInv, NEW t \in Tasks, GiveBack(t) \/ Forget(t)
  PROVE  LeaseInv' /\ Spares({t}) /\ lease'[t] = NoConn /\ live' = live
<1>1. /\ opened' = opened /\ live' = live /\ lease' = [lease EXCEPT ![t] = NoConn]
      /\ lease[t] # NoConn
  BY DEF GiveBack, Forget
<1>2. lost' \in [Conns -> Nat]
  BY DEF GiveBack, Forget, LeaseInv, LeaseTypeOK
<1>3. QED BY <1>1, <1>2 DEF LeaseInv, LeaseTypeOK, Spares

\* A script that returns both of its uses changes no other.
LEMMA EndBoth ==
  ASSUME LeaseInv, NEW s \in Scripts, GiveBackBoth(s)
  PROVE  /\ LeaseInv' /\ Spares({Upload(s), Command(s)}) /\ live' = live
         /\ lease'[Upload(s)] = NoConn /\ lease'[Command(s)] = NoConn
<1>1. Upload(s) \in Tasks /\ Command(s) \in Tasks BY ScriptsAssumption
<1>2. QED BY <1>1 DEF GiveBackBoth, LeaseInv, LeaseTypeOK, Spares

\* Where no connection is touched everything about them stays.
LEMMA SameLease ==
  ASSUME LeaseInv, UNCHANGED leaseVars
  PROVE  LeaseInv' /\ Spares({}) /\ live' = live /\ lease' = lease
  BY DEF leaseVars, LeaseInv, LeaseTypeOK, Spares

-----------------------------------------------------------------------------
(* The tunnels.                                                            *)

\* A tunnel has its use from the connect to the close.
TunnelUses(o) == lease[o] # NoConn <=> tunnel[o].st \in {"forwarding", "up", "open"}

\* Where the listener of a tunnel can be: up over the connection that the tunnel
\* holds, or still on a host that was asked to close it.
ListenerFits(o) ==
  listener[o] # NoConn =>
    /\ listener[o] \in 1..opened
    /\ \/ tunnel[o].st \in {"up", "open"} /\ listener[o] = lease[o]
       \/ tunnel[o].st = "closing" /\ OnHost(o)
    /\ listener[o] \in live \/ ~OnHost(o)

\* The table shows the tunnels that are open; one whose listener came up is deaf for
\* a lost connection only.
ShownFits(o) ==
  /\ o \in table <=> tunnel[o].st = "open"
  /\ tunnel[o].st \in {"up", "open"} /\ listener[o] = NoConn => lease[o] \notin live

Placed(o) == TunnelUses(o) /\ ListenerFits(o) /\ ShownFits(o)

TunnelInv == TunnelTypeOK /\ \A o \in Opens : Placed(o)

\* A tunnel that a step leaves alone, with the use of its connection, stays as it
\* should be.
LEMMA TunnelLeftAlone ==
  ASSUME LeaseInv, TunnelTypeOK, NEW T, Spares(T), NEW o \in Opens \ T, Placed(o),
         tunnel'[o] = tunnel[o], listener'[o] = listener[o], o \in table' <=> o \in table
  PROVE  Placed(o)'
<1>1. o \in Tasks /\ lease'[o] = lease[o] BY OpensAssumption DEF Spares
<1>2. lease[o] # NoConn => (lease[o] \in live' <=> lease[o] \in live)
  BY <1>1 DEF LeaseInv, Spares
<1>3. listener[o] # NoConn /\ ListenerFits(o) =>
        listener[o] \in 1..opened' /\ (listener[o] \in live' <=> listener[o] \in live)
  BY DEF ListenerFits, Spares
<1>4. TunnelUses(o)' BY <1>1 DEF Placed, TunnelUses
<1>5. ListenerFits(o)' BY <1>1, <1>3 DEF Placed, ListenerFits, OnHost
<1>6. ShownFits(o)'
  BY <1>1, <1>2 DEF Placed, ShownFits, TunnelUses
<1>7. QED BY <1>4, <1>5, <1>6 DEF Placed

\* Where no tunnel is touched, nor the connection of one, everything about them
\* stays.
LEMMA TunnelsLeftAlone ==
  ASSUME LeaseInv, TunnelInv, UNCHANGED tunnelVars,
         NEW T, T \cap Opens = {}, Spares(T)
  PROVE  TunnelInv'
<1>1. TunnelTypeOK' BY DEF TunnelInv, TunnelTypeOK, tunnelVars
<1>2. ASSUME NEW o \in Opens PROVE Placed(o)'
  BY TunnelLeftAlone DEF TunnelInv, tunnelVars
<1>3. QED BY <1>1, <1>2 DEF TunnelInv

\* Where a step changes one tunnel and its use at most, the others stay as they
\* should be.
LEMMA OthersPlaced ==
  ASSUME LeaseInv, TunnelInv, NEW o \in Opens, Spares({o}), TunnelTypeOK', Placed(o)',
         \A u \in Opens \ {o} : tunnel'[u] = tunnel[u] /\ listener'[u] = listener[u],
         \A u \in Opens \ {o} : u \in table' <=> u \in table
  PROVE  TunnelInv'
<1>1. ASSUME NEW u \in Opens \ {o} PROVE Placed(u)'
  BY TunnelLeftAlone DEF TunnelInv
<1>2. QED BY <1>1 DEF TunnelInv

\* The steps of one call that opens a tunnel, and of the host for it.
LEMMA OpenStep ==
  ASSUME LeaseInv, TunnelInv, NEW o \in Opens,
         \/ \E p \in Ports : OpenTunnel(o, p)
         \/ TunnelConnected(o) \/ TunnelUnreachable(o) \/ ListenerUp(o) \/ Forwarded(o)
         \/ ForwardFails(o) \/ HostCloses(o)
  PROVE  LeaseInv' /\ TunnelInv' /\ Spares({o})
<1>a. /\ TunnelTypeOK /\ Placed(o) /\ o \in Tasks /\ lease[o] \in Conns \cup {NoConn}
      /\ NoConn \notin Conns
  BY OpensAssumption DEF TunnelInv, LeaseInv, LeaseTypeOK
<1> USE <1>a DEF TunnelTypeOK, Placed, TunnelUses, ListenerFits, ShownFits, OnHost
<1>1. ASSUME NEW p \in Ports, OpenTunnel(o, p)
      PROVE  LeaseInv' /\ TunnelInv' /\ Spares({o})
  <2>1. LeaseInv' /\ Spares({o}) /\ UNCHANGED leaseVars
    BY <1>1, SameLease DEF OpenTunnel, Spares
  <2>2. TunnelTypeOK' /\ Placed(o)' BY <1>1, <2>1 DEF OpenTunnel, leaseVars
  <2>3. QED BY <1>1, <2>1, <2>2, OthersPlaced DEF OpenTunnel
<1>2. CASE TunnelConnected(o)
  <2>1. LeaseInv' /\ Spares({o}) /\ lease'[o] # NoConn
    BY <1>2, ObtainLease DEF TunnelConnected
  <2>2. TunnelTypeOK' /\ Placed(o)' BY <1>2, <2>1 DEF TunnelConnected
  <2>3. QED BY <1>2, <2>1, <2>2, OthersPlaced DEF TunnelConnected
<1>3. CASE TunnelUnreachable(o)
  <2>1. LeaseInv' /\ Spares({o}) /\ UNCHANGED leaseVars
    BY <1>3, SameLease DEF TunnelUnreachable, Spares
  <2>2. TunnelTypeOK' /\ Placed(o)' BY <1>3, <2>1 DEF TunnelUnreachable, Failed, leaseVars
  <2>3. QED BY <1>3, <2>1, <2>2, OthersPlaced DEF TunnelUnreachable, Failed
<1>4. CASE ListenerUp(o)
  <2>1. LeaseInv' /\ Spares({o}) /\ UNCHANGED leaseVars
    BY <1>4, SameLease DEF ListenerUp, Spares
  <2>2. lease[o] # NoConn /\ lease[o] \in 1..opened BY <1>4 DEF ListenerUp, LeaseInv
  <2>3. TunnelTypeOK' /\ Placed(o)' BY <1>4, <2>1, <2>2 DEF ListenerUp, leaseVars
  <2>4. QED BY <1>4, <2>1, <2>3, OthersPlaced DEF ListenerUp
<1>5. CASE Forwarded(o)
  <2>1. LeaseInv' /\ Spares({o}) /\ UNCHANGED leaseVars
    BY <1>5, SameLease DEF Forwarded, Spares
  <2>2. TunnelTypeOK' /\ Placed(o)' BY <1>5, <2>1 DEF Forwarded, leaseVars
  <2>3. QED BY <1>5, <2>1, <2>2, OthersPlaced DEF Forwarded
<1>6. CASE ForwardFails(o)
  <2>1. LeaseInv' /\ Spares({o}) /\ lease'[o] = NoConn /\ live' = live
    BY <1>6, EndLease DEF ForwardFails
  <2>2. listener[o] = NoConn /\ o \notin table BY <1>6 DEF ForwardFails
  <2>3. TunnelTypeOK' /\ Placed(o)' BY <1>6, <2>1, <2>2 DEF ForwardFails, Failed
  <2>4. QED BY <1>6, <2>1, <2>3, OthersPlaced DEF ForwardFails, Failed
<1>7. CASE HostCloses(o)
  <2>1. LeaseInv' /\ Spares({o}) /\ UNCHANGED leaseVars
    BY <1>7, SameLease DEF HostCloses, Spares
  <2>2. TunnelTypeOK' /\ Placed(o)' BY <1>7, <2>1 DEF HostCloses, leaseVars
  <2>3. QED BY <1>7, <2>1, <2>2, OthersPlaced DEF HostCloses
<1>8. QED BY <1>1, <1>2, <1>3, <1>4, <1>5, <1>6, <1>7

\* A close finds its tunnel, or not.
LEMMA CloseStep ==
  ASSUME LeaseInv, TunnelInv, NEW k \in Closes, NEW o \in Opens,
         CloseTunnel(k, o)
  PROVE  LeaseInv' /\ TunnelInv' /\ Spares({o})
<1>a. TunnelTypeOK /\ Placed(o) /\ o \in Tasks BY OpensAssumption DEF TunnelInv
<1>1. CASE CloseTunnel(k, o) /\ o \in table
  <2>1. Pop(k, o) BY <1>1 DEF CloseTunnel
  <2>2. LeaseInv' /\ Spares({o}) /\ lease'[o] = NoConn /\ live' = live
    BY <1>a, <2>1, EndLease DEF Pop
  <2>3. listener' = IF OnHost(o) THEN listener ELSE [listener EXCEPT ![o] = NoConn]
    BY <2>1 DEF Pop
  <2>4. TunnelTypeOK' BY <1>a, <2>1, <2>3 DEF Pop, TunnelTypeOK
  <2>5. TunnelUses(o)' /\ ShownFits(o)'
    BY <1>a, <2>1, <2>2 DEF Pop, TunnelTypeOK, TunnelUses, ShownFits
  <2>6. opened \in Nat /\ 1..opened \subseteq 1..opened' BY <2>2 DEF Spares, LeaseInv, LeaseTypeOK
  <2>7. ListenerFits(o)'
    BY <1>a, <2>1, <2>2, <2>3, <2>6 DEF Pop, TunnelTypeOK, Placed, ListenerFits, OnHost
  <2>8. Placed(o)' BY <2>5, <2>7 DEF Placed
  <2>9. \A u \in Opens \ {o} : tunnel'[u] = tunnel[u] /\ listener'[u] = listener[u]
    BY <1>a, <2>1, <2>3 DEF Pop, TunnelTypeOK
  <2>10. \A u \in Opens \ {o} : u \in table' <=> u \in table
    BY <2>1 DEF Pop
  <2>11. QED BY <2>2, <2>4, <2>8, <2>9, <2>10, OthersPlaced
<1>2. CASE CloseTunnel(k, o) /\ o \notin table
  <2>1. /\ UNCHANGED <<tunnel, table, listener, leaseVars>>
        /\ close' = [close EXCEPT ![k] = "notFound"]
    BY <1>2 DEF CloseTunnel
  <2>2. LeaseInv' /\ Spares({o}) BY <2>1, SameLease DEF Spares
  <2>3. TunnelTypeOK' BY <1>a, <2>1 DEF TunnelTypeOK
  <2>4. Placed(o)'
    BY <1>a, <2>1 DEF Placed, TunnelUses, ListenerFits, ShownFits, OnHost, leaseVars
  <2>5. QED BY <2>1, <2>2, <2>3, <2>4, OthersPlaced
<1>3. QED BY <1>1, <1>2

\* A connection is lost.
LEMMA LostStep ==
  ASSUME LeaseInv, TunnelInv, NEW c \in Conns, Lost(c)
  PROVE  LeaseInv' /\ TunnelInv' /\ lease' = lease
<1>1. /\ opened' = opened /\ live' = live \ {c} /\ lease' = lease /\ lost' = lost
      /\ tunnel' = tunnel /\ table' = table /\ close' = close
  BY DEF Lost, Drop
<1>2. PICK late \in SUBSET {o \in Opens : tunnel[o].st = "up" /\ ~OnHost(o)} :
        listener' = [o \in Opens |->
                      IF listener[o] = c /\ o \notin late THEN NoConn ELSE listener[o]]
  BY DEF Lost
<1>3. LeaseInv' BY <1>1 DEF LeaseInv, LeaseTypeOK
<1>4. TunnelTypeOK' BY <1>1, <1>2 DEF TunnelInv, TunnelTypeOK
<1>5. ASSUME NEW o \in Opens PROVE Placed(o)'
  <2>1. TunnelTypeOK /\ Placed(o) BY DEF TunnelInv
  <2>2. TunnelUses(o)' BY <2>1, <1>1 DEF Placed, TunnelUses
  <2>a. o \in late => tunnel[o].st = "up" /\ ~OnHost(o) BY <1>2
  <2>b. listener'[o] = IF listener[o] = c /\ o \notin late THEN NoConn ELSE listener[o]
    BY <1>2
  <2>3. \/ listener'[o] = listener[o] /\ (listener[o] = c => tunnel[o].st = "up" /\ ~OnHost(o))
        \/ listener[o] = c /\ listener'[o] = NoConn
    BY <2>a, <2>b
  <2>4. ListenerFits(o)' BY <1>1, <2>1, <2>3 DEF Placed, ListenerFits, OnHost
  <2>5. ShownFits(o)' BY <1>1, <2>1, <2>3 DEF Placed, ShownFits, ListenerFits
  <2>6. QED BY <2>2, <2>4, <2>5 DEF Placed
<1>6. QED BY <1>1, <1>3, <1>4, <1>5 DEF TunnelInv

\* Every step of the tunnels keeps what holds of them, and no use of a script.
LEMMA TunnelStep ==
  ASSUME LeaseInv, TunnelInv, TunnelNext
  PROVE  LeaseInv' /\ TunnelInv' /\ \A t \in Tasks \ Opens : lease'[t] = lease[t]
<1>1. CASE \E o \in Opens : \/ \E p \in Ports : OpenTunnel(o, p)
                            \/ TunnelConnected(o) \/ TunnelUnreachable(o)
                            \/ ListenerUp(o) \/ Forwarded(o) \/ ForwardFails(o)
                            \/ HostCloses(o)
  BY <1>1, OpenStep DEF Spares
<1>2. CASE \E k \in Closes, o \in Opens : CloseTunnel(k, o)
  BY <1>2, CloseStep DEF Spares
<1>3. CASE \E k \in Closes : CloseEnds(k)
  <2>1. PICK k \in Closes : CloseEnds(k) BY <1>3
  <2>2. UNCHANGED <<leaseVars, tunnel, table, listener>> /\ close' = [close EXCEPT ![k] = "closed"]
    BY <2>1 DEF CloseEnds
  <2>3. LeaseInv' /\ lease' = lease /\ Spares({}) BY <2>2, SameLease
  <2>4. TunnelTypeOK' BY <2>2 DEF TunnelInv, TunnelTypeOK
  <2>5. \A o \in Opens : Placed(o)' BY <2>2, <2>3, TunnelLeftAlone DEF TunnelInv
  <2>6. QED BY <2>3, <2>4, <2>5 DEF TunnelInv
<1>4. CASE \E c \in Conns : Lost(c)
  BY <1>4, LostStep
<1>5. QED BY <1>1, <1>2, <1>3, <1>4 DEF TunnelNext

-----------------------------------------------------------------------------
(* The uses of the scripts.                                                *)

\* A script has the use of its upload to its end, and of its command while it runs.
UseFits(s) ==
  /\ lease[Upload(s)] = NoConn <=> At(s) \in {"idle", "connecting", "raised", "failed", "done"}
  /\ lease[Command(s)] = NoConn <=> At(s) \notin {"running", "removing"}

ScriptUses == \A s \in Scripts : UseFits(s)

\* The callers that scripts are to the pool are all different, and no tunnels.
LEMMA Callers ==
  ASSUME NEW s \in Scripts
  PROVE  /\ Upload(s) \in Tasks \ Opens /\ Command(s) \in Tasks \ Opens
         /\ \A u \in Scripts : Upload(s) # Command(u)
         /\ \A u \in Scripts \ {s} : Upload(s) # Upload(u) /\ Command(s) # Command(u)
<1>1. Upload(s) \in Tasks \ Opens /\ Command(s) \in Tasks \ Opens
  BY CallersAssumption, ScriptsAssumption
<1>2. QED BY <1>1 DEF Upload, Command

\* Where a step changes at most one script and its own uses, the uses of the
\* others fit as before.
LEMMA OthersFit ==
  ASSUME ScriptUses, NEW s \in Scripts, UseFits(s)',
         \A u \in Scripts \ {s} : script'[u] = script[u],
         Spares({Upload(s), Command(s)})
  PROVE  ScriptUses'
<1> SUFFICES ASSUME NEW u \in Scripts \ {s} PROVE UseFits(u)'
  BY DEF ScriptUses
<1>1. lease'[Upload(u)] = lease[Upload(u)] /\ lease'[Command(u)] = lease[Command(u)]
  BY Callers DEF Spares
<1>2. UseFits(u) BY DEF ScriptUses
<1>3. QED BY <1>1, <1>2 DEF UseFits, At

\* Sparing all but some spares all but more.
LEMMA SparesMore ==
  ASSUME NEW T, NEW U, T \subseteq U, Spares(T)
  PROVE  Spares(U)
  BY DEF Spares

ScriptStep(s) ==
  \/ StartScript(s) \/ ScriptConnected(s) \/ ScriptUnreachable(s)
  \/ OpenFile(s) \/ WriteFile(s) \/ UploadFails(s)
  \/ RunConnected(s) \/ ExecUnreachable(s) \/ HostReads(s) \/ RunEnds(s)
  \/ RemoveConnected(s) \/ HostRemoves(s) \/ RemoveEnds(s)

\* A step of a script moves no other.
LEMMA OneScriptMoves ==
  ASSUME ScriptTypeOK, NEW s \in Scripts, ScriptStep(s)
  PROVE  \A u \in Scripts \ {s} : script'[u] = script[u]
<1> USE DEF ScriptTypeOK, Goto
<1>1. CASE StartScript(s) \/ ScriptConnected(s) \/ ScriptUnreachable(s)
  BY <1>1 DEF StartScript, ScriptConnected, ScriptUnreachable
<1>2. CASE OpenFile(s) \/ WriteFile(s) \/ UploadFails(s)
  BY <1>2 DEF OpenFile, WriteFile, UploadFails
<1>3. CASE RunConnected(s) \/ ExecUnreachable(s) \/ HostReads(s) \/ RunEnds(s)
  BY <1>3 DEF RunConnected, ExecUnreachable, HostReads, RunEnds
<1>4. CASE RemoveConnected(s) \/ HostRemoves(s) \/ RemoveEnds(s)
  BY <1>4 DEF RemoveConnected, HostRemoves, RemoveEnds
<1>5. QED BY <1>1, <1>2, <1>3, <1>4 DEF ScriptStep

\* Each step of a script keeps its uses, and takes and returns none but its own.
LEMMA OwnUses ==
  ASSUME LeaseInv, ScriptTypeOK, ScriptUses, NEW s \in Scripts, ScriptStep(s)
  PROVE  LeaseInv' /\ UseFits(s)' /\ Spares({Upload(s), Command(s)})
<1> DEFINE Mine == {Upload(s), Command(s)}
<1>a. UseFits(s) /\ Upload(s) \in Tasks /\ Command(s) \in Tasks /\ Upload(s) # Command(s)
  BY Callers DEF ScriptUses
<1> USE DEF At, Goto
<1>1. CASE /\ StartScript(s) \/ ScriptUnreachable(s) \/ OpenFile(s) \/ WriteFile(s)
              \/ HostReads(s) \/ HostRemoves(s)
  <2>1. UNCHANGED leaseVars
    BY <1>1 DEF StartScript, ScriptUnreachable, OpenFile, WriteFile, HostReads, HostRemoves
  <2>2. LeaseInv' /\ lease' = lease /\ Spares(Mine)
    BY <2>1, SameLease DEF Spares
  <2>3. UseFits(s)'
    BY <1>a, <1>1, <2>2
       DEF StartScript, ScriptUnreachable, OpenFile, WriteFile, HostReads, HostRemoves,
           UseFits, ScriptTypeOK
  <2>4. QED BY <2>2, <2>3
<1>2. CASE ScriptConnected(s)
  <2>1. LeaseInv' /\ Spares({Upload(s)}) /\ lease'[Upload(s)] # NoConn
    BY <1>a, <1>2, ObtainLease DEF ScriptConnected
  <2>2. lease'[Command(s)] = lease[Command(s)] /\ Spares(Mine)
    BY <1>a, <2>1 DEF Spares
  <2>3. QED BY <1>a, <1>2, <2>1, <2>2 DEF ScriptConnected, UseFits, ScriptTypeOK
<1>3. CASE RunConnected(s) \/ RemoveConnected(s)
  <2>1. LeaseInv' /\ Spares({Command(s)}) /\ lease'[Command(s)] # NoConn
    BY <1>a, <1>3, ObtainLease DEF RunConnected, RemoveConnected
  <2>2. lease'[Upload(s)] = lease[Upload(s)] /\ Spares(Mine)
    BY <1>a, <2>1 DEF Spares
  <2>3. QED BY <1>a, <1>3, <2>1, <2>2 DEF RunConnected, RemoveConnected, UseFits, ScriptTypeOK
<1>4. CASE UploadFails(s) \/ ExecUnreachable(s)
  <2>1. LeaseInv' /\ Spares({Upload(s)}) /\ lease'[Upload(s)] = NoConn
    BY <1>a, <1>4, EndLease DEF UploadFails, ExecUnreachable
  <2>2. lease'[Command(s)] = lease[Command(s)] /\ Spares(Mine)
    BY <1>a, <2>1 DEF Spares
  <2>3. QED BY <1>a, <1>4, <2>1, <2>2 DEF UploadFails, ExecUnreachable, UseFits, ScriptTypeOK
<1>5. CASE RunEnds(s)
  <2>1. LeaseInv' /\ Spares({Command(s)}) /\ lease'[Command(s)] = NoConn
    BY <1>a, <1>5, EndLease DEF RunEnds
  <2>2. lease'[Upload(s)] = lease[Upload(s)] /\ Spares(Mine)
    BY <1>a, <2>1 DEF Spares
  <2>3. QED BY <1>a, <1>5, <2>1, <2>2 DEF RunEnds, UseFits, ScriptTypeOK
<1>6. CASE RemoveEnds(s)
  <2>1. /\ LeaseInv' /\ Spares(Mine)
        /\ lease'[Upload(s)] = NoConn /\ lease'[Command(s)] = NoConn
    BY <1>6, EndBoth DEF RemoveEnds
  <2>2. QED BY <1>6, <2>1 DEF RemoveEnds, UseFits, ScriptTypeOK
<1>7. QED BY <1>1, <1>2, <1>3, <1>4, <1>5, <1>6 DEF ScriptStep

\* Every step of the scripts keeps the uses of all, and those of the tunnels.
LEMMA ScriptLeaseStep ==
  ASSUME LeaseInv, ScriptTypeOK, ScriptUses, ScriptNext
  PROVE  LeaseInv' /\ ScriptUses' /\ Spares(Tasks \ Opens)
<1>1. PICK s \in Scripts : ScriptStep(s) BY DEF ScriptNext, ScriptStep
<1>2. LeaseInv' /\ UseFits(s)' /\ Spares({Upload(s), Command(s)}) BY <1>1, OwnUses
<1>3. \A u \in Scripts \ {s} : script'[u] = script[u] BY <1>1, OneScriptMoves
<1>4. {Upload(s), Command(s)} \subseteq Tasks \ Opens BY Callers
<1>5. Spares(Tasks \ Opens) BY <1>2, <1>4, SparesMore
<1>6. QED BY <1>2, <1>3, <1>5, OthersFit

-----------------------------------------------------------------------------
(* The files of the scripts.                                               *)

\* Each thing that can be done to files keeps their types.
LEMMA FileChanges ==
  ASSUME FilesTypeOK, NEW s \in Scripts, NEW p \in Seconds,
         OpenToWrite(s, p) \/ Write(s, p) \/ CloseUnwritten(s) \/ RemoveFile(p)
  PROVE  FilesTypeOK'
<1> USE SecondsAssumption, FilesAssumption DEF FilesTypeOK, Texts
<1>1. CASE OpenToWrite(s, p) BY <1>1 DEF OpenToWrite
<1>2. CASE Write(s, p)
  <2>1. PICK rest \in {{}, file[p]} :
          file' = IF handle[s] = p THEN [file EXCEPT ![p] = {s} \cup rest] ELSE file
    BY <1>2 DEF Write
  <2>2. handle' = [handle EXCEPT ![s] = NoPath] BY <1>2 DEF Write
  <2>3. ASSUME handle[s] = p PROVE {s} \cup rest \in SUBSET Scripts
    <3>1. file[p] # NoFile /\ file[p] \in SUBSET Scripts BY <2>3
    <3>2. QED BY <2>1, <3>1
  <2>4. QED BY <2>1, <2>2, <2>3
<1>3. CASE CloseUnwritten(s) BY <1>3 DEF CloseUnwritten
<1>4. CASE RemoveFile(p)
  <2>1. /\ file' = [file EXCEPT ![p] = NoFile]
        /\ handle' = [w \in Scripts |-> IF handle[w] = p THEN NoPath ELSE handle[w]]
    BY <1>4 DEF RemoveFile
  <2>2. file' \in [Seconds -> (SUBSET Scripts) \cup {NoFile}] BY <2>1
  <2>3. handle' \in [Scripts -> Seconds \cup {NoPath}] BY <2>1
  <2>4. ASSUME NEW w \in Scripts, handle'[w] # NoPath PROVE file'[handle'[w]] # NoFile
    <3>1. handle'[w] = handle[w] /\ handle[w] # p BY <2>1, <2>4
    <3>2. QED BY <2>1, <2>4, <3>1
  <2>5. QED BY <2>2, <2>3, <2>4
<1>5. QED BY <1>1, <1>2, <1>3, <1>4

\* Every step of the scripts keeps every type.
LEMMA ScriptTypeStep ==
  ASSUME ScriptTypeOK, NEW s \in Scripts, ScriptStep(s)
  PROVE  ScriptTypeOK'
<1> DEFINE OtherTypes ==
      /\ clock \in Seconds
      /\ script \in [Scripts -> [st : {"idle", "connecting", "raised", "opening", "writing", "ready",
                                       "running", "ran", "removing", "failed", "done"},
                                 second : Seconds]]
      /\ run \in [Scripts -> [sent : BOOLEAN, text : Texts \cup {Unread}]]
      /\ rm \in [Scripts -> {"unsent", "sent", "done"}]
<1> SUFFICES FilesTypeOK' /\ OtherTypes' BY DEF ScriptTypeOK
<1>a. OtherTypes /\ FilesTypeOK /\ Path(s) \in Seconds
  BY DEF ScriptTypeOK, Path, RemotePath
<1> USE SecondsAssumption DEF At, Goto
<1>1. CASE StartScript(s)
  <2>1. PICK second \in clock..MaxSecond :
          /\ clock' = second
          /\ script' = [script EXCEPT ![s] = [st |-> "connecting", second |-> second]]
    BY <1>1 DEF StartScript
  <2>2. second \in Seconds BY <1>a DEF Seconds
  <2>3. UNCHANGED <<file, handle, run, rm>> BY <1>1 DEF StartScript
  <2>4. QED BY <1>a, <2>1, <2>2, <2>3 DEF FilesTypeOK, Texts
<1>2. CASE ScriptConnected(s) \/ ScriptUnreachable(s) \/ ExecUnreachable(s) \/ RunEnds(s)
           \/ RemoveEnds(s)
  <2>1. UNCHANGED <<clock, file, handle, run, rm>>
    BY <1>2 DEF ScriptConnected, ScriptUnreachable, ExecUnreachable, RunEnds, RemoveEnds
  <2>2. OtherTypes'
    BY <1>a, <1>2, <2>1
       DEF ScriptConnected, ScriptUnreachable, ExecUnreachable, RunEnds, RemoveEnds, Texts
  <2>3. QED BY <1>a, <2>1, <2>2 DEF FilesTypeOK, Texts
<1>3. CASE OpenFile(s) \/ WriteFile(s) \/ UploadFails(s)
  <2>1. FilesTypeOK'
    BY <1>a, <1>3, FileChanges DEF OpenFile, WriteFile, UploadFails
  <2>2. OtherTypes'
    BY <1>a, <1>3 DEF OpenFile, WriteFile, UploadFails, Texts
  <2>3. QED BY <2>1, <2>2
<1>4. CASE HostRemoves(s)
  <2>1. FilesTypeOK' BY <1>a, <1>4, FileChanges DEF HostRemoves
  <2>2. OtherTypes' BY <1>a, <1>4 DEF HostRemoves, Texts
  <2>3. QED BY <2>1, <2>2
<1>5. CASE RunConnected(s) \/ RemoveConnected(s)
  <2>1. UNCHANGED <<clock, file, handle>>
    BY <1>5 DEF RunConnected, RemoveConnected
  <2>2. CASE RunConnected(s)
    BY <1>a, <2>1, <2>2 DEF RunConnected, FilesTypeOK, Texts
  <2>3. CASE RemoveConnected(s)
    BY <1>a, <2>1, <2>3 DEF RemoveConnected, FilesTypeOK, Texts
  <2>4. QED BY <1>5, <2>2, <2>3
<1>6. CASE HostReads(s)
  <2>1. file[Path(s)] \in Texts BY <1>a DEF FilesTypeOK
  <2>2. /\ UNCHANGED <<clock, script, file, handle, rm>>
        /\ run' = [run EXCEPT ![s].text = file[Path(s)]]
    BY <1>6 DEF HostReads
  <2>3. run' \in [Scripts -> [sent : BOOLEAN, text : Texts \cup {Unread}]]
    BY <1>a, <2>1, <2>2
  <2>4. QED BY <1>a, <2>2, <2>3 DEF FilesTypeOK, Texts
<1>7. QED BY <1>1, <1>2, <1>3, <1>4, <1>5, <1>6 DEF ScriptStep

-----------------------------------------------------------------------------
(* What scripts of different seconds find at their paths, and leave there. *)

\* What the place of a script says of its commands and of the file it has open.
Steady(s) ==
  /\ At(s) \in {"idle", "connecting", "raised", "opening", "writing", "ready"} => ~run[s].sent
  /\ At(s) \in {"running", "ran", "removing", "done"} => run[s].sent
  /\ rm[s] # "unsent" => At(s) \in {"removing", "done"}
  /\ ~run[s].sent => run[s].text = Unread
  /\ handle[s] # NoPath => At(s) = "writing" /\ handle[s] = Path(s)

\* No other script has started in the second of s.
Apart(s) ==
  \A u \in Scripts \ {s} : At(u) = "idle" \/ script[u].second # script[s].second

\* What s, alone in its second, finds at its path.
FindsOwn(s) ==
  /\ At(s) = "writing" => handle[s] = Path(s) /\ file[Path(s)] = {}
  /\ At(s) = "ready" \/ run[s].sent =>
       file[Path(s)] = IF rm[s] = "done" THEN NoFile ELSE {s}
  /\ run[s].text # Unread =>
       \/ run[s].text = {s}
       \/ run[s].text = NoFile /\ rm[s] = "done"

\* A script that may have left a file: it has got as far as to open one.
Began(s) == At(s) \notin {"idle", "connecting", "raised", "opening"}

\* A file is at the path of a script that has yet to remove it.
Owned(p) ==
  file[p] # NoFile => \E s \in Scripts : Path(s) = p /\ rm[s] # "done" /\ Began(s)

FilesInv ==
  /\ \A s \in Scripts : Steady(s) /\ (Apart(s) => FindsOwn(s))
  /\ \A p \in Seconds : Owned(p)

\* A step of one script, or of the host for it, keeps what is steady in it.
LEMMA SteadyStep ==
  ASSUME ScriptTypeOK, NEW s \in Scripts, Steady(s), ScriptStep(s)
  PROVE  Steady(s)'
<1> USE DEF At, Goto, Path, RemotePath, Steady, ScriptTypeOK, FilesTypeOK
<1>1. CASE StartScript(s) BY <1>1 DEF StartScript
<1>2. CASE ScriptConnected(s) \/ ScriptUnreachable(s) \/ ExecUnreachable(s)
  BY <1>2 DEF ScriptConnected, ScriptUnreachable, ExecUnreachable
<1>3. CASE RunEnds(s) \/ RemoveEnds(s) BY <1>3 DEF RunEnds, RemoveEnds
<1>4. CASE OpenFile(s) BY <1>4 DEF OpenFile, OpenToWrite
<1>5. CASE WriteFile(s) BY <1>5 DEF WriteFile, Write
<1>6. CASE UploadFails(s) BY <1>6 DEF UploadFails, CloseUnwritten, Write
<1>7. CASE RunConnected(s) BY <1>7 DEF RunConnected
<1>8. CASE RemoveConnected(s) BY <1>8 DEF RemoveConnected
<1>9. CASE HostReads(s) BY <1>9 DEF HostReads
<1>10. CASE HostRemoves(s) BY <1>10 DEF HostRemoves, RemoveFile
<1>11. QED BY <1>1, <1>2, <1>3, <1>4, <1>5, <1>6, <1>7, <1>8, <1>9, <1>10 DEF ScriptStep

\* A step of a script leaves the others as they are, and every path but its own; it
\* takes its second when it starts and keeps it.
LEMMA OwnPathOnly ==
  ASSUME ScriptTypeOK, NEW s \in Scripts, Steady(s), ScriptStep(s)
  PROVE  /\ \A u \in Scripts \ {s} : run'[u] = run[u] /\ rm'[u] = rm[u]
         /\ \A u \in Scripts \ {s} : handle[u] # Path(s) => handle'[u] = handle[u]
         /\ \A u \in Scripts \ {s} : handle'[u] \in {handle[u], NoPath}
         /\ \A p \in Seconds \ {Path(s)} : file'[p] = file[p]
         /\ At(s)' # "idle"
         /\ At(s) = "idle" => file' = file /\ handle' = handle
         /\ At(s) # "idle" => script'[s].second = script[s].second
<1> USE DEF At, Goto, Steady, ScriptTypeOK, FilesTypeOK
<1>a. Path(s) \in Seconds BY DEF Path, RemotePath
<1>1. CASE StartScript(s) BY <1>1 DEF StartScript
<1>2. CASE ScriptConnected(s) \/ ScriptUnreachable(s) \/ ExecUnreachable(s)
  BY <1>2 DEF ScriptConnected, ScriptUnreachable, ExecUnreachable
<1>3. CASE RunEnds(s) \/ RemoveEnds(s) BY <1>3 DEF RunEnds, RemoveEnds
<1>4. CASE OpenFile(s) BY <1>a, <1>4 DEF OpenFile, OpenToWrite
<1>5. CASE WriteFile(s) BY <1>a, <1>5 DEF WriteFile, Write
<1>6. CASE UploadFails(s) BY <1>a, <1>6 DEF UploadFails, CloseUnwritten, Write
<1>7. CASE RunConnected(s) BY <1>7 DEF RunConnected
<1>8. CASE RemoveConnected(s) BY <1>8 DEF RemoveConnected
<1>9. CASE HostReads(s) BY <1>9 DEF HostReads
<1>10. CASE HostRemoves(s) BY <1>a, <1>10 DEF HostRemoves, RemoveFile
<1>11. QED BY <1>1, <1>2, <1>3, <1>4, <1>5, <1>6, <1>7, <1>8, <1>9, <1>10 DEF ScriptStep

\* A script that is alone in its second was so before the step, unless it starts.
LEMMA ApartBefore ==
  ASSUME ScriptTypeOK, NEW s \in Scripts, Steady(s), ScriptStep(s),
         NEW u \in Scripts, Apart(u)', u = s => At(s) # "idle"
  PROVE  Apart(u)
<1>1. \A w \in Scripts \ {s} : script'[w] = script[w] BY OneScriptMoves
<1>2. At(s) # "idle" => At(s)' # "idle" /\ script'[s].second = script[s].second
  BY OwnPathOnly
<1>3. QED BY <1>1, <1>2 DEF Apart, At

\* What a script finds is not changed by a step of one that has another second.
LEMMA OthersFind ==
  ASSUME ScriptTypeOK, NEW s \in Scripts, Steady(s), ScriptStep(s),
         NEW u \in Scripts \ {s}, Steady(u), Apart(u) => FindsOwn(u), Apart(u)'
  PROVE  FindsOwn(u)'
<1>1. FindsOwn(u) BY ApartBefore
<1>2. script'[u] = script[u] /\ run'[u] = run[u] /\ rm'[u] = rm[u]
  BY OneScriptMoves, OwnPathOnly
<1>3. Path(u) \in Seconds BY DEF Path, RemotePath, ScriptTypeOK
<1>4. file'[Path(u)] = file[Path(u)] /\ (handle[u] = Path(u) => handle'[u] = handle[u])
  <2>1. CASE At(s) = "idle" BY <2>1, OwnPathOnly
  <2>2. CASE At(s) # "idle"
    <3>1. script'[s].second # script'[u].second BY OwnPathOnly DEF Apart
    <3>2. Path(s) # Path(u) BY <2>2, <3>1, <1>2, OwnPathOnly DEF Path, RemotePath
    <3>3. QED BY <1>3, <3>2, OwnPathOnly
  <2>3. QED BY <2>1, <2>2
<1>5. QED BY <1>1, <1>2, <1>4 DEF FindsOwn, Path, RemotePath, At

\* A script alone in its second finds its own text at each of its steps.
LEMMA OwnFinds ==
  ASSUME ScriptTypeOK, NEW s \in Scripts, Steady(s), ScriptStep(s),
         Apart(s) => FindsOwn(s), Apart(s)'
  PROVE  FindsOwn(s)'
<1> USE DEF At, Goto, ScriptTypeOK, FilesTypeOK, Path, RemotePath
<1>1. CASE StartScript(s) BY <1>1 DEF StartScript, Steady, FindsOwn
<1>2. CASE ~StartScript(s)
  <2>1. At(s) # "idle"
    BY <1>2 DEF ScriptStep, Steady, ScriptConnected, ScriptUnreachable, OpenFile, WriteFile, UploadFails,
                RunConnected, ExecUnreachable, HostReads, RunEnds, RemoveConnected,
                HostRemoves, RemoveEnds
  <2>2. FindsOwn(s) BY <2>1, ApartBefore
  <2> USE <2>2 DEF FindsOwn, Steady
  <2>3. CASE ScriptConnected(s) \/ ScriptUnreachable(s) \/ ExecUnreachable(s)
    BY <2>3 DEF ScriptConnected, ScriptUnreachable, ExecUnreachable
  <2>4. CASE RunEnds(s) \/ RemoveEnds(s) BY <2>4 DEF RunEnds, RemoveEnds
  <2>5. CASE OpenFile(s) BY <2>5 DEF OpenFile, OpenToWrite
  <2>6. CASE WriteFile(s)
    <3>1. handle[s] = Path(s) /\ file[Path(s)] = {} /\ ~run[s].sent /\ rm[s] = "unsent"
      BY <2>6 DEF WriteFile
    <3>2. file'[Path(s)] = {s} BY <2>6, <3>1 DEF WriteFile, Write
    <3>3. QED BY <2>6, <3>1, <3>2 DEF WriteFile
  <2>7. CASE UploadFails(s) BY <2>7 DEF UploadFails
  <2>8. CASE RunConnected(s) BY <2>8 DEF RunConnected
  <2>9. CASE RemoveConnected(s) BY <2>9 DEF RemoveConnected
  <2>10. CASE HostReads(s) BY <2>10 DEF HostReads
  <2>11. CASE HostRemoves(s) BY <2>11 DEF HostRemoves, RemoveFile
  <2>12. QED BY <1>2, <2>3, <2>4, <2>5, <2>6, <2>7, <2>8, <2>9, <2>10, <2>11 DEF ScriptStep
<1>3. QED BY <1>1, <1>2

\* Where the host removes a file nothing is; where another step puts one, or leaves
\* one, there is a script that has yet to remove it.
LEMMA OwnedStep ==
  ASSUME ScriptTypeOK, NEW s \in Scripts, Steady(s), ScriptStep(s),
         NEW p \in Seconds, Owned(p)
  PROVE  Owned(p)'
<1> SUFFICES ASSUME file'[p] # NoFile
             PROVE  \E u \in Scripts : Path(u)' = p /\ rm'[u] # "done" /\ Began(u)'
  BY DEF Owned
<1>1. CASE file[p] # NoFile /\ (p # Path(s) \/ At(s) = "idle")
  <2>1. PICK u \in Scripts : Path(u) = p /\ rm[u] # "done" /\ Began(u)
    BY <1>1 DEF Owned
  <2>2. u # s BY <1>1, <2>1 DEF Began
  <2>3. script'[u] = script[u] /\ rm'[u] = rm[u] BY <2>2, OneScriptMoves, OwnPathOnly
  <2>4. QED BY <2>1, <2>3 DEF Began, At, Path, RemotePath
<1>2. CASE file[p] = NoFile /\ (p # Path(s) \/ At(s) = "idle")
  BY <1>2, OwnPathOnly
<1>3. CASE p = Path(s) /\ At(s) # "idle"
  <2>1. Path(s)' = p BY <1>3, OwnPathOnly DEF Path, RemotePath
  <2>2. CASE OpenFile(s) \/ WriteFile(s) \/ UploadFails(s)
    <3>1. rm'[s] # "done" /\ Began(s)'
      BY <2>2 DEF OpenFile, WriteFile, UploadFails, Steady, Began, At, Goto, ScriptTypeOK
    <3>2. QED BY <2>1, <3>1
  <2>3. CASE HostRemoves(s)
    BY <1>3, <2>3 DEF HostRemoves, RemoveFile, ScriptTypeOK, FilesTypeOK
  <2>4. CASE ~(OpenFile(s) \/ WriteFile(s) \/ UploadFails(s) \/ HostRemoves(s))
    <3>1. file' = file /\ (rm[s] # "done" => rm'[s] # "done") /\ (Began(s) => Began(s)')
      BY <2>4 DEF ScriptStep, StartScript, ScriptConnected, ScriptUnreachable, RunConnected,
                  ExecUnreachable, HostReads, RunEnds, RemoveConnected, RemoveEnds, ScriptTypeOK,
                  Began, At, Goto
    <3>2. PICK u \in Scripts : Path(u) = p /\ rm[u] # "done" /\ Began(u)
      BY <3>1 DEF Owned
    <3>3. CASE u = s BY <2>1, <3>1, <3>2, <3>3
    <3>4. CASE u # s
      <4>1. script'[u] = script[u] /\ rm'[u] = rm[u] BY <3>4, OneScriptMoves, OwnPathOnly
      <4>2. QED BY <3>2, <4>1 DEF Began, At, Path, RemotePath
    <3>5. QED BY <3>3, <3>4
  <2>5. QED BY <2>2, <2>3, <2>4
<1>4. QED BY <1>1, <1>2, <1>3

\* Every step of the scripts keeps what holds of their files.
LEMMA FilesStep ==
  ASSUME ScriptTypeOK, FilesInv, NEW s \in Scripts, ScriptStep(s)
  PROVE  FilesInv'
<1>1. Steady(s) /\ Steady(s)' BY SteadyStep DEF FilesInv
<1>2. ASSUME NEW u \in Scripts \ {s} PROVE Steady(u)'
  <2>1. Steady(u) BY DEF FilesInv
  <2>2. script'[u] = script[u] /\ run'[u] = run[u] /\ rm'[u] = rm[u]
        /\ handle'[u] \in {handle[u], NoPath}
    BY <1>1, OneScriptMoves, OwnPathOnly
  <2>3. QED BY <2>1, <2>2 DEF Steady, At, Path, RemotePath
<1>3. ASSUME NEW u \in Scripts, Apart(u)' PROVE FindsOwn(u)'
  <2>1. CASE u = s BY <1>1, <1>3, <2>1, OwnFinds DEF FilesInv
  <2>2. CASE u # s BY <1>1, <1>3, <2>2, OthersFind DEF FilesInv
  <2>3. QED BY <2>1, <2>2
<1>4. ASSUME NEW p \in Seconds PROVE Owned(p)'
  BY <1>1, OwnedStep DEF FilesInv
<1>5. Seconds' = Seconds BY DEF Seconds
<1>6. QED BY <1>1, <1>2, <1>3, <1>4, <1>5 DEF FilesInv

-----------------------------------------------------------------------------
(* Tunnels and scripts together.                                           *)

\* The inductive invariant of HostSpec.
HostInv == LeaseInv /\ TunnelInv /\ ScriptTypeOK /\ ScriptUses /\ FilesInv

\* It holds at the start.
LEMMA HostInvInit == HostInit => HostInv
<1> SUFFICES ASSUME HostInit PROVE HostInv OBVIOUS
<1> USE DEF HostInit, LeaseInit, TunnelInit, ScriptInit, FilesInit
<1>1. LeaseInv BY DEF LeaseInv, LeaseTypeOK
<1>2. TunnelInv
  BY OpensAssumption
     DEF TunnelInv, TunnelTypeOK, Placed, TunnelUses, ListenerFits, ShownFits, LeaseTypeOK
<1>3. 0 \in Seconds BY SecondsAssumption DEF Seconds
<1>4. ScriptTypeOK BY <1>3 DEF ScriptTypeOK, FilesTypeOK, Texts
<1>5. ScriptUses BY Callers DEF ScriptUses, UseFits, At
<1>6. FilesInv BY DEF FilesInv, Steady, FindsOwn, Owned, At
<1>7. QED BY <1>1, <1>2, <1>4, <1>5, <1>6 DEF HostInv

\* Where no script moves, what holds of their types and files stays.
LEMMA SameScripts ==
  ASSUME ScriptTypeOK, FilesInv, UNCHANGED scriptVars
  PROVE  ScriptTypeOK' /\ FilesInv'
<1>1. ScriptTypeOK' BY DEF ScriptTypeOK, FilesTypeOK, Texts, scriptVars
<1>2. \A s \in Scripts : Steady(s)' = Steady(s) /\ Apart(s)' = Apart(s) /\ FindsOwn(s)' = FindsOwn(s)
  BY DEF Steady, Apart, FindsOwn, At, Path, RemotePath, scriptVars
<1>3. \A p \in Seconds : Owned(p)' = Owned(p)
  BY DEF Owned, Began, At, Path, RemotePath, scriptVars
<1>4. QED BY <1>1, <1>2, <1>3 DEF FilesInv, Seconds

\* Every step keeps it.
LEMMA HostInvStep == HostInv /\ [HostNext]_hostVars => HostInv'
<1> SUFFICES ASSUME HostInv, [HostNext]_hostVars PROVE HostInv' OBVIOUS
<1> USE DEF HostInv
<1>1. CASE TunnelNext /\ UNCHANGED scriptVars
  <2>1. LeaseInv' /\ TunnelInv' /\ \A t \in Tasks \ Opens : lease'[t] = lease[t]
    BY <1>1, TunnelStep
  <2>2. ScriptUses'
    BY <1>1, <2>1, Callers DEF ScriptUses, UseFits, At, scriptVars
  <2>3. QED BY <1>1, <2>1, <2>2, SameScripts
<1>2. CASE ScriptNext /\ UNCHANGED tunnelVars
  <2>1. PICK s \in Scripts : ScriptStep(s) BY <1>2 DEF ScriptNext, ScriptStep
  <2>2. LeaseInv' /\ ScriptUses' /\ Spares(Tasks \ Opens) BY <1>2, ScriptLeaseStep
  <2>3. TunnelInv' BY <1>2, <2>2, TunnelsLeftAlone
  <2>4. ScriptTypeOK' /\ FilesInv' BY <2>1, ScriptTypeStep, FilesStep
  <2>5. QED BY <2>2, <2>3, <2>4
<1>3. CASE UNCHANGED hostVars
  <2>1. UNCHANGED <<leaseVars, tunnelVars, scriptVars>> BY <1>3 DEF hostVars
  <2>2. LeaseInv' /\ Spares({}) /\ lease' = lease BY <2>1, SameLease
  <2>3. TunnelInv' BY <2>1, <2>2, TunnelsLeftAlone
  <2>4. ScriptUses' BY <2>1, <2>2 DEF ScriptUses, UseFits, At, scriptVars
  <2>5. QED BY <2>1, <2>2, <2>3, <2>4, SameScripts
<1>4. QED BY <1>1, <1>2, <1>3 DEF HostNext

\* It holds throughout.
THEOREM HostInvHolds == HostSpec => []HostInv
<1>1. QED BY HostInvInit, HostInvStep, PTL DEF HostSpec

\* Every variable has its type, the clock stays in its bound, and what a script has
\* open for writing is there.
THEOREM TypeCorrect == HostSpec => []TypeOK
<1>1. HostInv => TypeOK BY DEF HostInv, LeaseInv, TunnelInv, TypeOK
<1>2. QED BY <1>1, HostInvHolds, PTL

\* Whatever fails, is lost or is closed in between, a listener that the table of
\* network_tools.py does not show is one that its call is about to list, or one on
\* the host that was asked to close; no listener on the host outlives its connection.
THEOREM ListenersAreListedHolds == HostSpec => []ListenersAreListed
<1>1. ASSUME HostInv PROVE ListenersAreListed
  <2>1. TunnelTypeOK /\ \A o \in Opens : Placed(o) BY <1>1 DEF HostInv, TunnelInv
  <2>2. QED BY <2>1 DEF ListenersAreListed, Listening, Placed, ListenerFits, ShownFits, TunnelTypeOK
<1>2. HostInv => ListenersAreListed BY <1>1
<1>3. QED BY <1>2, HostInvHolds, PTL

\* A use of a connection is held exactly while its script or tunnel is at work with
\* it, for any number of them and however their steps fall between each other.
THEOREM UsesAreHeldHolds == HostSpec => []UsesAreHeld
<1>1. HostInv => UsesAreHeld
  BY DEF HostInv, TunnelInv, Placed, TunnelUses, ScriptUses, UseFits, UsesAreHeld
<1>2. QED BY <1>1, HostInvHolds, PTL

\* A script that shares its second with no other runs its own text and nothing else.
THEOREM ApartScriptsRunOwnHolds == HostSpec => []ApartScriptsRunOwn
<1>1. ASSUME HostInv PROVE ApartScriptsRunOwn
  <2> SUFFICES ASSUME NEW s \in Scripts, run[s].text # Unread, Apart(s)
               PROVE  /\ run[s].text \in {{s}, NoFile}
                      /\ run[s].text = NoFile => rm[s] = "done"
    BY DEF ApartScriptsRunOwn, Apart
  <2>1. FindsOwn(s) BY <1>1 DEF HostInv, FilesInv
  <2>2. {s} # NoFile BY FilesAssumption
  <2>3. QED BY <2>1, <2>2 DEF FindsOwn
<1>2. QED BY <1>1, HostInvHolds, PTL

\* A file that is left on the host is at the path of a script that opened one and
\* whose removal was not carried out; where all were carried out nothing is left.
THEOREM LeftoversAreUnremovedHolds == HostSpec => []LeftoversAreUnremoved
<1>1. HostInv => LeftoversAreUnremoved
  BY DEF HostInv, FilesInv, Owned, Began, LeftoversAreUnremoved
<1>2. QED BY <1>1, HostInvHolds, PTL
===============================================================================
