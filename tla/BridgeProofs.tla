------------------------------ MODULE BridgeProofs -----------------------------
(* Theorems about Bridge for every set of calls and hosts, every           *)
(* hosts.yaml and any number of probes and crashes.                        *)
EXTENDS Bridge, TLAPS

Clients == {"idle", "waiting", "disconnected", "result", "error", "registered", "null"}
Servers == {"none", "queued", "connecting", "running", "200", "400", "500", "lost"}

\* What startup, the web server as a whole and the calls each keep of TypeOK.
OwnTypes ==
  /\ probes \in 0..MaxProbes /\ up \in BOOLEAN /\ crashes \in 0..MaxCrashes
  /\ registry \subseteq Hosts
CallTypes ==
  /\ asked \in [Calls -> [tool : Tools, host : Hosts]]
  /\ client \in [Calls -> Clients]
  /\ server \in [Calls -> Servers]
  /\ sent \in [Calls -> Nat]

\* The types in two parts.
LEMMA TypeParts == TypeOK <=> OwnTypes /\ CallTypes
  BY DEF TypeOK, OwnTypes, CallTypes, Clients, Servers

\* What a tool prints is one of the answers.
LEMMA AnswerType ==
  ASSUME NEW tool, NEW status
  PROVE  Answer(tool, status) \in {"result", "error", "registered", "null"}
  BY DEF Answer

-----------------------------------------------------------------------------
(* Type correctness.                                                       *)

\* The start keeps every type: both bridges are new, and no call is made.
LEMMA InitType == Init => TypeOK
<1> SUFFICES ASSUME Init PROVE OwnTypes /\ CallTypes
  BY TypeParts
<1>1. OwnTypes
  BY YamlAssumption, BoundsAssumption DEF Init, OwnTypes
<1>2. (CHOOSE h \in Hosts : TRUE) \in Hosts
  BY YamlAssumption
<1>3. CallTypes
  BY <1>2 DEF Init, CallTypes, Tools, Clients, Servers
<1>4. QED BY <1>1, <1>3

\* Every action of the two bridges keeps every type.
LEMMA NextType == TypeOK /\ [Next]_vars => TypeOK'
<1> SUFFICES ASSUME OwnTypes, CallTypes, [Next]_vars PROVE OwnTypes' /\ CallTypes'
  BY TypeParts DEF TypeOK, OwnTypes, CallTypes, Clients, Servers
<1> USE BoundsAssumption
<1>1. CASE Probe
  BY <1>1 DEF Probe, OwnTypes, CallTypes
<1>2. CASE Crash
  <2>1. OwnTypes'
    <3>1. /\ crashes < MaxCrashes /\ crashes' = crashes + 1 /\ up' = FALSE
          /\ registry' = Yaml /\ probes' = probes
      BY <1>2 DEF Crash
    <3>2. crashes' \in 0..MaxCrashes BY <3>1 DEF OwnTypes
    <3>3. QED BY <3>1, <3>2, YamlAssumption DEF OwnTypes
  <2>2. server' \in [Calls -> Servers] BY <1>2 DEF Crash, CallTypes, Servers
  <2>3. QED BY <1>2, <2>1, <2>2 DEF Crash, CallTypes
<1>3. CASE Restart
  BY <1>3 DEF Restart, OwnTypes, CallTypes
<1>4. ASSUME NEW h \in Hosts, RemoveHost(h) PROVE OwnTypes' /\ CallTypes'
  BY <1>4 DEF RemoveHost, OwnTypes, CallTypes
<1>5. ASSUME NEW c \in Calls, NEW tool \in Tools, NEW h \in Hosts, Invoke(c, tool, h)
      PROVE  OwnTypes' /\ CallTypes'
  BY <1>5 DEF Invoke, OwnTypes, CallTypes, Clients, Servers
<1>6. ASSUME NEW c \in Calls, Receive(c) PROVE OwnTypes' /\ CallTypes'
  BY <1>6, AnswerType DEF Receive, OwnTypes, CallTypes, Clients
<1>7. ASSUME NEW c \in Calls, GivesUp(c) PROVE OwnTypes' /\ CallTypes'
  BY <1>7 DEF GivesUp, OwnTypes, CallTypes, Clients
<1>8. ASSUME NEW c \in Calls, ServeAtOnce(c) PROVE OwnTypes' /\ CallTypes'
  <2>1. asked[c].host \in Hosts BY DEF CallTypes
  <2>2. QED BY <1>8, <2>1 DEF ServeAtOnce, Becomes, OwnTypes, CallTypes, Servers
<1>9. ASSUME NEW c \in Calls, Lookup(c) PROVE OwnTypes' /\ CallTypes'
  BY <1>9 DEF Lookup, Becomes, OwnTypes, CallTypes, Servers
<1>10. ASSUME NEW c \in Calls, Connect(c) PROVE OwnTypes' /\ CallTypes'
  BY <1>10 DEF Connect, Becomes, OwnTypes, CallTypes, Servers
<1>11. ASSUME NEW c \in Calls, Ends(c) PROVE OwnTypes' /\ CallTypes'
  BY <1>11 DEF Ends, Becomes, OwnTypes, CallTypes, Servers
<1>12. CASE UNCHANGED vars
  BY <1>12 DEF vars, OwnTypes, CallTypes
<1>13. QED
  BY <1>1, <1>2, <1>3, <1>4, <1>5, <1>6, <1>7, <1>8, <1>9, <1>10, <1>11, <1>12 DEF Next

\* Both bridges, the registry and the calls keep their types, through crashes and
\* requests that are given up.
THEOREM TypeCorrect == Spec => []TypeOK
<1>1. QED BY InitType, NextType, PTL DEF Spec

-----------------------------------------------------------------------------
(* What was sent, and what is answered.                                    *)

\* How often the command of c was sent, by what the web server has of it.
SentFits(c) ==
  CASE server[c] \in {"none", "queued"} -> sent[c] = 0
    [] server[c] = "connecting" -> sent[c] = 0 /\ asked[c].tool \in Running
    [] server[c] = "running" -> sent[c] = 1 /\ asked[c].tool \in Running
    [] server[c] = "200" -> asked[c].tool \in Running => sent[c] = 1
    [] server[c] \in {"400", "500"} -> asked[c].tool = "exec" => sent[c] = 0
    [] OTHER -> TRUE

\* What the bridge has of c, by what the web server has of it.
ClientFits(c) ==
  /\ client[c] = "idle" => server[c] = "none"
  /\ client[c] = "result" => server[c] = "200"
  /\ client[c] = "error" => server[c] \in {"400", "500"}

CallFits(c) == sent[c] <= 1 /\ SentFits(c) /\ ClientFits(c)

BridgeInv == TypeOK /\ \A c \in Calls : CallFits(c)

\* A call whose request, answer and command a step leaves alone fits as before.
LEMMA Untouched ==
  ASSUME NEW d \in Calls, CallFits(d),
         server'[d] = server[d], asked'[d] = asked[d], sent'[d] = sent[d], client'[d] = client[d]
  PROVE  CallFits(d)'
  BY DEF CallFits, SentFits, ClientFits

\* No call is made at the start.
LEMMA InitFits == Init => BridgeInv
  BY InitType DEF Init, BridgeInv, CallFits, SentFits, ClientFits

\* A step of one call leaves the others alone, and a crash none at work.
LEMMA NextFits == BridgeInv /\ [Next]_vars => BridgeInv'
<1> SUFFICES ASSUME BridgeInv, [Next]_vars, NEW d \in Calls PROVE CallFits(d)'
  BY NextType DEF BridgeInv
<1>1. CallTypes /\ CallFits(d)
  BY TypeParts DEF BridgeInv
<1>2. CASE \/ Probe \/ Restart \/ UNCHANGED vars
           \/ \E h \in Hosts : RemoveHost(h)
  BY <1>1, <1>2, Untouched DEF Probe, Restart, RemoveHost, vars
<1>3. CASE Crash
  BY <1>1, <1>3 DEF Crash, CallTypes, CallFits, SentFits, ClientFits
<1>4. ASSUME NEW c \in Calls,
             \/ \E tool \in Tools, h \in Hosts : Invoke(c, tool, h)
             \/ Receive(c) \/ GivesUp(c)
             \/ ServeAtOnce(c) \/ Lookup(c) \/ Connect(c) \/ Ends(c)
      PROVE  CallFits(d)'
  <2>1. CASE c # d
    BY <1>1, <1>4, <2>1, Untouched
       DEF Invoke, Receive, GivesUp, ServeAtOnce, Lookup, Connect, Ends, Becomes, CallTypes
  <2>2. ASSUME c = d, NEW tool \in Tools, NEW h \in Hosts, Invoke(d, tool, h)
        PROVE  CallFits(d)'
    BY <1>1, <2>2 DEF Invoke, CallTypes, CallFits, SentFits, ClientFits
  <2>3. ASSUME c = d, Receive(d) PROVE CallFits(d)'
    BY <1>1, <2>3 DEF Receive, Answer, CallTypes, CallFits, SentFits, ClientFits
  <2>4. ASSUME c = d, GivesUp(d) PROVE CallFits(d)'
    BY <1>1, <2>4 DEF GivesUp, CallTypes, CallFits, SentFits, ClientFits
  <2>5. ASSUME c = d, ServeAtOnce(d) PROVE CallFits(d)'
    BY <1>1, <2>5
       DEF ServeAtOnce, Becomes, Running, CallTypes, CallFits, SentFits, ClientFits
  <2>6. ASSUME c = d, Lookup(d) PROVE CallFits(d)'
    BY <1>1, <2>6 DEF Lookup, Becomes, CallTypes, CallFits, SentFits, ClientFits
  <2>7. ASSUME c = d, Connect(d) PROVE CallFits(d)'
    BY <1>1, <2>7 DEF Connect, Becomes, CallTypes, CallFits, SentFits, ClientFits
  <2>8. ASSUME c = d, Ends(d) PROVE CallFits(d)'
    BY <1>1, <2>8 DEF Ends, Becomes, CallTypes, CallFits, SentFits, ClientFits
  <2>9. QED BY <1>4, <2>1, <2>2, <2>3, <2>4, <2>5, <2>6, <2>7, <2>8
<1>5. QED BY <1>2, <1>3, <1>4 DEF Next

\* The invariant holds throughout, of any number of calls, crashes and restarts.
THEOREM FitsThroughout == Spec => []BridgeInv
<1>1. QED BY InitFits, NextFits, PTL DEF Spec

\* A command is sent to its host once at most, given up, crashed or answered.
THEOREM SentOnceHolds == Spec => []SentOnce
<1>1. BridgeInv => SentOnce
  BY DEF BridgeInv, CallFits, SentOnce
<1>2. QED BY <1>1, FitsThroughout, PTL

\* What the Copilot bridge answers of a command is so, then and for good.
THEOREM AnswersHoldHolds == Spec => []AnswersHold
<1>1. BridgeInv => AnswersHold
  BY DEF BridgeInv, CallFits, SentFits, ClientFits, AnswersHold
<1>2. QED BY <1>1, FitsThroughout, PTL
===============================================================================
