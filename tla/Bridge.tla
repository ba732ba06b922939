--------------------------------- MODULE Bridge --------------------------------
(***************************************************************************)
(* The two bridges: copilot_bridge.py, an MCP server whose tools are HTTP  *)
(* requests, and web_server.py, which answers them by calling the          *)
(* functions of server/.  They are two processes: a request may outlive    *)
(* the patience of the one and die with the other, whose registry is in    *)
(* its memory only.                                                        *)
(*                                                                         *)
(* A tool of the Copilot bridge is one of: exec; list and register, which  *)
(* end at once; info, which runs commands like exec; processes, which the  *)
(* web server refuses, because it is given an argument called "filter"     *)
(* that ssh_process_list does not have.                                    *)
(*                                                                         *)
(* Definitions named Fault... are plausible defects of the definition that *)
(* follows them; no specification uses them.                               *)
(***************************************************************************)
EXTENDS Naturals

CONSTANTS
  Calls,        (* calls of the tools of the Copilot bridge                *)
  Hosts,        (* host names                                              *)
  Yaml,         (* the hosts of hosts.yaml                                 *)
  MaxProbes,    (* how often startup looks for the web server              *)
  MaxCrashes    (* bound: crashes of the web server                        *)

ASSUME YamlAssumption == Yaml \subseteq Hosts /\ Hosts # {}
ASSUME BoundsAssumption == MaxProbes \in Nat \ {0} /\ MaxCrashes \in Nat

Tools == {"exec", "info", "list", "register", "processes"}
Running == {"exec", "info"}

VARIABLES
  probes,   (* the probes of startup so far, or MaxProbes once it is over  *)
  up,       (* the web server runs                                         *)
  crashes,  (* history: how often it has crashed                           *)
  registry, (* its registry, as it is or as its first use will load it     *)
  asked,    (* asked[c]: tool and host of the call                         *)
  client,   (* client[c]: idle, waiting, or what the tool answers          *)
  server,   (* server[c]: what the web server has of the request           *)
  sent      (* history: how often the command of c was sent to its host    *)

vars == <<probes, up, crashes, registry, asked, client, server, sent>>

Init ==
  /\ probes = 0 /\ up \in BOOLEAN /\ crashes = 0
  /\ registry = Yaml
  /\ asked = [c \in Calls |-> [tool |-> "list", host |-> CHOOSE h \in Hosts : TRUE]]
  /\ client = [c \in Calls |-> "idle"]
  /\ server = [c \in Calls |-> "none"]
  /\ sent = [c \in Calls |-> 0]

-----------------------------------------------------------------------------
(* The Copilot bridge.                                                     *)

FaultProbeOnceMore ==
  /\ probes <= MaxProbes
  /\ probes' = probes + 1
  /\ UNCHANGED <<up, crashes, registry, asked, client, server, sent>>

\* One attempt of startup, which goes on to serve in the end with or without
\* a web server.
Probe ==
  /\ probes < MaxProbes
  /\ probes' = IF up THEN MaxProbes ELSE probes + 1
  /\ UNCHANGED <<up, crashes, registry, asked, client, server, sent>>

\* A request is sent, or finds no one to take it.
Invoke(c, tool, h) ==
  /\ probes = MaxProbes /\ client[c] = "idle"
  /\ asked' = [asked EXCEPT ![c] = [tool |-> tool, host |-> h]]
  /\ IF up
       THEN /\ client' = [client EXCEPT ![c] = "waiting"]
            /\ server' = [server EXCEPT ![c] = "queued"]
       ELSE /\ client' = [client EXCEPT ![c] = "disconnected"]
            /\ UNCHANGED server
  /\ UNCHANGED <<probes, up, crashes, registry, sent>>

\* What the tools make of a status: exec asks for it; the rest print the result
\* that an error does not have.
Answer(tool, status) ==
  CASE status = "200" -> "result"
    [] status # "200" /\ tool = "exec" -> "error"
    [] status = "500" /\ tool = "register" -> "registered"
    [] OTHER -> "null"

Receive(c) ==
  /\ client[c] = "waiting" /\ server[c] \in {"200", "400", "500"}
  /\ client' = [client EXCEPT ![c] = Answer(asked[c].tool, server[c])]
  /\ UNCHANGED <<probes, up, crashes, registry, asked, server, sent>>

FaultGivesUp(c) ==
  /\ client[c] = "waiting"
  /\ server' = [server EXCEPT ![c] = "queued"]
  /\ UNCHANGED <<probes, up, crashes, registry, asked, client, sent>>

\* httpx has waited for sixty seconds, or the connection is broken.  The web
\* server knows nothing of it.
GivesUp(c) ==
  /\ client[c] = "waiting"
  /\ client' = [client EXCEPT ![c] = "disconnected"]
  /\ UNCHANGED <<probes, up, crashes, registry, asked, server, sent>>

-----------------------------------------------------------------------------
(* The web server.                                                         *)

Becomes(c, status) == server' = [server EXCEPT ![c] = status]

\* Requests that answer without a suspension.  A path that cannot be expanded
\* makes register_host raise before it writes.
ServeAtOnce(c) ==
  /\ server[c] = "queued" /\ up
  /\ \/ asked[c].tool = "list" /\ Becomes(c, "200") /\ UNCHANGED registry
     \/ /\ asked[c].tool = "register"
        /\ \/ Becomes(c, "200") /\ registry' = registry \cup {asked[c].host}
           \/ Becomes(c, "500") /\ UNCHANGED registry
     \/ asked[c].tool = "processes" /\ Becomes(c, "500") /\ UNCHANGED registry
  /\ UNCHANGED <<probes, up, crashes, asked, client, sent>>

\* An exec may be refused for its host or its command, if one is empty; otherwise
\* get_connection looks the host up and raises if it is not there.
Lookup(c) ==
  /\ server[c] = "queued" /\ up /\ asked[c].tool \in Running
  /\ \/ asked[c].tool = "exec" /\ Becomes(c, "400")
     \/ Becomes(c, IF asked[c].host \in registry THEN "connecting" ELSE "500")
  /\ UNCHANGED <<probes, up, crashes, registry, asked, client, sent>>

\* The connect of ssh_exec ends, by an exception or with the command sent.
Connect(c) ==
  /\ server[c] = "connecting"
  /\ \/ Becomes(c, "running") /\ sent' = [sent EXCEPT ![c] = @ + 1]
     \/ Becomes(c, "500") /\ UNCHANGED sent
  /\ UNCHANGED <<probes, up, crashes, registry, asked, client>>

FaultEnds(c) ==
  /\ server[c] = "running"
  /\ Becomes(c, "200") \/ Becomes(c, "500")
  /\ UNCHANGED <<probes, up, crashes, registry, asked, client, sent>>

\* The command ends, fails or times out, all of which ssh_exec returns; info has
\* further commands and may fail to connect for one.
Ends(c) ==
  /\ server[c] = "running"
  /\ \/ Becomes(c, "200")
     \/ asked[c].tool = "info" /\ Becomes(c, "500")
  /\ UNCHANGED <<probes, up, crashes, registry, asked, client, sent>>

\* Another client of the web server removes a host.
RemoveHost(h) ==
  /\ up /\ h \in registry /\ registry' = registry \ {h}
  /\ UNCHANGED <<probes, up, crashes, asked, client, server, sent>>

\* The web server dies, with the requests it has and with its registry.
Crash ==
  /\ up /\ crashes < MaxCrashes
  /\ up' = FALSE /\ crashes' = crashes + 1 /\ registry' = Yaml
  /\ server' = [c \in Calls |->
       IF server[c] \in {"queued", "connecting", "running"} THEN "lost" ELSE server[c]]
  /\ UNCHANGED <<probes, asked, client, sent>>

Restart ==
  /\ ~up /\ up' = TRUE
  /\ UNCHANGED <<probes, crashes, registry, asked, client, server, sent>>

Next ==
  \/ Probe \/ Crash \/ Restart
  \/ \E h \in Hosts : RemoveHost(h)
  \/ \E c \in Calls :
       \/ \E tool \in Tools, h \in Hosts : Invoke(c, tool, h)
       \/ Receive(c) \/ GivesUp(c)
       \/ ServeAtOnce(c) \/ Lookup(c) \/ Connect(c) \/ Ends(c)

Spec == Init /\ [][Next]_vars
-----------------------------------------------------------------------------
(* Properties.                                                             *)

TypeOK ==
  /\ probes \in 0..MaxProbes /\ up \in BOOLEAN /\ crashes \in 0..MaxCrashes
  /\ registry \subseteq Hosts
  /\ asked \in [Calls -> [tool : Tools, host : Hosts]]
  /\ client \in [Calls -> {"idle", "waiting", "disconnected",
                           "result", "error", "registered", "null"}]
  /\ server \in [Calls -> {"none", "queued", "connecting", "running", "200", "400", "500", "lost"}]
  /\ sent \in [Calls -> Nat]

\* A command is sent to its host once at most, however the bridge gives up on
\* the request, the web server crashes with it and comes back.
SentOnce == \A c \in Calls : sent[c] <= 1

\* What ssh_exec of the Copilot bridge answers is so, then and for good: with an
\* error the command was never sent and will not be, with a result it was.  Only
\* "Connection failed" leaves it open.
AnswersHold ==
  \A c \in Calls :
    /\ asked[c].tool = "exec" /\ client[c] = "error" => sent[c] = 0
    /\ asked[c].tool \in Running /\ client[c] = "result" => sent[c] = 1
===============================================================================
