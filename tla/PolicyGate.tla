------------------------------ MODULE PolicyGate ------------------------------
(***************************************************************************)
(* The policy gate of server/security.py and the ways the tools of         *)
(* server.py use it.  A check never suspends, so each is one action; only  *)
(* the loop of ssh_parallel makes several, and nothing else runs meanwhile.*)
(*                                                                         *)
(* Definitions named Fault... are plausible defects of the definition that *)
(* follows them; no specification uses them.                               *)
(***************************************************************************)
EXTENDS Naturals, FiniteSets, Sequences

CONSTANTS
  Hosts,             (* host names, registered or not                      *)
  Commands,          (* command lines                                      *)
  None,              (* no command, no host                                *)
  HostAllowlist,     (* each pattern is the set of host names it matches   *)
  CommandBlocklist,  (* each pattern is the set of commands it matches     *)
  CommandAllowlist,
  RateTenths,        (* rate_limit_rps in tenths: the limit is a float     *)
  Window,            (* the one-second window, in clock ticks              *)
  MaxTime,           (* bound: ticks in one behaviour                      *)
  MaxParallel        (* bound: hosts named in one call of ssh_parallel     *)

ASSUME NoneAssumption == None \notin Hosts \cup Commands
ASSUME PatternAssumption ==
  /\ HostAllowlist \subseteq SUBSET Hosts
  /\ CommandBlocklist \subseteq SUBSET Commands
  /\ CommandAllowlist \subseteq SUBSET Commands
ASSUME RateAssumption ==
  RateTenths \in Nat /\ Window \in Nat \ {0} /\ MaxTime \in Nat /\ MaxParallel \in Nat

VARIABLES
  now,       (* time.time(), in ticks                                      *)
  admitted,  (* history: the time of every call check_rate_limit let pass  *)
  calls,     (* _rate_counters[h]: those of them still in its list         *)
  par,       (* the ssh_parallel call being gated: the hosts still to do   *)
  answer     (* the last answer of a tool: what it ran, what it refused    *)

vars == <<now, admitted, calls, par, answer>>

NoPar == [rest |-> <<>>, all |-> {}, cmd |-> None]

Init ==
  /\ now = 0
  /\ admitted = [h \in Hosts |-> <<>>]
  /\ calls = [h \in Hosts |-> {}]
  /\ par = NoPar
  /\ answer = [tool |-> "none", ran |-> {}, on |-> None, cmd |-> None, at |-> 0]

-----------------------------------------------------------------------------
(* SecurityPolicy.                                                         *)

\* check_host: an empty allowlist permits every host.
HostPermitted(h) == HostAllowlist = {} \/ \E p \in HostAllowlist : h \in p

\* check_command: not blocked, and allowed if there is an allowlist.
CommandPermitted(c) ==
  /\ \A p \in CommandBlocklist : c \notin p
  /\ CommandAllowlist = {} \/ \E p \in CommandAllowlist : c \in p

\* The checks before the rate limit; without a command there is no command check.
Permitted(h, c) == HostPermitted(h) /\ (c = None \/ CommandPermitted(c))

FaultNoPrune(h) == calls[h]

FaultPruneEarly(h) == {i \in calls[h] : now - admitted[h][i] + 1 < Window}

\* The calls of h that check_rate_limit keeps: those of the last window.
Recent(h) == {i \in calls[h] : now - admitted[h][i] < Window}

RateOpen(h) == 10 * Cardinality(Recent(h)) < RateTenths

\* enforce returns None: the call takes its place in the window.
Admit(h, c) ==
  /\ Permitted(h, c) /\ RateOpen(h)
  /\ admitted' = [admitted EXCEPT ![h] = Append(@, now)]
  /\ calls' = [calls EXCEPT ![h] = Recent(h) \cup {Len(admitted[h]) + 1}]

FaultRefuseCounts(h, c) ==
  /\ ~(Permitted(h, c) /\ RateOpen(h))
  /\ calls' = [calls EXCEPT ![h] = Recent(h) \cup {Len(admitted[h]) + 1}]
  /\ UNCHANGED admitted

\* enforce returns an error: only a check that reached the rate limit prunes.
Refuse(h, c) ==
  /\ ~(Permitted(h, c) /\ RateOpen(h))
  /\ calls' = IF Permitted(h, c) THEN [calls EXCEPT ![h] = Recent(h)] ELSE calls
  /\ UNCHANGED admitted

-----------------------------------------------------------------------------
(* The tools.                                                              *)

Ran(tool, hs, c) ==
  answer' = [tool |-> tool, ran |-> hs \X {c}, on |-> None, cmd |-> c, at |-> now]

Blocked(tool, h, c) ==
  answer' = [tool |-> tool, ran |-> {}, on |-> h, cmd |-> c, at |-> now]

\* No ssh_parallel call is in its gating loop.
LoopIdle == par = NoPar

\* Tools that pass their command to _gate: ssh_run, ssh_start, ssh_exec_retry...
CommandTool(h, c) ==
  /\ LoopIdle
  /\ \/ Admit(h, c) /\ Ran("command", {h}, c)
     \/ Refuse(h, c) /\ Blocked("command", h, c)
  /\ UNCHANGED <<now, par>>

\* Tools that run commands they do not pass to _gate: ssh_run_batch, ssh_run_script, ssh_playbook.
BatchTool(h, c) ==
  /\ LoopIdle
  /\ \/ Admit(h, None) /\ Ran("batch", {h}, c)
     \/ Refuse(h, None) /\ Blocked("batch", h, None)
  /\ UNCHANGED <<now, par>>

\* Tools that do not call _gate: ssh_rolling, ssh_group_exec, ssh_broadcast_batch,
\* ssh_playbook_on_group and ssh_session_exec.
UngatedTool(h, c) ==
  /\ LoopIdle
  /\ Ran("ungated", {h}, c)
  /\ UNCHANGED <<now, par, admitted, calls>>

\* ssh_check_command: the whole check, and nothing is run.
CheckCommand(h, c) ==
  /\ LoopIdle
  /\ \/ Admit(h, c) /\ Ran("check", {}, c)
     \/ Refuse(h, c) /\ Blocked("check", h, c)
  /\ UNCHANGED <<now, par>>

\* ssh_parallel: every host is gated before the first command is run.
ParallelCall(hs, c) ==
  /\ LoopIdle
  /\ par' = [rest |-> hs, all |-> {hs[i] : i \in DOMAIN hs}, cmd |-> c]
  /\ UNCHANGED <<now, admitted, calls, answer>>

FaultParallelGateFirstOnly ==
  /\ par.rest # <<>>
  /\ \/ /\ Admit(Head(par.rest), par.cmd)
        /\ Ran("parallel", par.all, par.cmd)
     \/ /\ Refuse(Head(par.rest), par.cmd)
        /\ Blocked("parallel", Head(par.rest), par.cmd)
  /\ par' = NoPar
  /\ UNCHANGED now

ParallelGate ==
  LET h == Head(par.rest) IN
  /\ par.rest # <<>>
  /\ \/ /\ Admit(h, par.cmd)
        /\ IF Len(par.rest) > 1
             THEN par' = [par EXCEPT !.rest = Tail(@)] /\ UNCHANGED answer
             ELSE par' = NoPar /\ Ran("parallel", par.all, par.cmd)
     \/ /\ Refuse(h, par.cmd)
        /\ par' = NoPar
        /\ Blocked("parallel", h, par.cmd)
  /\ UNCHANGED now

Tick ==
  /\ now < MaxTime
  /\ now' = now + 1
  /\ UNCHANGED <<admitted, calls, par, answer>>

\* An empty list gates nothing and runs nothing.
HostLists == UNION {[1..n -> Hosts] : n \in 1..MaxParallel}

Next ==
  \/ \E h \in Hosts, c \in Commands :
       CommandTool(h, c) \/ BatchTool(h, c) \/ UngatedTool(h, c) \/ CheckCommand(h, c)
  \/ \E hs \in HostLists, c \in Commands : ParallelCall(hs, c)
  \/ ParallelGate
  \/ Tick

Spec == Init /\ [][Next]_vars
-----------------------------------------------------------------------------
(* Properties.                                                             *)

Answer ==
  [tool : {"none", "command", "batch", "ungated", "check", "parallel"},
   ran : SUBSET (Hosts \X Commands), on : Hosts \cup {None},
   cmd : Commands \cup {None}, at : Nat]

\* Every variable keeps its type, the window lists only calls that were let
\* pass, and no time recorded is in the future.
TypeOK ==
  /\ now \in Nat
  /\ admitted \in [Hosts -> Seq(Nat)]
  /\ calls \in [Hosts -> SUBSET Nat]
  /\ par \in [rest : Seq(Hosts), all : SUBSET Hosts, cmd : Commands \cup {None}]
  /\ par.rest # <<>> => par.cmd \in Commands
  /\ answer \in Answer
  /\ \A h \in Hosts : /\ calls[h] \subseteq 1..Len(admitted[h])
                      /\ \A i \in 1..Len(admitted[h]) : admitted[h][i] <= now

\* The admissions at h that a window ending with admission j holds.
WindowOf(h, j) == {i \in 1..j : admitted[h][j] - admitted[h][i] < Window}

\* policies.yaml:49, "Maximum requests per second per host (sliding window)":
\* no window of one second ever holds more calls let pass at a host than the
\* limit, rounded up when it is fractional, whichever tools made them.
RateWindow ==
  \A h \in Hosts : \A j \in 1..Len(admitted[h]) :
    10 * Cardinality(WindowOf(h, j)) < RateTenths + 10

\* The admissions at h in the window ending at time t.
AdmittedBy(h, t) ==
  {i \in 1..Len(admitted[h]) : admitted[h][i] <= t /\ t - admitted[h][i] < Window}

\* A tool refuses a permitted call only when the host's window is full of calls
\* that were let pass: refused calls and old ones never count against a host.
RefusalJustified ==
  answer.on # None /\ Permitted(answer.on, answer.cmd) =>
    10 * Cardinality(AdmittedBy(answer.on, answer.at)) >= RateTenths

\* What ssh_run, ssh_parallel and the other tools that gate their command run
\* is permitted, on every host named, and one refusal runs nothing anywhere.
\* policies.yaml:21, "Commands matching these patterns are always rejected": an
\* allowlist does not let them pass.
GatedRunsPermitted ==
  answer.tool \in {"command", "parallel"} =>
    /\ \A r \in answer.ran :
         Permitted(r[1], r[2]) /\ \A p \in CommandBlocklist : r[2] \notin p
    /\ answer.on # None => answer.ran = {}
===============================================================================
