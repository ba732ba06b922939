-------------------------------- MODULE Fleet ---------------------------------
(***************************************************************************)
(* One call that runs commands on hosts: the batches of                    *)
(* server/shell_engine.py, the loops of server/orchestrator.py, the retry, *)
(* health and tmux tools of server.py, and what system_inspector.py and    *)
(* process_manager.py run, down to ssh_exec and the audit log it writes.   *)
(* A call is a set of subtasks, one unless the tool gathers, and each      *)
(* works through a list of commands one after the other.  An action is the *)
(* code of one subtask between two suspension points.                      *)
(*                                                                         *)
(* An exit code is "ok" (zero) or "failed": not zero, a timeout or an      *)
(* exception of conn.run.  Only get_connection makes ssh_exec raise.  The  *)
(* policy has let the call pass; the lines of wording that a loop adds to  *)
(* its results when it stops early are left out.                           *)
(*                                                                         *)
(* Definitions named Fault... are plausible defects of the definition that *)
(* follows them; no specification uses them.                               *)
(***************************************************************************)
EXTENDS Integers, Sequences, FiniteSets, SequencesExt

CONSTANTS
  Hosts,         (* host names                                             *)
  None,          (* no host                                                *)
  HistoryLimit,  (* _HISTORY_LIMIT, the entries kept for the readers       *)
  MaxHosts,      (* bound: hosts named in one call                         *)
  MaxSteps       (* bound: commands in a batch or playbook, or retries     *)

ASSUME NoneAssumption == None \notin Hosts
ASSUME BoundsAssumption ==
  HistoryLimit \in Nat \ {0} /\ MaxHosts \in Nat \ {0} /\ MaxSteps \in Nat \ {0}

\* Tools that gather a subtask per host; the others are one subtask.
Gathering == {"parallel", "broadcast", "health", "groupPlaybook"}
\* system_inspector.py: ssh_logs may run a second command, ssh_system_info runs many,
\* the rest one, as do ssh_process_list and ssh_monitor_process.
InspectionTools == {"inspect", "logs"}
\* process_manager.py: ssh_kill, ssh_start and ssh_background.
ProcessTools == {"process"}
OnOneHost == {"batch", "playbook", "retry", "tmux"} \cup InspectionTools \cup ProcessTools
Modes == Gathering \cup OnOneHost \cup {"rolling"}
Subs == 1..MaxHosts

\* What the tools do with their commands: try the next one only after a failure,
\* sleep between two, answer with the last result only, audit the whole as well.
TryUntilOk == {"retry", "logs"}
Sleeping == {"rolling", "retry", "tmux"}
KeepLast == {"retry", "logs", "tmux"}
AuditWhole == {"playbook", "groupPlaybook"} \cup ProcessTools

VARIABLES
  call,    (* the call: its mode, the work of each subtask as the host of  *)
           (* each command, and whether an error stops a list              *)
  sub,     (* sub[i]: where subtask i stands, and the results it has       *)
  sent,    (* history: the commands that subtask i has sent to a host      *)
  log,     (* history: all entries, which audit.jsonl has if writing works *)
  ring,    (* _history                                                     *)
  answer   (* what the call returns for each subtask, or that it raised    *)

vars == <<call, sub, sent, log, ring, answer>>

NoCall == [mode |-> "none", work |-> <<>>, stop |-> FALSE]
Off == [st |-> "off", step |-> 1, results |-> <<>>]
NoAnswer == [st |-> "none", of |-> <<>>]

Item(host, r) == [host |-> host, r |-> r]

Init ==
  /\ call = NoCall
  /\ sub = [i \in Subs |-> Off]
  /\ sent = [i \in Subs |-> 0]
  /\ log = <<>> /\ ring = <<>>
  /\ answer = NoAnswer

-----------------------------------------------------------------------------
(* audit_log.                                                              *)

Entry(op, i, host, r) == [op |-> op, sub |-> i, host |-> host, r |-> r]

FaultPopNewest(s) == IF Len(s) > HistoryLimit THEN SubSeq(s, 1, HistoryLimit) ELSE s

FaultNeverPop(s) == s

\* The oldest entry is popped from a ring that is over its limit.
Popped(s) == IF Len(s) > HistoryLimit THEN Tail(s) ELSE s

Push(s, entry) == Popped(Append(s, entry))

Audit(entry) == log' = Append(log, entry) /\ ring' = Push(ring, entry)

AuditBoth(first, second) ==
  /\ log' = log \o <<first, second>>
  /\ ring' = Push(Push(ring, first), second)

\* The first index of Python's s[-limit:], counted from zero: a limit of zero
\* takes all, a negative one skips from the front.
From(s, limit) == IF limit <= 0 THEN -limit ELSE IF limit < Len(s) THEN Len(s) - limit ELSE 0

Latest(s, limit) == SubSeq(s, From(s, limit) + 1, Len(s))

\* What a list comprehension with a condition keeps of s: the elements at some of
\* its places, in their order.
Picked(s, places) ==
  [n \in 1..Cardinality(places) |->
     s[CHOOSE k \in places : Cardinality({j \in places : j <= k}) = n]]

OfHost(s, host) ==
  IF host = None THEN s ELSE Picked(s, {k \in DOMAIN s : s[k].host = host})

FaultGetHistory(limit, host) == Reverse(OfHost(Latest(ring, limit), host))

\* get_history: the filter first, then the limit, newest first.
GetHistory(limit, host) == Reverse(Latest(OfHost(ring, host), limit))

-----------------------------------------------------------------------------
(* The work of a call.                                                     *)

Times(h, n) == [k \in 1..n |-> h]

\* The commands of each subtask, by their hosts: rolling goes from host to host,
\* a gathering runs them on each, the rest stay on one.
WorkOf(mode, hosts, n) ==
  CASE mode \in {"parallel", "health"} -> [i \in DOMAIN hosts |-> <<hosts[i]>>]
    [] mode \in {"broadcast", "groupPlaybook"} -> [i \in DOMAIN hosts |-> Times(hosts[i], n)]
    [] mode = "rolling" -> <<hosts>>
    [] OTHER -> <<Times(hosts[1], n)>>

HostLists == UNION {[1..k -> Hosts] : k \in 1..MaxHosts}

\* What a call may ask for.  Host lists may repeat a host, except that the hosts
\* of a group come from the registry.  ssh_broadcast stops at an error, as
\* ssh_exec_batch does by default; ssh_system_info goes on, and ssh_tmux_send
\* captures the pane whatever became of the keys.  Where the flag means nothing it
\* is set.
Request(mode, hosts, n, stop) ==
  /\ mode \in OnOneHost => Len(hosts) = 1
  /\ mode \in {"parallel", "health", "rolling", "process"} => n = 1
  /\ mode \in {"logs", "tmux"} => n = 2
  /\ mode = "groupPlaybook" => IsInjective(hosts)
  /\ mode \in {"parallel", "health", "broadcast", "process"} \cup TryUntilOk => stop
  /\ mode \in {"inspect", "tmux"} => ~stop

\* The call starts its subtasks.  Each ping of a fleet asks the policy for
\* itself, and one that is refused answers at once.
Start(mode, hosts, n, stop) ==
  LET work == WorkOf(mode, hosts, n) IN
  /\ call.mode = "none" /\ Request(mode, hosts, n, stop)
  /\ call' = [mode |-> mode, work |-> work, stop |-> stop]
  /\ \E refused \in SUBSET DOMAIN work :
       /\ mode # "health" => refused = {}
       /\ sub' = [i \in Subs |->
            IF i \notin DOMAIN work THEN Off
            ELSE IF i \in refused
              THEN [Off EXCEPT !.st = "done", !.results = <<Item(work[i][1], "blocked")>>]
              ELSE [Off EXCEPT !.st = "connecting"]]
  /\ UNCHANGED <<sent, log, ring, answer>>

Working == DOMAIN call.work

FaultOver(i) == sub[i].st = "done"

Over(i) == sub[i].st \in {"done", "raised"}

Host(i) == call.work[i][sub[i].step]

\* The call's only subtask is over, and so is the call.
Return(st, results) == answer' = [st |-> st, of |-> <<results>>]

-----------------------------------------------------------------------------
(* ssh_exec in the loop of a subtask.                                      *)

\* get_connection has given a connection; the command is sent.
Connected(i) ==
  /\ sub[i].st = "connecting"
  /\ sub' = [sub EXCEPT ![i].st = "running"]
  /\ sent' = [sent EXCEPT ![i] = @ + 1]
  /\ UNCHANGED <<call, log, ring, answer>>

\* get_connection raises: no loop survives it, but a ping makes it an answer.
ConnectFails(i) ==
  /\ sub[i].st = "connecting"
  /\ IF call.mode = "health"
       THEN sub' = [sub EXCEPT ![i].st = "done", ![i].results = <<Item(Host(i), "unreachable")>>]
       ELSE sub' = [sub EXCEPT ![i].st = "raised"]
  /\ IF call.mode \in Gathering THEN UNCHANGED answer ELSE Return("raised", <<>>)
  /\ UNCHANGED <<call, sent, log, ring>>

FaultGoesOn(i, r) ==
  /\ sub[i].step < Len(call.work[i])
  /\ call.mode \in TryUntilOk => r = "failed"

\* There is a next command: a retry goes on after a failure, as ssh_logs does to
\* its fallback, the others unless they are to stop at one.
GoesOn(i, r) ==
  /\ sub[i].step < Len(call.work[i])
  /\ IF call.mode \in TryUntilOk THEN r = "failed" ELSE ~(call.stop /\ r = "failed")

FaultFirstHost(i, r) == Entry("exec", i, call.work[i][1], r)

ExecEntry(i, r) == Entry("exec", i, Host(i), r)

FaultCollected(i, r) == <<Item(Host(i), r)>>

\* The results after one more.
Collected(i, r) ==
  IF call.mode \in KeepLast THEN <<Item(Host(i), r)>>
  ELSE Append(sub[i].results, Item(Host(i), r))

\* The command ends and is audited, and the loop goes on.
EndsAndGoesOn(i, r) ==
  /\ sub[i].st = "running" /\ GoesOn(i, r)
  /\ Audit(ExecEntry(i, r))
  /\ sub' = [sub EXCEPT ![i] =
       [st |-> IF call.mode \in Sleeping THEN "sleeping" ELSE "connecting",
        step |-> sub[i].step + 1, results |-> Collected(i, r)]]
  /\ UNCHANGED <<call, sent, answer>>

\* The command ends and is audited, and the loop is over.  A playbook, and what a
\* process tool did, is then audited as a whole.
EndsAndReturns(i, r) ==
  /\ sub[i].st = "running" /\ ~GoesOn(i, r)
  /\ IF call.mode \in AuditWhole
       THEN AuditBoth(ExecEntry(i, r), Entry("whole", i, Host(i), "ok"))
       ELSE Audit(ExecEntry(i, r))
  /\ sub' = [sub EXCEPT ![i].st = "done", ![i].results = Collected(i, r)]
  /\ IF call.mode \in Gathering THEN UNCHANGED answer
     ELSE Return("results", Collected(i, r))
  /\ UNCHANGED <<call, sent>>

\* asyncio.sleep between two hosts, attempts or steps is over.
Awake(i) ==
  /\ sub[i].st = "sleeping"
  /\ sub' = [sub EXCEPT ![i].st = "connecting"]
  /\ UNCHANGED <<call, sent, log, ring, answer>>

\* The wait_for of ssh_ping_host cancels ssh_exec, in get_connection or after.
PingTimeout(i) ==
  /\ call.mode = "health" /\ sub[i].st \in {"connecting", "running"}
  /\ sub' = [sub EXCEPT ![i].st = "done", ![i].results = <<Item(Host(i), "unreachable")>>]
  /\ UNCHANGED <<call, sent, log, ring, answer>>

-----------------------------------------------------------------------------
(* asyncio.gather.                                                         *)

\* What gather puts in the place of a subtask: its results or its exception.
Outcome(i) ==
  IF sub[i].st = "raised" THEN <<Item(call.work[i][1], "raised")>> ELSE sub[i].results

\* ssh_broadcast answers by host, so of a host named twice the last one stays.
Kept == {i \in Working :
           call.mode = "broadcast" =>
             \A j \in Working : call.work[j][1] = call.work[i][1] => j <= i}

FaultGathered == \E i \in Working : sub[i].st = "raised"

\* return_exceptions=True: gather waits for every subtask.
Gathered == \A i \in Working : Over(i)

\* The hosts of a parallel call, joined: a name only if there is one.
Joined == IF Working = {1} THEN call.work[1][1] ELSE None

GatherAll ==
  /\ call.mode \in Gathering \ {"groupPlaybook"} /\ answer.st = "none"
  /\ Gathered
  /\ answer' = [st |-> "results", of |-> [i \in Kept |-> Outcome(i)]]
  /\ IF call.mode = "parallel" THEN Audit(Entry("parallel_exec", 0, Joined, "ok"))
     ELSE UNCHANGED <<log, ring>>
  /\ UNCHANGED <<call, sub, sent>>

\* return_exceptions=False: the first exception is raised, the others run on.
GatherPlaybooks ==
  /\ call.mode = "groupPlaybook" /\ answer.st = "none"
  /\ \/ /\ \E i \in Working : sub[i].st = "raised"
        /\ answer' = [st |-> "raised", of |-> <<>>]
     \/ /\ \A i \in Working : sub[i].st = "done"
        /\ answer' = [st |-> "results", of |-> [i \in Working |-> sub[i].results]]
  /\ UNCHANGED <<call, sub, sent, log, ring>>

Results == {"ok", "failed"}

Ends(i) == \E r \in Results : EndsAndGoesOn(i, r) \/ EndsAndReturns(i, r)

Next ==
  \/ \E mode \in Modes, hosts \in HostLists, n \in 1..MaxSteps, stop \in BOOLEAN :
       Start(mode, hosts, n, stop)
  \/ \E i \in Working :
       Connected(i) \/ ConnectFails(i) \/ Ends(i) \/ Awake(i) \/ PingTimeout(i)
  \/ GatherAll \/ GatherPlaybooks

Spec == Init /\ [][Next]_vars

\* Connects, commands and sleeps have a timeout or a length, and the event loop
\* resumes what waited for them.
Fairness ==
  /\ \A i \in Subs : /\ WF_vars(i \in Working /\ (Connected(i) \/ ConnectFails(i)))
                     /\ WF_vars(i \in Working /\ Ends(i))
                     /\ WF_vars(i \in Working /\ Awake(i))
  /\ WF_vars(GatherAll) /\ WF_vars(GatherPlaybooks)

FairSpec == Spec /\ Fairness
-----------------------------------------------------------------------------
(* Properties.                                                             *)

Items ==
  [host : Hosts, r : Results \cup {"raised", "unreachable", "blocked"}]

Entries ==
  [op : {"exec", "whole", "parallel_exec"}, sub : Subs \cup {0},
   host : Hosts \cup {None}, r : Results]

Subtasks ==
  [st : {"off", "connecting", "running", "sleeping", "done", "raised"},
   step : Nat \ {0}, results : Seq(Items)]

\* Every variable keeps its type, and the ring of recent operations its limit.
TypeOK ==
  /\ call.mode \in Modes \cup {"none"} /\ call.stop \in BOOLEAN
  /\ Working \subseteq Subs
  /\ \A i \in Working : call.work[i] \in Seq(Hosts)
  /\ sub \in [Subs -> Subtasks]
  /\ \A i \in Working : sub[i].step \in DOMAIN call.work[i]
  /\ sent \in [Subs -> Nat]
  /\ log \in Seq(Entries) /\ ring \in Seq(Entries) /\ Len(ring) <= HistoryLimit
  /\ answer.st \in {"none", "results", "raised"}

\* What the audit log says that subtask i ran.
Recorded(i) ==
  LET mine == Picked(log, {k \in DOMAIN log : log[k].op = "exec" /\ log[k].sub = i})
  IN  [n \in DOMAIN mine |-> Item(mine[n].host, mine[n].r)]

\* The results of commands among those of a subtask: not the words for a host that
\* was not reached.
OfCommands(given) == Picked(given, {k \in DOMAIN given : given[k].r \in Results})

\* Every command is recorded at the host it ran on and with the result that is
\* answered for it, in the order of the results, however the subtasks of a call
\* interleave and wherever they fail.
AuditTellsResults ==
  \A i \in Working :
    OfCommands(sub[i].results) =
      IF call.mode \in KeepLast /\ Recorded(i) # <<>>
        THEN <<Last(Recorded(i))>> ELSE Recorded(i)

\* The results that end a list before its end.
Stops(r) == IF call.mode \in TryUntilOk THEN r = "ok" ELSE call.stop /\ r = "failed"

\* A list of commands is run host by host in its order, nothing after a result
\* that stops it, and all of it if none does: a rolling change never reaches the
\* next host after a failure, a retry never repeats what succeeded, and the pane of
\* a terminal is captured once, after the keys.
RunsExactlyUntilStopped ==
  \A i \in Working :
    LET ran == Recorded(i) IN
    /\ \A k \in DOMAIN ran : ran[k].host = call.work[i][k]
    /\ \A k \in 1..Len(ran) - 1 : ~Stops(ran[k].r)
    /\ sub[i].st \in {"connecting", "running", "sleeping"} /\ ran # <<>> => ~Stops(Last(ran).r)
    /\ sub[i].st = "done" /\ call.mode # "health" =>
         Len(ran) = Len(call.work[i]) \/ Stops(Last(ran).r)

\* Once a call has answered it sends nothing more to any host, except that the
\* playbooks of a group go on when one of them has failed.
NothingRunsAfterAnswer ==
  [][answer.st # "none" /\ call.mode # "groupPlaybook" => UNCHANGED <<sent, log>>]_vars

\* A call as FleetPromise sees it.
askedBar ==
  IF call.mode = "none" THEN [lists |-> <<>>, ends |-> {}, last |-> FALSE, late |-> FALSE]
  ELSE [lists |-> call.work, ends |-> {r \in Results : Stops(r)},
        last |-> call.mode \in KeepLast, late |-> call.mode = "groupPlaybook"]

doneBar == [i \in Subs |-> Recorded(i)]

toldBar ==
  [st |-> answer.st,
   of |-> IF answer.st = "results"
          THEN [i \in DOMAIN answer.of |-> OfCommands(answer.of[i])] ELSE <<>>]

\* Every call keeps what FleetPromise promises: gathers, retries, sleeps, timeouts
\* and exceptions come down to lists that advance in order until a result ends
\* them, and to one answer that tells what the audit log has of every list that
\* came to its end.
Promise == INSTANCE FleetPromise WITH asked <- askedBar, done <- doneBar, told <- toldBar

KeepsPromise == Promise!PromiseSpec

\* The ring that the readers of the history see is the end of the audit log,
\* entries of all subtasks in the order they were written.
HistoryIsTail ==
  ring = SubSeq(log, IF Len(log) > HistoryLimit THEN Len(log) - HistoryLimit + 1 ELSE 1, Len(log))

\* Every call is answered, whatever fails on whichever host.
CallAnswered == call.mode # "none" ~> answer.st # "none"

\* Who reads the history of a host, or of all, gets the newest entries in the
\* audit log, newest first with none skipped, and fewer than the limit only if the
\* ring has no more of them.
HistoryIsNewest ==
  \A host \in Hosts \cup {None}, limit \in 1..HistoryLimit :
    LET all == OfHost(log, host)
        got == GetHistory(limit, host) IN
    /\ \A k \in DOMAIN got : got[k] = all[Len(all) + 1 - k]
    /\ Len(got) = limit \/ Len(got) = Len(OfHost(ring, host))
===============================================================================
