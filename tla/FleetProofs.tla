----------------------------- MODULE FleetProofs ------------------------------
(* What holds of every call on hosts, for any hosts, bounds and limit of   *)
(* the history.                                                            *)
EXTENDS Fleet, FiniteSetTheorems, SequenceTheorems, TLAPS

USE DEF Subs, Results

\* A call gives each subtask a list of at least one command on known hosts:
\* WorkOf, whatever the tool (ssh_parallel_exec, ssh_rolling_exec and the rest).
LEMMA WorkType ==
  ASSUME NEW mode \in Modes, NEW hosts \in HostLists, NEW n \in 1..MaxSteps
  PROVE  LET work == WorkOf(mode, hosts, n) IN
         /\ DOMAIN work \subseteq Subs
         /\ \A i \in DOMAIN work : work[i] \in Seq(Hosts) /\ 1 \in DOMAIN work[i]
         /\ work \in Seq(Seq(Hosts)) /\ work # <<>>
<1>0. MaxHosts \in Nat \ {0} BY BoundsAssumption
<1>1. PICK k \in 1..MaxHosts : hosts \in [1..k -> Hosts] BY DEF HostLists
<1>10. \A f \in [1..k -> Seq(Hosts)] : f \in Seq(Seq(Hosts)) /\ f # <<>>
  <2>. SUFFICES ASSUME NEW f \in [1..k -> Seq(Hosts)]
                PROVE  f \in Seq(Seq(Hosts)) /\ f # <<>>
    OBVIOUS
  <2>1. k \in Nat /\ k # 0 /\ DOMAIN f = 1..k /\ 1 \in 1..k BY <1>0
  <2>2. f \in Seq(Seq(Hosts)) BY <2>1, SeqDef
  <2>. QED BY <2>1, <2>2
<1>2. hosts \in Seq(Hosts) /\ Len(hosts) = k /\ DOMAIN hosts = 1..k BY <1>0, <1>1
<1>3. 1..k \subseteq Subs BY <1>0
<1>4. \A h \in Hosts : Times(h, n) \in Seq(Hosts) /\ 1 \in DOMAIN Times(h, n)
  <2>. SUFFICES ASSUME NEW h \in Hosts
                PROVE  Times(h, n) \in Seq(Hosts) /\ 1 \in DOMAIN Times(h, n)
    OBVIOUS
  <2>1. n \in Nat /\ 1 \in 1..n BY BoundsAssumption
  <2>2. Times(h, n) \in [1..n -> Hosts] BY DEF Times
  <2>. QED BY <2>1, <2>2
<1>5. \A h \in Hosts : <<h>> \in Seq(Hosts) /\ 1 \in DOMAIN <<h>> OBVIOUS
<1>6. CASE mode \in {"parallel", "health"}
  <2>1. WorkOf(mode, hosts, n) = [i \in DOMAIN hosts |-> <<hosts[i]>>] BY <1>6 DEF WorkOf
  <2>2. WorkOf(mode, hosts, n) \in [1..k -> Seq(Hosts)] BY <2>1, <1>1, <1>2, <1>5
  <2>. QED BY <2>1, <2>2, <1>1, <1>2, <1>3, <1>5, <1>10
<1>7. CASE mode \in {"broadcast", "groupPlaybook"}
  <2>1. WorkOf(mode, hosts, n) = [i \in DOMAIN hosts |-> Times(hosts[i], n)] BY <1>7 DEF WorkOf
  <2>2. WorkOf(mode, hosts, n) \in [1..k -> Seq(Hosts)] BY <2>1, <1>1, <1>2, <1>4
  <2>. QED BY <2>1, <2>2, <1>1, <1>2, <1>3, <1>4, <1>10
<1>8. CASE mode = "rolling"
  <2>1. WorkOf(mode, hosts, n) = <<hosts>> BY <1>8 DEF WorkOf
  <2>. QED BY <2>1, <1>0, <1>1, <1>2
<1>9. CASE mode \in OnOneHost
  <2>1. WorkOf(mode, hosts, n) = <<Times(hosts[1], n)>> BY <1>9 DEF WorkOf, OnOneHost, InspectionTools, ProcessTools
  <2>2. hosts[1] \in Hosts BY <1>1
  <2>. QED BY <2>1, <2>2, <1>0, <1>4
<1>. QED BY <1>6, <1>7, <1>8, <1>9 DEF Modes, Gathering

-----------------------------------------------------------------------------
(* The audit log and the ring of recent operations.                        *)

\* The last entries of a log, as many as the limit allows.
Newest(s) ==
  SubSeq(s, IF Len(s) > HistoryLimit THEN Len(s) - HistoryLimit + 1 ELSE 1, Len(s))

\* Appending an entry to the ring, and popping the oldest if it is over its
\* limit, gives the newest entries of the log after the same append (audit_log).
LEMMA PushNewest ==
  ASSUME NEW s \in Seq(Entries), NEW e \in Entries
  PROVE  /\ Push(Newest(s), e) = Newest(Append(s, e))
         /\ Newest(s) \in Seq(Entries) /\ Len(Newest(s)) <= HistoryLimit
<1>1. HistoryLimit \in Nat \ {0} BY BoundsAssumption
<1>2. CASE Len(s) > HistoryLimit
  <2>1. /\ Newest(s) \in Seq(Entries) /\ Len(Newest(s)) = HistoryLimit
        /\ \A j \in 1..HistoryLimit : Newest(s)[j] = s[Len(s) - HistoryLimit + j]
    BY <1>1, <1>2 DEF Newest
  <2>2. Push(Newest(s), e) = Tail(Append(Newest(s), e)) BY <1>1, <2>1 DEF Push, Popped
  <2>3. /\ Len(Newest(Append(s, e))) = HistoryLimit
        /\ \A j \in 1..HistoryLimit :
             Newest(Append(s, e))[j] = Append(s, e)[Len(s) + 1 - HistoryLimit + j]
    BY <1>1, <1>2 DEF Newest
  <2>4. /\ Len(Tail(Append(Newest(s), e))) = HistoryLimit
        /\ \A j \in 1..HistoryLimit :
             Tail(Append(Newest(s), e))[j] = Append(s, e)[Len(s) + 1 - HistoryLimit + j]
    BY <1>1, <1>2, <2>1
  <2>5. Tail(Append(Newest(s), e)) \in Seq(Entries) /\ Newest(Append(s, e)) \in Seq(Entries)
    BY <1>1, <1>2, <2>1 DEF Newest
  <2>6. Tail(Append(Newest(s), e)) = Newest(Append(s, e)) BY <1>1, <2>3, <2>4, <2>5, SeqEqual
  <2>. QED BY <1>1, <2>1, <2>2, <2>6
<1>3. CASE ~(Len(s) > HistoryLimit)
  <2>1. Newest(s) = s /\ Len(s) <= HistoryLimit BY <1>1, <1>3 DEF Newest
  <2>2. CASE Len(s) = HistoryLimit
    <3>1. Push(s, e) = Tail(Append(s, e)) BY <1>1, <2>2 DEF Push, Popped
    <3>2. Newest(Append(s, e)) = SubSeq(Append(s, e), 2, Len(Append(s, e)))
      <4>1. Len(Append(s, e)) = HistoryLimit + 1 BY <2>2
      <4>. QED BY <1>1, <4>1 DEF Newest
    <3>3. Tail(Append(s, e)) = SubSeq(Append(s, e), 2, Len(Append(s, e)))
      <4>1. Append(s, e) \in Seq(Entries) OBVIOUS
      <4>2. Len(Append(s, e)) # 0 OBVIOUS
      <4>3. Append(s, e) # <<>>
        <5>1. Len(<<>>) = 0 OBVIOUS
        <5>. QED BY <4>2, <5>1
      <4>. QED BY <4>1, <4>3, TailIsSubSeq
    <3>. QED BY <2>1, <3>1, <3>2, <3>3
  <2>3. CASE Len(s) # HistoryLimit
    <3>1. Push(s, e) = Append(s, e) BY <1>1, <2>1, <2>3 DEF Push, Popped
    <3>2. Newest(Append(s, e)) = Append(s, e)
      <4>1. Newest(Append(s, e)) = SubSeq(Append(s, e), 1, Len(Append(s, e)))
        <5>1. ~(Len(Append(s, e)) > HistoryLimit) BY <1>1, <2>1, <2>3
        <5>. QED BY <5>1 DEF Newest
      <4>2. Append(s, e) \in Seq(Entries) OBVIOUS
      <4>. QED BY <4>1, <4>2, SubSeqFull
    <3>. QED BY <2>1, <3>1, <3>2
  <2>. QED BY <2>2, <2>3
<1>. QED BY <1>2, <1>3
-----------------------------------------------------------------------------
(* Type correctness.                                                       *)

\* Appending one entry or two keeps the ring the end of the log (audit_log, and
\* run_playbook, which has the second written right after the first).
LEMMA AuditKeepsHistory ==
  ASSUME log \in Seq(Entries), ring = Newest(log), NEW e \in Entries, NEW f \in Entries,
         Audit(e) \/ AuditBoth(e, f)
  PROVE  log' \in Seq(Entries) /\ ring' = Newest(log')
<1>1. CASE Audit(e) BY <1>1, PushNewest DEF Audit
<1>2. CASE AuditBoth(e, f)
  <2>1. log' = Append(Append(log, e), f) BY <1>2 DEF AuditBoth
  <2>2. ring' = Push(Newest(Append(log, e)), f) BY <1>2, PushNewest DEF AuditBoth
  <2>3. Append(log, e) \in Seq(Entries) OBVIOUS
  <2>4. Push(Newest(Append(log, e)), f) = Newest(Append(Append(log, e), f))
    BY <2>3, PushNewest
  <2>. QED BY <2>1, <2>2, <2>3, <2>4
<1>. QED BY <1>1, <1>2

\* The inductive invariant: the types, without what the ring's link to the log
\* gives, and that link.
Typed ==
  /\ call.mode \in Modes \cup {"none"} /\ call.stop \in BOOLEAN
  /\ Working \subseteq Subs
  /\ \A i \in Working : call.work[i] \in Seq(Hosts)
  /\ sub \in [Subs -> Subtasks]
  /\ \A i \in Working : sub[i].step \in DOMAIN call.work[i]
  /\ sent \in [Subs -> Nat]
  /\ log \in Seq(Entries)
  /\ answer.st \in {"none", "results", "raised"}

\* A subtask's host and what it records are of their types: Host and the entry
\* that ssh_exec writes.
LEMMA HostType ==
  ASSUME Typed, NEW i \in Working
  PROVE  /\ Host(i) \in Hosts /\ sub[i].step \in Nat \ {0}
         /\ \A r \in Results : ExecEntry(i, r) \in Entries
         /\ \A r \in Results : Entry("whole", i, Host(i), r) \in Entries
<1>1. Host(i) \in Hosts /\ sub[i].step \in Nat \ {0} BY DEF Typed, Host
<1>2. i \in Subs BY DEF Typed
<1>. QED BY <1>1, <1>2 DEF ExecEntry, Entry, Entries
\* The two ways an action changes where a subtask stands keep its type and its
\* place in its list: its state alone, or with its results.
LEMMA SubtaskUpdate ==
  ASSUME NEW x \in Subtasks, NEW res \in Seq(Items),
         NEW st \in {"off", "connecting", "running", "sleeping", "done", "raised"}
  PROVE  /\ [x EXCEPT !.st = st] \in Subtasks
         /\ [x EXCEPT !.st = st].step = x.step
         /\ [x EXCEPT !.st = st, !.results = res] \in Subtasks
         /\ [x EXCEPT !.st = st, !.results = res].step = x.step
BY DEF Subtasks

\* A subtask that is replaced by one of its type at the same place leaves all
\* subtasks typed.
LEMMA SubUpdate ==
  ASSUME Typed, NEW i \in Working, NEW y \in Subtasks, y.step \in DOMAIN call.work[i],
         sub' = [sub EXCEPT ![i] = y]
  PROVE  /\ sub' \in [Subs -> Subtasks]
         /\ \A j \in Working : sub'[j].step \in DOMAIN call.work[j]
BY DEF Typed

\* Every action keeps the types; those that write to the log keep the ring its end.
LEMMA TypeStep ==
  ASSUME Typed, ring = Newest(log), [Next]_vars
  PROVE  Typed' /\ ring' = Newest(log')
<1>. USE DEF Working
<1>1. ASSUME NEW mode \in Modes, NEW hosts \in HostLists, NEW n \in 1..MaxSteps,
             NEW stop \in BOOLEAN, Start(mode, hosts, n, stop)
      PROVE  Typed' /\ ring' = Newest(log')
  <2>. DEFINE work == WorkOf(mode, hosts, n)
  <2>1. call' = [mode |-> mode, work |-> work, stop |-> stop] BY <1>1 DEF Start
  <2>2. /\ DOMAIN work \subseteq Subs
        /\ \A i \in DOMAIN work : work[i] \in Seq(Hosts) /\ 1 \in DOMAIN work[i]
    BY WorkType
  <2>3. \A i \in DOMAIN work : <<Item(work[i][1], "blocked")>> \in Seq(Items)
    BY <2>2 DEF Item, Items
  <2>4. PICK refused \in SUBSET DOMAIN work :
          sub' = [i \in Subs |->
            IF i \notin DOMAIN work THEN Off
            ELSE IF i \in refused
              THEN [Off EXCEPT !.st = "done", !.results = <<Item(work[i][1], "blocked")>>]
              ELSE [Off EXCEPT !.st = "connecting"]]
    BY <1>1 DEF Start
  <2>5. sub' \in [Subs -> Subtasks] /\ \A i \in Subs : sub'[i].step = 1
    <3>1. Off \in Subtasks /\ Off.step = 1 BY DEF Off, Subtasks
    <3>2. \A i \in DOMAIN work :
            /\ [Off EXCEPT !.st = "connecting"] \in Subtasks
            /\ [Off EXCEPT !.st = "connecting"].step = 1
            /\ [Off EXCEPT !.st = "done", !.results = <<Item(work[i][1], "blocked")>>] \in Subtasks
            /\ [Off EXCEPT !.st = "done", !.results = <<Item(work[i][1], "blocked")>>].step = 1
      BY <2>3, <3>1, SubtaskUpdate
    <3>. QED BY <2>4, <3>1, <3>2
  <2>6. UNCHANGED <<sent, log, ring, answer>> BY <1>1 DEF Start
  <2>. QED BY <2>1, <2>2, <2>5, <2>6 DEF Typed, Newest
<1>2. ASSUME NEW i \in Working, Connected(i) \/ ConnectFails(i) \/ Awake(i) \/ PingTimeout(i)
      PROVE  Typed' /\ ring' = Newest(log')
  <2>1. i \in Subs /\ Host(i) \in Hosts BY HostType DEF Typed
  <2>2. <<Item(Host(i), "unreachable")>> \in Seq(Items) BY <2>1 DEF Item, Items
  <2>7. /\ sub[i].step \in DOMAIN call.work[i]
        /\ \A st \in {"running", "raised", "connecting", "done"} :
             /\ [sub[i] EXCEPT !.st = st] \in Subtasks
             /\ [sub[i] EXCEPT !.st = st].step = sub[i].step
        /\ LET y == [sub[i] EXCEPT !.st = "done",
                                   !.results = <<Item(Host(i), "unreachable")>>] IN
           y \in Subtasks /\ y.step = sub[i].step
    BY <2>1, <2>2, SubtaskUpdate DEF Typed
  <2>3. CASE Connected(i)
    <3>1. sub' = [sub EXCEPT ![i] = [sub[i] EXCEPT !.st = "running"]]
      BY <2>1, <2>3 DEF Connected, Typed
    <3>2. sent' \in [Subs -> Nat] BY <2>1, <2>3 DEF Connected, Typed
    <3>3. UNCHANGED <<call, log, ring, answer>> BY <2>3 DEF Connected
    <3>. QED BY <2>1, <3>1, <3>2, <3>3, <2>7, SubUpdate DEF Typed, Newest
  <2>4. CASE ConnectFails(i)
    <3>1. \/ sub' = [sub EXCEPT ![i] =
              [sub[i] EXCEPT !.st = "done", !.results = <<Item(Host(i), "unreachable")>>]]
          \/ sub' = [sub EXCEPT ![i] = [sub[i] EXCEPT !.st = "raised"]]
      BY <2>1, <2>4 DEF ConnectFails, Typed
    <3>2. answer' = answer \/ answer'.st = "raised" BY <2>4 DEF ConnectFails, Return
    <3>3. UNCHANGED <<call, sent, log, ring>> BY <2>4 DEF ConnectFails
    <3>. QED BY <2>1, <3>1, <3>2, <3>3, <2>7, SubUpdate DEF Typed, Newest
  <2>5. CASE Awake(i)
    <3>1. sub' = [sub EXCEPT ![i] = [sub[i] EXCEPT !.st = "connecting"]]
      BY <2>1, <2>5 DEF Awake, Typed
    <3>2. UNCHANGED <<call, sent, log, ring, answer>> BY <2>5 DEF Awake
    <3>. QED BY <2>1, <3>1, <3>2, <2>7, SubUpdate DEF Typed, Newest
  <2>6. CASE PingTimeout(i)
    <3>1. sub' = [sub EXCEPT ![i] =
            [sub[i] EXCEPT !.st = "done", !.results = <<Item(Host(i), "unreachable")>>]]
      BY <2>1, <2>6 DEF PingTimeout, Typed
    <3>2. UNCHANGED <<call, sent, log, ring, answer>> BY <2>6 DEF PingTimeout
    <3>. QED BY <2>1, <3>1, <3>2, <2>7, SubUpdate DEF Typed, Newest
  <2>. QED BY <1>2, <2>3, <2>4, <2>5, <2>6
<1>3. ASSUME NEW i \in Working, NEW r \in Results,
             EndsAndGoesOn(i, r) \/ EndsAndReturns(i, r)
      PROVE  Typed' /\ ring' = Newest(log')
  <2>1. i \in Subs /\ Host(i) \in Hosts /\ sub[i].step \in DOMAIN call.work[i]
    BY HostType DEF Typed
  <2>2. /\ ExecEntry(i, r) \in Entries /\ Entry("whole", i, Host(i), "ok") \in Entries
    BY HostType
  <2>3. Audit(ExecEntry(i, r)) \/ AuditBoth(ExecEntry(i, r), Entry("whole", i, Host(i), "ok"))
    BY <1>3 DEF EndsAndGoesOn, EndsAndReturns
  <2>4. log' \in Seq(Entries) /\ ring' = Newest(log')
    BY <2>2, <2>3, AuditKeepsHistory DEF Typed
  <2>5. Item(Host(i), r) \in Items BY <2>1 DEF Item, Items
  <2>6. sub[i] \in Subtasks /\ sub[i].results \in Seq(Items) BY <2>1 DEF Typed, Subtasks
  <2>7. Collected(i, r) \in Seq(Items) BY <2>5, <2>6 DEF Collected
  <2>8. CASE EndsAndGoesOn(i, r)
    <3>1. sub[i].step + 1 \in DOMAIN call.work[i]
      <4>1. call.work[i] \in Seq(Hosts) BY DEF Typed
      <4>2. sub[i].step < Len(call.work[i]) BY <2>8 DEF EndsAndGoesOn, GoesOn
      <4>. QED BY <2>1, <4>1, <4>2
    <3>2. UNCHANGED <<call, sent, answer>> BY <2>8 DEF EndsAndGoesOn
    <3>3. sub' = [sub EXCEPT ![i] =
            [st |-> IF call.mode \in Sleeping THEN "sleeping" ELSE "connecting",
             step |-> sub[i].step + 1, results |-> Collected(i, r)]]
      BY <2>8 DEF EndsAndGoesOn
    <3>4. sub[i].step + 1 \in Nat \ {0} BY <2>1 DEF Typed
    <3>5. LET y == [st |-> IF call.mode \in Sleeping THEN "sleeping" ELSE "connecting",
                    step |-> sub[i].step + 1, results |-> Collected(i, r)] IN
          y \in Subtasks /\ y.step \in DOMAIN call.work[i] /\ sub' = [sub EXCEPT ![i] = y]
      BY <2>7, <3>1, <3>3, <3>4 DEF Subtasks
    <3>6. /\ sub' \in [Subs -> Subtasks]
          /\ \A j \in Working : sub'[j].step \in DOMAIN call.work[j]
      BY <3>5, SubUpdate
    <3>. QED BY <2>4, <3>2, <3>6 DEF Typed
  <2>9. CASE EndsAndReturns(i, r)
    <3>1. UNCHANGED <<call, sent>> BY <2>9 DEF EndsAndReturns
    <3>2. sub' = [sub EXCEPT ![i].st = "done", ![i].results = Collected(i, r)]
      BY <2>9 DEF EndsAndReturns
    <3>3. answer' = answer \/ answer' = [st |-> "results", of |-> <<Collected(i, r)>>]
      BY <2>9 DEF EndsAndReturns, Return
    <3>4. LET y == [sub[i] EXCEPT !.st = "done", !.results = Collected(i, r)] IN
          y \in Subtasks /\ y.step = sub[i].step /\ sub' = [sub EXCEPT ![i] = y]
      BY <2>1, <2>7, <3>2, SubtaskUpdate DEF Typed
    <3>5. /\ sub' \in [Subs -> Subtasks]
          /\ \A j \in Working : sub'[j].step \in DOMAIN call.work[j]
      BY <2>1, <3>4, SubUpdate
    <3>. QED BY <2>4, <3>1, <3>3, <3>5 DEF Typed
  <2>. QED BY <1>3, <2>8, <2>9
<1>4. CASE GatherAll
  <2>1. UNCHANGED <<call, sub, sent>> /\ answer'.st = "results" BY <1>4 DEF GatherAll
  <2>2. Entry("parallel_exec", 0, Joined, "ok") \in Entries
    <3>1. Working = {1} => call.work[1][1] \in Hosts BY HostType DEF Typed, Joined
    <3>. QED BY <3>1 DEF Entry, Entries, Joined
  <2>3. log' \in Seq(Entries) /\ ring' = Newest(log')
    <3>1. CASE Audit(Entry("parallel_exec", 0, Joined, "ok"))
      BY <2>2, <3>1, AuditKeepsHistory DEF Typed
    <3>2. CASE UNCHANGED <<log, ring>> BY <3>2 DEF Typed, Newest
    <3>. QED BY <1>4, <3>1, <3>2 DEF GatherAll
  <2>. QED BY <2>1, <2>3 DEF Typed
<1>5. CASE GatherPlaybooks BY <1>5 DEF GatherPlaybooks, Typed, Newest
<1>6. CASE UNCHANGED vars BY <1>6 DEF vars, Typed, Newest
<1>. QED BY <1>1, <1>2, <1>3, <1>4, <1>5, <1>6 DEF Next, Ends

\* The invariant holds in every state of every call.
LEMMA Invariance == Spec => [](Typed /\ ring = Newest(log))
<1>1. Init => Typed /\ ring = Newest(log)
  <2>. SUFFICES ASSUME Init PROVE Typed /\ ring = Newest(log) OBVIOUS
  <2>1. Working = {} BY DEF Init, NoCall, Working
  <2>2. ring = Newest(log)
    <3>1. log = <<>> /\ ring = <<>> BY DEF Init
    <3>2. Newest(<<>>) = SubSeq(<<>>, 1, 0) BY BoundsAssumption DEF Newest
    <3>3. SubSeq(<<>>, 1, 0) = <<>> BY SubSeqEmpty
    <3>. QED BY <3>1, <3>2, <3>3
  <2>3. Off \in Subtasks BY DEF Off, Subtasks
  <2>4. sub \in [Subs -> Subtasks] BY <2>3 DEF Init
  <2>5. call.mode = "none" /\ call.stop = FALSE /\ answer.st = "none"
    BY DEF Init, NoCall, NoAnswer
  <2>6. sent \in [Subs -> Nat] /\ log \in Seq(Entries) BY DEF Init
  <2>. QED BY <2>1, <2>2, <2>4, <2>5, <2>6 DEF Typed
<1>2. Typed /\ ring = Newest(log) /\ [Next]_vars => (Typed /\ ring = Newest(log))'
  BY TypeStep DEF Newest
<1>. QED BY <1>1, <1>2, PTL DEF Spec

\* Types of the calls, their subtasks, the log and the ring, for any number of
\* hosts and commands and any limit of the history.
THEOREM TypeCorrect == Spec => []TypeOK
<1>1. Typed /\ ring = Newest(log) => TypeOK
  <2>. SUFFICES ASSUME Typed, ring = Newest(log) PROVE TypeOK OBVIOUS
  <2>1. PICK e : e \in Entries
    <3>1. Entry("parallel_exec", 0, None, "ok") \in Entries BY DEF Entry, Entries
    <3>. QED BY <3>1
  <2>2. ring \in Seq(Entries) /\ Len(ring) <= HistoryLimit
    BY <2>1, PushNewest DEF Typed
  <2>. QED BY <2>2 DEF Typed, TypeOK
<1>. QED BY <1>1, Invariance, PTL

\* The ring of recent operations is the end of the audit log, for any limit
\* (audit_log's append and pop).
THEOREM HistoryIsTailHolds == Spec => []HistoryIsTail
<1>1. Typed /\ ring = Newest(log) => HistoryIsTail BY DEF HistoryIsTail, Newest
<1>. QED BY <1>1, Invariance, PTL
-----------------------------------------------------------------------------
(* Nothing runs once a call has answered.                                  *)

\* Inductive: a call that has answered has no subtask left to run, unless it
\* raised for one playbook of several; a tool that does not gather has one
\* subtask, so its return is the end of the call.
AnsweredIsOver ==
  /\ call.mode = "none" => answer.st = "none" /\ Working = {}
  /\ call.mode \in (Modes \ Gathering) => Working \subseteq {1}
  /\ answer.st # "none" /\ call.mode # "groupPlaybook" => \A i \in Working : Over(i)

\* Tools that do not gather have one subtask (ssh_exec_batch, ssh_rolling_exec,
\* run_playbook, ssh_exec_retry and the tools on one host).
LEMMA LoopsAreOne ==
  ASSUME NEW mode \in Modes \ Gathering, NEW hosts, NEW n
  PROVE  DOMAIN WorkOf(mode, hosts, n) \subseteq {1}
<1>1. CASE mode = "rolling" BY <1>1 DEF WorkOf
<1>2. CASE mode # "rolling"
  <2>1. mode \in OnOneHost BY <1>2 DEF Modes, Gathering
  <2>2. WorkOf(mode, hosts, n) = <<Times(hosts[1], n)>> BY <2>1 DEF WorkOf, OnOneHost, InspectionTools, ProcessTools
  <2>. QED BY <2>2
<1>. QED BY <1>1, <1>2

\* A subtask that has not ended belongs to a call without an answer, or to a
\* group of playbooks; ending, it answers only for a loop, whose one subtask it is.
LEMMA AnsweredStep ==
  ASSUME Typed, AnsweredIsOver, [Next]_vars
  PROVE  AnsweredIsOver'
<1>1. ASSUME NEW mode \in Modes, NEW hosts \in HostLists, NEW n \in 1..MaxSteps,
             NEW stop \in BOOLEAN, Start(mode, hosts, n, stop)
      PROVE  AnsweredIsOver'
  <2>1. /\ call'.mode = mode /\ call'.work = WorkOf(mode, hosts, n)
        /\ call.mode = "none" /\ answer' = answer
    BY <1>1 DEF Start
  <2>2. answer'.st = "none" BY <2>1 DEF AnsweredIsOver
  <2>3. mode # "none" BY DEF Modes, Gathering, OnOneHost, InspectionTools, ProcessTools
  <2>. QED BY <2>1, <2>2, <2>3, LoopsAreOne DEF AnsweredIsOver, Working
<1>2. ASSUME NEW i \in Working, Connected(i) \/ Awake(i) \/ PingTimeout(i)
      PROVE  AnsweredIsOver'
  <2>1. UNCHANGED <<call, answer>> /\ ~Over(i) /\ \A j \in Subs \ {i} : sub'[j] = sub[j]
    BY <1>2 DEF Connected, Awake, PingTimeout, Over, Typed
  <2>. QED BY <2>1 DEF AnsweredIsOver, Working
<1>3. ASSUME NEW i \in Working, NEW r \in Results,
             ConnectFails(i) \/ EndsAndGoesOn(i, r) \/ EndsAndReturns(i, r)
      PROVE  AnsweredIsOver'
  <2>1. /\ call' = call /\ ~Over(i) /\ \A j \in Subs \ {i} : sub'[j] = sub[j]
    BY <1>3 DEF ConnectFails, EndsAndGoesOn, EndsAndReturns, Over, Typed
  <2>2. call.mode # "none" BY DEF AnsweredIsOver
  <2>3. CASE answer' = answer BY <2>1, <2>3 DEF AnsweredIsOver, Working
  <2>4. CASE answer' # answer
    <3>1. call.mode \notin Gathering
      BY <1>3, <2>4 DEF ConnectFails, EndsAndGoesOn, EndsAndReturns
    <3>2. Over(i)'
      <4>1. i \in Subs /\ sub \in [Subs -> Subtasks] BY DEF Typed
      <4>2. sub'[i].st \in {"done", "raised"}
        BY <1>3, <2>4, <4>1
        DEF ConnectFails, EndsAndGoesOn, EndsAndReturns, Subtasks
      <4>. QED BY <4>2 DEF Over
    <3>3. Working = {i}
      <4>1. call.mode \in Modes \ Gathering BY <2>2, <3>1 DEF Typed
      <4>. QED BY <4>1 DEF AnsweredIsOver
    <3>. QED BY <2>1, <2>2, <3>1, <3>2, <3>3 DEF AnsweredIsOver, Working
  <2>. QED BY <2>3, <2>4
<1>4. CASE GatherAll BY <1>4 DEF GatherAll, Gathered, AnsweredIsOver, Working, Over, Gathering
<1>5. CASE GatherPlaybooks
  BY <1>5 DEF GatherPlaybooks, AnsweredIsOver, Working, Over, Gathering
<1>6. CASE UNCHANGED vars BY <1>6 DEF vars, AnsweredIsOver, Working, Over
<1>. QED BY <1>1, <1>2, <1>3, <1>4, <1>5, <1>6 DEF Next, Ends

\* No tool but the playbooks of a group sends a command, or writes to the audit
\* log, after its answer, for any number of hosts and any length of the lists.
THEOREM NothingRunsAfterAnswerHolds == Spec => NothingRunsAfterAnswer
<1>1. Init => AnsweredIsOver BY DEF Init, NoCall, NoAnswer, AnsweredIsOver, Modes, Gathering, Working
<1>2. Typed /\ AnsweredIsOver /\ [Next]_vars => AnsweredIsOver' BY AnsweredStep
<1>3. AnsweredIsOver /\ [Next]_vars =>
        [answer.st # "none" /\ call.mode # "groupPlaybook" => UNCHANGED <<sent, log>>]_vars
  <2>. SUFFICES ASSUME AnsweredIsOver, Next, answer.st # "none", call.mode # "groupPlaybook"
                PROVE  UNCHANGED <<sent, log>>
    OBVIOUS
  <2>1. \A i \in Working : sub[i].st \in {"done", "raised"} BY DEF AnsweredIsOver, Over
  <2>2. call.mode # "none" BY DEF AnsweredIsOver
  <2>3. ~GatherAll /\ ~GatherPlaybooks BY DEF GatherAll, GatherPlaybooks
  <2>4. \A mode \in Modes, hosts \in HostLists, n \in 1..MaxSteps, stop \in BOOLEAN :
          ~Start(mode, hosts, n, stop)
    BY <2>2 DEF Start
  <2>5. \A i \in Working : ~(Connected(i) \/ ConnectFails(i) \/ Ends(i) \/ Awake(i) \/ PingTimeout(i))
    BY <2>1
    DEF Connected, ConnectFails, Ends, EndsAndGoesOn, EndsAndReturns, Awake, PingTimeout
  <2>. QED BY <2>3, <2>4, <2>5 DEF Next
<1>. QED BY <1>1, <1>2, <1>3, Invariance, PTL DEF Spec, NothingRunsAfterAnswer
-----------------------------------------------------------------------------
(* The elements of a sequence at some of its places.  The place of the     *)
(* n-th is the one that n of the places are not after.                     *)

UpTo(places, k) == {j \in places : j <= k}

RankOf(places, k) == Cardinality(UpTo(places, k))

\* Distinct places have distinct ranks, and the ranks are 1 up to the number
\* of places.
LEMMA RankBijection ==
  ASSUME NEW L \in Nat, NEW places \in SUBSET (1..L)
  PROVE  /\ IsFiniteSet(places) /\ Cardinality(places) \in Nat
         /\ \A k \in places : RankOf(places, k) \in 1..Cardinality(places)
         /\ \A j, k \in places : RankOf(places, j) = RankOf(places, k) => j = k
         /\ \A n \in 1..Cardinality(places) : \E k \in places : RankOf(places, k) = n
<1>1. IsFiniteSet(places) /\ Cardinality(places) \in Nat
  <2>1. IsFiniteSet(1..L) BY FS_Interval
  <2>. QED BY <2>1, FS_Subset, FS_CardinalityType
<1>2. \A k \in places : UpTo(places, k) \in SUBSET places /\ IsFiniteSet(UpTo(places, k))
  <2>. SUFFICES ASSUME NEW k \in places
                PROVE  UpTo(places, k) \in SUBSET places /\ IsFiniteSet(UpTo(places, k))
    OBVIOUS
  <2>1. UpTo(places, k) \in SUBSET places BY DEF UpTo
  <2>. QED BY <2>1, <1>1, FS_Subset
<1>3. ASSUME NEW k \in places PROVE RankOf(places, k) \in 1..Cardinality(places)
  <2>1. RankOf(places, k) \in Nat /\ RankOf(places, k) <= Cardinality(places)
    BY <1>1, <1>2, FS_Subset, FS_CardinalityType DEF RankOf
  <2>2. k \in UpTo(places, k) BY DEF UpTo
  <2>3. RankOf(places, k) # 0 BY <1>2, <2>2, FS_EmptySet DEF RankOf
  <2>. QED BY <1>1, <2>1, <2>3
<1>4. ASSUME NEW j \in places, NEW k \in places, j < k
      PROVE  RankOf(places, j) # RankOf(places, k)
  <2>0. \A x \in places : x \in Int OBVIOUS
  <2>1. UpTo(places, j) \subseteq UpTo(places, k)
    <3>. SUFFICES ASSUME NEW x \in places, x <= j PROVE x <= k
      BY DEF UpTo
    <3>. QED BY <2>0, <1>4
  <2>2. k \in UpTo(places, k) /\ k \notin UpTo(places, j) BY <1>4 DEF UpTo
  <2>. QED BY <1>2, <2>1, <2>2, FS_Subset DEF RankOf
<1>5. \A j, k \in places : RankOf(places, j) = RankOf(places, k) => j = k
  <2>. SUFFICES ASSUME NEW j \in places, NEW k \in places, j # k
                PROVE  RankOf(places, j) # RankOf(places, k)
    OBVIOUS
  <2>1. j < k \/ k < j OBVIOUS
  <2>. QED BY <2>1, <1>4
<1>6. ASSUME NEW n \in 1..Cardinality(places) PROVE \E k \in places : RankOf(places, k) = n
  <2>. DEFINE N == 1..Cardinality(places)
              rank == [k \in places |-> RankOf(places, k)]
  <2>1. rank \in Injection(places, N) BY <1>3, <1>5 DEF Injection, IsInjective
  <2>2. IsFiniteSet(N) /\ Cardinality(N) = Cardinality(places) BY <1>1, FS_Interval
  <2>3. rank \in Surjection(places, N)
    <3>. HIDE DEF rank, N
    <3>. QED BY <2>1, <2>2, FS_Injection
  <2>. QED BY <2>3 DEF Surjection
<1>. QED BY <1>1, <1>3, <1>5, <1>6

\* Whichever place has rank n, the n-th element picked is the one there.
LEMMA PickedAt ==
  ASSUME NEW S, NEW s \in Seq(S), NEW places \in SUBSET DOMAIN s
  PROVE  /\ Len(Picked(s, places)) = Cardinality(places)
         /\ DOMAIN Picked(s, places) = 1..Cardinality(places)
         /\ \A k \in places : /\ RankOf(places, k) \in 1..Cardinality(places)
                              /\ Picked(s, places)[RankOf(places, k)] = s[k]
<1>. DEFINE place(n) == CHOOSE k \in places : RankOf(places, k) = n
<1>. places \in SUBSET (1..Len(s)) /\ Len(s) \in Nat OBVIOUS
<1>0. Cardinality(places) \in Nat BY RankBijection
<1>1. Picked(s, places) = [n \in 1..Cardinality(places) |-> s[place(n)]]
  BY DEF Picked, RankOf, UpTo
<1>2. DOMAIN Picked(s, places) = 1..Cardinality(places) BY <1>1
<1>3. Len(Picked(s, places)) = Cardinality(places) BY <1>0, <1>1
<1>4. ASSUME NEW k \in places
      PROVE  /\ RankOf(places, k) \in 1..Cardinality(places)
             /\ Picked(s, places)[RankOf(places, k)] = s[k]
  <2>1. RankOf(places, k) \in 1..Cardinality(places) BY RankBijection
  <2>2. place(RankOf(places, k)) \in places
        /\ RankOf(places, place(RankOf(places, k))) = RankOf(places, k)
    OBVIOUS
  <2>3. place(RankOf(places, k)) = k BY <2>2, RankBijection
  <2>. QED BY <1>1, <2>1, <2>3
<1>. QED BY <1>2, <1>3, <1>4

\* What is picked is a sequence of elements of the sequence.
LEMMA PickedType ==
  ASSUME NEW S, NEW s \in Seq(S), NEW places \in SUBSET DOMAIN s
  PROVE  /\ Picked(s, places) \in Seq(S)
         /\ Len(Picked(s, places)) = Cardinality(places)
         /\ Cardinality(places) \in Nat
         /\ \A n \in 1..Cardinality(places) :
              \E k \in places : RankOf(places, k) = n /\ Picked(s, places)[n] = s[k]
<1>1. Len(s) \in Nat /\ places \in SUBSET (1..Len(s)) OBVIOUS
<1>2. Cardinality(places) \in Nat BY <1>1, RankBijection
<1>3. ASSUME NEW n \in 1..Cardinality(places)
      PROVE  \E k \in places : RankOf(places, k) = n /\ Picked(s, places)[n] = s[k]
  <2>1. PICK k \in places : RankOf(places, k) = n BY <1>1, RankBijection
  <2>2. Picked(s, places)[RankOf(places, k)] = s[k] BY <1>1, PickedAt
  <2>. QED BY <2>1, <2>2
<1>4. /\ DOMAIN Picked(s, places) = 1..Cardinality(places)
      /\ Len(Picked(s, places)) = Cardinality(places)
  BY <1>1, PickedAt
<1>5. Picked(s, places) \in [1..Cardinality(places) -> S]
  <2>1. \A n \in 1..Cardinality(places) : Picked(s, places)[n] \in S BY <1>3
  <2>2. Picked(s, places) = [n \in 1..Cardinality(places) |-> Picked(s, places)[n]]
    BY DEF Picked
  <2>. QED BY <2>1, <2>2
<1>. QED BY <1>2, <1>3, <1>4, <1>5, SeqDef

\* A place after all the others adds its element at the end, and an element at
\* no place adds nothing.
LEMMA PickMore ==
  ASSUME NEW S, NEW s \in Seq(S), NEW e \in S, NEW places \in SUBSET DOMAIN s
  PROVE  /\ Picked(Append(s, e), places) = Picked(s, places)
         /\ Picked(Append(s, e), places \cup {Len(s) + 1}) = Append(Picked(s, places), e)
<1>. DEFINE last == Len(s) + 1
            more == places \cup {last}
            C == Cardinality(places)
<1>1. /\ Len(s) \in Nat /\ places \in SUBSET (1..Len(s)) /\ last \notin places
      /\ Append(s, e) \in Seq(S) /\ DOMAIN Append(s, e) = 1..last
      /\ Append(s, e)[last] = e
      /\ \A k \in places : Append(s, e)[k] = s[k]
  OBVIOUS
<1>2. places \in SUBSET DOMAIN Append(s, e) /\ more \in SUBSET DOMAIN Append(s, e)
  BY <1>1
<1>3. Picked(Append(s, e), places) = Picked(s, places)
  <2>1. /\ Picked(Append(s, e), places) \in Seq(S) /\ Picked(s, places) \in Seq(S)
        /\ Len(Picked(Append(s, e), places)) = C /\ Len(Picked(s, places)) = C
    BY <1>1, <1>2, PickedType
  <2>2. \A n \in 1..C : Picked(Append(s, e), places)[n] = Picked(s, places)[n]
    <3>. SUFFICES ASSUME NEW n \in 1..C
                  PROVE  Picked(Append(s, e), places)[n] = Picked(s, places)[n]
      OBVIOUS
    <3>1. PICK k \in places : RankOf(places, k) = n /\ Picked(s, places)[n] = s[k]
      BY <1>1, PickedType
    <3>2. Picked(Append(s, e), places)[RankOf(places, k)] = Append(s, e)[k]
      BY <1>1, <1>2, PickedAt
    <3>. QED BY <1>1, <3>1, <3>2
  <2>. QED BY <2>1, <2>2, SeqEqual
<1>4. IsFiniteSet(places) /\ C \in Nat /\ Cardinality(more) = C + 1
  BY <1>1, RankBijection, FS_AddElement
<1>5. \A k \in places : RankOf(more, k) = RankOf(places, k)
  <2>. SUFFICES ASSUME NEW k \in places PROVE UpTo(more, k) = UpTo(places, k)
    BY DEF RankOf
  <2>1. ~(last <= k) BY <1>1
  <2>. QED BY <2>1 DEF UpTo
<1>6. RankOf(more, last) = C + 1
  <2>1. UpTo(more, last) = more BY <1>1 DEF UpTo
  <2>. QED BY <1>4, <2>1 DEF RankOf
<1>7. Picked(Append(s, e), more) = Append(Picked(s, places), e)
  <2>. DEFINE p == Picked(Append(s, e), more)
              q == Append(Picked(s, places), e)
  <2>1. p \in Seq(S) /\ Len(p) = C + 1 BY <1>1, <1>2, <1>4, PickedType
  <2>2. Picked(s, places) \in Seq(S) /\ Len(Picked(s, places)) = C BY <1>1, PickedType
  <2>3. /\ q \in Seq(S) /\ Len(q) = C + 1 /\ q[C + 1] = e
        /\ \A n \in 1..C : q[n] = Picked(s, places)[n]
    BY <1>4, <2>2
  <2>4. p[C + 1] = e
    <3>1. p[RankOf(more, last)] = Append(s, e)[last]
      <4>1. last \in more OBVIOUS
      <4>. QED BY <1>1, <1>2, <4>1, PickedAt
    <3>. QED BY <1>1, <1>6, <3>1
  <2>5. \A n \in 1..C : p[n] = Picked(s, places)[n]
    <3>. SUFFICES ASSUME NEW n \in 1..C PROVE p[n] = Picked(s, places)[n]
      OBVIOUS
    <3>1. PICK k \in places : RankOf(places, k) = n /\ Picked(s, places)[n] = s[k]
      BY <1>1, PickedType
    <3>2. p[RankOf(more, k)] = Append(s, e)[k]
      <4>1. k \in more OBVIOUS
      <4>. QED BY <1>1, <1>2, <4>1, PickedAt
    <3>. QED BY <1>1, <1>5, <3>1, <3>2
  <2>6. \A n \in 1..(C + 1) : p[n] = q[n]
    <3>1. \A n \in 1..(C + 1) : n = C + 1 \/ n \in 1..C BY <1>4
    <3>. QED BY <2>3, <2>4, <2>5, <3>1
  <2>. QED
    <3>1. Len(p) = Len(q) /\ \A n \in 1..Len(p) : p[n] = q[n] BY <2>1, <2>3, <2>6
    <3>. HIDE DEF p, q
    <3>2. p = q BY <2>1, <2>3, <3>1, SeqEqual
    <3>. QED BY <3>2 DEF p, q
<1>. QED BY <1>3, <1>7

\* All places pick the sequence itself, no place picks nothing.
LEMMA PickAllOrNone ==
  ASSUME NEW S, NEW s \in Seq(S)
  PROVE  Picked(s, DOMAIN s) = s /\ Picked(s, {}) = <<>>
<1>. DEFINE all == DOMAIN s
<1>1. Len(s) \in Nat /\ all = 1..Len(s) OBVIOUS
<1>2. Cardinality(1..Len(s)) = Len(s) BY <1>1, FS_Interval
<1>3. \A k \in all : RankOf(all, k) = k
  <2>. SUFFICES ASSUME NEW k \in all PROVE RankOf(all, k) = k
    OBVIOUS
  <2>1. k \in Int /\ k >= 1 /\ UpTo(all, k) = 1..k BY <1>1 DEF UpTo
  <2>2. Cardinality(1..k) = k BY <2>1, FS_Interval
  <2>. QED BY <2>1, <2>2 DEF RankOf
<1>4. /\ Picked(s, all) \in Seq(S) /\ Len(Picked(s, all)) = Len(s)
      /\ \A n \in 1..Len(s) : Picked(s, all)[n] = s[n]
  <2>1. Picked(s, all) \in Seq(S) /\ Len(Picked(s, all)) = Len(s)
    BY <1>1, <1>2, PickedType
  <2>2. \A k \in all : Picked(s, all)[RankOf(all, k)] = s[k]
    BY <1>1, PickedAt
  <2>. QED BY <1>1, <1>3, <2>1, <2>2
<1>5. Picked(s, all) = s BY <1>4, SeqEqual
<1>6. Picked(s, {}) = <<>>
  <2>1. Picked(s, {}) \in Seq(S) /\ Len(Picked(s, {})) = 0
    BY FS_EmptySet, PickedType
  <2>. QED BY <2>1, EmptySeq
<1>. QED BY <1>5, <1>6

\* Places moved on by m are as many.
LEMMA ShiftCounts ==
  ASSUME NEW A \in SUBSET Nat, IsFiniteSet(A), NEW m \in Nat
  PROVE  IsFiniteSet({a + m : a \in A}) /\ Cardinality({a + m : a \in A}) = Cardinality(A)
<1>. DEFINE B == {a + m : a \in A}
            shift == [a \in A |-> a + m]
<1>1. \A a, b \in A : a + m = b + m => a = b OBVIOUS
<1>2. shift \in [A -> B] /\ \A b \in B : \E a \in A : shift[a] = b OBVIOUS
<1>3. shift \in Bijection(A, B)
  BY <1>1, <1>2 DEF Bijection, Injection, IsInjective, Surjection
<1>. QED
  <2>. HIDE DEF B, shift
  <2>1. IsFiniteSet(B) /\ Cardinality(B) = Cardinality(A)
    BY <1>3, FS_Bijection DEF ExistsBijection
  <2>. QED BY <2>1 DEF B

\* q is the end of p; the places of s that are left when m elements are dropped.
EndOf(q, p) ==
  Len(q) <= Len(p) /\ \A n \in 1..Len(q) : q[n] = p[n + (Len(p) - Len(q))]

Left(t, m, places) == {k \in DOMAIN t : k + m \in places}

\* What is picked from the end of a sequence is the end of what is picked.
LEMMA PickTail ==
  ASSUME NEW S, NEW s \in Seq(S), NEW m \in 0..Len(s), NEW t \in Seq(S),
         t = SubSeq(s, m + 1, Len(s)), NEW places \in SUBSET DOMAIN s
  PROVE  /\ Picked(s, places) \in Seq(S) /\ Picked(t, Left(t, m, places)) \in Seq(S)
         /\ EndOf(Picked(t, Left(t, m, places)), Picked(s, places))
<1>. DEFINE late == Left(t, m, places)
<1>0. \A k \in DOMAIN t : k \in late <=> k + m \in places BY DEF Left
<1>a. late \in SUBSET DOMAIN t BY DEF Left
<1>. HIDE DEF late
<1>. DEFINE early == {j \in places : j <= m}
            Moved(A) == {a + m : a \in A}
<1>1. /\ Len(s) \in Nat /\ m \in Nat /\ places \in SUBSET (1..Len(s))
      /\ t \in Seq(S) /\ DOMAIN t = 1..(Len(s) - m)
      /\ \A k \in DOMAIN t : t[k] = s[k + m]
  OBVIOUS
<1>2. late \in SUBSET DOMAIN t /\ late \in SUBSET Nat /\ early \in SUBSET places
  BY <1>1, <1>a
<1>3. IsFiniteSet(late) /\ IsFiniteSet(early) /\ IsFiniteSet(places)
  <2>1. Len(s) - m \in Nat BY <1>1
  <2>2. IsFiniteSet(1..(Len(s) - m)) /\ IsFiniteSet(1..Len(s)) BY <1>1, <2>1, FS_Interval
  <2>3. late \in SUBSET (1..(Len(s) - m)) BY <1>1, <1>2
  <2>4. IsFiniteSet(late) BY <2>2, <2>3, FS_Subset
  <2>5. IsFiniteSet(places) BY <1>1, <2>2, FS_Subset
  <2>. QED BY <1>2, <2>4, <2>5, FS_Subset
<1>4. ASSUME NEW A \in SUBSET late
      PROVE  Cardinality(early \cup Moved(A)) = Cardinality(early) + Cardinality(A)
  <2>1. IsFiniteSet(A) BY <1>3, FS_Subset
  <2>2. IsFiniteSet(Moved(A)) /\ Cardinality(Moved(A)) = Cardinality(A)
    BY <1>1, <1>2, <2>1, ShiftCounts
  <2>3. early \cap Moved(A) = {}
    <3>1. \A a \in A : a \in Nat /\ a >= 1 BY <1>1, <1>2
    <3>2. \A a \in A : ~(a + m <= m) BY <1>1, <3>1
    <3>. QED BY <3>2
  <2>4. Cardinality(early) \in Nat /\ Cardinality(A) \in Nat
    BY <1>3, <2>1, FS_CardinalityType
  <2>5. Cardinality(early \cap Moved(A)) = 0 BY <2>3, FS_EmptySet
  <2>. HIDE DEF early, Moved
  <2>6. Cardinality(early \cup Moved(A))
          = Cardinality(early) + Cardinality(Moved(A)) - Cardinality(early \cap Moved(A))
    BY <1>3, <2>2, FS_Union
  <2>. QED BY <2>2, <2>4, <2>5, <2>6
<1>5. places = early \cup Moved(late)
  <2>1. ASSUME NEW j \in places, ~(j <= m) PROVE j \in Moved(late)
    <3>1. j - m \in DOMAIN t /\ (j - m) + m = j BY <1>1, <2>1
    <3>2. j - m \in late BY <1>0, <2>1, <3>1
    <3>. QED BY <3>1, <3>2
  <2>2. Moved(late) \subseteq places BY <1>0, <1>a
  <2>. QED BY <2>1, <2>2
<1>6. Cardinality(places) = Cardinality(early) + Cardinality(late)
  BY <1>4, <1>5
<1>7. ASSUME NEW k \in late
      PROVE  RankOf(places, k + m) = Cardinality(early) + RankOf(late, k)
  <2>1. UpTo(places, k + m) = early \cup Moved(UpTo(late, k))
    <3>1. k \in Nat /\ \A a \in late : a \in Nat BY <1>2
    <3>2. \A j \in early : j \in Nat /\ j <= k + m BY <1>1, <1>2, <3>1
    <3>3. \A a \in late : a <= k <=> a + m <= k + m BY <1>1, <3>1
    <3>. QED BY <1>5, <3>2, <3>3 DEF UpTo
  <2>2. UpTo(late, k) \in SUBSET late BY DEF UpTo
  <2>. HIDE DEF early, Moved
  <2>. QED BY <1>4, <2>1, <2>2 DEF RankOf
<1>8. /\ Picked(s, places) \in Seq(S) /\ Len(Picked(s, places)) = Cardinality(places)
      /\ Picked(t, late) \in Seq(S) /\ Len(Picked(t, late)) = Cardinality(late)
  BY <1>1, <1>2, PickedType
<1>9. Cardinality(early) \in Nat /\ Cardinality(late) \in Nat
  BY <1>3, FS_CardinalityType
<1>10. ASSUME NEW n \in 1..Cardinality(late)
       PROVE  Picked(t, late)[n] = Picked(s, places)[n + Cardinality(early)]
  <2>1. PICK k \in late : RankOf(late, k) = n /\ Picked(t, late)[n] = t[k]
    <3>1. t \in Seq(S) /\ late \in SUBSET DOMAIN t BY <1>2
    <3>2. PICK k \in late : RankOf(late, k) = n
      <4>1. Len(t) \in Nat /\ late \in SUBSET (1..Len(t)) BY <3>1
      <4>2. \A x \in 1..Cardinality(late) : \E k \in late : RankOf(late, k) = x
        BY <4>1, RankBijection, Zenon
      <4>. QED BY <4>2
    <3>3. Picked(t, late)[RankOf(late, k)] = t[k] BY <3>1, PickedAt
    <3>. QED BY <3>2, <3>3
  <2>2. k + m \in places /\ t[k] = s[k + m] BY <1>0, <1>1, <1>a
  <2>3. Picked(s, places)[RankOf(places, k + m)] = s[k + m] BY <2>2, PickedAt
  <2>4. RankOf(places, k + m) = n + Cardinality(early)
    <3>. HIDE DEF early
    <3>1. RankOf(places, k + m) = Cardinality(early) + n BY <1>7, <2>1
    <3>. QED BY <1>9, <3>1
  <2>. QED BY <2>1, <2>2, <2>3, <2>4
<1>. DEFINE p == Picked(s, places)
            q == Picked(t, late)
<1>11. /\ p \in Seq(S) /\ q \in Seq(S) /\ Len(q) <= Len(p)
       /\ \A n \in 1..Len(q) : q[n] = p[n + (Len(p) - Len(q))]
  <2>. HIDE DEF early
  <2>1. Len(p) - Len(q) = Cardinality(early) BY <1>6, <1>8, <1>9
  <2>2. Len(q) <= Len(p) BY <1>6, <1>8, <1>9
  <2>. QED BY <1>8, <1>10, <2>1, <2>2
<1>. QED BY <1>11 DEF EndOf, late

-----------------------------------------------------------------------------
(* What the readers of the history get.                                    *)

\* A host's entries in the ring are the end of its entries in the log, and so
\* are all entries if no host is asked for (OfHost).
LEMMA RingOfHost ==
  ASSUME log \in Seq(Entries), ring = Newest(log), NEW host \in Hosts \cup {None}
  PROVE  /\ OfHost(log, host) \in Seq(Entries) /\ OfHost(ring, host) \in Seq(Entries)
         /\ EndOf(OfHost(ring, host), OfHost(log, host))
<1>. DEFINE m == IF Len(log) > HistoryLimit THEN Len(log) - HistoryLimit ELSE 0
<1>1. HistoryLimit \in Nat /\ Len(log) \in Nat /\ m \in 0..Len(log) BY BoundsAssumption
<1>2. ring = SubSeq(log, m + 1, Len(log)) BY <1>1 DEF Newest
<1>3. /\ ring \in Seq(Entries) /\ Len(ring) = Len(log) - m
      /\ \A k \in DOMAIN ring : ring[k] = log[k + m]
  <2>. HIDE DEF m
  <2>. QED BY <1>1, <1>2
<1>. HIDE DEF m
<1>4. CASE host = None
  <2>1. OfHost(log, host) = log /\ OfHost(ring, host) = ring BY <1>4 DEF OfHost
  <2>. QED BY <1>1, <1>3, <2>1 DEF EndOf
<1>5. CASE host # None
  <2>. DEFINE places == {k \in DOMAIN log : log[k].host = host}
  <2>1. Left(ring, m, places) = {k \in DOMAIN ring : ring[k].host = host}
    <3>1. \A k \in DOMAIN ring : k + m \in DOMAIN log BY <1>1, <1>3
    <3>. QED BY <1>3, <3>1 DEF Left
  <2>2. OfHost(log, host) = Picked(log, places) BY <1>5 DEF OfHost
  <2>3. OfHost(ring, host) = Picked(ring, Left(ring, m, places)) BY <1>5, <2>1 DEF OfHost
  <2>4. places \in SUBSET DOMAIN log OBVIOUS
  <2>. HIDE DEF places
  <2>. QED BY <1>1, <1>2, <1>3, <2>2, <2>3, <2>4, PickTail
<1>. QED BY <1>4, <1>5

\* The last of a sequence in reverse order, as many as the limit allows.
LEMMA ReverseLatest ==
  ASSUME NEW S, NEW s \in Seq(S), NEW limit \in Nat \ {0}
  PROVE  LET got == Reverse(Latest(s, limit)) IN
         /\ Len(got) = limit \/ Len(got) = Len(s)
         /\ DOMAIN got = 1..Len(got) /\ Len(got) \in 0..Len(s)
         /\ \A k \in DOMAIN got : got[k] = s[Len(s) + 1 - k]
<1>. DEFINE f == IF limit < Len(s) THEN Len(s) - limit ELSE 0
            last == SubSeq(s, f + 1, Len(s))
<1>1. Len(s) \in Nat /\ f \in 0..Len(s) /\ (Len(s) - f = limit \/ f = 0) OBVIOUS
<1>2. From(s, limit) = f BY DEF From
<1>. HIDE DEF f
<1>3. Latest(s, limit) = last BY <1>2 DEF Latest
<1>4. /\ Len(last) = Len(s) - f
      /\ \A k \in 1..(Len(s) - f) : last[k] = s[k + f]
  BY <1>1
<1>5. Reverse(last) = [k \in 1..(Len(s) - f) |-> last[(Len(s) - f) - k + 1]]
  BY <1>4 DEF Reverse
<1>6. /\ Len(Reverse(last)) = Len(s) - f /\ DOMAIN Reverse(last) = 1..(Len(s) - f)
      /\ \A k \in 1..(Len(s) - f) : Reverse(last)[k] = s[Len(s) + 1 - k]
  <2>. HIDE DEF last
  <2>1. Len(s) - f \in Nat BY <1>1
  <2>2. \A k \in 1..(Len(s) - f) : /\ (Len(s) - f) - k + 1 \in 1..(Len(s) - f)
                                   /\ (Len(s) - f) - k + 1 + f = Len(s) + 1 - k
    BY <1>1
  <2>. QED BY <1>4, <1>5, <2>1, <2>2
<1>. HIDE DEF last
<1>. QED BY <1>1, <1>3, <1>6

\* Every reader of the history gets the newest entries of the audit log, newest
\* first, for any limit of the ring and any limit asked for up to it (get_history).
THEOREM HistoryIsNewestHolds == Spec => []HistoryIsNewest
<1>1. Typed /\ ring = Newest(log) => HistoryIsNewest
  <2>. SUFFICES ASSUME log \in Seq(Entries), ring = Newest(log),
                       NEW host \in Hosts \cup {None}, NEW limit \in 1..HistoryLimit
                PROVE  LET all == OfHost(log, host)
                           got == GetHistory(limit, host) IN
                       /\ \A k \in DOMAIN got : got[k] = all[Len(all) + 1 - k]
                       /\ Len(got) = limit \/ Len(got) = Len(OfHost(ring, host))
    BY DEF HistoryIsNewest, Typed
  <2>. DEFINE all == OfHost(log, host)
              kept == OfHost(ring, host)
              got == GetHistory(limit, host)
  <2>1. /\ all \in Seq(Entries) /\ kept \in Seq(Entries) /\ Len(kept) <= Len(all)
        /\ \A n \in 1..Len(kept) : kept[n] = all[n + (Len(all) - Len(kept))]
    <3>1. all \in Seq(Entries) /\ kept \in Seq(Entries) /\ EndOf(kept, all) BY RingOfHost
    <3>. HIDE DEF all, kept
    <3>. QED BY <3>1 DEF EndOf
  <2>2. limit \in Nat \ {0} BY BoundsAssumption
  <2>3. got = Reverse(Latest(kept, limit)) BY DEF GetHistory
  <2>. HIDE DEF all, kept, got
  <2>4. /\ Len(got) = limit \/ Len(got) = Len(kept)
        /\ DOMAIN got = 1..Len(got) /\ Len(got) \in 0..Len(kept)
        /\ \A k \in DOMAIN got : got[k] = kept[Len(kept) + 1 - k]
    BY <2>1, <2>2, <2>3, ReverseLatest
  <2>5. ASSUME NEW k \in DOMAIN got PROVE got[k] = all[Len(all) + 1 - k]
    <3>1. Len(kept) \in Nat /\ Len(all) \in Nat BY <2>1
    <3>a. k \in 1..Len(got) /\ Len(got) \in 0..Len(kept) BY <2>4
    <3>2. k \in Int /\ k >= 1 /\ k <= Len(kept) BY <3>a, <3>1
    <3>3. Len(kept) + 1 - k \in 1..Len(kept) BY <3>1, <3>2
    <3>4. (Len(kept) + 1 - k) + (Len(all) - Len(kept)) = Len(all) + 1 - k BY <3>1, <3>2
    <3>. QED BY <2>1, <2>4, <3>3, <3>4
  <2>. QED BY <2>4, <2>5 DEF all, kept, got
<1>. QED BY <1>1, Invariance, PTL

-----------------------------------------------------------------------------
(* What the audit log says that a subtask ran.                             *)

Answers == [host : Hosts \cup {None}, r : Results]

Mine(s, i) == {k \in DOMAIN s : s[k].op = "exec" /\ s[k].sub = i}

\* Recorded, of any log.
RecordedIn(s, i) ==
  LET mine == Picked(s, Mine(s, i))
  IN  [n \in DOMAIN mine |-> Item(mine[n].host, mine[n].r)]

\* Recorded reads the audit log, before a step and after it.
LEMMA RecordedIsIn ==
  \A i \in Subs : Recorded(i) = RecordedIn(log, i) /\ Recorded(i)' = RecordedIn(log', i)
BY DEF Recorded, RecordedIn, Mine

\* The records of a log are as many as the places they are picked from.
LEMMA RecordedType ==
  ASSUME NEW s \in Seq(Entries), NEW i \in Subs
  PROVE  /\ RecordedIn(s, i) \in Seq(Answers)
         /\ Len(RecordedIn(s, i)) = Len(Picked(s, Mine(s, i)))
         /\ Picked(s, Mine(s, i)) \in Seq(Entries)
         /\ \A n \in 1..Len(RecordedIn(s, i)) :
              RecordedIn(s, i)[n] = Item(Picked(s, Mine(s, i))[n].host, Picked(s, Mine(s, i))[n].r)
<1>. DEFINE mine == Picked(s, Mine(s, i))
<1>1. Mine(s, i) \in SUBSET DOMAIN s BY DEF Mine
<1>2. mine \in Seq(Entries) BY <1>1, PickedType
<1>3. RecordedIn(s, i) = [n \in DOMAIN mine |-> Item(mine[n].host, mine[n].r)]
  BY DEF RecordedIn
<1>. HIDE DEF mine
<1>4. Len(mine) \in Nat /\ DOMAIN mine = 1..Len(mine) BY <1>2
<1>5. \A n \in 1..Len(mine) : Item(mine[n].host, mine[n].r) \in Answers
  <2>1. \A n \in 1..Len(mine) : mine[n] \in Entries BY <1>2
  <2>2. \A e \in Entries : Item(e.host, e.r) \in Answers BY DEF Entries, Answers, Item
  <2>. QED BY <2>1, <2>2
<1>6. RecordedIn(s, i) \in [1..Len(mine) -> Answers] BY <1>3, <1>4, <1>5
<1>. QED BY <1>2, <1>3, <1>4, <1>6, SeqDef DEF mine

\* A record of a subtask's command is one more at the end, and any other entry
\* leaves its records as they are.
LEMMA RecordedMore ==
  ASSUME NEW s \in Seq(Entries), NEW e \in Entries, NEW i \in Subs
  PROVE  RecordedIn(Append(s, e), i) =
           IF e.op = "exec" /\ e.sub = i THEN Append(RecordedIn(s, i), Item(e.host, e.r))
           ELSE RecordedIn(s, i)
<1>. DEFINE more == Append(s, e)
<1>1. /\ Mine(s, i) \in SUBSET DOMAIN s /\ more \in Seq(Entries)
      /\ DOMAIN more = DOMAIN s \cup {Len(s) + 1} /\ more[Len(s) + 1] = e
      /\ \A k \in DOMAIN s : more[k] = s[k]
  BY DEF Mine
<1>2. CASE e.op = "exec" /\ e.sub = i
  <2>1. Mine(more, i) = Mine(s, i) \cup {Len(s) + 1} BY <1>1, <1>2 DEF Mine
  <2>2. Picked(more, Mine(more, i)) = Append(Picked(s, Mine(s, i)), e)
    BY <1>1, <2>1, PickMore
  <2>. DEFINE a == RecordedIn(more, i)
              b == Append(RecordedIn(s, i), Item(e.host, e.r))
              p == Picked(s, Mine(s, i))
  <2>3. /\ RecordedIn(s, i) \in Seq(Answers) /\ p \in Seq(Entries)
        /\ Len(RecordedIn(s, i)) = Len(p)
        /\ \A n \in 1..Len(p) : RecordedIn(s, i)[n] = Item(p[n].host, p[n].r)
    BY RecordedType
  <2>4. /\ a \in Seq(Answers) /\ Len(a) = Len(Append(p, e))
        /\ \A n \in 1..Len(Append(p, e)) :
             a[n] = Item(Append(p, e)[n].host, Append(p, e)[n].r)
    <3>1. /\ a \in Seq(Answers) /\ Len(a) = Len(Picked(more, Mine(more, i)))
          /\ \A n \in 1..Len(a) : a[n] = Item(Picked(more, Mine(more, i))[n].host,
                                              Picked(more, Mine(more, i))[n].r)
      <4>. HIDE DEF more
      <4>. QED BY <1>1, RecordedType
    <3>. HIDE DEF a
    <3>. QED BY <2>2, <3>1
  <2>. HIDE DEF a, p, more
  <2>5. Item(e.host, e.r) \in Answers BY DEF Entries, Answers, Item
  <2>6. b \in Seq(Answers) /\ Len(b) = Len(p) + 1 BY <2>3, <2>5
  <2>7. \A n \in 1..Len(p) + 1 : a[n] = b[n]
    <3>. SUFFICES ASSUME NEW n \in 1..Len(p) + 1 PROVE a[n] = b[n]
      OBVIOUS
    <3>1. Len(p) \in Nat /\ (n = Len(p) + 1 \/ n \in 1..Len(p)) BY <2>3
    <3>2. a[n] = Item(Append(p, e)[n].host, Append(p, e)[n].r) BY <2>3, <2>4
    <3>3. CASE n = Len(p) + 1 BY <2>3, <3>2, <3>3
    <3>4. CASE n \in 1..Len(p) BY <2>3, <3>2, <3>4
    <3>. QED BY <3>1, <3>3, <3>4
  <2>8. a = b
    <3>1. Len(a) = Len(b) /\ \A n \in 1..Len(a) : a[n] = b[n] BY <2>3, <2>4, <2>6, <2>7
    <3>. HIDE DEF b
    <3>. QED BY <2>4, <2>6, <3>1, SeqEqual
  <2>. QED BY <1>2, <2>8 DEF a, more
<1>3. CASE ~(e.op = "exec" /\ e.sub = i)
  <2>1. Mine(more, i) = Mine(s, i)
    <3>1. Len(s) + 1 \notin DOMAIN s OBVIOUS
    <3>. QED BY <1>1, <1>3, <3>1 DEF Mine
  <2>2. Picked(more, Mine(s, i)) = Picked(s, Mine(s, i)) BY <1>1, PickMore
  <2>3. Picked(more, Mine(more, i)) = Picked(s, Mine(s, i)) BY <2>1, <2>2
  <2>. QED BY <1>3, <2>3 DEF RecordedIn
<1>. QED BY <1>2, <1>3

\* An empty log has no records.
LEMMA NothingRecorded == \A i \in Subs : RecordedIn(<<>>, i) = <<>>
<1>. SUFFICES ASSUME NEW i \in Subs PROVE RecordedIn(<<>>, i) = <<>>
  OBVIOUS
<1>1. Mine(<<>>, i) = {} BY DEF Mine
<1>2. <<>> \in Seq(Entries) OBVIOUS
<1>3. Picked(<<>>, {}) = <<>> BY <1>2, PickAllOrNone
<1>. QED BY <1>1, <1>2, <1>3, RecordedType, EmptySeq

\* What an audit adds to the records of each subtask: its own exec entry.
LEMMA RecordsOfStep ==
  ASSUME log \in Seq(Entries), NEW e \in Entries, NEW f \in Entries, f.op # "exec",
         Audit(e) \/ AuditBoth(e, f), NEW i \in Subs
  PROVE  /\ Recorded(i) \in Seq(Answers)
         /\ Recorded(i)' =
              IF e.op = "exec" /\ e.sub = i THEN Append(Recorded(i), Item(e.host, e.r))
              ELSE Recorded(i)
<1>1. Recorded(i) = RecordedIn(log, i) /\ Recorded(i)' = RecordedIn(log', i)
  BY RecordedIsIn
<1>2. RecordedIn(log, i) \in Seq(Answers) BY RecordedType
<1>3. RecordedIn(Append(log, e), i) =
        IF e.op = "exec" /\ e.sub = i THEN Append(RecordedIn(log, i), Item(e.host, e.r))
        ELSE RecordedIn(log, i)
  BY RecordedMore
<1>4. CASE Audit(e) BY <1>1, <1>2, <1>3, <1>4 DEF Audit
<1>5. CASE AuditBoth(e, f)
  <2>1. log' = Append(Append(log, e), f) /\ Append(log, e) \in Seq(Entries)
    BY <1>5 DEF AuditBoth
  <2>2. RecordedIn(Append(Append(log, e), f), i) = RecordedIn(Append(log, e), i)
    BY <2>1, RecordedMore
  <2>. QED BY <1>1, <1>2, <1>3, <2>1, <2>2
<1>. QED BY <1>4, <1>5

-----------------------------------------------------------------------------
(* Lists of commands run exactly until a result stops them, and the audit  *)
(* log tells the results.  Inductive: a subtask that goes on, or raised,   *)
(* has recorded a result that does not stop it for every command before    *)
(* its step, and one that is done has run its list out or recorded a       *)
(* result that stops.                                                      *)

\* The results that a subtask answers with: all that it recorded, or the last.
Told(ran) == IF call.mode \in KeepLast /\ ran # <<>> THEN <<Last(ran)>> ELSE ran

AtWork == {"connecting", "running", "sleeping"}

\* What the records of subtask i are, given where it stands.
Fits(ran, i) ==
  /\ ran \in Seq(Answers) /\ Len(ran) <= Len(call.work[i])
  /\ \A k \in 1..Len(ran) : ran[k].host = call.work[i][k]
  /\ \A k \in 1..Len(ran) - 1 : ~Stops(ran[k].r)
  /\ sub[i].st \in AtWork \cup {"raised"} =>
       Len(ran) = sub[i].step - 1 /\ \A k \in 1..Len(ran) : ~Stops(ran[k].r)
  /\ sub[i].st = "done" /\ call.mode # "health" =>
       Len(ran) = Len(call.work[i]) \/ Stops(ran[Len(ran)].r)

\* What subtask i has for an answer is what it recorded; a ping that nothing was
\* recorded for answers with a word of its own.
Tells(ran, i) ==
  \/ sub[i].results = Told(ran)
  \/ /\ sub[i].st = "done" /\ ran = <<>>
     /\ Len(sub[i].results) = 1 /\ sub[i].results[1].r \notin Results

RunInv ==
  /\ call.mode = "none" => log = <<>> /\ Working = {}
  /\ call.mode = "health" => \A i \in Working : Len(call.work[i]) = 1
  /\ \A i \in Working : Fits(Recorded(i), i) /\ Tells(Recorded(i), i)

\* A subtask that a step leaves alone, and its call and its records with it,
\* still fits its records.
LEMMA FitsKept ==
  ASSUME NEW i \in Working, call' = call, sub'[i] = sub[i], Recorded(i)' = Recorded(i),
         Fits(Recorded(i), i), Tells(Recorded(i), i)
  PROVE  Fits(Recorded(i), i)' /\ Tells(Recorded(i), i)'
<1>1. Fits(Recorded(i), i)' BY DEF Fits, Stops
<1>2. Tells(Recorded(i), i)' BY DEF Tells, Told
<1>. QED BY <1>1, <1>2

\* A step of one subtask that records nothing keeps the invariant if the subtask
\* still fits its records.
LEMMA OneMoves ==
  ASSUME Typed, RunInv, NEW i \in Working, call' = call, log' = log,
         \A j \in Subs \ {i} : sub'[j] = sub[j],
         Fits(Recorded(i), i)', Tells(Recorded(i), i)'
  PROVE  RunInv'
<1>1. \A j \in Working : j \in Subs BY DEF Typed
<1>2. \A j \in Working : Recorded(j)' = Recorded(j)
  BY <1>1, RecordedIsIn
<1>3. ASSUME NEW j \in Working PROVE Fits(Recorded(j), j)' /\ Tells(Recorded(j), j)'
  <2>1. CASE j = i BY <2>1
  <2>2. CASE j # i BY <1>1, <1>2, <2>2, FitsKept DEF RunInv
  <2>. QED BY <2>1, <2>2
<1>. QED BY <1>3 DEF RunInv, Working

\* Starting a call leaves all its subtasks with nothing recorded: at work on
\* their first command, or refused as a ping.
LEMMA StartFits ==
  ASSUME Typed, RunInv, NEW mode \in Modes, NEW hosts \in HostLists, NEW n \in 1..MaxSteps,
         NEW stop \in BOOLEAN, Start(mode, hosts, n, stop)
  PROVE  RunInv'
<1>. DEFINE work == WorkOf(mode, hosts, n)
<1>1. /\ call' = [mode |-> mode, work |-> work, stop |-> stop]
      /\ call.mode = "none" /\ log' = log /\ log = <<>>
  BY DEF Start, RunInv
<1>2. /\ DOMAIN work \subseteq Subs
      /\ \A i \in DOMAIN work : work[i] \in Seq(Hosts) /\ 1 \in DOMAIN work[i]
  BY WorkType
<1>3. PICK refused \in SUBSET DOMAIN work :
        /\ mode # "health" => refused = {}
        /\ sub' = [i \in Subs |->
             IF i \notin DOMAIN work THEN Off
             ELSE IF i \in refused
               THEN [Off EXCEPT !.st = "done", !.results = <<Item(work[i][1], "blocked")>>]
               ELSE [Off EXCEPT !.st = "connecting"]]
  BY DEF Start
<1>4. mode = "health" => \A i \in DOMAIN work : Len(work[i]) = 1
  BY DEF WorkOf
<1>5. mode # "none" BY DEF Modes, Gathering, OnOneHost, InspectionTools, ProcessTools
<1>6. \A i \in Subs : Recorded(i)' = <<>> BY <1>1, NothingRecorded, RecordedIsIn
<1>7. ASSUME NEW i \in DOMAIN work PROVE Fits(<<>>, i)' /\ Tells(<<>>, i)'
  <2>1. i \in Subs /\ Len(work[i]) \in Nat /\ call'.work[i] = work[i] /\ call'.mode = mode
    BY <1>1, <1>2
  <2>2. CASE i \in refused
    <3>1. /\ sub'[i].st = "done"
          /\ sub'[i].results = <<Item(work[i][1], "blocked")>> /\ mode = "health"
      BY <1>3, <2>1, <2>2 DEF Off
    <3>2. Fits(<<>>, i)' BY <2>1, <3>1 DEF Fits, AtWork
    <3>3. Tells(<<>>, i)' BY <3>1 DEF Tells, Item
    <3>. QED BY <3>2, <3>3
  <2>3. CASE i \notin refused
    <3>1. sub'[i].st = "connecting" /\ sub'[i].step = 1 /\ sub'[i].results = <<>>
      BY <1>3, <2>1, <2>3 DEF Off
    <3>2. Fits(<<>>, i)' BY <2>1, <3>1 DEF Fits
    <3>3. Tells(<<>>, i)' BY <3>1 DEF Tells, Told
    <3>. QED BY <3>2, <3>3
  <2>. QED BY <2>2, <2>3
<1>8. Working' = DOMAIN work BY <1>1 DEF Working
<1>9. \A i \in Working' : Fits(Recorded(i), i)' /\ Tells(Recorded(i), i)'
  <2>. SUFFICES ASSUME NEW i \in DOMAIN work
                PROVE  Fits(Recorded(i), i)' /\ Tells(Recorded(i), i)'
    BY <1>8
  <2>1. Recorded(i)' = <<>> BY <1>2, <1>6
  <2>. QED BY <1>7, <2>1 DEF Fits, Tells, Told
<1>. QED BY <1>1, <1>4, <1>5, <1>8, <1>9 DEF RunInv

\* A step to or from a wait, and a failure to connect, record nothing.
LEMMA QuietFits ==
  ASSUME Typed, RunInv, NEW i \in Working,
         Connected(i) \/ ConnectFails(i) \/ Awake(i) \/ PingTimeout(i)
  PROVE  RunInv'
<1>1. /\ i \in Subs /\ sub[i] \in Subtasks /\ sub[i].st \in AtWork
      /\ sub[i].step \in DOMAIN call.work[i] /\ call.work[i] \in Seq(Hosts)
      /\ Fits(Recorded(i), i) /\ Tells(Recorded(i), i)
  BY DEF Typed, RunInv, AtWork, Connected, ConnectFails, Awake, PingTimeout
<1>2. call' = call /\ log' = log /\ \A j \in Subs \ {i} : sub'[j] = sub[j]
  BY DEF Connected, ConnectFails, Awake, PingTimeout, Typed
<1>3. Recorded(i)' = Recorded(i) BY <1>1, <1>2, RecordedIsIn
<1>4. CASE /\ sub'[i].st \in AtWork \cup {"raised"}
           /\ sub'[i].step = sub[i].step /\ sub'[i].results = sub[i].results
  <2>1. Fits(Recorded(i), i)' BY <1>1, <1>2, <1>3, <1>4 DEF Fits, Stops, AtWork
  <2>2. Tells(Recorded(i), i)' BY <1>1, <1>2, <1>3, <1>4 DEF Tells, Told, AtWork
  <2>. QED BY <1>2, <2>1, <2>2, OneMoves
<1>5. CASE /\ call.mode = "health" /\ sub'[i].st = "done"
           /\ sub'[i].results = <<Item(Host(i), "unreachable")>>
  <2>1. Recorded(i) = <<>>
    <3>1. Len(call.work[i]) = 1 BY <1>5 DEF RunInv
    <3>2. sub[i].step = 1 BY <1>1, <3>1
    <3>3. Recorded(i) \in Seq(Answers) /\ Len(Recorded(i)) = 0 BY <1>1, <3>2 DEF Fits
    <3>. QED BY <3>3, EmptySeq
  <2>2. Fits(Recorded(i), i)' BY <1>1, <1>2, <1>3, <1>5, <2>1 DEF Fits, Stops, AtWork
  <2>3. Tells(Recorded(i), i)' BY <1>3, <1>5, <2>1 DEF Tells, Item
  <2>. QED BY <1>2, <2>2, <2>3, OneMoves
<1>6. sub \in [Subs -> Subtasks] BY DEF Typed
<1>7. \A st \in AtWork \cup {"raised"} : LET y == [sub[i] EXCEPT !.st = st] IN
        y.st = st /\ y.step = sub[i].step /\ y.results = sub[i].results
  BY <1>1 DEF Subtasks
<1>8. LET y == [sub[i] EXCEPT !.st = "done",
                              !.results = <<Item(Host(i), "unreachable")>>]
      IN  y.st = "done" /\ y.results = <<Item(Host(i), "unreachable")>>
  BY <1>1 DEF Subtasks
<1>9. CASE Connected(i) \/ Awake(i) \/ (ConnectFails(i) /\ call.mode # "health")
  <2>1. \E st \in AtWork \cup {"raised"} : sub'[i] = [sub[i] EXCEPT !.st = st]
    BY <1>1, <1>6, <1>9 DEF Connected, Awake, ConnectFails, AtWork
  <2>. QED BY <1>4, <1>7, <2>1
<1>10. CASE PingTimeout(i) \/ (ConnectFails(i) /\ call.mode = "health")
  <2>1. /\ call.mode = "health"
        /\ sub'[i] = [sub[i] EXCEPT !.st = "done",
                                    !.results = <<Item(Host(i), "unreachable")>>]
    BY <1>1, <1>6, <1>10 DEF ConnectFails, PingTimeout
  <2>. QED BY <1>5, <1>8, <2>1
<1>. QED BY <1>9, <1>10

\* A command that ends records its result, and its list goes on exactly if there
\* is a next command and the result does not stop it.
LEMMA EndsFits ==
  ASSUME Typed, RunInv, NEW i \in Working, NEW r \in Results,
         EndsAndGoesOn(i, r) \/ EndsAndReturns(i, r)
  PROVE  RunInv'
<1>. DEFINE ran == Recorded(i)
            one == Item(Host(i), r)
            more == Append(ran, one)
            step == sub[i].step
<1>1. /\ i \in Subs /\ sub \in [Subs -> Subtasks] /\ sub[i] \in Subtasks /\ sub[i].st = "running"
      /\ call.work[i] \in Seq(Hosts) /\ step \in 1..Len(call.work[i])
      /\ Host(i) = call.work[i][step] /\ Host(i) \in Hosts
      /\ Fits(ran, i) /\ Tells(ran, i)
  BY HostType DEF Typed, RunInv, EndsAndGoesOn, EndsAndReturns, Host
<1>2. call' = call /\ \A j \in Subs \ {i} : sub'[j] = sub[j]
  BY <1>1 DEF EndsAndGoesOn, EndsAndReturns
<1>3. /\ ExecEntry(i, r) \in Entries /\ ExecEntry(i, r).op = "exec"
      /\ ExecEntry(i, r).sub = i /\ ExecEntry(i, r).host = Host(i) /\ ExecEntry(i, r).r = r
      /\ Entry("whole", i, Host(i), "ok") \in Entries
      /\ Entry("whole", i, Host(i), "ok").op # "exec"
  BY HostType DEF ExecEntry, Entry
<1>4. Audit(ExecEntry(i, r)) \/ AuditBoth(ExecEntry(i, r), Entry("whole", i, Host(i), "ok"))
  BY DEF EndsAndGoesOn, EndsAndReturns
<1>5. \A j \in Subs : /\ Recorded(j) \in Seq(Answers)
                      /\ Recorded(j)' = IF j = i THEN more ELSE Recorded(j)
  BY <1>3, <1>4, RecordsOfStep DEF Typed
<1>6. /\ ran \in Seq(Answers) /\ one \in Answers /\ one.host = Host(i) /\ one.r = r
      /\ Len(ran) = step - 1 /\ \A k \in 1..Len(ran) : ~Stops(ran[k].r)
  BY <1>1 DEF Fits, AtWork, Item, Answers
<1>. HIDE DEF ran, one
<1>7. /\ more \in Seq(Answers) /\ Len(more) = step /\ more # <<>>
      /\ more[step] = one /\ Last(more) = one
      /\ \A k \in 1..step - 1 : more[k] = ran[k]
  <2>1. step \in Nat /\ step >= 1 BY <1>1
  <2>2. /\ more \in Seq(Answers) /\ Len(more) = step /\ more[step] = one
        /\ \A k \in 1..step - 1 : more[k] = ran[k]
    BY <1>6, <2>1
  <2>3. more # <<>> BY <1>6, AppendProperties
  <2>. QED BY <2>2, <2>3 DEF Last
<1>8. Collected(i, r) = Told(more)
  <2>1. CASE call.mode \in KeepLast BY <1>7, <2>1 DEF Collected, Told, one
  <2>2. CASE call.mode \notin KeepLast
    <3>1. sub[i].results = ran BY <1>1, <2>2 DEF Tells, Told, ran
    <3>. QED BY <2>2, <3>1 DEF Collected, Told, one
  <2>. QED BY <2>1, <2>2
<1>9. GoesOn(i, r) <=> step < Len(call.work[i]) /\ ~Stops(r)
  BY DEF GoesOn, Stops
<1>10. /\ \A k \in 1..step : more[k].host = call.work[i][k]
       /\ \A k \in 1..step - 1 : ~Stops(more[k].r)
  <2>1. \A k \in 1..step - 1 : ran[k].host = call.work[i][k] BY <1>1, <1>6 DEF Fits, ran
  <2>2. \A k \in 1..step : k = step \/ k \in 1..step - 1 BY <1>1
  <2>. QED BY <1>1, <1>6, <1>7, <2>1, <2>2
<1>11. Recorded(i)' = more BY <1>1, <1>5
<1>. HIDE DEF more
<1>12. ASSUME EndsAndGoesOn(i, r) PROVE Fits(Recorded(i), i)' /\ Tells(Recorded(i), i)'
  <2>1. /\ sub'[i].st \in AtWork /\ sub'[i].step = step + 1
        /\ sub'[i].results = Collected(i, r)
    BY <1>1, <1>12 DEF EndsAndGoesOn, AtWork
  <2>2. step < Len(call.work[i]) /\ ~Stops(r) BY <1>9, <1>12 DEF EndsAndGoesOn
  <2>3. \A k \in 1..step : ~Stops(more[k].r)
    <3>1. \A k \in 1..step : k = step \/ k \in 1..step - 1 BY <1>1
    <3>. QED BY <1>6, <1>7, <1>10, <2>2, <3>1
  <2>4. Fits(Recorded(i), i)'
    BY <1>1, <1>2, <1>7, <1>10, <1>11, <2>1, <2>2, <2>3 DEF Fits, Stops, AtWork
  <2>5. Tells(Recorded(i), i)' BY <1>2, <1>8, <1>11, <2>1 DEF Tells, Told
  <2>. QED BY <2>4, <2>5
<1>13. ASSUME EndsAndReturns(i, r) PROVE Fits(Recorded(i), i)' /\ Tells(Recorded(i), i)'
  <2>1. sub'[i].st = "done" /\ sub'[i].results = Collected(i, r)
    BY <1>1, <1>13 DEF EndsAndReturns, Subtasks
  <2>2. step = Len(call.work[i]) \/ Stops(r) BY <1>1, <1>9, <1>13 DEF EndsAndReturns
  <2>3. Fits(Recorded(i), i)'
    BY <1>1, <1>2, <1>6, <1>7, <1>10, <1>11, <2>1, <2>2 DEF Fits, Stops, AtWork
  <2>4. Tells(Recorded(i), i)' BY <1>2, <1>8, <1>11, <2>1 DEF Tells, Told
  <2>. QED BY <2>3, <2>4
<1>14. Fits(Recorded(i), i)' /\ Tells(Recorded(i), i)' BY <1>12, <1>13
<1>15. ASSUME NEW j \in Working, j # i
       PROVE  Fits(Recorded(j), j)' /\ Tells(Recorded(j), j)'
  <2>1. j \in Subs BY DEF Typed
  <2>2. Recorded(j)' = Recorded(j) BY <1>5, <1>15, <2>1
  <2>. QED BY <1>2, <1>15, <2>1, <2>2, FitsKept DEF RunInv
<1>16. call.mode # "none" BY DEF RunInv
<1>. QED BY <1>2, <1>14, <1>15, <1>16 DEF RunInv, Working

\* Every step keeps lists and records in line.
LEMMA RunStep ==
  ASSUME Typed, RunInv, [Next]_vars
  PROVE  RunInv'
<1>1. ASSUME UNCHANGED <<call, sub>>, \A j \in Working : Recorded(j)' = Recorded(j),
             call.mode # "none" \/ log' = log
      PROVE  RunInv'
  <2>1. \A j \in Working : Fits(Recorded(j), j)' /\ Tells(Recorded(j), j)'
    BY <1>1, FitsKept DEF RunInv
  <2>. QED BY <1>1, <2>1 DEF RunInv, Working
<1>2. ASSUME UNCHANGED <<call, sub, log>> PROVE RunInv'
  <2>1. \A j \in Working : Recorded(j)' = Recorded(j) BY <1>2, RecordedIsIn DEF Typed
  <2>. QED BY <1>1, <1>2, <2>1
<1>3. CASE GatherAll
  <2>1. UNCHANGED <<call, sub>> /\ call.mode # "none" BY <1>3 DEF GatherAll, Gathering
  <2>2. CASE UNCHANGED <<log, ring>> BY <1>2, <2>1, <2>2
  <2>3. CASE Audit(Entry("parallel_exec", 0, Joined, "ok"))
    <3>. DEFINE e == Entry("parallel_exec", 0, Joined, "ok")
    <3>1. Working = {1} => call.work[1][1] \in Hosts BY HostType DEF Typed, Joined
    <3>2. e \in Entries /\ e.op # "exec" BY <3>1 DEF Entry, Entries, Joined
    <3>. HIDE DEF e
    <3>3. \A j \in Working : Recorded(j)' = Recorded(j)
      BY <2>3, <3>2, RecordsOfStep DEF Typed, e
    <3>. QED BY <1>1, <2>1, <3>3
  <2>. QED BY <1>3, <2>2, <2>3 DEF GatherAll
<1>4. CASE GatherPlaybooks BY <1>2, <1>4 DEF GatherPlaybooks
<1>5. CASE UNCHANGED vars BY <1>2, <1>5 DEF vars
<1>. QED BY <1>3, <1>4, <1>5, StartFits, QuietFits, EndsFits DEF Next, Ends

LEMMA RunInvariance == Spec => []RunInv
<1>1. Init => RunInv
  <2>. SUFFICES ASSUME Init PROVE RunInv OBVIOUS
  <2>1. Working = {} /\ call.mode = "none" /\ log = <<>> BY DEF Init, NoCall, Working
  <2>. QED BY <2>1 DEF RunInv
<1>2. Typed /\ RunInv /\ [Next]_vars => RunInv' BY RunStep
<1>. QED BY <1>1, <1>2, Invariance, PTL DEF Spec

\* A list of commands is run in its order exactly until a result stops it, for
\* any number of hosts, any lengths of the lists and any interleaving.
THEOREM RunsExactlyUntilStoppedHolds == Spec => []RunsExactlyUntilStopped
<1>1. RunInv => RunsExactlyUntilStopped
  <2>. SUFFICES ASSUME RunInv, NEW i \in Working
                PROVE  LET ran == Recorded(i) IN
                       /\ \A k \in DOMAIN ran : ran[k].host = call.work[i][k]
                       /\ \A k \in 1..Len(ran) - 1 : ~Stops(ran[k].r)
                       /\ sub[i].st \in {"connecting", "running", "sleeping"} /\ ran # <<>>
                            => ~Stops(Last(ran).r)
                       /\ sub[i].st = "done" /\ call.mode # "health" =>
                            Len(ran) = Len(call.work[i]) \/ Stops(Last(ran).r)
    BY DEF RunsExactlyUntilStopped
  <2>. DEFINE ran == Recorded(i)
  <2>1. Fits(ran, i) BY DEF RunInv
  <2>. HIDE DEF ran
  <2>2. ran \in Seq(Answers) /\ DOMAIN ran = 1..Len(ran) BY <2>1 DEF Fits
  <2>3. ran # <<>> => Len(ran) \in 1..Len(ran) BY <2>2, EmptySeq
  <2>4. Last(ran) = ran[Len(ran)] BY DEF Last
  <2>. QED BY <2>1, <2>2, <2>3, <2>4 DEF Fits, AtWork, ran
<1>. QED BY <1>1, RunInvariance, PTL

\* What a subtask has for an answer, but for the words for a host not reached, is
\* what it recorded.
LEMMA AuditFollows == Typed /\ RunInv => AuditTellsResults
<1>. SUFFICES ASSUME Typed, RunInv, NEW i \in Working
              PROVE  OfCommands(sub[i].results) = Told(Recorded(i))
  BY DEF AuditTellsResults, Told
<1>. DEFINE ran == Recorded(i)
            given == sub[i].results
            answered == {k \in DOMAIN given : given[k].r \in Results}
<1>1. ran \in Seq(Answers) /\ Tells(ran, i) BY DEF RunInv, Fits
<1>2. given \in Seq(Items) BY DEF Typed, Subtasks
<1>. HIDE DEF ran, given
<1>3. CASE given = Told(ran)
  <2>1. Told(ran) \in Seq(Answers)
    <3>1. ran # <<>> => Len(ran) \in 1..Len(ran) BY <1>1, EmptySeq
    <3>2. ran # <<>> => Last(ran) \in Answers BY <1>1, <3>1 DEF Last
    <3>. QED BY <1>1, <3>2 DEF Told
  <2>2. \A k \in DOMAIN given : given[k] \in Answers BY <1>3, <2>1
  <2>3. answered = DOMAIN given BY <2>2 DEF Answers
  <2>4. Picked(given, DOMAIN given) = given BY <1>2, PickAllOrNone
  <2>. QED BY <1>3, <2>3, <2>4 DEF OfCommands, ran, given
<1>4. CASE ran = <<>> /\ Len(given) = 1 /\ given[1].r \notin Results
  <2>1. DOMAIN given = {1} BY <1>2, <1>4
  <2>2. answered = {} BY <1>4, <2>1
  <2>3. Picked(given, {}) = <<>> BY <1>2, PickAllOrNone
  <2>4. Told(ran) = <<>> BY <1>4 DEF Told
  <2>. QED BY <2>2, <2>3, <2>4 DEF OfCommands, ran, given
<1>. QED BY <1>1, <1>3, <1>4 DEF Tells, given

\* The audit log tells the results that are answered, for any number of hosts, any
\* lengths of the lists, any interleaving of the subtasks and wherever they fail.
THEOREM AuditTellsResultsHolds == Spec => []AuditTellsResults
BY AuditFollows, RunInvariance, Invariance, PTL

-----------------------------------------------------------------------------
(* Every call keeps FleetPromise: a step records one more result of a list *)
(* that is not at its end, answers, asks, or is a stutter.                 *)

\* A list with these records has come to its end.
Ended(ran, i) ==
  Len(ran) = Len(call.work[i]) \/ (ran # <<>> /\ Stops(ran[Len(ran)].r))

\* What an answer tells of a list with these records.
Tale(ran, i) == IF Ended(ran, i) THEN Told(ran) ELSE <<>>

\* Inductive: a call has work, and the playbooks of a group that were all
\* answered are all done.
Settled ==
  /\ call.mode # "none" => call.work # <<>>
  /\ call.mode = "groupPlaybook" /\ answer.st = "results" =>
       \A i \in Working : sub[i].st = "done"

\* A subtask that is done has for an answer what its records tell.
DoneTold ==
  \A i \in Working :
    sub[i].st = "done" => OfCommands(sub[i].results) = Tale(Recorded(i), i)

LEMMA SettledStep ==
  ASSUME Typed, AnsweredIsOver, Settled, [Next]_vars
  PROVE  Settled'
<1>1. ASSUME NEW mode \in Modes, NEW hosts \in HostLists, NEW n \in 1..MaxSteps,
             NEW stop \in BOOLEAN, Start(mode, hosts, n, stop)
      PROVE  Settled'
  <2>1. /\ call'.mode = mode /\ call'.work = WorkOf(mode, hosts, n)
        /\ call.mode = "none" /\ answer' = answer
    BY <1>1 DEF Start
  <2>2. call'.work # <<>> BY <2>1, WorkType
  <2>3. answer'.st = "none" BY <2>1 DEF AnsweredIsOver
  <2>. QED BY <2>2, <2>3 DEF Settled
<1>2. ASSUME NEW i \in Working,
             Connected(i) \/ ConnectFails(i) \/ Ends(i) \/ Awake(i) \/ PingTimeout(i)
      PROVE  Settled'
  <2>1. call' = call /\ sub[i].st # "done"
    BY <1>2
    DEF Connected, ConnectFails, Ends, EndsAndGoesOn, EndsAndReturns, Awake, PingTimeout
  <2>2. call.mode = "groupPlaybook" => answer' = answer
    BY <1>2
    DEF Connected, ConnectFails, Ends, EndsAndGoesOn, EndsAndReturns, Awake, PingTimeout,
        Gathering
  <2>. QED BY <2>1, <2>2 DEF Settled
<1>3. CASE GatherAll BY <1>3 DEF GatherAll, Settled
<1>4. CASE GatherPlaybooks BY <1>4 DEF GatherPlaybooks, Settled, Working
<1>5. CASE UNCHANGED vars BY <1>5 DEF vars, Settled, Working
<1>. QED BY <1>1, <1>2, <1>3, <1>4, <1>5 DEF Next

\* The lists of the promise end where the records say, and tell the same.
LEMMA SameEnds ==
  ASSUME Typed, call.mode # "none", NEW i \in Working, NEW ran \in Seq(Answers)
  PROVE  /\ Promise!AtEnd(i, ran) <=> Ended(ran, i)
         /\ Promise!Telling(i, ran) = Tale(ran, i)
<1>1. /\ askedBar.lists = call.work /\ askedBar.ends = {r \in Results : Stops(r)}
      /\ askedBar.last = (call.mode \in KeepLast)
  BY DEF askedBar
<1>2. ran # <<>> => Len(ran) \in 1..Len(ran) BY EmptySeq
<1>3. ran # <<>> => ran[Len(ran)].r \in Results
  <2>1. ran # <<>> => ran[Len(ran)] \in Answers BY <1>2
  <2>. QED BY <2>1 DEF Answers
<1>4. Promise!AtEnd(i, ran) <=> Ended(ran, i) BY <1>1, <1>3 DEF Promise!AtEnd, Ended
<1>. QED BY <1>1, <1>4 DEF Promise!Telling, Tale, Told, Last

\* A subtask at work, or one that raised, has not come to the end of its list,
\* and one that is done tells what it has for an answer.
LEMMA EndsTell ==
  ASSUME Typed, RunInv, NEW i \in Working
  PROVE  /\ sub[i].st \in AtWork \cup {"raised"} => ~Ended(Recorded(i), i)
         /\ sub[i].st = "done" => OfCommands(sub[i].results) = Tale(Recorded(i), i)
         /\ Over(i) => OfCommands(Outcome(i)) = Tale(Recorded(i), i)
<1>. DEFINE ran == Recorded(i)
<1>1. /\ Fits(ran, i) /\ call.work[i] \in Seq(Hosts)
      /\ sub[i].step \in 1..Len(call.work[i])
  BY DEF Typed, RunInv
<1>2. OfCommands(sub[i].results) = Told(ran) BY AuditFollows DEF AuditTellsResults, Told
<1>3. call.mode = "health" => Len(call.work[i]) = 1 BY DEF RunInv
<1>. HIDE DEF ran
<1>4. ran \in Seq(Answers) /\ (ran # <<>> => Len(ran) \in 1..Len(ran))
  BY <1>1, EmptySeq DEF Fits
<1>5. sub[i].st \in AtWork \cup {"raised"} => ~Ended(ran, i)
  <2>. SUFFICES ASSUME sub[i].st \in AtWork \cup {"raised"} PROVE ~Ended(ran, i)
    OBVIOUS
  <2>1. Len(ran) = sub[i].step - 1 /\ \A k \in 1..Len(ran) : ~Stops(ran[k].r)
    BY <1>1 DEF Fits
  <2>2. Len(ran) # Len(call.work[i]) BY <1>1, <2>1
  <2>. QED BY <1>4, <2>1, <2>2 DEF Ended
<1>6. sub[i].st = "done" => Told(ran) = Tale(ran, i)
  <2>. SUFFICES ASSUME sub[i].st = "done" PROVE Told(ran) = Tale(ran, i)
    OBVIOUS
  <2>1. CASE ran = <<>> BY <2>1 DEF Told, Tale
  <2>2. CASE ran # <<>> /\ call.mode = "health"
    <3>1. Len(ran) = 1 BY <1>1, <1>3, <1>4, <2>2 DEF Fits
    <3>. QED BY <1>3, <2>2, <3>1 DEF Tale, Ended
  <2>3. CASE ran # <<>> /\ call.mode # "health"
    BY <1>1, <2>3 DEF Fits, Tale, Ended
  <2>. QED BY <2>1, <2>2, <2>3
<1>7. ASSUME sub[i].st = "raised" PROVE OfCommands(Outcome(i)) = <<>>
  <2>. DEFINE one == Item(call.work[i][1], "raised")
              given == <<one>>
  <2>1. Outcome(i) = given BY <1>7 DEF Outcome
  <2>2. given \in Seq({one}) /\ DOMAIN given = {1} /\ given[1].r = "raised" BY DEF Item
  <2>. HIDE DEF given, one
  <2>3. {k \in DOMAIN given : given[k].r \in Results} = {} BY <2>2
  <2>4. Picked(given, {}) = <<>> BY <2>2, PickAllOrNone
  <2>. QED BY <2>1, <2>3, <2>4 DEF OfCommands
<1>8. sub[i].st = "done" => Outcome(i) = sub[i].results BY DEF Outcome
<1>. QED BY <1>2, <1>5, <1>6, <1>7, <1>8 DEF ran, Over, Tale

LEMMA DoneTells == Typed /\ RunInv => DoneTold
BY EndsTell DEF DoneTold

\* Of the subtasks on one host, ssh_broadcast keeps the last.
LEMMA OneIsKept ==
  ASSUME Typed, NEW i \in Working
  PROVE  \E j \in Kept : call.work[j][1] = call.work[i][1]
<1>. DEFINE same == {j \in Working : call.work[j][1] = call.work[i][1]}
            n == Cardinality(same)
<1>1. MaxHosts \in Nat /\ same \in SUBSET (1..MaxHosts) /\ i \in same
  BY BoundsAssumption DEF Typed
<1>2. IsFiniteSet(same) /\ n \in Nat BY <1>1, RankBijection
<1>3. n # 0 BY <1>1, <1>2, FS_EmptySet
<1>4. PICK j \in same : RankOf(same, j) = n
  <2>1. n \in 1..n BY <1>2, <1>3
  <2>. HIDE DEF same
  <2>. QED BY <1>1, <2>1, RankBijection
<1>5. UpTo(same, j) = same
  <2>1. UpTo(same, j) \in SUBSET same BY DEF UpTo
  <2>2. Cardinality(UpTo(same, j)) = Cardinality(same) BY <1>4 DEF RankOf
  <2>. HIDE DEF same
  <2>. QED BY <1>2, <2>1, <2>2, FS_Subset
<1>6. \A k \in same : k <= j BY <1>5 DEF UpTo
<1>7. j \in Kept BY <1>4, <1>6 DEF Kept
<1>. QED BY <1>4, <1>7

\* All that the refinement needs.
PromiseInv == Typed /\ RunInv /\ AnsweredIsOver /\ Settled /\ DoneTold

LEMMA PromiseInvariance == Spec => []PromiseInv
<1>1. Init => AnsweredIsOver /\ Settled
  BY DEF Init, NoCall, NoAnswer, AnsweredIsOver, Settled, Modes, Gathering, Working
<1>2. Typed /\ AnsweredIsOver /\ Settled /\ [Next]_vars => AnsweredIsOver' /\ Settled'
  BY AnsweredStep, SettledStep
<1>. QED BY <1>1, <1>2, Invariance, RunInvariance, DoneTells, PTL DEF Spec, PromiseInv

\* A step that asks nothing, records nothing and answers nothing is invisible.
LEMMA QuietKeeps ==
  ASSUME Typed, UNCHANGED <<call, log, answer>>
  PROVE  UNCHANGED Promise!promiseVars
<1>1. askedBar' = askedBar BY DEF askedBar, Stops
<1>2. doneBar' = doneBar BY RecordedIsIn DEF doneBar
<1>3. toldBar' = toldBar BY DEF toldBar
<1>. QED BY <1>1, <1>2, <1>3 DEF Promise!promiseVars

\* The start of a call asks for its lists.
LEMMA StartKeeps ==
  ASSUME Typed, AnsweredIsOver, NEW mode \in Modes, NEW hosts \in HostLists, NEW n \in 1..MaxSteps,
         NEW stop \in BOOLEAN, Start(mode, hosts, n, stop)
  PROVE  Promise!Ask
<1>. DEFINE work == WorkOf(mode, hosts, n)
<1>1. /\ call' = [mode |-> mode, work |-> work, stop |-> stop]
      /\ call.mode = "none" /\ log' = log /\ answer' = answer
  BY DEF Start
<1>2. mode # "none" BY DEF Modes, Gathering, OnOneHost, InspectionTools, ProcessTools
<1>3. work \in Seq(Seq(Hosts)) /\ work # <<>> BY WorkType
<1>. HIDE DEF work
<1>4. askedBar = Promise!NotAsked BY <1>1 DEF askedBar, Promise!NotAsked
<1>5. askedBar' \in Promise!Calls \ {Promise!NotAsked}
  <2>1. /\ askedBar'.lists = work
        /\ askedBar' = [lists |-> work, ends |-> {r \in Results : Stops(r)'},
                        last |-> mode \in KeepLast, late |-> mode = "groupPlaybook"]
    BY <1>1, <1>2 DEF askedBar
  <2>2. askedBar' \in Promise!Calls BY <1>3, <2>1 DEF Promise!Calls
  <2>3. askedBar' # Promise!NotAsked BY <1>3, <2>1 DEF Promise!NotAsked
  <2>. QED BY <2>2, <2>3
<1>6. doneBar' = doneBar BY <1>1, RecordedIsIn DEF doneBar
<1>7. toldBar' = toldBar BY <1>1 DEF toldBar
<1>. QED BY <1>4, <1>5, <1>6, <1>7 DEF Promise!Ask

\* A call that raises answers with an exception.
LEMMA RaiseKeeps ==
  ASSUME Typed, Settled, call.mode # "none", call' = call, log' = log,
         answer.st = "none", answer'.st = "raised"
  PROVE  Promise!Answer
<1>1. askedBar' = askedBar BY DEF askedBar, Stops
<1>2. doneBar' = doneBar BY RecordedIsIn DEF doneBar
<1>3. toldBar.st = "none" /\ toldBar' = [st |-> "raised", of |-> <<>>] BY DEF toldBar
<1>4. askedBar # Promise!NotAsked
  <2>1. askedBar.lists = call.work /\ call.work # <<>> BY DEF askedBar, Settled
  <2>. QED BY <2>1 DEF Promise!NotAsked
<1>. QED BY <1>1, <1>2, <1>3, <1>4 DEF Promise!Answer

\* An answer of results tells of each subtask it names what its records tell, and
\* names one on every host.
LEMMA ResultsTell ==
  ASSUME Typed, call.mode # "none", answer.st = "none", answer'.st = "results",
         NEW named \in SUBSET Working, DOMAIN answer'.of = named,
         \A i \in Working : \E j \in named : call.work[j][1] = call.work[i][1],
         \A i \in named : /\ Recorded(i)' \in Seq(Answers)
                          /\ OfCommands(answer'.of[i]) = Tale(Recorded(i)', i)
  PROVE  Promise!Tell
<1>1. askedBar.lists = call.work /\ Promise!Lists = Working
  BY DEF askedBar, Promise!Lists, Working
<1>2. toldBar.st = "none" BY DEF toldBar
<1>3. toldBar' = [st |-> "results", of |-> [i \in named |-> OfCommands(answer'.of[i])]]
  BY DEF toldBar
<1>4. ASSUME NEW i \in named
      PROVE  OfCommands(answer'.of[i]) = Promise!Telling(i, doneBar'[i])
  <2>1. i \in Subs /\ i \in Working BY DEF Typed
  <2>2. doneBar'[i] = Recorded(i)' BY <2>1 DEF doneBar
  <2>3. Promise!Telling(i, Recorded(i)') = Tale(Recorded(i)', i) BY <2>1, SameEnds
  <2>. QED BY <2>2, <2>3
<1>5. toldBar' = [st |-> "results",
                  of |-> [i \in named |-> Promise!Telling(i, doneBar'[i])]]
  BY <1>3, <1>4
<1>6. \A i \in Promise!Lists : \E j \in named : askedBar.lists[j][1] = askedBar.lists[i][1]
  BY <1>1
<1>7. named \in SUBSET Promise!Lists BY <1>1
<1>. QED BY <1>2, <1>5, <1>6, <1>7 DEF Promise!Tell

\* gather's answer is an answer of the promise.
LEMMA GatherKeeps ==
  ASSUME PromiseInv, GatherAll \/ GatherPlaybooks
  PROVE  Promise!Answer
<1>0. Typed /\ RunInv /\ AnsweredIsOver /\ Settled BY DEF PromiseInv
<1>1. call.mode # "none" /\ call' = call /\ sub' = sub /\ answer.st = "none"
  BY DEF GatherAll, GatherPlaybooks, Gathering
<1>2. \A i \in Subs : Recorded(i) \in Seq(Answers) /\ Recorded(i)' = Recorded(i)
  <2>1. \A i \in Subs : Recorded(i) \in Seq(Answers) BY <1>0, RecordedIsIn, RecordedType DEF Typed
  <2>2. CASE UNCHANGED <<log, ring>> BY <2>1, <2>2, RecordedIsIn
  <2>3. CASE Audit(Entry("parallel_exec", 0, Joined, "ok"))
    <3>. DEFINE e == Entry("parallel_exec", 0, Joined, "ok")
    <3>1. Working = {1} => call.work[1][1] \in Hosts BY <1>0, HostType DEF Typed, Joined
    <3>2. e \in Entries /\ e.op # "exec" BY <3>1 DEF Entry, Entries, Joined
    <3>. HIDE DEF e
    <3>. QED BY <1>0, <2>1, <2>3, <3>2, RecordsOfStep DEF Typed, e
  <2>. QED BY <2>2, <2>3 DEF GatherAll, GatherPlaybooks
<1>3. askedBar' = askedBar BY <1>1 DEF askedBar, Stops
<1>4. doneBar' = doneBar BY <1>2 DEF doneBar
<1>5. askedBar # Promise!NotAsked
  <2>1. askedBar.lists = call.work /\ call.work # <<>> BY <1>0, <1>1 DEF askedBar, Settled
  <2>. QED BY <2>1 DEF Promise!NotAsked
<1>6. \A i \in Working : i \in Subs BY <1>0 DEF Typed
<1>7. CASE GatherAll
  <2>1. /\ answer'.st = "results" /\ answer'.of = [i \in Kept |-> Outcome(i)]
        /\ \A i \in Working : Over(i)
    BY <1>7 DEF GatherAll, Gathered
  <2>2. Kept \in SUBSET Working /\ DOMAIN answer'.of = Kept BY <2>1 DEF Kept
  <2>3. \A i \in Kept : OfCommands(answer'.of[i]) = Tale(Recorded(i)', i)
    <3>. SUFFICES ASSUME NEW i \in Kept PROVE OfCommands(answer'.of[i]) = Tale(Recorded(i)', i)
      OBVIOUS
    <3>1. i \in Working /\ i \in Subs BY <1>6, <2>2
    <3>2. OfCommands(Outcome(i)) = Tale(Recorded(i), i) BY <1>0, <2>1, <3>1, EndsTell
    <3>. QED BY <1>2, <2>1, <3>1, <3>2
  <2>4. \A i \in Kept : Recorded(i)' \in Seq(Answers) BY <1>2, <1>6, <2>2
  <2>5. \A i \in Working : \E j \in Kept : call.work[j][1] = call.work[i][1] BY <1>0, OneIsKept
  <2>6. Promise!Tell BY <1>0, <1>1, <2>1, <2>2, <2>3, <2>4, <2>5, ResultsTell
  <2>. QED BY <1>3, <1>4, <1>5, <2>6 DEF Promise!Answer
<1>8. CASE GatherPlaybooks
  <2>1. CASE answer' = [st |-> "raised", of |-> <<>>]
    BY <1>0, <1>1, <1>8, <2>1, RaiseKeeps DEF GatherPlaybooks
  <2>2. CASE /\ \A i \in Working : sub[i].st = "done"
             /\ answer' = [st |-> "results", of |-> [i \in Working |-> sub[i].results]]
    <3>1. answer'.st = "results" /\ DOMAIN answer'.of = Working BY <2>2
    <3>2. \A i \in Working : OfCommands(answer'.of[i]) = Tale(Recorded(i)', i)
      <4>. SUFFICES ASSUME NEW i \in Working
                    PROVE  OfCommands(answer'.of[i]) = Tale(Recorded(i)', i)
        OBVIOUS
      <4>1. OfCommands(sub[i].results) = Tale(Recorded(i), i) BY <1>0, <2>2, EndsTell
      <4>. QED BY <1>2, <1>6, <2>2, <4>1
    <3>3. \A i \in Working : Recorded(i)' \in Seq(Answers) BY <1>2, <1>6
    <3>4. Promise!Tell BY <1>0, <1>1, <3>1, <3>2, <3>3, ResultsTell
    <3>. QED BY <1>3, <1>4, <1>5, <3>4 DEF Promise!Answer
  <2>. QED BY <1>8, <2>1, <2>2 DEF GatherPlaybooks
<1>. QED BY <1>7, <1>8

\* The end of a command is one more result of its list.
LEMMA EndsKeeps ==
  ASSUME PromiseInv, PromiseInv', NEW i \in Working, NEW r \in Results,
         EndsAndGoesOn(i, r) \/ EndsAndReturns(i, r)
  PROVE  Promise!Advance(i)
<1>0. Typed /\ RunInv /\ AnsweredIsOver /\ Settled BY DEF PromiseInv
<1>1. /\ i \in Subs /\ sub[i].st = "running" /\ sub \in [Subs -> Subtasks] /\ call' = call
      /\ call.mode # "none"
  BY <1>0 DEF Typed, EndsAndGoesOn, EndsAndReturns, RunInv
<1>2. askedBar' = askedBar BY <1>1 DEF askedBar, Stops
<1>3. toldBar.st = "none" \/ (toldBar.st = "raised" /\ askedBar.late)
  <2>1. ~Over(i) BY <1>1 DEF Over
  <2>2. answer.st # "none" => call.mode = "groupPlaybook" BY <1>0, <2>1 DEF AnsweredIsOver
  <2>3. answer.st # "results" \/ call.mode # "groupPlaybook" BY <1>0, <1>1 DEF Settled
  <2>. QED BY <1>0, <1>1, <2>2, <2>3 DEF toldBar, askedBar, Typed
<1>4. i \in Promise!Lists BY <1>1 DEF Promise!Lists, askedBar, Working
<1>5. /\ Recorded(i) \in Seq(Answers) /\ Len(Recorded(i)) + 1 = sub[i].step
  <2>1. Fits(Recorded(i), i) /\ sub[i].step \in 1..Len(call.work[i]) /\ call.work[i] \in Seq(Hosts)
    BY <1>0 DEF RunInv, Typed
  <2>. QED BY <1>1, <2>1 DEF Fits, AtWork
<1>6. doneBar[i] = Recorded(i) BY <1>1 DEF doneBar
<1>7. ~Promise!AtEnd(i, doneBar[i])
  BY <1>0, <1>1, <1>5, <1>6, EndsTell, SameEnds DEF AtWork
<1>8. \A j \in Subs : Recorded(j)' = IF j = i THEN Append(Recorded(i), Item(Host(i), r))
                                     ELSE Recorded(j)
  <2>1. /\ ExecEntry(i, r) \in Entries /\ ExecEntry(i, r).op = "exec"
        /\ ExecEntry(i, r).sub = i /\ ExecEntry(i, r).host = Host(i) /\ ExecEntry(i, r).r = r
        /\ Entry("whole", i, Host(i), "ok") \in Entries
        /\ Entry("whole", i, Host(i), "ok").op # "exec"
    BY <1>0, HostType DEF ExecEntry, Entry
  <2>2. \/ Audit(ExecEntry(i, r))
        \/ AuditBoth(ExecEntry(i, r), Entry("whole", i, Host(i), "ok"))
    BY DEF EndsAndGoesOn, EndsAndReturns
  <2>. QED BY <1>0, <2>1, <2>2, RecordsOfStep DEF Typed
<1>9. doneBar' = [doneBar EXCEPT ![i] =
                    Append(@, [host |-> askedBar.lists[i][Len(@) + 1], r |-> r])]
  <2>1. askedBar.lists[i][Len(Recorded(i)) + 1] = Host(i)
    BY <1>1, <1>5 DEF askedBar, Host
  <2>2. Item(Host(i), r) = [host |-> Host(i), r |-> r] BY DEF Item
  <2>. QED BY <1>1, <1>6, <1>8, <2>1, <2>2 DEF doneBar
<1>10. UNCHANGED toldBar \/ Promise!Tell
  <2>1. CASE answer' = answer BY <2>1 DEF toldBar
  <2>2. CASE answer' # answer
    <3>1. /\ EndsAndReturns(i, r) /\ call.mode \notin Gathering
          /\ answer' = [st |-> "results", of |-> <<Collected(i, r)>>]
          /\ sub'[i].st = "done" /\ sub'[i].results = Collected(i, r)
      BY <1>1, <2>2 DEF EndsAndGoesOn, EndsAndReturns, Return, Subtasks
    <3>2. Working = {1} /\ i = 1
      BY <1>0, <1>1, <3>1 DEF AnsweredIsOver, Typed
    <3>3. answer'.st = "results" /\ DOMAIN answer'.of = {1} /\ answer'.of[1] = Collected(i, r)
      BY <3>1
    <3>4. answer.st = "none"
      <4>1. call.mode # "groupPlaybook" BY <3>1 DEF Gathering
      <4>. QED BY <1>0, <1>1, <4>1 DEF AnsweredIsOver, Over
    <3>5. i \in Working' BY <1>1 DEF Working
    <3>6. (OfCommands(sub[i].results) = Tale(Recorded(i), i))'
      <4>1. DoneTold' BY DEF PromiseInv
      <4>. QED BY <3>1, <3>5, <4>1 DEF DoneTold
    <3>7. OfCommands(answer'.of[i]) = Tale(Recorded(i)', i)
      BY <1>1, <3>1, <3>2, <3>3, <3>6 DEF Tale, Ended, Told, Stops
    <3>8. Recorded(i)' \in Seq(Answers)
      <4>1. Item(Host(i), r) \in Answers BY <1>0, HostType DEF Item, Answers
      <4>. QED BY <1>1, <1>5, <1>8, <4>1
    <3>. QED BY <1>0, <1>1, <3>2, <3>3, <3>4, <3>7, <3>8, ResultsTell
  <2>. QED BY <2>1, <2>2
<1>. QED BY <1>2, <1>3, <1>4, <1>7, <1>9, <1>10 DEF Promise!Advance

\* Every behaviour of a call on hosts keeps the promise, for any hosts, lists and
\* bounds: whatever connects, commands, sleeps and gathers do, lists advance in
\* order until a result ends them, the answer tells what is on record of each
\* list that came to its end, and nothing is run after it, except that the
\* playbooks of a group outlive the exception of one of them.
THEOREM FleetKeepsPromise == Spec => KeepsPromise
<1>1. Init => Promise!PromiseInit
  <2>. SUFFICES ASSUME Init PROVE Promise!PromiseInit OBVIOUS
  <2>1. call.mode = "none" /\ answer.st = "none" /\ log = <<>>
    BY DEF Init, NoCall, NoAnswer
  <2>2. \A i \in Subs : Recorded(i) = <<>> BY <2>1, NothingRecorded, RecordedIsIn
  <2>. QED BY <2>1, <2>2
       DEF Promise!PromiseInit, Promise!NotAsked, askedBar, doneBar, toldBar
<1>2. PromiseInv /\ PromiseInv' /\ [Next]_vars =>
        [Promise!PromiseNext]_(Promise!promiseVars)
  <2>. SUFFICES ASSUME PromiseInv, PromiseInv', [Next]_vars
                PROVE  Promise!PromiseNext \/ UNCHANGED Promise!promiseVars
    OBVIOUS
  <2>0. Typed /\ AnsweredIsOver /\ Settled BY DEF PromiseInv
  <2>1. ASSUME NEW mode \in Modes, NEW hosts \in HostLists, NEW n \in 1..MaxSteps,
               NEW stop \in BOOLEAN, Start(mode, hosts, n, stop)
        PROVE  Promise!PromiseNext
    BY <2>0, <2>1, StartKeeps DEF Promise!PromiseNext
  <2>2. ASSUME NEW i \in Working, Connected(i) \/ Awake(i) \/ PingTimeout(i)
        PROVE  UNCHANGED Promise!promiseVars
    BY <2>0, <2>2, QuietKeeps DEF Connected, Awake, PingTimeout
  <2>3. ASSUME NEW i \in Working, ConnectFails(i)
        PROVE  Promise!PromiseNext \/ UNCHANGED Promise!promiseVars
    <3>1. call' = call /\ log' = log /\ ~Over(i) BY <2>3 DEF ConnectFails, Over
    <3>2. CASE answer' = answer BY <2>0, <3>1, <3>2, QuietKeeps
    <3>3. CASE answer' # answer
      <4>1. call.mode \notin Gathering /\ answer'.st = "raised"
        BY <2>3, <3>3 DEF ConnectFails, Return
      <4>2. call.mode # "none" /\ answer.st = "none"
        BY <2>0, <3>1, <4>1 DEF AnsweredIsOver, Gathering
      <4>. QED BY <2>0, <3>1, <4>1, <4>2, RaiseKeeps DEF Promise!PromiseNext
    <3>. QED BY <3>2, <3>3
  <2>4. ASSUME NEW i \in Working, Ends(i) PROVE Promise!PromiseNext
    <3>1. PICK r \in Results : EndsAndGoesOn(i, r) \/ EndsAndReturns(i, r)
      BY <2>4 DEF Ends
    <3>2. Promise!Advance(i) /\ i \in Subs BY <2>0, <3>1, EndsKeeps DEF Typed
    <3>. QED BY <3>2 DEF Promise!PromiseNext
  <2>5. CASE GatherAll \/ GatherPlaybooks
    BY <2>5, GatherKeeps DEF Promise!PromiseNext
  <2>6. CASE UNCHANGED vars BY <2>0, <2>6, QuietKeeps DEF vars
  <2>. QED BY <2>1, <2>2, <2>3, <2>4, <2>5, <2>6 DEF Next
<1>. QED BY <1>1, <1>2, PromiseInvariance, PTL DEF Spec, KeepsPromise, Promise!PromiseSpec


===============================================================================
