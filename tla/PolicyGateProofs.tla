--------------------------- MODULE PolicyGateProofs ---------------------------
(* Theorems about PolicyGate for every policy, every rate and every number *)
(* of hosts and commands.                                                  *)
EXTENDS PolicyGate, FiniteSetTheorems, TLAPS

-----------------------------------------------------------------------------
(* Every step leaves the gate alone, or is one check at one host.          *)

Idles == UNCHANGED <<admitted, calls, now>>

Ticks == now' = now + 1 /\ UNCHANGED <<admitted, calls, answer>>

Admits(h, c) == Admit(h, c) /\ UNCHANGED now /\ (answer' = answer \/ answer'.on = None)

Refuses(h, c) ==
  /\ Refuse(h, c)
  /\ UNCHANGED now
  /\ answer'.on = h /\ answer'.cmd = c /\ answer'.at = now

\* Every step admits one call, refuses one, lets time pass, or touches no window.
LEMMA StepKind ==
  ASSUME TypeOK, [Next]_vars
  PROVE  \/ Idles /\ (answer' = answer \/ answer'.on = None)
         \/ Ticks
         \/ \E h \in Hosts, c \in Commands \cup {None} : Admits(h, c) \/ Refuses(h, c)
<1> USE DEF Idles, Ticks, Admits, Refuses, Ran, Blocked
<1>1. ASSUME NEW h \in Hosts, NEW c \in Commands,
             CommandTool(h, c) \/ BatchTool(h, c) \/ CheckCommand(h, c)
      PROVE  \E d \in {c, None} : Admits(h, d) \/ Refuses(h, d)
  BY <1>1 DEF CommandTool, BatchTool, CheckCommand
<1>2. ASSUME NEW h \in Hosts, NEW c \in Commands, UngatedTool(h, c)
      PROVE  Idles /\ answer'.on = None
  BY <1>2 DEF UngatedTool
<1>3. ASSUME NEW hs \in HostLists, NEW c \in Commands, ParallelCall(hs, c)
      PROVE  Idles /\ answer' = answer
  BY <1>3 DEF ParallelCall
<1>4. ASSUME ParallelGate
      PROVE  Admits(Head(par.rest), par.cmd) \/ Refuses(Head(par.rest), par.cmd)
  BY <1>4 DEF ParallelGate
<1>5. ASSUME ParallelGate PROVE Head(par.rest) \in Hosts /\ par.cmd \in Commands \cup {None}
  BY <1>5 DEF ParallelGate, TypeOK
<1>6. CASE Tick
  BY <1>6 DEF Tick
<1>7. CASE UNCHANGED vars
  BY <1>7 DEF vars
<1>8. QED BY <1>1, <1>2, <1>3, <1>4, <1>5, <1>6, <1>7 DEF Next

-----------------------------------------------------------------------------
(* Type correctness.                                                       *)

\* The lists of hosts ssh_parallel is called with are sequences of hosts.
LEMMA HostListType ==
  ASSUME NEW hs \in HostLists
  PROVE  hs \in Seq(Hosts) /\ {hs[i] : i \in DOMAIN hs} \subseteq Hosts
<1>1. PICK n \in 1..MaxParallel : hs \in [1..n -> Hosts]
  BY DEF HostLists
<1>2. n \in Nat
  BY <1>1, RateAssumption
<1>3. QED BY <1>1, <1>2

\* An admitted call keeps the types of the history and of the windows.
LEMMA AdmitType ==
  ASSUME TypeOK, NEW h \in Hosts, NEW c, Admit(h, c), now' = now
  PROVE  /\ admitted' \in [Hosts -> Seq(Nat)]
         /\ calls' \in [Hosts -> SUBSET Nat]
         /\ \A k \in Hosts : /\ calls'[k] \subseteq 1..Len(admitted'[k])
                             /\ \A i \in 1..Len(admitted'[k]) : admitted'[k][i] <= now'
<1>1. /\ admitted[h] \in Seq(Nat) /\ Len(admitted[h]) \in Nat /\ now \in Nat
      /\ Recent(h) \subseteq 1..Len(admitted[h])
  BY DEF TypeOK, Recent
<1>2. /\ admitted'[h] = Append(admitted[h], now)
      /\ calls'[h] = Recent(h) \cup {Len(admitted[h]) + 1}
      /\ \A k \in Hosts \ {h} : admitted'[k] = admitted[k] /\ calls'[k] = calls[k]
  BY DEF Admit, TypeOK
<1>3. /\ Len(admitted'[h]) = Len(admitted[h]) + 1
      /\ admitted'[h] \in Seq(Nat)
      /\ \A i \in 1..Len(admitted[h]) : admitted'[h][i] = admitted[h][i]
      /\ admitted'[h][Len(admitted[h]) + 1] = now
  BY <1>1, <1>2
<1>4. /\ calls'[h] \subseteq 1..Len(admitted'[h])
      /\ \A i \in 1..Len(admitted'[h]) : admitted'[h][i] <= now'
  BY <1>1, <1>2, <1>3 DEF TypeOK
<1>5. admitted' \in [Hosts -> Seq(Nat)]
  BY <1>1 DEF Admit, TypeOK
<1>6. calls' \in [Hosts -> SUBSET Nat]
  BY <1>1 DEF Admit, TypeOK
<1>7. QED BY <1>2, <1>4, <1>5, <1>6 DEF TypeOK

\* A refused call keeps the types, and no window grows.
LEMMA RefuseType ==
  ASSUME TypeOK, NEW h \in Hosts, NEW c, Refuse(h, c)
  PROVE  /\ admitted' = admitted
         /\ calls' \in [Hosts -> SUBSET Nat]
         /\ \A k \in Hosts : calls'[k] \subseteq calls[k]
  BY DEF Refuse, Recent, TypeOK

\* What the tools answer is an answer.
LEMMA AnswerType ==
  ASSUME NEW tool \in {"command", "batch", "ungated", "check", "parallel"},
         NEW hs \in SUBSET Hosts, NEW h \in Hosts, NEW c \in Commands \cup {None}, TypeOK
  PROVE  /\ Ran(tool, hs, c) /\ c # None => answer' \in Answer
         /\ Blocked(tool, h, c) => answer' \in Answer
  BY DEF Ran, Blocked, Answer, TypeOK

\* The part of TypeOK that is about the gate and not about its callers.
GateTyped ==
  /\ now \in Nat
  /\ admitted \in [Hosts -> Seq(Nat)]
  /\ calls \in [Hosts -> SUBSET Nat]
  /\ \A h \in Hosts : /\ calls[h] \subseteq 1..Len(admitted[h])
                      /\ \A i \in 1..Len(admitted[h]) : admitted[h][i] <= now

\* Every step keeps the types of the gate's own state.
LEMMA GateTypeStep ==
  ASSUME TypeOK, [Next]_vars
  PROVE  GateTyped'
<1>1. CASE Idles
  BY <1>1 DEF Idles, TypeOK, GateTyped
<1>2. CASE Ticks
  <2>1. \A h \in Hosts : \A i \in 1..Len(admitted[h]) : admitted[h][i] \in Nat
    BY DEF TypeOK
  <2>2. QED BY <1>2, <2>1 DEF Ticks, TypeOK, GateTyped
<1>3. ASSUME NEW h \in Hosts, NEW c, Admits(h, c) PROVE GateTyped'
  BY <1>3, AdmitType DEF Admits, TypeOK, GateTyped
<1>4. ASSUME NEW h \in Hosts, NEW c, Refuses(h, c) PROVE GateTyped'
  BY <1>4, RefuseType DEF Refuses, TypeOK, GateTyped
<1>5. QED BY <1>1, <1>2, <1>3, <1>4, StepKind

\* The caller of the gate, and its answer, keep their types.
LEMMA CallerTypeStep ==
  ASSUME TypeOK, [Next]_vars
  PROVE  /\ par' \in [rest : Seq(Hosts), all : SUBSET Hosts, cmd : Commands \cup {None}]
         /\ par'.rest # <<>> => par'.cmd \in Commands
         /\ answer' \in Answer
<1> DEFINE Typed == /\ par' \in [rest : Seq(Hosts), all : SUBSET Hosts, cmd : Commands \cup {None}]
                    /\ par'.rest # <<>> => par'.cmd \in Commands
                    /\ answer' \in Answer
<1>0. /\ par \in [rest : Seq(Hosts), all : SUBSET Hosts, cmd : Commands \cup {None}]
      /\ par.rest # <<>> => par.cmd \in Commands
      /\ answer \in Answer
  BY DEF TypeOK
<1>1. ASSUME NEW h \in Hosts, NEW c \in Commands,
             CommandTool(h, c) \/ BatchTool(h, c) \/ CheckCommand(h, c) \/ UngatedTool(h, c)
      PROVE  Typed
  <2>1. c # None /\ {h} \in SUBSET Hosts /\ {} \in SUBSET Hosts /\ par' = par
    BY <1>1, NoneAssumption DEF CommandTool, BatchTool, CheckCommand, UngatedTool
  <2>2. answer' \in Answer
    BY <1>1, <2>1, AnswerType DEF CommandTool, BatchTool, CheckCommand, UngatedTool
  <2>3. QED BY <1>0, <2>1, <2>2
<1>2. ASSUME NEW hs \in HostLists, NEW c \in Commands, ParallelCall(hs, c) PROVE Typed
  BY <1>0, <1>2, HostListType DEF ParallelCall
<1>3. ASSUME ParallelGate PROVE Typed
  <2>1. PICK h \in Hosts : h = Head(par.rest)
    BY <1>0, <1>3 DEF ParallelGate
  <2>2. par' = NoPar \/ (par' = [par EXCEPT !.rest = Tail(par.rest)] /\ par.rest # <<>>)
    BY <1>3 DEF ParallelGate
  <2>3. /\ par' \in [rest : Seq(Hosts), all : SUBSET Hosts, cmd : Commands \cup {None}]
        /\ par'.rest # <<>> => par'.cmd \in Commands
    <3>1. CASE par' = NoPar
      BY <3>1 DEF NoPar
    <3>2. CASE par' = [par EXCEPT !.rest = Tail(par.rest)] /\ par.rest # <<>>
      <4>1. Tail(par.rest) \in Seq(Hosts)
        BY <1>0, <3>2
      <4>2. QED BY <1>0, <3>2, <4>1
    <3>3. QED BY <2>2, <3>1, <3>2
  <2>4. PICK c \in Commands, hs \in SUBSET Hosts : c = par.cmd /\ hs = par.all
    BY <1>0, <1>3 DEF ParallelGate
  <2>5. answer' = answer \/ Ran("parallel", hs, c) \/ Blocked("parallel", h, c)
    BY <1>3, <2>1, <2>4 DEF ParallelGate
  <2>6. answer' \in Answer
    BY <1>0, <2>4, <2>5, AnswerType, NoneAssumption
  <2>7. QED BY <2>3, <2>6
<1>4. CASE Tick
  BY <1>0, <1>4 DEF Tick
<1>5. CASE UNCHANGED vars
  BY <1>0, <1>5 DEF vars
<1>6. QED BY <1>1, <1>2, <1>3, <1>4, <1>5 DEF Next

\* Every step keeps every type.
LEMMA TypeStep == TypeOK /\ [Next]_vars => TypeOK'
  BY GateTypeStep, CallerTypeStep DEF TypeOK, GateTyped

\* The program starts with every type right.
LEMMA InitTypeOK == Init => TypeOK
<1> SUFFICES ASSUME Init PROVE TypeOK
  OBVIOUS
<1>1. \A h \in Hosts : admitted[h] = <<>> /\ calls[h] = {}
  BY DEF Init
<1>2. admitted \in [Hosts -> Seq(Nat)] /\ calls \in [Hosts -> SUBSET Nat] /\ now = 0
  BY DEF Init
<1>3. par \in [rest : Seq(Hosts), all : SUBSET Hosts, cmd : Commands \cup {None}] /\ par.rest = <<>>
  BY DEF Init, NoPar
<1>4. answer \in Answer
  BY DEF Init, Answer
<1>5. QED BY <1>1, <1>2, <1>3, <1>4 DEF TypeOK

\* Type correctness of the gate, in every reachable state.
THEOREM TypeCorrect == Spec => []TypeOK
  BY InitTypeOK, TypeStep, PTL DEF Spec

-----------------------------------------------------------------------------
(* The sliding window.  RateWindow is inductive once it is known that the  *)
(* list never lost a call that is still in the window.                     *)

RecentKept ==
  \A h \in Hosts : \A i \in 1..Len(admitted[h]) :
    now - admitted[h][i] < Window => i \in calls[h]

\* What one admission does to the history of its host.
LEMMA AdmitEffect ==
  ASSUME TypeOK, NEW h \in Hosts, NEW c, Admit(h, c)
  PROVE  /\ Len(admitted[h]) \in Nat
         /\ Len(admitted'[h]) = Len(admitted[h]) + 1
         /\ \A i \in 1..Len(admitted[h]) : admitted'[h][i] = admitted[h][i]
         /\ admitted'[h][Len(admitted[h]) + 1] = now
         /\ calls'[h] = Recent(h) \cup {Len(admitted[h]) + 1}
         /\ \A k \in Hosts \ {h} : admitted'[k] = admitted[k] /\ calls'[k] = calls[k]
<1>1. admitted[h] \in Seq(Nat) /\ now \in Nat
  BY DEF TypeOK
<1>2. /\ admitted'[h] = Append(admitted[h], now)
      /\ calls'[h] = Recent(h) \cup {Len(admitted[h]) + 1}
      /\ \A k \in Hosts \ {h} : admitted'[k] = admitted[k] /\ calls'[k] = calls[k]
  BY DEF Admit, TypeOK
<1>3. QED BY <1>1, <1>2

\* Every step keeps in each window all the calls admitted within it.
LEMMA RecentKeptStep == TypeOK /\ RecentKept /\ [Next]_vars => RecentKept'
<1> SUFFICES ASSUME TypeOK, RecentKept, [Next]_vars PROVE RecentKept'
  OBVIOUS
<1>1. CASE Idles
  BY <1>1 DEF Idles, RecentKept
<1>2. CASE Ticks
  <2>1. \A h \in Hosts : \A i \in 1..Len(admitted[h]) : admitted[h][i] \in Nat
    BY DEF TypeOK
  <2>2. now \in Nat /\ Window \in Nat
    BY RateAssumption DEF TypeOK
  <2>3. QED BY <1>2, <2>1, <2>2 DEF Ticks, RecentKept
<1>3. ASSUME NEW h \in Hosts, NEW c, Admits(h, c) PROVE RecentKept'
  <2>1. ASSUME NEW k \in Hosts, NEW i \in 1..Len(admitted'[k]), now - admitted'[k][i] < Window
        PROVE  i \in calls'[k]
    <3>1. CASE k = h
      BY <1>3, <2>1, <3>1, AdmitEffect DEF Admits, RecentKept, Recent
    <3>2. CASE k # h
      BY <1>3, <2>1, <3>2, AdmitEffect DEF Admits, RecentKept
    <3>3. QED BY <3>1, <3>2
  <2>2. QED BY <1>3, <2>1 DEF Admits, RecentKept
<1>4. ASSUME NEW h \in Hosts, NEW c, Refuses(h, c) PROVE RecentKept'
  BY <1>4 DEF Refuses, Refuse, Recent, RecentKept, TypeOK
<1>5. QED BY <1>1, <1>2, <1>3, <1>4, StepKind

\* The calls a check counts are finitely many.
LEMMA RecentFinite ==
  ASSUME TypeOK, NEW h \in Hosts
  PROVE  IsFiniteSet(Recent(h)) /\ Cardinality(Recent(h)) \in Nat
<1>1. Len(admitted[h]) \in Nat
  BY DEF TypeOK
<1>2. IsFiniteSet(1..Len(admitted[h]))
  BY <1>1, FS_Interval
<1>3. Recent(h) \subseteq 1..Len(admitted[h])
  BY DEF Recent, TypeOK
<1>4. QED BY <1>2, <1>3, FS_Subset, FS_CardinalityType

\* The window that ends with a new admission is within the limit.
LEMMA NewWindow ==
  ASSUME TypeOK, RecentKept, NEW h \in Hosts, NEW c, Admit(h, c),
         NEW j \in Nat, j = Len(admitted[h]) + 1
  PROVE  10 * Cardinality(WindowOf(h, j)') < RateTenths + 10
<1>1. now \in Nat /\ IsFiniteSet(Recent(h)) /\ Cardinality(Recent(h)) \in Nat
  BY RecentFinite DEF TypeOK
<1>2. WindowOf(h, j)' = {i \in 1..j : now - admitted'[h][i] < Window}
  BY AdmitEffect DEF WindowOf
<1>3. WindowOf(h, j)' \subseteq Recent(h) \cup {j}
  BY <1>1, <1>2, AdmitEffect DEF RecentKept, Recent
<1>4. /\ IsFiniteSet(Recent(h) \cup {j})
      /\ Cardinality(Recent(h) \cup {j}) \in {Cardinality(Recent(h)), Cardinality(Recent(h)) + 1}
  <2>1. CASE j \in Recent(h)
    <3>1. Recent(h) \cup {j} = Recent(h)
      BY <2>1
    <3>2. QED BY <1>1, <3>1
  <2>2. CASE j \notin Recent(h)
    BY <1>1, <2>2, FS_AddElement
  <2>3. QED BY <2>1, <2>2
<1>5. /\ Cardinality(WindowOf(h, j)') \in Nat
      /\ Cardinality(WindowOf(h, j)') <= Cardinality(Recent(h) \cup {j})
  BY <1>3, <1>4, FS_Subset, FS_CardinalityType
<1>6. 10 * Cardinality(Recent(h)) < RateTenths
  BY DEF Admit, RateOpen
<1>7. QED BY <1>1, <1>4, <1>5, <1>6, RateAssumption

\* Every step keeps every sliding window within the limit.
LEMMA RateWindowStep ==
  ASSUME TypeOK, RecentKept, RateWindow, [Next]_vars
  PROVE  RateWindow'
<1>1. CASE admitted' = admitted
  BY <1>1 DEF RateWindow, WindowOf
<1>2. ASSUME NEW h \in Hosts, NEW c, Admit(h, c) PROVE RateWindow'
  <2>1. ASSUME NEW k \in Hosts, NEW j \in 1..Len(admitted'[k])
        PROVE  10 * Cardinality(WindowOf(k, j)') < RateTenths + 10
    <3>1. CASE k # h
      <4>1. admitted'[k] = admitted[k]
        BY <1>2, <3>1, AdmitEffect
      <4>2. WindowOf(k, j)' = WindowOf(k, j)
        BY <4>1 DEF WindowOf
      <4>3. QED BY <4>1, <4>2 DEF RateWindow
    <3>2. CASE k = h /\ j \in 1..Len(admitted[h])
      <4>1. \A i \in 1..j : admitted'[k][i] = admitted[k][i]
        BY <1>2, <3>2, AdmitEffect
      <4>2. WindowOf(k, j)' = WindowOf(k, j)
        BY <3>2, <4>1 DEF WindowOf
      <4>3. QED BY <3>2, <4>2 DEF RateWindow
    <3>3. CASE k = h /\ j = Len(admitted[h]) + 1
      BY <1>2, <3>3, NewWindow, AdmitEffect
    <3>4. QED BY <1>2, <3>1, <3>2, <3>3, AdmitEffect
  <2>2. QED BY <2>1 DEF RateWindow
<1>3. admitted' = admitted \/ \E h \in Hosts, c \in Commands \cup {None} : Admit(h, c)
  BY StepKind DEF Idles, Ticks, Admits, Refuses, Refuse
<1>4. QED BY <1>1, <1>2, <1>3

\* The rate limit holds over every sliding window and every mix of tools.
THEOREM RateWindowHolds == Spec => []RateWindow
<1> DEFINE Inv == TypeOK /\ RecentKept /\ RateWindow
<1>1. Init => Inv
  <2>1. ASSUME Init PROVE RecentKept /\ RateWindow
    <3>1. \A h \in Hosts : 1..Len(admitted[h]) = {}
      BY <2>1 DEF Init
    <3>2. QED BY <3>1 DEF RecentKept, RateWindow
  <2>2. QED BY <2>1, InitTypeOK
<1>2. Inv /\ [Next]_vars => Inv'
  BY TypeStep, RecentKeptStep, RateWindowStep
<1>3. Inv => RateWindow
  OBVIOUS
<1>4. QED BY <1>1, <1>2, <1>3, PTL DEF Spec

-----------------------------------------------------------------------------
(* Refusals.                                                               *)

\* The calls admitted in a window can be counted.
LEMMA AdmittedByFinite ==
  ASSUME TypeOK, NEW h \in Hosts, NEW t
  PROVE  IsFiniteSet(AdmittedBy(h, t)) /\ Cardinality(AdmittedBy(h, t)) \in Nat
<1>1. Len(admitted[h]) \in Nat
  BY DEF TypeOK
<1>2. AdmittedBy(h, t) \subseteq 1..Len(admitted[h]) /\ IsFiniteSet(1..Len(admitted[h]))
  BY <1>1, FS_Interval DEF AdmittedBy
<1>3. QED BY <1>2, FS_Subset, FS_CardinalityType

\* They can be counted after a step as well.
LEMMA AdmittedByFiniteAfter ==
  ASSUME TypeOK', NEW h \in Hosts, NEW t
  PROVE  IsFiniteSet(AdmittedBy(h, t)') /\ Cardinality(AdmittedBy(h, t)') \in Nat
<1>1. Len(admitted'[h]) \in Nat
  BY DEF TypeOK
<1>2. IsFiniteSet(1..Len(admitted'[h]))
  BY <1>1, FS_Interval
<1>3. AdmittedBy(h, t)' \subseteq 1..Len(admitted'[h])
  BY DEF AdmittedBy
<1>4. QED BY <1>2, <1>3, FS_Subset, FS_CardinalityType

\* History is only added to, so a window that was full stays full.
LEMMA AdmittedByGrows ==
  ASSUME TypeOK, TypeOK', [Next]_vars, NEW h \in Hosts, NEW t
  PROVE  Cardinality(AdmittedBy(h, t)) <= Cardinality(AdmittedBy(h, t)')
<1>1. CASE admitted' = admitted
  <2>1. AdmittedBy(h, t)' = AdmittedBy(h, t)
    BY <1>1 DEF AdmittedBy
  <2>2. QED BY <2>1, AdmittedByFinite
<1>2. ASSUME NEW k \in Hosts, NEW c, Admit(k, c)
      PROVE  AdmittedBy(h, t) \subseteq AdmittedBy(h, t)'
  <2>1. CASE k = h
    BY <1>2, <2>1, AdmitEffect DEF AdmittedBy
  <2>2. CASE k # h
    BY <1>2, <2>2, AdmitEffect DEF AdmittedBy
  <2>3. QED BY <2>1, <2>2
<1>3. IsFiniteSet(AdmittedBy(h, t)')
  BY AdmittedByFiniteAfter
<1>4. admitted' = admitted \/ \E k \in Hosts, c \in Commands \cup {None} : Admit(k, c)
  BY StepKind DEF Idles, Ticks, Admits, Refuses, Refuse
<1>5. QED BY <1>1, <1>2, <1>3, <1>4, FS_Subset

\* Every step leaves the last refusal justified.
LEMMA RefusalStep ==
  ASSUME TypeOK, TypeOK', RefusalJustified, [Next]_vars
  PROVE  RefusalJustified'
<1>1. CASE answer' = answer
  <2>1. CASE answer.on # None /\ Permitted(answer.on, answer.cmd)
    <3>1. PICK h \in Hosts, t \in Nat : h = answer.on /\ t = answer.at
      BY <2>1 DEF TypeOK, Answer
    <3>2. 10 * Cardinality(AdmittedBy(h, t)) >= RateTenths
      BY <2>1, <3>1 DEF RefusalJustified
    <3>3. Cardinality(AdmittedBy(h, t)) <= Cardinality(AdmittedBy(h, t)')
      BY AdmittedByGrows
    <3>4. IsFiniteSet(AdmittedBy(h, t)') /\ Cardinality(AdmittedBy(h, t)') \in Nat
      BY AdmittedByFiniteAfter
    <3>5. 10 * Cardinality(AdmittedBy(h, t)') >= RateTenths
      BY <3>2, <3>3, <3>4, AdmittedByFinite, RateAssumption
    <3>6. QED BY <1>1, <3>1, <3>5 DEF RefusalJustified, AdmittedBy
  <2>2. CASE ~(answer.on # None /\ Permitted(answer.on, answer.cmd))
    BY <1>1, <2>2 DEF RefusalJustified, Permitted, HostPermitted, CommandPermitted
  <2>3. QED BY <2>1, <2>2
<1>2. CASE answer'.on = None
  BY <1>2 DEF RefusalJustified
<1>3. ASSUME NEW h \in Hosts, NEW c \in Commands \cup {None}, Refuses(h, c)
      PROVE  RefusalJustified'
  <2>1. PICK t \in Nat : t = now
    BY DEF TypeOK
  <2>2. answer'.on = h /\ answer'.cmd = c /\ answer'.at = t /\ admitted' = admitted
    BY <1>3, <2>1 DEF Refuses, Refuse
  <2>3. CASE Permitted(h, c)
    <3>1. ~(10 * Cardinality(Recent(h)) < RateTenths)
      BY <1>3, <2>3 DEF Refuses, Refuse, RateOpen
    <3>2. Recent(h) \subseteq AdmittedBy(h, t)
      BY <2>1 DEF Recent, AdmittedBy, TypeOK
    <3>3. Cardinality(Recent(h)) <= Cardinality(AdmittedBy(h, t))
      BY <3>2, AdmittedByFinite, FS_Subset
    <3>4. 10 * Cardinality(AdmittedBy(h, t)) >= RateTenths
      BY <3>1, <3>3, RecentFinite, AdmittedByFinite, RateAssumption
    <3>5. AdmittedBy(h, t)' = AdmittedBy(h, t)
      BY <2>2 DEF AdmittedBy
    <3>6. QED BY <2>2, <3>4, <3>5 DEF RefusalJustified, AdmittedBy
  <2>4. CASE ~Permitted(h, c)
    BY <2>2, <2>4 DEF RefusalJustified, Permitted, HostPermitted, CommandPermitted
  <2>5. QED BY <2>3, <2>4
<1>4. QED BY <1>1, <1>2, <1>3, StepKind DEF Ticks, Admits

\* A permitted call is refused only when its host's window is full.
THEOREM RefusalJustifiedHolds == Spec => []RefusalJustified
<1> DEFINE Inv == TypeOK /\ RefusalJustified
<1>1. Init => Inv
  BY InitTypeOK DEF Init, RefusalJustified
<1>2. Inv /\ [Next]_vars => Inv'
  BY TypeStep, RefusalStep
<1>3. Inv => RefusalJustified
  OBVIOUS
<1>4. QED BY <1>1, <1>2, <1>3, PTL DEF Spec

-----------------------------------------------------------------------------
(* What gated tools run.                                                   *)

\* Of the hosts of ssh_parallel those that are not left to do are permitted.
Passed ==
  par.rest # <<>> =>
    \A h \in par.all : (\E i \in DOMAIN par.rest : h = par.rest[i]) \/ Permitted(h, par.cmd)

\* Two facts about a list with a head.
LEMMA HeadOrTail ==
  ASSUME NEW s \in Seq(Hosts), s # <<>>, NEW i \in DOMAIN s
  PROVE  \/ s[i] = Head(s)
         \/ Len(s) > 1 /\ \E j \in DOMAIN Tail(s) : s[i] = Tail(s)[j]
<1>1. CASE i = 1 BY <1>1
<1>2. CASE i # 1
  <2>1. i - 1 \in DOMAIN Tail(s) /\ Tail(s)[i - 1] = s[i] /\ Len(s) > 1 BY <1>2
  <2>2. QED BY <2>1
<1>3. QED BY <1>1, <1>2

\* The loop of ssh_parallel passes its hosts one by one.
LEMMA PassedStep == TypeOK /\ Passed /\ [Next]_vars => Passed'
<1> SUFFICES ASSUME TypeOK, Passed, [Next]_vars PROVE Passed' OBVIOUS
<1>1. CASE UNCHANGED par BY <1>1 DEF Passed, Permitted, HostPermitted, CommandPermitted
<1>2. CASE par' = NoPar BY <1>2 DEF Passed, NoPar
<1>3. ASSUME NEW hs \in HostLists, NEW c \in Commands, ParallelCall(hs, c) PROVE Passed'
  BY <1>3 DEF ParallelCall, Passed
<1>4. CASE ParallelGate
  <2>1. par' = NoPar \/ (/\ par' = [par EXCEPT !.rest = Tail(par.rest)]
                         /\ Permitted(Head(par.rest), par.cmd) /\ par.rest # <<>>)
    BY <1>4 DEF ParallelGate, Admit
  <2>2. CASE par' # NoPar
    <3>1. /\ par'.rest = Tail(par.rest) /\ par'.all = par.all /\ par'.cmd = par.cmd
          /\ par.rest \in Seq(Hosts)
      BY <2>1, <2>2 DEF TypeOK
    <3>2. ASSUME NEW h \in par.all
          PROVE  (\E i \in DOMAIN Tail(par.rest) : h = Tail(par.rest)[i]) \/ Permitted(h, par.cmd)
      <4>1. CASE Permitted(h, par.cmd) BY <4>1
      <4>2. CASE \E i \in DOMAIN par.rest : h = par.rest[i]
        BY <2>1, <2>2, <3>1, <4>2, HeadOrTail
      <4>3. QED BY <2>1, <2>2, <4>1, <4>2 DEF Passed
    <3>3. QED BY <3>1, <3>2 DEF Passed, Permitted, HostPermitted, CommandPermitted
  <2>3. QED BY <1>2, <2>2
<1>5. QED
  BY <1>1, <1>3, <1>4
     DEF Next, vars, Tick, CommandTool, BatchTool, UngatedTool, CheckCommand

\* Each step answers with what it permits, or with a refusal.
LEMMA GatedRunsStep ==
  TypeOK /\ TypeOK' /\ Passed /\ GatedRunsPermitted /\ [Next]_vars => GatedRunsPermitted'
<1> SUFFICES ASSUME TypeOK, TypeOK', Passed, GatedRunsPermitted, [Next]_vars
             PROVE  GatedRunsPermitted'
  OBVIOUS
<1>a. ASSUME NEW h, NEW c \in Commands, Permitted(h, c)
      PROVE  \A p \in CommandBlocklist : c \notin p
  BY <1>a, NoneAssumption DEF Permitted, CommandPermitted
<1>1. CASE UNCHANGED answer
  BY <1>1 DEF GatedRunsPermitted, Permitted, HostPermitted, CommandPermitted
<1>2. ASSUME NEW tool, NEW h, NEW c, Blocked(tool, h, c) PROVE GatedRunsPermitted'
  BY <1>2 DEF Blocked, GatedRunsPermitted
<1>3. ASSUME NEW tool, NEW hs \in SUBSET Hosts, NEW c \in Commands, Ran(tool, hs, c),
             tool \in {"command", "parallel"} => \A h \in hs : Permitted(h, c)
      PROVE  GatedRunsPermitted'
  <2>1. answer'.tool = tool /\ answer'.ran = hs \X {c} /\ answer'.on = None BY <1>3 DEF Ran
  <2>2. ASSUME NEW r \in hs \X {c}, tool \in {"command", "parallel"}
        PROVE  Permitted(r[1], r[2]) /\ \A p \in CommandBlocklist : r[2] \notin p
    BY <1>3, <1>a, <2>2
  <2>3. QED
    BY <2>1, <2>2 DEF GatedRunsPermitted, Permitted, HostPermitted, CommandPermitted
<1>4. ASSUME NEW h \in Hosts, NEW c \in Commands,
             CommandTool(h, c) \/ BatchTool(h, c) \/ UngatedTool(h, c) \/ CheckCommand(h, c)
      PROVE  GatedRunsPermitted'
  <2>1. {h} \in SUBSET Hosts /\ {} \in SUBSET Hosts OBVIOUS
  <2>2. \/ \E tool, d : Blocked(tool, h, d)
        \/ Ran("command", {h}, c) /\ Permitted(h, c)
        \/ \E tool \in {"batch", "ungated", "check"}, hs \in {{}, {h}} : Ran(tool, hs, c)
    BY <1>4 DEF CommandTool, BatchTool, UngatedTool, CheckCommand, Admit
  <2>3. CASE \E tool \in {"batch", "ungated", "check"}, hs \in {{}, {h}} : Ran(tool, hs, c)
    <3>1. PICK tool \in {"batch", "ungated", "check"}, hs \in {{}, {h}} : Ran(tool, hs, c)
      BY <2>3
    <3>2. hs \in SUBSET Hosts /\ tool \notin {"command", "parallel"} OBVIOUS
    <3>3. QED BY <1>3, <3>1, <3>2
  <2>4. QED BY <1>2, <1>3, <2>1, <2>2, <2>3
<1>5. CASE ParallelGate
  <2>1. /\ par.rest # <<>> /\ par.rest \in Seq(Hosts) /\ par.all \in SUBSET Hosts
        /\ par.cmd \in Commands
    BY <1>5 DEF ParallelGate, TypeOK
  <2>2. \/ UNCHANGED answer
        \/ Blocked("parallel", Head(par.rest), par.cmd)
        \/ /\ Ran("parallel", par.all, par.cmd)
           /\ Permitted(Head(par.rest), par.cmd) /\ ~(Len(par.rest) > 1)
    BY <1>5 DEF ParallelGate, Admit
  <2>3. ASSUME Permitted(Head(par.rest), par.cmd), ~(Len(par.rest) > 1), NEW h \in par.all
        PROVE  Permitted(h, par.cmd)
    <3>1. CASE \E i \in DOMAIN par.rest : h = par.rest[i]
      BY <2>1, <2>3, <3>1, HeadOrTail
    <3>2. QED BY <2>1, <3>1 DEF Passed
  <2>4. QED BY <1>1, <1>2, <1>3, <2>1, <2>2, <2>3
<1>6. CASE Tick \/ UNCHANGED vars BY <1>1, <1>6 DEF Tick, vars
<1>7. ASSUME NEW hs \in HostLists, NEW c \in Commands, ParallelCall(hs, c)
      PROVE  GatedRunsPermitted'
  BY <1>1, <1>7 DEF ParallelCall
<1>8. QED BY <1>4, <1>5, <1>6, <1>7 DEF Next

\* What the tools that gate their command run is permitted, on each of the hosts of
\* ssh_parallel, and a refusal runs nothing anywhere.
THEOREM GatedRunsPermittedHolds == Spec => []GatedRunsPermitted
<1> DEFINE Inv == TypeOK /\ Passed /\ GatedRunsPermitted
<1>1. Init => Inv
  BY InitTypeOK DEF Init, NoPar, Passed, GatedRunsPermitted
<1>2. Inv /\ [Next]_vars => Inv'
  BY TypeStep, PassedStep, GatedRunsStep
<1>3. Inv => GatedRunsPermitted
  OBVIOUS
<1>4. QED BY <1>1, <1>2, <1>3, PTL DEF Spec
===============================================================================
