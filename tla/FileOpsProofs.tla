----------------------------- MODULE FileOpsProofs -----------------------------
(* Theorems about FileOps for any calls and paths, and syncs of any files. *)
EXTENDS FileOps, TLAPS

CallStates == {"idle", "connecting", "raised", "working", "at", "open", "ok", "failed"}
AtFile == {"at", "open"}
CallRecords == [st : CallStates, op : Ops, todo : SUBSET Paths, at : Paths \cup {NoPath},
                done : SUBSET Paths, failed : SUBSET Paths]

-----------------------------------------------------------------------------
(* Types.                                                                  *)

\* Each thing that can be done to files keeps their types.
LEMMA FileChanges ==
  ASSUME FilesTypeOK, NEW c \in Calls, NEW p \in Paths,
         OpenToWrite(c, p) \/ Write(c, p) \/ CloseUnwritten(c) \/ RemoveFile(p)
  PROVE  FilesTypeOK'
<1> USE NoPathAssumption, FilesAssumption DEF FilesTypeOK, Texts
<1>1. CASE OpenToWrite(c, p) BY <1>1 DEF OpenToWrite
<1>2. CASE Write(c, p)
  <2>1. PICK rest \in {{}, file[p]} :
          file' = IF handle[c] = p THEN [file EXCEPT ![p] = {c} \cup rest] ELSE file
    BY <1>2 DEF Write
  <2>2. handle' = [handle EXCEPT ![c] = NoPath] BY <1>2 DEF Write
  <2>3. ASSUME handle[c] = p PROVE {c} \cup rest \in SUBSET (Calls \cup {Earlier})
    <3>1. file[p] # NoFile /\ file[p] \in SUBSET (Calls \cup {Earlier}) BY <2>3
    <3>2. QED BY <2>1, <3>1
  <2>4. QED BY <2>1, <2>2, <2>3
<1>3. CASE CloseUnwritten(c) BY <1>3 DEF CloseUnwritten
<1>4. CASE RemoveFile(p)
  <2>1. /\ file' = [file EXCEPT ![p] = NoFile]
        /\ handle' = [w \in Calls \cup {Earlier} |-> IF handle[w] = p THEN NoPath ELSE handle[w]]
    BY <1>4 DEF RemoveFile
  <2>2. file' \in [Paths -> (SUBSET (Calls \cup {Earlier})) \cup {NoFile}] BY <2>1
  <2>3. handle' \in [Calls \cup {Earlier} -> Paths \cup {NoPath}] BY <2>1
  <2>4. ASSUME NEW w \in Calls \cup {Earlier}, handle'[w] # NoPath
        PROVE  file'[handle'[w]] # NoFile
    <3>1. handle'[w] = handle[w] /\ handle[w] # p BY <2>1, <2>4
    <3>2. QED BY <2>1, <2>4, <3>1
  <2>5. QED BY <2>2, <2>3, <2>4
<1>5. QED BY <1>1, <1>2, <1>3, <1>4

CallStep(c) ==
  \/ \E op \in Ops, ps \in SUBSET Paths : Begin(c, op, ps)
  \/ \E p \in Paths : Turn(c, p)
  \/ Sftp(c) \/ Read(c) \/ Delete(c) \/ OpenFile(c) \/ WriteText(c) \/ Error(c) \/ SyncEnds(c)

\* A step of a call keeps the record of every call a record of calls, and changes
\* that of no other.
LEMMA CallRecordStep ==
  ASSUME TypeOK, NEW c \in Calls, CallStep(c)
  PROVE  /\ call' = [call EXCEPT ![c] = call'[c]]
         /\ call'[c] \in CallRecords
<1> USE DEF TypeOK, CallRecords, CallStates
<1>1. CASE \E op \in Ops, ps \in SUBSET Paths : Begin(c, op, ps)
  <2>1. PICK op \in Ops, ps \in SUBSET Paths : Begin(c, op, ps) BY <1>1
  <2>2. PICK st \in {"connecting", "failed"} : call' = [call EXCEPT ![c] = Fresh(st, op, ps)]
    BY <2>1 DEF Begin
  <2>3. QED BY <2>2 DEF Fresh
<1>2. CASE \E p \in Paths : Turn(c, p) BY <1>2 DEF Turn
<1>3. CASE Sftp(c) \/ OpenFile(c) \/ SyncEnds(c) BY <1>3 DEF Sftp, OpenFile, SyncEnds
<1>4. CASE Read(c) \/ Delete(c) \/ WriteText(c) \/ Error(c)
  <2>1. Succeeds(c) \/ Fails(c) BY <1>4 DEF Read, Delete, WriteText, Error
  <2>2. call[c].at \in Paths \cup {NoPath} OBVIOUS
  <2>3. QED BY <2>1, <2>2 DEF Succeeds, Fails
<1>5. QED BY <1>1, <1>2, <1>3, <1>4 DEF CallStep

-----------------------------------------------------------------------------
(* Where a call stands.                                                    *)

\* What the place of a call says of its paths and of the file it has open.
Steady(c) ==
  /\ call[c].st = "idle" =>
       call[c].at = NoPath /\ call[c].done = {} /\ call[c].failed = {}
  /\ call[c].st \in AtFile =>
       call[c].at \in Paths /\ call[c].at \notin call[c].done \cup call[c].failed
  /\ call[c].st \notin AtFile => call[c].at \in call[c].done \cup call[c].failed \cup {NoPath}
  /\ call[c].todo \cap (call[c].done \cup call[c].failed \cup {call[c].at}) = {}
  /\ call[c].st = "open" => call[c].op \in Writing
  /\ handle[c] # NoPath => call[c].st = "open" /\ handle[c] = call[c].at
  /\ \A d \in before[c] : Over(d)

CallsInv ==
  /\ TypeOK
  /\ \A c \in Calls : Steady(c)
  /\ handle[Earlier] = NoPath

\* What a step of c may do: it moves c, which was not over, takes nothing back that
\* c has touched, and changes only a path that c has come to, if not to read.
OnlyMoves(c) ==
  /\ ~Over(c)
  /\ \A d \in Calls \ {c} : call'[d] = call[d] /\ before'[d] = before[d]
  /\ Touched(c) \subseteq Touched(c)'
  /\ call[c].done \subseteq call'[c].done /\ call[c].failed \subseteq call'[c].failed
  /\ call[c].st # "idle" => call'[c].op = call[c].op /\ before'[c] = before[c]
  /\ \A d \in Calls \ {c} : handle'[d] \in {handle[d], NoPath}
  /\ \A p \in Paths : p \notin Touched(c)' \/ call'[c].op = "read" =>
       /\ file'[p] = file[p]
       /\ \A d \in Calls \ {c} : handle[d] = p => handle'[d] = p

\* The steps before and between the files of a call.
LEMMA MovesToFile ==
  ASSUME CallsInv, NEW c \in Calls,
         \/ \E op \in Ops, ps \in SUBSET Paths : Begin(c, op, ps)
         \/ \E p \in Paths : Turn(c, p)
         \/ Sftp(c) \/ OpenFile(c) \/ SyncEnds(c)
  PROVE  FilesTypeOK' /\ Steady(c)' /\ OnlyMoves(c) /\ handle'[Earlier] = NoPath
<1> USE DEF CallsInv, TypeOK, AtFile
<1>a. Steady(c) OBVIOUS
<1>1. ASSUME NEW op \in Ops, NEW ps \in SUBSET Paths, Begin(c, op, ps)
      PROVE  FilesTypeOK' /\ Steady(c)' /\ OnlyMoves(c) /\ handle'[Earlier] = NoPath
  <2>1. UNCHANGED <<seen, file, handle>> /\ call[c].st = "idle" /\ handle[c] = NoPath
        /\ before' = [before EXCEPT ![c] = {d \in Calls : Over(d)}]
    BY <1>1, <1>a DEF Begin, Steady
  <2>2. PICK st \in {"connecting", "failed"} : call' = [call EXCEPT ![c] = Fresh(st, op, ps)]
    BY <1>1 DEF Begin
  <2>4. call' = [call EXCEPT ![c] =
                   [st |-> st, op |-> op, todo |-> ps, at |-> NoPath, done |-> {}, failed |-> {}]]
    BY <2>2 DEF Fresh
  <2>5. \A d \in Calls : Over(d) => d # c /\ Over(d)' BY <2>1, <2>4 DEF Over
  <2>6. Touched(c) = {} /\ Touched(c)' = {} BY <1>a, <2>1, <2>4 DEF Steady, Touched
  <2>7. Steady(c)' BY <2>1, <2>4, <2>5, <2>6, NoPathAssumption DEF Steady
  <2>8. OnlyMoves(c) BY <1>a, <2>1, <2>4, <2>6 DEF OnlyMoves, Over, Steady
  <2>9. QED BY <2>1, <2>7, <2>8 DEF FilesTypeOK, Texts
<1>2. ASSUME NEW p \in Paths, Turn(c, p)
      PROVE  FilesTypeOK' /\ Steady(c)' /\ OnlyMoves(c) /\ handle'[Earlier] = NoPath
  <2>1. /\ call[c].st = "working" /\ p \in call[c].todo
        /\ call' = [call EXCEPT ![c].st = "at", ![c].at = p, ![c].todo = @ \ {p}]
        /\ UNCHANGED <<before, file, handle>>
    BY <1>2 DEF Turn
  <2>2. call'[c] = [call[c] EXCEPT !.st = "at", !.at = p, !.todo = call[c].todo \ {p}]
    BY <2>1
  <2>3. /\ call'[c].st = "at" /\ call'[c].at = p /\ call'[c].todo = call[c].todo \ {p}
        /\ call'[c].op = call[c].op
        /\ call'[c].done = call[c].done /\ call'[c].failed = call[c].failed
    BY <2>2
  <2>4. p \notin call[c].done \cup call[c].failed /\ handle[c] = NoPath
    BY <1>a, <2>1 DEF Steady
  <2>5. Touched(c)' = Touched(c) BY <2>1, <2>3 DEF Touched
  <2>6. FilesTypeOK' BY <2>1 DEF FilesTypeOK, Texts
  <2>7. \A d \in Calls : Over(d) => Over(d)' BY <2>1 DEF Over
  <2>8. \A d \in before'[c] : Over(d)' BY <1>a, <2>1, <2>7 DEF Steady
  <2>9. Steady(c)' BY <1>a, <2>1, <2>3, <2>4, <2>8 DEF Steady
  <2>10. OnlyMoves(c) BY <2>1, <2>3, <2>5 DEF OnlyMoves, Over
  <2>11. QED BY <2>1, <2>6, <2>9, <2>10
<1>4. CASE OpenFile(c)
  <2> DEFINE p == call[c].at
  <2>1. /\ call[c].st = "at" /\ call[c].op \in Writing /\ p \in Paths /\ p # NoPath
        /\ call' = [call EXCEPT ![c].st = "open"]
        /\ OpenToWrite(c, p) /\ UNCHANGED before
    BY <1>a, <1>4, NoPathAssumption DEF OpenFile, At, Steady
  <2>2. /\ call'[c].st = "open" /\ call'[c].at = p /\ call'[c].todo = call[c].todo
        /\ call'[c].op = call[c].op
        /\ call'[c].done = call[c].done /\ call'[c].failed = call[c].failed
    BY <2>1
  <2>3. Touched(c)' = Touched(c) \cup {p} BY <2>1, <2>2 DEF Touched
  <2>4. FilesTypeOK' BY <2>1, FileChanges
  <2>5. \A d \in Calls : Over(d) => Over(d)' BY <2>1 DEF Over
  <2>6. \A d \in before'[c] : Over(d)' BY <1>a, <2>1, <2>5 DEF Steady
  <2>7. handle'[c] = p /\ handle'[Earlier] = NoPath
    BY <2>1, EarlierAssumption DEF OpenToWrite, FilesTypeOK
  <2>8. Steady(c)' BY <1>a, <2>1, <2>2, <2>6, <2>7 DEF Steady
  <2>9. OnlyMoves(c)
    <3>1. \A d \in Calls \ {c} : call'[d] = call[d] /\ before'[d] = before[d] /\ handle'[d] = handle[d]
      BY <2>1, EarlierAssumption DEF OpenToWrite, FilesTypeOK
    <3>2. \A q \in Paths \ {p} : file'[q] = file[q] BY <2>1 DEF OpenToWrite, FilesTypeOK
    <3>3. p \in Touched(c)' /\ call'[c].op # "read" /\ ~Over(c)
      BY <2>1, <2>2, <2>3 DEF Over, Writing
    <3>4. QED BY <2>1, <2>2, <2>3, <3>1, <3>2, <3>3 DEF OnlyMoves
  <2>10. QED BY <2>4, <2>7, <2>8, <2>9
<1>3. CASE Sftp(c) \/ SyncEnds(c)
  <2>1. PICK st \in {"working", "raised", "ok", "failed"} : call' = [call EXCEPT ![c].st = st]
    BY <1>3 DEF Sftp, SyncEnds
  <2>2. UNCHANGED <<before, file, handle>> /\ call[c].st \in {"connecting", "working"}
    BY <1>3 DEF Sftp, SyncEnds
  <2>3. /\ call'[c].st = st /\ call'[c].at = call[c].at /\ call'[c].todo = call[c].todo
        /\ call'[c].op = call[c].op
        /\ call'[c].done = call[c].done /\ call'[c].failed = call[c].failed
    BY <2>1
  <2>4. Touched(c)' = Touched(c) BY <2>1, <2>2, <2>3 DEF Touched
  <2>5. \A d \in Calls : Over(d) => Over(d)' BY <2>1, <2>2 DEF Over
  <2>6. Steady(c)' BY <1>a, <2>2, <2>3, <2>4, <2>5 DEF Steady
  <2>7. OnlyMoves(c) BY <2>1, <2>2, <2>3, <2>4 DEF OnlyMoves, Over
  <2>8. FilesTypeOK' BY <2>2 DEF FilesTypeOK, Texts
  <2>9. QED BY <2>2, <2>6, <2>7, <2>8
<1>5. QED BY <1>1, <1>2, <1>3, <1>4

\* The call is through with a file, one way or the other.
LEMMA ThroughWithFile ==
  ASSUME CallsInv, NEW c \in Calls, call[c].st \in AtFile, UNCHANGED before,
         Succeeds(c) \/ Fails(c)
  PROVE  /\ call'[c].st \notin AtFile /\ call'[c].st # "idle"
         /\ call'[c].at = call[c].at /\ call'[c].todo = call[c].todo
         /\ call'[c].op = call[c].op
         /\ Touched(c)' = Touched(c) \cup {call[c].at}
         /\ call'[c].at \in call'[c].done \cup call'[c].failed
         /\ call[c].done \subseteq call'[c].done /\ call[c].failed \subseteq call'[c].failed
         /\ call'[c].done \subseteq call[c].done \cup {call[c].at}
         /\ Fails(c) => call'[c].failed = call[c].failed \cup {call[c].at}
                        /\ call'[c].done = call[c].done
         /\ \A d \in Calls \ {c} : call'[d] = call[d]
         /\ \A d \in Calls : Over(d) => Over(d)'
<1> USE DEF CallsInv, TypeOK, AtFile
<1>1. call[c].at \in Paths /\ call[c].at # NoPath BY NoPathAssumption DEF Steady
<1>2. CASE Succeeds(c) /\ ~Fails(c) BY <1>1, <1>2 DEF Succeeds, Touched, Over
<1>3. CASE Fails(c) BY <1>1, <1>3 DEF Fails, Touched, Over
<1>4. QED BY <1>2, <1>3

\* The steps at a file.
LEMMA WorksAtFile ==
  ASSUME CallsInv, NEW c \in Calls, Read(c) \/ Delete(c) \/ WriteText(c) \/ Error(c)
  PROVE  FilesTypeOK' /\ Steady(c)' /\ OnlyMoves(c) /\ handle'[Earlier] = NoPath
<1> USE DEF CallsInv, TypeOK
<1> DEFINE p == call[c].at
<1>1. /\ call[c].st \in AtFile /\ UNCHANGED before
      /\ Succeeds(c) \/ Fails(c)
      /\ p \in Paths /\ p # NoPath
  BY NoPathAssumption DEF Read, Delete, WriteText, Error, At, Steady, AtFile
<1>a. /\ Touched(c)' = Touched(c) \cup {p} /\ call'[c].op = call[c].op
      /\ \A d \in Calls \ {c} : call'[d] = call[d]
  BY <1>1, ThroughWithFile
<1>2. \/ call[c].op = "read" /\ handle[c] = NoPath /\ UNCHANGED <<file, handle>>
      \/ call[c].op = "delete" /\ handle[c] = NoPath /\ RemoveFile(p)
      \/ call[c].op \in Writing /\ Write(c, p)
      \/ CloseUnwritten(c)
  BY DEF Read, Delete, WriteText, Error, At, Steady, Writing
<1>3. FilesTypeOK'
  <2>1. CASE UNCHANGED <<file, handle>> BY <2>1 DEF FilesTypeOK, Texts
  <2>2. CASE RemoveFile(p) \/ Write(c, p) \/ CloseUnwritten(c) BY <1>1, <2>2, FileChanges
  <2>3. QED BY <1>2, <2>1, <2>2
<1>4. handle'[c] = NoPath
  BY <1>1, <1>2 DEF RemoveFile, Write, CloseUnwritten, FilesTypeOK, Steady, Writing
<1>5. handle'[Earlier] = NoPath
  BY <1>2, EarlierAssumption DEF RemoveFile, Write, CloseUnwritten, FilesTypeOK
<1>6. Steady(c)'
  <2>1. call'[c].todo \cap (call'[c].done \cup call'[c].failed \cup {call'[c].at}) = {}
    <3>1. /\ call'[c].at = p /\ call'[c].todo = call[c].todo
          /\ call'[c].done \cup call'[c].failed \subseteq call[c].done \cup call[c].failed \cup {p}
      BY <1>1, ThroughWithFile DEF Succeeds, Fails
    <3>2. QED BY <3>1 DEF Steady
  <2>2. \A d \in before'[c] : Over(d)' BY <1>1, ThroughWithFile DEF Steady
  <2>3. QED BY <1>1, <1>4, <2>1, <2>2, ThroughWithFile DEF Steady, AtFile
<1>7. OnlyMoves(c)
  <2>1. \A d \in Calls \ {c} : handle'[d] \in {handle[d], NoPath}
    BY <1>2, EarlierAssumption DEF RemoveFile, Write, CloseUnwritten, FilesTypeOK
  <2>2. \A q \in Paths \ {p} : /\ file'[q] = file[q]
                               /\ \A d \in Calls \ {c} : handle[d] = q => handle'[d] = q
    BY <1>1, <1>2, EarlierAssumption DEF RemoveFile, Write, CloseUnwritten, FilesTypeOK
  <2>3. call[c].op = "read" => file' = file /\ \A d \in Calls \ {c} : handle'[d] = handle[d]
    BY <1>1, <1>2, EarlierAssumption
       DEF RemoveFile, Write, CloseUnwritten, FilesTypeOK, Steady, Writing
  <2>4. ~Over(c) /\ before' = before BY <1>1 DEF Over, AtFile
  <2>5. call[c].done \subseteq call'[c].done /\ call[c].failed \subseteq call'[c].failed
    BY <1>1, ThroughWithFile
  <2>6. QED BY <1>a, <2>1, <2>2, <2>3, <2>4, <2>5 DEF OnlyMoves
<1>8. QED BY <1>3, <1>5, <1>6, <1>7

\* Every step of a call keeps all of it.
LEMMA CallsInvStep ==
  ASSUME CallsInv, NEW c \in Calls, CallStep(c)
  PROVE  CallsInv' /\ OnlyMoves(c)
<1> USE DEF CallsInv
<1>1. FilesTypeOK' /\ Steady(c)' /\ OnlyMoves(c) /\ handle'[Earlier] = NoPath
  BY MovesToFile, WorksAtFile DEF CallStep
<1>2. TypeOK'
  <2>1. call' \in [Calls -> CallRecords]
    BY CallRecordStep DEF TypeOK, CallRecords, CallStates
  <2>2. before' \in [Calls -> SUBSET Calls]
    BY DEF TypeOK, CallStep, Begin, Turn, Sftp, Read, Delete, OpenFile, WriteText, Error, SyncEnds
  <2>3. seen' \in [Calls -> Texts]
    <3>1. CASE Read(c)
      BY <3>1 DEF TypeOK, Read, At, AtFile, Steady, FilesTypeOK
    <3>2. CASE ~Read(c)
      BY <3>2 DEF TypeOK, CallStep, Begin, Turn, Sftp, Delete, OpenFile, WriteText, Error, SyncEnds
    <3>3. QED BY <3>1, <3>2
  <2>4. QED BY <1>1, <2>1, <2>2, <2>3 DEF TypeOK, CallRecords, CallStates, Texts
<1>3. ASSUME NEW d \in Calls \ {c} PROVE Steady(d)'
  <2>1. Steady(d) /\ c \notin before[d] BY <1>1 DEF Steady, OnlyMoves
  <2>2. /\ call'[d] = call[d] /\ before'[d] = before[d] /\ handle'[d] \in {handle[d], NoPath}
        /\ \A e \in Calls \ {c} : call'[e] = call[e]
    BY <1>1 DEF OnlyMoves
  <2>3. before[d] \subseteq Calls BY DEF TypeOK
  <2>4. Touched(d)' = Touched(d) /\ \A e \in before[d] : Over(e)'
    BY <2>1, <2>2, <2>3 DEF Touched, Over, Steady
  <2>5. QED BY <2>1, <2>2, <2>4 DEF Steady
<1>4. QED BY <1>1, <1>2, <1>3

-----------------------------------------------------------------------------
(* What is written is there.                                               *)

\* No call that was not over before c has come to p to change it.
Undisturbed(c, p) == Changers(c, p) \subseteq before[c]

\* What c writes there is there from the opening on.
Keeps(c) ==
  call[c].op \in Writing =>
    \A p \in Paths : Undisturbed(c, p) =>
      /\ p \in call[c].done => file[p] = {c}
      /\ call[c].st = "open" /\ call[c].at = p => handle[c] = p /\ file[p] = {}

\* A call that is undisturbed at a path after the step of another was so before, and
\* the other has not come to that path to change it.
LEMMA UndisturbedBefore ==
  ASSUME CallsInv, NEW d \in Calls, OnlyMoves(d), NEW c \in Calls \ {d}, NEW p \in Paths,
         Undisturbed(c, p)'
  PROVE  /\ Undisturbed(c, p)
         /\ p \notin Touched(d)' \/ call'[d].op = "read"
<1>1. \A e \in Calls \ {d} : call'[e] = call[e] /\ before'[e] = before[e] BY DEF OnlyMoves
<1>2. d \notin before[c] BY DEF OnlyMoves, CallsInv, Steady
<1>3. d \notin Changers(c, p)' BY <1>1, <1>2 DEF Undisturbed
<1>4. p \notin Touched(d)' \/ call'[d].op = "read" BY <1>3 DEF Changers
<1>5. call[d].st = "idle" => Touched(d) = {} BY DEF CallsInv, Steady, Touched
<1>6. Changers(c, p) \subseteq Changers(c, p)'
  BY <1>1, <1>4, <1>5 DEF Changers, OnlyMoves, Touched
<1>7. QED BY <1>1, <1>4, <1>6 DEF Undisturbed

\* What the others have written stays.
LEMMA OthersKeep ==
  ASSUME CallsInv, NEW d \in Calls, OnlyMoves(d), NEW c \in Calls \ {d}, Keeps(c)
  PROVE  Keeps(c)'
<1> SUFFICES ASSUME call'[c].op \in Writing, NEW p \in Paths, Undisturbed(c, p)'
             PROVE  /\ p \in call'[c].done => file'[p] = {c}
                    /\ call'[c].st = "open" /\ call'[c].at = p => handle'[c] = p /\ file'[p] = {}
  BY DEF Keeps
<1>1. call'[c] = call[c] BY DEF OnlyMoves
<1>2. Undisturbed(c, p) /\ (p \notin Touched(d)' \/ call'[d].op = "read")
  BY UndisturbedBefore
<1>3. file'[p] = file[p] /\ (handle[c] = p => handle'[c] = p)
  BY <1>2 DEF OnlyMoves
<1>4. QED BY <1>1, <1>2, <1>3 DEF Keeps

\* What the call itself has written stays too, and the rest is added to it.
LEMMA OwnKeeps ==
  ASSUME CallsInv, NEW c \in Calls, CallStep(c), Keeps(c), OnlyMoves(c)
  PROVE  Keeps(c)'
<1> USE DEF CallsInv, TypeOK
<1> SUFFICES ASSUME call'[c].op \in Writing, NEW q \in Paths, Undisturbed(c, q)'
             PROVE  /\ q \in call'[c].done => file'[q] = {c}
                    /\ call'[c].st = "open" /\ call'[c].at = q => handle'[c] = q /\ file'[q] = {}
  BY DEF Keeps
<1>a. Steady(c) OBVIOUS
<1>1. CASE \E op \in Ops, ps \in SUBSET Paths : Begin(c, op, ps)
  <2>1. PICK op \in Ops, ps \in SUBSET Paths : Begin(c, op, ps) BY <1>1
  <2>2. PICK st \in {"connecting", "failed"} : call' = [call EXCEPT ![c] = Fresh(st, op, ps)]
    BY <2>1 DEF Begin
  <2>3. call'[c].done = {} /\ call'[c].st # "open" BY <2>2 DEF Fresh
  <2>4. QED BY <2>3
<1>2. CASE ~\E op \in Ops, ps \in SUBSET Paths : Begin(c, op, ps)
  <2>1. call[c].st # "idle"
    BY <1>2 DEF CallStep, Turn, Sftp, SyncEnds, Read, Delete, OpenFile, WriteText, Error, At
  <2>2. Undisturbed(c, q) /\ call[c].op \in Writing
    BY <2>1 DEF OnlyMoves, Undisturbed, Changers, Touched
  <2>3. /\ q \in call[c].done => file[q] = {c}
        /\ call[c].st = "open" /\ call[c].at = q => handle[c] = q /\ file[q] = {}
    BY <2>2 DEF Keeps
  <2>4. ASSUME NEW p \in Paths, Turn(c, p)
        PROVE  /\ q \in call'[c].done => file'[q] = {c}
               /\ call'[c].st = "open" /\ call'[c].at = q => handle'[c] = q /\ file'[q] = {}
    <3>1. /\ call' = [call EXCEPT ![c].st = "at", ![c].at = p, ![c].todo = @ \ {p}]
          /\ file' = file
      BY <2>4 DEF Turn
    <3>2. call'[c] = [call[c] EXCEPT !.st = "at", !.at = p, !.todo = call[c].todo \ {p}]
      BY <3>1
    <3>3. call'[c].done = call[c].done /\ call'[c].st # "open" BY <3>2
    <3>4. QED BY <2>3, <3>1, <3>3
  <2>10. CASE OpenFile(c)
    <3>1. /\ call' = [call EXCEPT ![c].st = "open"] /\ OpenToWrite(c, call[c].at)
          /\ call[c].st = "at"
      BY <2>10 DEF OpenFile, At
    <3>2. call[c].at \in Paths /\ call[c].at \notin call[c].done
      BY <1>a, <3>1 DEF Steady, AtFile
    <3>3. call'[c].done = call[c].done /\ call'[c].at = call[c].at BY <3>1
    <3>4. QED BY <2>3, <3>1, <3>2, <3>3 DEF OpenToWrite, FilesTypeOK
  <2>5. CASE Sftp(c) \/ SyncEnds(c)
    <3>1. PICK st \in {"working", "raised", "ok", "failed"} : call' = [call EXCEPT ![c].st = st]
      BY <2>5 DEF Sftp, SyncEnds
    <3>2. QED BY <2>3, <2>5, <3>1 DEF Sftp, SyncEnds
  <2>6. CASE Read(c) \/ Delete(c)
    BY <2>2, <2>6 DEF Read, Delete, At, Writing
  <2>7. CASE WriteText(c)
    <3>1. /\ call[c].st = "open" /\ Write(c, call[c].at) /\ UNCHANGED before
          /\ Succeeds(c) \/ Fails(c)
      BY <2>7 DEF WriteText
    <3>2. call'[c].st # "open" /\ call'[c].done \subseteq call[c].done \cup {call[c].at}
      BY <3>1, ThroughWithFile DEF AtFile
    <3>3. call[c].at \in Paths /\ call[c].at \notin call[c].done
      BY <1>a, <3>1 DEF Steady, AtFile
    <3>4. CASE q = call[c].at
      <4>1. handle[c] = q /\ file[q] = {} BY <2>3, <3>1, <3>4
      <4>2. file'[q] = {c} BY <3>1, <3>4, <4>1 DEF Write, FilesTypeOK
      <4>3. QED BY <3>2, <4>2
    <3>5. CASE q # call[c].at
      <4>1. file'[q] = file[q] BY <3>1, <3>5 DEF Write, FilesTypeOK
      <4>2. QED BY <2>3, <3>2, <3>5, <4>1
    <3>6. QED BY <3>4, <3>5
  <2>8. CASE Error(c)
    <3>1. call[c].st \in AtFile /\ Fails(c) /\ CloseUnwritten(c) /\ UNCHANGED before
      BY <2>8 DEF Error, AtFile
    <3>2. call'[c].st # "open" /\ call'[c].done = call[c].done
      BY <3>1, ThroughWithFile DEF AtFile
    <3>3. QED BY <2>3, <3>1, <3>2 DEF CloseUnwritten
  <2>11. QED BY <1>2, <2>4, <2>5, <2>6, <2>7, <2>8, <2>10 DEF CallStep
<1>3. QED BY <1>1, <1>2

-----------------------------------------------------------------------------
(* Why a file is damaged.                                                  *)

\* Calls c and d that change p and of which neither was over before the other.
Meet(c, d, p) == d \in Changers(c, p) /\ d \notin before[c] /\ c \notin before[d]

\* Whose text is behind an open file came to it meanwhile.
Behind(c) ==
  handle[c] # NoPath => \A w \in file[handle[c]] : w \in Calls /\ Meet(c, w, handle[c])

\* Who has emptied a file and not filled it is still at it, or has failed.
Emptied(p) ==
  file[p] = {} =>
    \E c \in Calls : /\ call[c].op \in Writing
                     /\ handle[c] = p \/ p \in call[c].failed \ call[c].done

\* Whose texts are mixed have met.
Mixed(p) ==
  \/ file[p] \in {NoFile, {}} \/ \E w \in Calls \cup {Earlier} : file[p] = {w}
  \/ \E c, d \in Calls : call[c].op \in Writing /\ p \in Touched(c) /\ Meet(c, d, p)

\* Who has met has met for good.
LEMMA MetForGood ==
  ASSUME CallsInv, NEW e \in Calls, OnlyMoves(e), NEW c \in Calls, NEW d \in Calls, NEW p \in Paths,
         Meet(c, d, p), p \in Touched(c)
  PROVE  Meet(c, d, p)' /\ p \in Touched(c)' /\ call'[c].op = call[c].op
<1>1. call[c].st # "idle" /\ call[d].st # "idle"
  BY NoPathAssumption DEF CallsInv, Steady, Touched, Meet, Changers
<1>2. \A u \in {c, d} : /\ call'[u].op = call[u].op /\ before'[u] = before[u]
                        /\ Touched(u) \subseteq Touched(u)'
  BY <1>1 DEF OnlyMoves, Touched
<1>3. QED BY <1>2 DEF Meet, Changers

\* What a step does to the files, and that what has failed has failed for good.
LEMMA FileEffects ==
  ASSUME CallsInv, NEW e \in Calls, CallStep(e)
  PROVE  /\ call[e].failed \ call[e].done \subseteq call'[e].failed \ call'[e].done
         /\ \/ UNCHANGED <<file, handle>>
            \/ \E p \in Paths :
                 OpenToWrite(e, p) /\ call[e].op \in Writing /\ handle[e] = NoPath
                 /\ call[e].st # "idle"
            \/ /\ call[e].at \in Paths
               /\ \/ Write(e, call[e].at) /\ call[e].op \in Writing /\ call[e].st = "open"
                  \/ /\ CloseUnwritten(e)
                     /\ call[e].at \in call'[e].failed \ call'[e].done
                  \/ RemoveFile(call[e].at) /\ handle[e] = NoPath
<1> USE DEF CallsInv, TypeOK
<1>a. Steady(e) OBVIOUS
<1>1. CASE \E op \in Ops, ps \in SUBSET Paths : Begin(e, op, ps)
  BY <1>a, <1>1 DEF Begin, Steady
<1>2. ASSUME NEW p \in Paths, Turn(e, p)
      PROVE  /\ call[e].failed \ call[e].done \subseteq call'[e].failed \ call'[e].done
             /\ UNCHANGED <<file, handle>>
  <2>1. call' = [call EXCEPT ![e].st = "at", ![e].at = p, ![e].todo = @ \ {p}]
    BY <1>2 DEF Turn
  <2>2. call'[e] = [call[e] EXCEPT !.st = "at", !.at = p, !.todo = call[e].todo \ {p}]
    BY <2>1
  <2>3. call'[e].failed = call[e].failed /\ call'[e].done = call[e].done BY <2>2
  <2>4. QED BY <1>2, <2>3 DEF Turn
<1>6. CASE OpenFile(e)
  <2>1. /\ call[e].st = "at" /\ call[e].op \in Writing /\ OpenToWrite(e, call[e].at)
        /\ call' = [call EXCEPT ![e].st = "open"]
    BY <1>6 DEF OpenFile, At
  <2>2. call[e].at \in Paths /\ handle[e] = NoPath BY <1>a, <2>1 DEF Steady, AtFile
  <2>3. call'[e].failed = call[e].failed /\ call'[e].done = call[e].done BY <2>1
  <2>4. QED BY <2>1, <2>2, <2>3
<1>3. CASE Sftp(e) \/ SyncEnds(e)
  <2>1. PICK st \in {"working", "raised", "ok", "failed"} : call' = [call EXCEPT ![e].st = st]
    BY <1>3 DEF Sftp, SyncEnds
  <2>2. QED BY <1>3, <2>1 DEF Sftp, SyncEnds
<1>4. CASE Read(e) \/ Delete(e) \/ WriteText(e) \/ Error(e)
  <2>1. /\ call[e].st \in AtFile /\ UNCHANGED before
        /\ Succeeds(e) \/ Fails(e)
        /\ call[e].at \in Paths /\ call[e].at \notin call[e].done \cup call[e].failed
    BY <1>a, <1>4 DEF Read, Delete, WriteText, Error, At, Steady, AtFile
  <2>2. call[e].failed \ call[e].done \subseteq call'[e].failed \ call'[e].done
    BY <2>1, ThroughWithFile
  <2>3. CASE Error(e)
    <3>1. Fails(e) /\ CloseUnwritten(e) BY <2>3 DEF Error
    <3>2. call'[e].failed = call[e].failed \cup {call[e].at} /\ call'[e].done = call[e].done
      BY <2>1, <3>1, ThroughWithFile
    <3>3. QED BY <2>1, <2>2, <3>1, <3>2
  <2>4. CASE Read(e) \/ Delete(e) \/ WriteText(e)
    BY <1>a, <2>1, <2>2, <2>4 DEF Read, Delete, WriteText, At, Steady, Writing
  <2>5. QED BY <1>4, <2>3, <2>4
<1>5. QED BY <1>1, <1>2, <1>3, <1>4, <1>6 DEF CallStep

DamageInv ==
  /\ \A c \in Calls : Behind(c)
  /\ \A p \in Paths : Emptied(p) /\ Mixed(p)

\* What is behind the open files came to them meanwhile, also after a step.
LEMMA BehindStep ==
  ASSUME CallsInv, DamageInv, NEW e \in Calls, CallStep(e), OnlyMoves(e), NEW c \in Calls
  PROVE  Behind(c)'
<1> USE DEF CallsInv, TypeOK, FilesTypeOK
<1> SUFFICES ASSUME NEW p \in Paths, handle'[c] = p, NEW w \in file'[p]
             PROVE  w \in Calls /\ Meet(c, w, p)'
  <2>1. handle' \in [Calls \cup {Earlier} -> Paths \cup {NoPath}] BY CallsInvStep
  <2>2. QED BY <2>1 DEF Behind
<1>1. ASSUME handle[c] = p, w \in file[p] PROVE w \in Calls /\ Meet(c, w, p)'
  <2>1. w \in Calls /\ Meet(c, w, p) BY <1>1, NoPathAssumption DEF DamageInv, Behind
  <2>2. p \in Touched(c) BY <1>1, NoPathAssumption DEF Steady, Touched
  <2>3. QED BY <2>1, <2>2, MetForGood
<1>2. CASE UNCHANGED <<file, handle>> BY <1>1, <1>2
<1>3. ASSUME NEW q \in Paths, OpenToWrite(e, q) PROVE w \in Calls /\ Meet(c, w, p)'
  <2>1. p # q BY <1>3 DEF OpenToWrite
  <2>2. handle[c] = p /\ file'[p] = file[p]
    BY <1>3, <2>1, NoPathAssumption DEF OpenToWrite
  <2>3. QED BY <1>1, <2>2
<1>4. CASE /\ call[e].st = "open" /\ call[e].at \in Paths
           /\ Write(e, call[e].at) /\ call[e].op \in Writing
  <2>1. c # e /\ handle[c] = p BY <1>4, NoPathAssumption DEF Write
  <2>2. CASE w \in file[p] BY <1>1, <2>1, <2>2
  <2>3. CASE w \notin file[p]
    <3>1. w = e /\ p = call[e].at BY <1>4, <2>1, <2>3 DEF Write
    <3>2. p \in Touched(e) BY <1>4, <3>1, NoPathAssumption DEF Touched
    <3>3. e \in Changers(c, p)'
      BY <1>4, <2>1, <3>2 DEF Changers, OnlyMoves, Writing
    <3>4. call[c].st = "open" BY <2>1, NoPathAssumption DEF Steady
    <3>5. ~Over(c) /\ ~Over(e) BY <3>4 DEF Over, OnlyMoves
    <3>6. e \notin before[c] /\ c \notin before[e] BY <3>5 DEF Steady
    <3>7. before'[c] = before[c] /\ before'[e] = before[e]
      BY <1>4, <2>1 DEF OnlyMoves
    <3>8. QED BY <3>1, <3>3, <3>6, <3>7 DEF Meet
  <2>4. QED BY <2>2, <2>3
<1>5. CASE CloseUnwritten(e)
  BY <1>1, <1>5, NoPathAssumption DEF CloseUnwritten
<1>6. CASE call[e].at \in Paths /\ RemoveFile(call[e].at)
  <2>1. handle[c] = p /\ p # call[e].at BY <1>6, NoPathAssumption DEF RemoveFile
  <2>2. QED BY <1>1, <1>6, <2>1 DEF RemoveFile
<1>7. QED BY <1>2, <1>3, <1>4, <1>5, <1>6, FileEffects

\* Who has emptied a file has still failed, or is still at it, after a step.
LEMMA EmptiedStep ==
  ASSUME CallsInv, DamageInv, NEW e \in Calls, CallStep(e), OnlyMoves(e), NEW p \in Paths
  PROVE  Emptied(p)'
<1> USE DEF CallsInv, TypeOK, FilesTypeOK
<1> SUFFICES ASSUME file'[p] = {}
             PROVE  \E c \in Calls : /\ call'[c].op \in Writing
                                     /\ handle'[c] = p \/ p \in call'[c].failed \ call'[c].done
  BY DEF Emptied
<1>a. ASSUME file[p] = {},
             handle[e] = p => handle'[e] = p \/ p \in call'[e].failed \ call'[e].done,
             \A c \in Calls \ {e} : handle[c] = p => handle'[c] = p
      PROVE  \E c \in Calls : /\ call'[c].op \in Writing
                              /\ handle'[c] = p \/ p \in call'[c].failed \ call'[c].done
  <2>1. PICK c \in Calls : /\ call[c].op \in Writing
                           /\ handle[c] = p \/ p \in call[c].failed \ call[c].done
    BY <1>a DEF DamageInv, Emptied
  <2>2. CASE c # e BY <1>a, <2>1, <2>2 DEF OnlyMoves
  <2>3. CASE c = e
    <3>1. call[e].st # "idle" BY <2>1, <2>3, NoPathAssumption DEF Steady
    <3>2. call'[e].op = call[e].op BY <3>1 DEF OnlyMoves
    <3>3. QED BY <1>a, <2>1, <2>3, <3>2, FileEffects
  <2>4. QED BY <2>2, <2>3
<1>2. CASE UNCHANGED <<file, handle>> BY <1>a, <1>2
<1>3. ASSUME NEW q \in Paths, OpenToWrite(e, q), call[e].op \in Writing, handle[e] = NoPath,
             call[e].st # "idle"
      PROVE  \E c \in Calls : /\ call'[c].op \in Writing
                              /\ handle'[c] = p \/ p \in call'[c].failed \ call'[c].done
  <2>1. CASE q = p BY <1>3, <2>1 DEF OpenToWrite, OnlyMoves
  <2>2. CASE q # p
    <3>1. file[p] = {} /\ \A c \in Calls \ {e} : handle'[c] = handle[c]
      BY <1>3, <2>2 DEF OpenToWrite
    <3>2. QED BY <1>a, <1>3, <3>1, NoPathAssumption
  <2>3. QED BY <2>1, <2>2
<1>4. CASE call[e].at \in Paths /\ Write(e, call[e].at)
  <2>1. \A c \in Calls \ {e} : handle'[c] = handle[c] BY <1>4 DEF Write
  <2>2. ~(handle[e] = p /\ call[e].at = p)
    <3>1. ASSUME handle[e] = p, call[e].at = p PROVE e \in file'[p]
      BY <1>4, <3>1 DEF Write
    <3>2. QED BY <3>1
  <2>3. file[p] = {} BY <1>4, <2>2 DEF Write
  <2>4. handle[e] # p BY <2>2, NoPathAssumption DEF Steady
  <2>5. QED BY <1>a, <2>1, <2>3, <2>4
<1>5. CASE CloseUnwritten(e) /\ call[e].at \in call'[e].failed \ call'[e].done
  <2>1. file[p] = {} /\ \A c \in Calls \ {e} : handle'[c] = handle[c]
    BY <1>5 DEF CloseUnwritten
  <2>2. handle[e] = p => p = call[e].at BY NoPathAssumption DEF Steady
  <2>3. QED BY <1>a, <1>5, <2>1, <2>2
<1>6. CASE call[e].at \in Paths /\ RemoveFile(call[e].at) /\ handle[e] = NoPath
  <2>1. p # call[e].at BY <1>6, FilesAssumption DEF RemoveFile
  <2>2. file[p] = {} /\ \A c \in Calls \ {e} : handle[c] = p => handle'[c] = p
    BY <1>6, <2>1 DEF RemoveFile
  <2>3. QED BY <1>a, <1>6, <2>2, NoPathAssumption
<1>7. QED BY <1>2, <1>3, <1>4, <1>5, <1>6, FileEffects

\* Whose texts a step mixes have met.
LEMMA MixedStep ==
  ASSUME CallsInv, DamageInv, NEW e \in Calls, CallStep(e), OnlyMoves(e), NEW p \in Paths
  PROVE  Mixed(p)'
<1> USE DEF CallsInv, TypeOK, FilesTypeOK
<1>1. ASSUME NEW c \in Calls, NEW d \in Calls,
             call[c].op \in Writing, p \in Touched(c), Meet(c, d, p)
      PROVE  Mixed(p)'
  BY <1>1, MetForGood DEF Mixed
<1>2. CASE file'[p] = file[p]
  BY <1>1, <1>2 DEF DamageInv, Mixed
<1>3. CASE file'[p] \in {NoFile, {}} BY <1>3 DEF Mixed
<1>4. CASE /\ call[e].st = "open" /\ call[e].at \in Paths
           /\ Write(e, call[e].at) /\ call[e].op \in Writing
  <2>1. CASE handle[e] = p /\ call[e].at = p
    <3>1. PICK rest \in {{}, file[p]} : file'[p] = {e} \cup rest BY <1>4, <2>1 DEF Write
    <3>2. CASE rest = {} BY <3>1, <3>2 DEF Mixed
    <3>3. ASSUME NEW w \in file[p] PROVE Mixed(p)'
      <4>1. w \in Calls /\ Meet(e, w, p)
        BY <2>1, NoPathAssumption DEF DamageInv, Behind
      <4>2. p \in Touched(e) BY <1>4, <2>1 DEF Touched
      <4>3. QED BY <1>1, <1>4, <4>1, <4>2
    <3>4. file[p] = {} \/ \E w \in file[p] : TRUE OBVIOUS
    <3>5. QED BY <3>1, <3>2, <3>3, <3>4
  <2>2. CASE ~(handle[e] = p /\ call[e].at = p)
    <3>1. file'[p] = file[p] BY <1>4, <2>2 DEF Write
    <3>2. QED BY <1>2, <3>1
  <2>3. QED BY <2>1, <2>2
<1>5. ASSUME NEW q \in Paths, OpenToWrite(e, q) \/ RemoveFile(q) PROVE Mixed(p)'
  <2>1. file'[p] \in {file[p], NoFile, {}} BY <1>5 DEF OpenToWrite, RemoveFile
  <2>2. QED BY <1>2, <1>3, <2>1
<1>6. CASE UNCHANGED file BY <1>2, <1>6
<1>7. QED BY <1>4, <1>5, <1>6, FileEffects DEF CloseUnwritten

-----------------------------------------------------------------------------
(* All calls together.                                                     *)

\* The inductive invariant of Spec.
IInv == CallsInv /\ (\A c \in Calls : Keeps(c)) /\ DamageInv

\* It holds at the start, when every file is an earlier one.
LEMMA IInvInit == Init => IInv
<1> SUFFICES ASSUME Init PROVE IInv OBVIOUS
<1> USE EarlierAssumption, FilesAssumption, NoPathAssumption DEF Init, FilesInit
<1>1. \A c \in Calls : call[c] = [st |-> "idle", op |-> "read", todo |-> {}, at |-> NoPath,
                                  done |-> {}, failed |-> {}]
  BY DEF Fresh
<1>2. FilesTypeOK BY DEF FilesTypeOK, Texts
<1>3. TypeOK BY <1>2 DEF TypeOK, Fresh, Ops, Texts
<1>4. CallsInv BY <1>1, <1>3 DEF CallsInv, Steady, Touched, AtFile
<1>5. \A c \in Calls : Keeps(c) BY <1>1 DEF Keeps, Writing
<1>6. DamageInv BY DEF DamageInv, Behind, Emptied, Mixed
<1>7. QED BY <1>4, <1>5, <1>6 DEF IInv

\* Every step keeps it.
LEMMA IInvStep == IInv /\ [Next]_vars => IInv'
<1> SUFFICES ASSUME IInv, [Next]_vars PROVE IInv' OBVIOUS
<1> USE DEF IInv
<1>1. CASE Next
  <2>1. PICK c \in Calls : CallStep(c) BY <1>1 DEF Next, CallStep
  <2>2. CallsInv' /\ OnlyMoves(c) BY <2>1, CallsInvStep
  <2>3. \A d \in Calls : Keeps(d)' BY <2>1, <2>2, OwnKeeps, OthersKeep
  <2>4. DamageInv' BY <2>1, <2>2, BehindStep, EmptiedStep, MixedStep DEF DamageInv
  <2>5. QED BY <2>2, <2>3, <2>4
<1>2. CASE UNCHANGED vars
  <2>1. TypeOK' BY <1>2 DEF vars, CallsInv, TypeOK, FilesTypeOK, Texts
  <2>2. \A c \in Calls : Touched(c)' = Touched(c) /\ Over(c)' = Over(c)
    BY <1>2 DEF vars, Touched, Over
  <2>3. before' = before /\ before \in [Calls -> SUBSET Calls] /\ call' = call /\ handle' = handle
        /\ file' = file
    BY <1>2 DEF vars, CallsInv, TypeOK
  <2>4. CallsInv' BY <2>1, <2>2, <2>3 DEF CallsInv, Steady, AtFile
  <2>5. \A c \in Calls, p \in Paths : Changers(c, p)' = Changers(c, p)
    BY <2>2, <2>3 DEF Changers
  <2>6. \A c \in Calls : Keeps(c)' BY <2>3, <2>5 DEF Keeps, Undisturbed
  <2>7. \A c, d, p : Meet(c, d, p)' = Meet(c, d, p) BY <2>2, <2>3 DEF Meet, Changers
  <2>8. DamageInv' BY <2>2, <2>3, <2>7 DEF DamageInv, Behind, Emptied, Mixed
  <2>9. QED BY <2>4, <2>6, <2>8
<1>3. QED BY <1>1, <1>2

\* It holds throughout.
THEOREM IInvHolds == Spec => []IInv
<1>1. QED BY IInvInit, IInvStep, PTL DEF Spec

\* Every variable has its type, and what is open for writing is there.
THEOREM TypeCorrect == Spec => []TypeOK
<1>1. IInv => TypeOK BY DEF IInv, CallsInv
<1>2. QED BY <1>1, IInvHolds, PTL

\* What ssh_write_file, ssh_upload_file and ssh_sync_directory report as written is
\* there, whatever other calls that were over before have done to the file.
THEOREM WrittenIsThereHolds == Spec => []WrittenIsThere
<1>1. IInv => WrittenIsThere BY DEF IInv, Keeps, Undisturbed, WrittenIsThere, CallsInv, TypeOK
<1>2. QED BY <1>1, IInvHolds, PTL

\* A file is found empty or mixed only if a write of it has failed, is going on, or
\* met another call that changes it.
THEOREM DamageIsExplainedHolds == Spec => []DamageIsExplained
<1>1. ASSUME IInv, NEW p \in Paths
      PROVE  \/ file[p] = NoFile \/ \E w \in Calls \cup {Earlier} : file[p] = {w}
             \/ \E c \in Calls : /\ call[c].op \in Writing /\ p \in Touched(c)
                                 /\ \/ p \notin call[c].done
                                    \/ \E d \in Changers(c, p) : d \notin before[c] /\ c \notin before[d]
  <2>1. CASE file[p] = {}
    <3>1. PICK c \in Calls : /\ call[c].op \in Writing
                             /\ handle[c] = p \/ p \in call[c].failed \ call[c].done
      BY <1>1, <2>1 DEF IInv, DamageInv, Emptied
    <3>2. p \in Touched(c) /\ p \notin call[c].done
      BY <1>1, <3>1, NoPathAssumption DEF IInv, CallsInv, Steady, Touched, AtFile
    <3>3. QED BY <3>1, <3>2
  <2>2. CASE file[p] # {}
    BY <1>1, <2>2 DEF IInv, DamageInv, Mixed, Meet
  <2>3. QED BY <2>1, <2>2
<1>2. IInv => DamageIsExplained BY <1>1 DEF DamageIsExplained
<1>3. QED BY <1>2, IInvHolds, PTL

-----------------------------------------------------------------------------
(* What a read finds.                                                      *)

\* The calls that have come to path p to change it.
Comers(p) == {d \in Calls : call[d].op # "read" /\ p \in Touched(d)}

\* Calls that were through with p one after the other.
InTurn(S, p) ==
  \A d \in S : p \in call[d].done /\ \A e \in S \ {d} : e \in before[d] \/ d \in before[e]

\* What calls that changed p in turn leave there is what the last of them did.
LastStands(p) ==
  InTurn(Comers(p), p) =>
    \/ Comers(p) = {} /\ file[p] = {Earlier}
    \/ \E d \in Comers(p) : /\ Comers(p) \ {d} \subseteq before[d]
                            /\ file[p] = IF call[d].op = "delete" THEN NoFile ELSE {d}

\* A read is over once it has read.
ReadsOnce(c) == call[c].op = "read" /\ call[c].done # {} => Over(c)

\* What ReadIsLastWrite says of one read of one path.
ReadsLast(c, p) ==
  LET earlier == Changers(c, p) \cap before[c] IN
  /\ call[c].op = "read" /\ p \in call[c].done
  /\ \A d \in Changers(c, p) : d \in before[c] \/ c \in before[d]
  /\ InTurn(earlier, p)
  => \/ earlier = {} /\ seen[c] = {Earlier}
     \/ \E d \in earlier : seen[c] = {d} /\ earlier \ {d} \subseteq before[d]

ReadInv ==
  /\ \A p \in Paths : LastStands(p)
  /\ \A c \in Calls : ReadsOnce(c) /\ \A p \in Paths : ReadsLast(c, p)

\* A call is through with a path only by doing what it came for.
LEMMA NewlyDone ==
  ASSUME CallsInv, NEW c \in Calls, CallStep(c), NEW p \in Paths,
         p \in call'[c].done, p \notin call[c].done
  PROVE  /\ call[c].st \in AtFile /\ call[c].at = p /\ UNCHANGED before
         /\ call'[c].op = call[c].op
         /\ Read(c) \/ Delete(c) \/ WriteText(c)
<1> USE DEF CallsInv, TypeOK
<1>1. ~\E op \in Ops, ps \in SUBSET Paths : Begin(c, op, ps)
  <2> SUFFICES ASSUME NEW op \in Ops, NEW ps \in SUBSET Paths, Begin(c, op, ps) PROVE FALSE
    OBVIOUS
  <2>1. PICK st \in {"connecting", "failed"} : call' = [call EXCEPT ![c] = Fresh(st, op, ps)]
    BY DEF Begin
  <2>2. call'[c].done = {} BY <2>1 DEF Fresh
  <2>3. QED BY <2>2
<1>2. ~\E q \in Paths : Turn(c, q)
  <2> SUFFICES ASSUME NEW q \in Paths, Turn(c, q) PROVE FALSE OBVIOUS
  <2>1. call' = [call EXCEPT ![c].st = "at", ![c].at = q, ![c].todo = @ \ {q}] BY DEF Turn
  <2>2. call'[c] = [call[c] EXCEPT !.st = "at", !.at = q, !.todo = call[c].todo \ {q}] BY <2>1
  <2>3. call'[c].done = call[c].done BY <2>2
  <2>4. QED BY <2>3
<1>3. ~Sftp(c) /\ ~OpenFile(c) /\ ~SyncEnds(c) BY DEF Sftp, OpenFile, SyncEnds
<1>4. ~Error(c)
  <2> SUFFICES ASSUME Error(c) PROVE FALSE OBVIOUS
  <2>1. call[c].st \in AtFile /\ Fails(c) /\ UNCHANGED before BY DEF Error, AtFile
  <2>2. QED BY <2>1, ThroughWithFile
<1>5. Read(c) \/ Delete(c) \/ WriteText(c) BY <1>1, <1>2, <1>3, <1>4 DEF CallStep
<1>6. call[c].st \in AtFile /\ UNCHANGED before /\ (Succeeds(c) \/ Fails(c))
  BY <1>5 DEF Read, Delete, WriteText, At, AtFile
<1>7. call'[c].op = call[c].op /\ call'[c].done \subseteq call[c].done \cup {call[c].at}
  BY <1>6, ThroughWithFile
<1>8. QED BY <1>5, <1>6, <1>7

\* What a call has done at a path it does not undo.
LEMMA DoneStays ==
  ASSUME CallsInv, NEW c \in Calls, CallStep(c), NEW p \in Paths, p \in call[c].done
  PROVE  file'[p] = file[p]
<1> USE DEF CallsInv, TypeOK
<1>a. Steady(c) OBVIOUS
<1>1. CASE \E q \in Paths : Turn(c, q) BY <1>1 DEF Turn
<1>2. CASE Read(c) \/ Delete(c) \/ OpenFile(c) \/ WriteText(c) \/ Error(c)
  <2>1. call[c].at # p
    BY <1>2, <1>a DEF Read, Delete, OpenFile, WriteText, Error, At, AtFile, Steady
  <2>2. QED BY <1>2, <2>1 DEF Read, Delete, OpenFile, WriteText, Error, OpenToWrite, RemoveFile, Write,
                              CloseUnwritten, FilesTypeOK
<1>3. CASE (\E op \in Ops, ps \in SUBSET Paths : Begin(c, op, ps)) \/ Sftp(c) \/ SyncEnds(c)
  BY <1>3 DEF Begin, Sftp, SyncEnds
<1>4. QED BY <1>1, <1>2, <1>3 DEF CallStep

\* A step of c keeps the others among the comers, and c.
LEMMA ComersStep ==
  ASSUME CallsInv, NEW c \in Calls, OnlyMoves(c), NEW p \in Paths
  PROVE  /\ Comers(p) \ {c} = Comers(p)' \ {c}
         /\ c \in Comers(p) => c \in Comers(p)'
         /\ \A d \in Calls \ {c} : call'[d] = call[d] /\ before'[d] = before[d] /\ c \notin before[d]
         /\ \A d \in Calls \ {c} : Touched(d)' = Touched(d)
<1>1. \A d \in Calls \ {c} : call'[d] = call[d] /\ before'[d] = before[d] /\ c \notin before[d]
  BY DEF OnlyMoves, CallsInv, Steady
<1>2. call[c].st = "idle" => Touched(c) = {} BY DEF CallsInv, Steady, Touched
<1>3. QED BY <1>1, <1>2 DEF Comers, OnlyMoves, Touched

\* What the last of them did stands, also when c has done the last.
LEMMA LastStandsStep ==
  ASSUME CallsInv, CallsInv', NEW c \in Calls, CallStep(c), OnlyMoves(c), Keeps(c)',
         NEW p \in Paths, LastStands(p)
  PROVE  LastStands(p)'
<1> SUFFICES ASSUME InTurn(Comers(p), p)'
             PROVE  \/ Comers(p)' = {} /\ file'[p] = {Earlier}
                    \/ \E d \in Comers(p)' :
                         /\ Comers(p)' \ {d} \subseteq before'[d]
                         /\ file'[p] = IF call'[d].op = "delete" THEN NoFile ELSE {d}
  BY DEF LastStands
<1>0. /\ Comers(p) \ {c} = Comers(p)' \ {c}
      /\ c \in Comers(p) => c \in Comers(p)'
      /\ \A d \in Calls \ {c} : call'[d] = call[d] /\ before'[d] = before[d] /\ c \notin before[d]
  BY ComersStep
<1>a. Comers(p) \subseteq Calls /\ Comers(p)' \subseteq Calls BY DEF Comers
<1>b. \A d \in Comers(p)' :
         p \in call'[d].done /\ \A e \in Comers(p)' \ {d} : e \in before'[d] \/ d \in before'[e]
  BY DEF InTurn
<1>1. CASE c \notin Comers(p)'
  <2>1. Comers(p)' = Comers(p) /\ c \notin Comers(p) BY <1>0, <1>1
  <2>2. file'[p] = file[p] BY <1>1 DEF Comers, OnlyMoves
  <2>3. InTurn(Comers(p), p) BY <1>0, <1>a, <1>b, <2>1 DEF InTurn
  <2>4. QED BY <1>0, <1>a, <2>1, <2>2, <2>3 DEF LastStands
<1>2. CASE c \in Comers(p)' /\ p \in call[c].done
  <2>1. call[c].st # "idle" BY <1>2 DEF CallsInv, Steady
  <2>2. call'[c].op = call[c].op /\ before'[c] = before[c] BY <2>1 DEF OnlyMoves
  <2>3. c \in Comers(p) BY <1>2, <2>2 DEF Comers, Touched
  <2>4. Comers(p)' = Comers(p) BY <1>0, <2>3
  <2>5. file'[p] = file[p] BY <1>2, DoneStays
  <2>6. \A d \in Calls : before'[d] = before[d] /\ call'[d].op = call[d].op BY <1>0, <2>2
  <2>7. \A d \in Comers(p) : p \in call[d].done BY <1>0, <1>2, <1>a, <1>b, <2>4
  <2>8. InTurn(Comers(p), p) BY <1>a, <1>b, <2>4, <2>6, <2>7 DEF InTurn
  <2>9. QED BY <1>a, <2>4, <2>5, <2>6, <2>8 DEF LastStands
<1>3. CASE c \in Comers(p)' /\ p \notin call[c].done
  <2>1. p \in call'[c].done BY <1>3, <1>b
  <2>2. /\ call[c].at = p /\ UNCHANGED before /\ call'[c].op = call[c].op
        /\ Read(c) \/ Delete(c) \/ WriteText(c)
    BY <1>3, <2>1, NewlyDone
  <2>3. call'[c].op # "read" BY <1>3 DEF Comers
  <2>4. Comers(p)' \ {c} \subseteq before'[c] BY <1>0, <1>3, <1>a, <1>b
  <2>5. CASE Delete(c)
    <3>1. call'[c].op = "delete" BY <2>2, <2>5 DEF Delete, At
    <3>2. file'[p] = NoFile BY <2>2, <2>5 DEF Delete, RemoveFile, CallsInv, TypeOK, FilesTypeOK
    <3>3. QED BY <1>3, <2>4, <3>1, <3>2
  <2>6. CASE WriteText(c)
    <3>1. call'[c].op \in Writing /\ call'[c].op # "delete" BY <2>2, <2>6 DEF WriteText, Writing, CallsInv, Steady
    <3>2. Changers(c, p)' \subseteq before'[c] BY <2>4 DEF Changers, Comers
    <3>3. file'[p] = {c} BY <2>1, <3>1, <3>2 DEF Keeps, Undisturbed
    <3>4. QED BY <1>3, <2>4, <3>1, <3>3
  <2>7. ~Read(c) BY <2>2, <2>3 DEF Read, At
  <2>8. QED BY <2>2, <2>5, <2>6, <2>7
<1>4. QED BY <1>1, <1>2, <1>3

\* A read that has read is over.
LEMMA ReadsOnceStep ==
  ASSUME CallsInv, NEW c \in Calls, CallStep(c), OnlyMoves(c), NEW d \in Calls, ReadsOnce(d)
  PROVE  ReadsOnce(d)'
<1> SUFFICES ASSUME call'[d].op = "read", NEW p \in call'[d].done PROVE Over(d)'
  BY DEF ReadsOnce
<1>1. CASE d # c
  <2>1. call'[d] = call[d] BY <1>1 DEF OnlyMoves
  <2>2. QED BY <2>1 DEF ReadsOnce, Over
<1>2. CASE d = c
  <2>1. call[c].done = {}
    <3>1. call[c].st = "idle" => call[c].done = {} BY DEF CallsInv, Steady
    <3>2. QED BY <1>2, <3>1 DEF ReadsOnce, OnlyMoves
  <2>2. p \in Paths
    BY <1>2, CallRecordStep DEF CallsInv, CallRecords
  <2>3. Read(c)
    BY <1>2, <2>1, <2>2, NewlyDone DEF Delete, WriteText, At, Writing, CallsInv, Steady
  <2>4. call[c].op = "read" /\ Succeeds(c) BY <2>3 DEF Read, At
  <2>5. QED BY <1>2, <2>4 DEF Succeeds, Over, CallsInv, TypeOK
<1>3. QED BY <1>1, <1>2

\* What was read was the last text, and what comes later does not change that.
LEMMA ReadsLastStep ==
  ASSUME CallsInv, NEW e \in Calls, CallStep(e), OnlyMoves(e), NEW p \in Paths, LastStands(p),
         NEW c \in Calls, ReadsOnce(c), ReadsLast(c, p)
  PROVE  ReadsLast(c, p)'
<1> DEFINE earlier == Changers(c, p) \cap before[c]
<1> SUFFICES ASSUME call'[c].op = "read", p \in call'[c].done,
                    \A d \in Changers(c, p)' : d \in before'[c] \/ c \in before'[d],
                    InTurn(earlier, p)'
             PROVE  \/ earlier' = {} /\ seen'[c] = {Earlier}
                    \/ \E d \in earlier' : seen'[c] = {d} /\ earlier' \ {d} \subseteq before'[d]
  BY DEF ReadsLast
<1>0. /\ Comers(p) \ {e} = Comers(p)' \ {e}
      /\ e \in Comers(p) => e \in Comers(p)'
      /\ \A d \in Calls \ {e} : call'[d] = call[d] /\ before'[d] = before[d] /\ e \notin before[d]
  BY ComersStep
<1>a. Changers(c, p) = Comers(p) \ {c} /\ Changers(c, p)' = Comers(p)' \ {c}
  BY DEF Changers, Comers
<1>b. Comers(p) \subseteq Calls /\ Comers(p)' \subseteq Calls BY DEF Comers
<1>c. \A d \in earlier' :
         p \in call'[d].done /\ \A f \in earlier' \ {d} : f \in before'[d] \/ d \in before'[f]
  BY DEF InTurn
<1>1. CASE c # e
  <2>1. /\ call'[c] = call[c] /\ before'[c] = before[c] /\ e \notin before[c]
        /\ seen'[c] = seen[c]
    BY <1>0, <1>1 DEF CallStep, Begin, Turn, Sftp, Read, Delete, OpenFile, WriteText, Error, SyncEnds,
                      CallsInv, TypeOK
  <2>2. earlier' = earlier /\ e \notin earlier BY <1>0, <1>a, <2>1
  <2>3. \A d \in earlier : call'[d] = call[d] /\ before'[d] = before[d] BY <1>0, <1>a, <1>b, <2>2
  <2>4. InTurn(earlier, p) BY <1>c, <2>2, <2>3 DEF InTurn
  <2>5. ASSUME NEW d \in Changers(c, p) PROVE d \in before[c] \/ c \in before[d]
    <3>1. d \in Changers(c, p)' BY <1>0, <1>a, <2>5
    <3>2. before'[d] = before[d]
      <4>1. CASE d # e BY <1>0, <1>a, <1>b, <2>5, <4>1
      <4>2. CASE d = e
        <5>1. call[e].st # "idle" BY <2>5, <4>2, <1>a DEF Comers, CallsInv, Steady, Touched
        <5>2. QED BY <4>2, <5>1 DEF OnlyMoves
      <4>3. QED BY <4>1, <4>2
    <3>3. QED BY <2>1, <3>1, <3>2
  <2>6. \/ earlier = {} /\ seen[c] = {Earlier}
        \/ \E d \in earlier : seen[c] = {d} /\ earlier \ {d} \subseteq before[d]
    BY <2>1, <2>4, <2>5 DEF ReadsLast
  <2>7. QED BY <2>1, <2>2, <2>3, <2>6
<1>2. CASE c = e
  <2>1. p \notin call[c].done
    <3>1. call[c].st = "idle" => call[c].done = {} BY DEF CallsInv, Steady
    <3>2. QED BY <1>2, <3>1 DEF ReadsOnce, OnlyMoves
  <2>2. /\ call[c].at = p /\ UNCHANGED before /\ call'[c].op = call[c].op
        /\ Read(c) \/ Delete(c) \/ WriteText(c)
    BY <1>2, <2>1, NewlyDone
  <2>3. Read(c) BY <2>2 DEF Delete, WriteText, At, Writing, CallsInv, Steady
  <2>4. file[p] # NoFile /\ seen'[c] = file[p]
    BY <2>2, <2>3 DEF Read, CallsInv, TypeOK
  <2>5. c \notin Comers(p) /\ c \notin Comers(p)' BY <2>2 DEF Comers
  <2>6. Comers(p)' = Comers(p) BY <1>0, <1>2, <2>5
  <2>7. earlier' = Comers(p)
    <3>1. \A d \in Comers(p) : c \notin before'[d] BY <1>0, <1>2, <1>b, <2>5
    <3>2. QED BY <1>a, <2>5, <2>6, <3>1
  <2>8. \A d \in Comers(p) : call'[d] = call[d] BY <1>0, <1>2, <1>b, <2>5
  <2>9. InTurn(Comers(p), p) BY <1>c, <2>2, <2>7, <2>8 DEF InTurn
  <2>10. CASE Comers(p) = {} /\ file[p] = {Earlier} BY <2>4, <2>7, <2>10
  <2>11. ASSUME NEW d \in Comers(p), Comers(p) \ {d} \subseteq before[d],
                file[p] = IF call[d].op = "delete" THEN NoFile ELSE {d}
         PROVE  seen'[c] = {d} /\ earlier' \ {d} \subseteq before'[d]
    BY <2>2, <2>4, <2>7, <2>11
  <2>12. QED BY <2>7, <2>9, <2>10, <2>11 DEF LastStands
<1>3. QED BY <1>1, <1>2

\* Every step keeps it.
LEMMA ReadInvStep == IInv /\ ReadInv /\ [Next]_vars => ReadInv'
<1> SUFFICES ASSUME IInv, ReadInv, [Next]_vars PROVE ReadInv' OBVIOUS
<1>1. CASE Next
  <2>1. PICK c \in Calls : CallStep(c) BY <1>1 DEF Next, CallStep
  <2>2. CallsInv /\ IInv' /\ OnlyMoves(c) BY <1>1, <2>1, IInvStep, CallsInvStep DEF IInv
  <2>3. CallsInv' /\ Keeps(c)' BY <2>2 DEF IInv
  <2>4. \A p \in Paths : LastStands(p)' BY <2>1, <2>2, <2>3, LastStandsStep DEF ReadInv
  <2>5. \A d \in Calls : ReadsOnce(d)' BY <2>1, <2>2, ReadsOnceStep DEF ReadInv
  <2>6. \A d \in Calls, p \in Paths : ReadsLast(d, p)' BY <2>1, <2>2, ReadsLastStep DEF ReadInv
  <2>7. QED BY <2>4, <2>5, <2>6 DEF ReadInv
<1>2. CASE UNCHANGED vars
  <2>1. \A p : Comers(p)' = Comers(p) /\ \A c : Changers(c, p)' = Changers(c, p)
    BY <1>2 DEF vars, Comers, Changers, Touched
  <2>2. \A c : Over(c)' = Over(c) BY <1>2 DEF vars, Over
  <2>3. UNCHANGED <<call, before, seen, file>> BY <1>2 DEF vars
  <2>4. \A S, p : InTurn(S, p)' = InTurn(S, p) BY <2>3 DEF InTurn
  <2>5. \A p \in Paths : LastStands(p)' BY <2>1, <2>3 DEF LastStands, ReadInv, InTurn
  <2>6. \A c \in Calls : ReadsOnce(c)' BY <2>2, <2>3 DEF ReadsOnce, ReadInv
  <2>7. \A c \in Calls, p \in Paths : ReadsLast(c, p)'
    BY <2>1, <2>3 DEF ReadsLast, ReadInv, InTurn
  <2>8. QED BY <2>5, <2>6, <2>7 DEF ReadInv
<1>3. QED BY <1>1, <1>2

\* A read that meets no change of its file, and no failed one before it, has the
\* text of the last write, of any number of calls and files.
THEOREM ReadIsLastWriteHolds == Spec => []ReadIsLastWrite
<1>1. Init => ReadInv
  <2> SUFFICES ASSUME Init PROVE ReadInv OBVIOUS
  <2>1. \A c \in Calls : call[c].op = "read" /\ call[c].done = {} BY DEF Init, Fresh
  <2>2. \A p \in Paths : Comers(p) = {} /\ file[p] = {Earlier} BY <2>1 DEF Comers, Init, FilesInit
  <2>3. \A p \in Paths : LastStands(p) BY <2>2 DEF LastStands
  <2>4. \A c \in Calls : ReadsOnce(c) /\ \A p \in Paths : ReadsLast(c, p)
    BY <2>1 DEF ReadsOnce, ReadsLast
  <2>5. QED BY <2>3, <2>4 DEF ReadInv
<1>2. IInv /\ ReadInv => ReadIsLastWrite
  BY DEF IInv, CallsInv, TypeOK, ReadInv, ReadsLast, InTurn, ReadIsLastWrite
<1>3. QED BY <1>1, <1>2, IInvHolds, ReadInvStep, PTL DEF Spec
===============================================================================
