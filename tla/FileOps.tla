-------------------------------- MODULE FileOps --------------------------------
(***************************************************************************)
(* server/file_ops.py and its tools: calls that read, write, delete and    *)
(* sync files of one host over SFTP, each over a connection of its own     *)
(* call.  Calls share nothing in the server; they meet at the files.       *)
(*                                                                         *)
(* ssh_write_file and ssh_upload_file are "write", ssh_read_file and       *)
(* ssh_download_file are "read".  A sync works through its files one by    *)
(* one, in the order the local file system lists them.                     *)
(*                                                                         *)
(* Definitions named Fault... are plausible defects of the definition that *)
(* follows them; no specification uses them.                               *)
(***************************************************************************)
CONSTANTS
  Calls,     (* calls of the file tools; a writing one has a text its own  *)
  Paths,     (* remote paths                                               *)
  Earlier,   (* who wrote the files there were                             *)
  NoFile,    (* nothing is at a path                                       *)
  NoPath     (* no file is open                                            *)

ASSUME EarlierAssumption == Earlier \notin Calls
ASSUME FilesAssumption == \A text \in SUBSET (Calls \cup {Earlier}) : text # NoFile
ASSUME NoPathAssumption == NoPath \notin Paths

Ops == {"read", "write", "delete", "sync"}
Writing == {"write", "sync"}

VARIABLES
  call,      (* call[c]: where it stands, what it does, the paths it has   *)
             (* to do, has done and has failed at                          *)
  seen,      (* seen[c]: what a read has read                              *)
  before,    (* history: before[c] are the calls that were over when c     *)
             (* began                                                      *)
  file, handle

INSTANCE RemoteFiles WITH Writers <- Calls \cup {Earlier}

vars == <<call, seen, before, file, handle>>

Fresh(st, op, ps) ==
  [st |-> st, op |-> op, todo |-> ps, at |-> NoPath, done |-> {}, failed |-> {}]

Init ==
  /\ call = [c \in Calls |-> Fresh("idle", "read", {})]
  /\ seen = [c \in Calls |-> NoFile]
  /\ before = [c \in Calls |-> {}]
  /\ FilesInit({Earlier})

Over(c) == call[c].st \in {"raised", "ok", "failed"}

\* A call begins: a sync with the files that rglob finds, the others with one path.
\* What is to be sent may not be there.
Begin(c, op, ps) ==
  /\ call[c].st = "idle" /\ (op # "sync" => \E p \in Paths : ps = {p})
  /\ \E st \in {"connecting"} \cup (IF op \in Writing THEN {"failed"} ELSE {}) :
       call' = [call EXCEPT ![c] = Fresh(st, op, ps)]
  /\ before' = [before EXCEPT ![c] = {d \in Calls : Over(d)}]
  /\ UNCHANGED <<seen, file, handle>>

\* _sftp returns a client, or raises outside the try of its caller.
Sftp(c) ==
  /\ call[c].st = "connecting"
  /\ \E st \in {"working", "raised"} : call' = [call EXCEPT ![c].st = st]
  /\ UNCHANGED <<seen, before, file, handle>>

\* The call turns to the next of its files.
Turn(c, p) ==
  /\ call[c].st = "working" /\ p \in call[c].todo
  /\ call' = [call EXCEPT ![c].st = "at", ![c].at = p, ![c].todo = @ \ {p}]
  /\ UNCHANGED <<seen, before, file, handle>>

At(c, ops) == call[c].st = "at" /\ call[c].op \in ops

\* It has opened the file, which empties it, after the directories of a sync are made.
OpenFile(c) ==
  /\ At(c, Writing) /\ OpenToWrite(c, call[c].at)
  /\ call' = [call EXCEPT ![c].st = "open"]
  /\ UNCHANGED <<seen, before>>

\* It is through with that file, and answers unless it is a sync.
Succeeds(c) ==
  call' = [call EXCEPT ![c].st = IF call[c].op = "sync" THEN "working" ELSE "ok",
                       ![c].done = @ \cup {call[c].at}]

FaultFails(c) ==
  call' = [call EXCEPT ![c].st = IF call[c].op = "sync" THEN "working" ELSE "failed",
                       ![c].done = @ \cup {call[c].at}]

Fails(c) ==
  call' = [call EXCEPT ![c].st = IF call[c].op = "sync" THEN "working" ELSE "failed",
                       ![c].failed = @ \cup {call[c].at}]

Read(c) ==
  /\ At(c, {"read"}) /\ file[call[c].at] # NoFile
  /\ seen' = [seen EXCEPT ![c] = file[call[c].at]]
  /\ Succeeds(c)
  /\ UNCHANGED <<before, file, handle>>

Delete(c) ==
  /\ At(c, {"delete"}) /\ file[call[c].at] # NoFile
  /\ RemoveFile(call[c].at)
  /\ Succeeds(c) \/ Fails(c)
  /\ UNCHANGED <<seen, before>>

FaultWriteText(c) ==
  /\ call[c].st = "open"
  /\ CloseUnwritten(c)
  /\ Succeeds(c) \/ Fails(c)
  /\ UNCHANGED <<seen, before>>

\* The text is written, though the client may not come to know.
WriteText(c) ==
  /\ call[c].st = "open"
  /\ Write(c, call[c].at)
  /\ Succeeds(c) \/ Fails(c)
  /\ UNCHANGED <<seen, before>>

\* An SFTP call raises, before or after a file was opened.
Error(c) ==
  /\ call[c].st \in {"at", "open"} /\ Fails(c) /\ CloseUnwritten(c)
  /\ UNCHANGED <<seen, before>>

\* A sync answers with its count and its errors, or that it failed as a whole.
SyncEnds(c) ==
  /\ call[c].st = "working" /\ call[c].op = "sync"
  /\ \/ call[c].todo = {} /\ call' = [call EXCEPT ![c].st = "ok"]
     \/ call' = [call EXCEPT ![c].st = "failed"]
  /\ UNCHANGED <<seen, before, file, handle>>

Next ==
  \E c \in Calls :
    \/ \E op \in Ops, ps \in SUBSET Paths : Begin(c, op, ps)
    \/ \E p \in Paths : Turn(c, p)
    \/ Sftp(c) \/ Read(c) \/ Delete(c) \/ OpenFile(c) \/ WriteText(c) \/ Error(c) \/ SyncEnds(c)

Spec == Init /\ [][Next]_vars
-----------------------------------------------------------------------------
(* Properties.                                                             *)

TypeOK ==
  /\ call \in [Calls -> [st : {"idle", "connecting", "raised", "working", "at", "open",
                               "ok", "failed"},
                         op : Ops, todo : SUBSET Paths, at : Paths \cup {NoPath},
                         done : SUBSET Paths, failed : SUBSET Paths]]
  /\ seen \in [Calls -> Texts]
  /\ before \in [Calls -> SUBSET Calls]
  /\ FilesTypeOK

\* The paths a call has touched, and the other calls that change path p.
Touched(c) ==
  call[c].done \cup call[c].failed \cup (IF call[c].st = "open" THEN {call[c].at} ELSE {})
Changers(c, p) == {d \in Calls \ {c} : call[d].op # "read" /\ p \in Touched(d)}

\* What is reported as written is there in full, unless a call that was not over
\* before has changed it: also the files of a sync that failed at others, and also
\* over an earlier, longer text.
WrittenIsThere ==
  \A c \in Calls : call[c].op \in Writing =>
    \A p \in call[c].done : Changers(c, p) \subseteq before[c] => file[p] = {c}

\* A read that meets no change of its file, and no failed one before it, has the
\* text of the last write.
ReadIsLastWrite ==
  \A c \in Calls : call[c].op = "read" =>
    \A p \in call[c].done :
      LET earlier == Changers(c, p) \cap before[c] IN
      /\ \A d \in Changers(c, p) : d \in before[c] \/ c \in before[d]
      /\ \A d \in earlier : p \in call[d].done /\ \A e \in earlier \ {d} : e \in before[d] \/ d \in before[e]
      => \/ earlier = {} /\ seen[c] = {Earlier}
         \/ \E d \in earlier : seen[c] = {d} /\ earlier \ {d} \subseteq before[d]

\* A file is emptied or mixed up only by a write that is still going on, failed,
\* or met another one.
DamageIsExplained ==
  \A p \in Paths :
    \/ file[p] = NoFile \/ \E w \in Calls \cup {Earlier} : file[p] = {w}
    \/ \E c \in Calls : /\ call[c].op \in Writing /\ p \in Touched(c)
                        /\ \/ p \notin call[c].done
                           \/ \E d \in Changers(c, p) : d \notin before[c] /\ c \notin before[d]
===============================================================================
