-------------------------------- MODULE Scripts --------------------------------
(***************************************************************************)
(* ssh_exec_script of server/shell_engine.py on one host: upload a script  *)
(* to a path named by the second, run it, remove it.  The call borrows a   *)
(* connection for the upload and keeps it to the end; each of its two      *)
(* commands borrows one of its own.                                        *)
(*                                                                         *)
(* A command that was sent takes effect on the host at some later time, or *)
(* never: the timeout of ssh_exec ends the wait for it, not the command.   *)
(*                                                                         *)
(* Definitions named Fault... are plausible defects of the definition that *)
(* follows them; no specification uses them.                               *)
(***************************************************************************)
EXTENDS ConnectionLease

CONSTANTS
  Scripts,     (* calls of ssh_exec_script                                 *)
  NoFile,      (* nothing is at a path                                     *)
  NoPath,      (* no file is open                                          *)
  Unread,      (* the interpreter has not read its script                  *)
  MaxSecond    (* bound: the seconds of the clock                          *)

Upload(s) == <<s, "upload">>
Command(s) == <<s, "command">>

ASSUME ScriptsAssumption ==
  \A s \in Scripts : Upload(s) \in Tasks /\ Command(s) \in Tasks
Seconds == 0..MaxSecond

ASSUME SecondsAssumption == MaxSecond \in Nat /\ NoPath \notin Seconds
ASSUME FilesAssumption == \A text \in SUBSET Scripts : text # NoFile

VARIABLES
  clock,    (* int(time.time()) of the latest start                        *)
  script,   (* script[s]: where the call stands, and when it started       *)
  file,     (* file[p]: what is at the path of second p                    *)
  handle,   (* handle[s]: the path of the file s has open                  *)
  run,      (* run[s]: whether its command was sent, and what it read      *)
  rm        (* rm[s]: unsent, sent, or carried out                         *)

INSTANCE RemoteFiles WITH Writers <- Scripts, Paths <- Seconds

scriptVars == <<clock, script, file, handle, run, rm>>

ScriptInit ==
  /\ clock = 0
  /\ script = [s \in Scripts |-> [st |-> "idle", second |-> 0]]
  /\ FilesInit(NoFile)
  /\ run = [s \in Scripts |-> [sent |-> FALSE, text |-> Unread]]
  /\ rm = [s \in Scripts |-> "unsent"]

FaultRemotePath(second) == second \div 2

FaultRoundsUp(second) == second + 1

RemotePath(second) == second

At(s) == script[s].st
Goto(s, st) == script' = [script EXCEPT ![s].st = st]

GiveBackBoth(s) ==
  /\ lease' = [lease EXCEPT ![Upload(s)] = NoConn, ![Command(s)] = NoConn]
  /\ UNCHANGED <<opened, live, lost>>

\* The second is taken before get_connection.  Time has passed since the last start.
StartScript(s) ==
  /\ At(s) = "idle"
  /\ \E second \in clock..MaxSecond :
       /\ clock' = second
       /\ script' = [script EXCEPT ![s] = [st |-> "connecting", second |-> second]]
  /\ UNCHANGED <<leaseVars, file, handle, run, rm>>

ScriptConnected(s) ==
  /\ At(s) = "connecting" /\ Obtain(Upload(s)) /\ Goto(s, "opening")
  /\ UNCHANGED <<clock, file, handle, run, rm>>

\* get_connection raises, outside the try.
ScriptUnreachable(s) ==
  /\ At(s) = "connecting" /\ Goto(s, "raised")
  /\ UNCHANGED <<leaseVars, clock, file, handle, run, rm>>

Path(s) == RemotePath(script[s].second)

OpenFile(s) ==
  /\ At(s) = "opening" /\ lease[Upload(s)] \in live
  /\ OpenToWrite(s, Path(s)) /\ Goto(s, "writing")
  /\ UNCHANGED <<leaseVars, clock, run, rm>>

WriteFile(s) ==
  /\ At(s) = "writing" /\ lease[Upload(s)] \in live
  /\ Write(s, Path(s)) /\ Goto(s, "ready")
  /\ UNCHANGED <<leaseVars, clock, run, rm>>

FaultUploadFails(s) ==
  /\ At(s) \in {"opening", "writing"}
  /\ CloseUnwritten(s) /\ Goto(s, "failed")
  /\ UNCHANGED <<leaseVars, clock, run, rm>>

\* An SFTP call raises, before or after the write took effect, and an error is
\* answered.  What is left of the file stays.
UploadFails(s) ==
  /\ At(s) \in {"opening", "writing"}
  /\ \/ CloseUnwritten(s)
     \/ At(s) = "writing" /\ Write(s, Path(s))
  /\ GiveBack(Upload(s)) /\ Goto(s, "failed")
  /\ UNCHANGED <<clock, run, rm>>

RunConnected(s) ==
  /\ At(s) = "ready" /\ Obtain(Command(s)) /\ Goto(s, "running")
  /\ run' = [run EXCEPT ![s].sent = TRUE]
  /\ UNCHANGED <<clock, file, handle, rm>>

\* get_connection raises in ssh_exec: an error is answered, nothing is removed.
ExecUnreachable(s) ==
  /\ At(s) \in {"ready", "ran"}
  /\ GiveBack(Upload(s)) /\ Goto(s, "failed")
  /\ UNCHANGED <<clock, file, handle, run, rm>>

\* On the host: the interpreter reads what is at the path.
HostReads(s) ==
  /\ run[s].sent /\ run[s].text = Unread
  /\ run' = [run EXCEPT ![s].text = file[Path(s)]]
  /\ UNCHANGED <<leaseVars, clock, script, file, handle, rm>>

\* The command has ended, timed out or lost its connection.
RunEnds(s) ==
  /\ At(s) = "running" /\ GiveBack(Command(s)) /\ Goto(s, "ran")
  /\ UNCHANGED <<clock, file, handle, run, rm>>

RemoveConnected(s) ==
  /\ At(s) = "ran" /\ Obtain(Command(s)) /\ Goto(s, "removing")
  /\ rm' = [rm EXCEPT ![s] = "sent"]
  /\ UNCHANGED <<clock, file, handle, run>>

FaultHostRemoves(s) ==
  /\ rm[s] = "sent" /\ rm' = [rm EXCEPT ![s] = "done"]
  /\ RemoveFile(RemotePath(clock))
  /\ UNCHANGED <<leaseVars, clock, script, run>>

\* On the host: rm -f.
HostRemoves(s) ==
  /\ rm[s] = "sent" /\ rm' = [rm EXCEPT ![s] = "done"]
  /\ RemoveFile(Path(s))
  /\ UNCHANGED <<leaseVars, clock, script, run>>

\* The removal has ended or timed out; the two uses are released on the way out.
RemoveEnds(s) ==
  /\ At(s) = "removing" /\ GiveBackBoth(s) /\ Goto(s, "done")
  /\ UNCHANGED <<clock, file, handle, run, rm>>

ScriptNext ==
  \E s \in Scripts :
    \/ StartScript(s) \/ ScriptConnected(s) \/ ScriptUnreachable(s)
    \/ OpenFile(s) \/ WriteFile(s) \/ UploadFails(s)
    \/ RunConnected(s) \/ ExecUnreachable(s) \/ HostReads(s) \/ RunEnds(s)
    \/ RemoveConnected(s) \/ HostRemoves(s) \/ RemoveEnds(s)
-----------------------------------------------------------------------------
(* Properties.                                                             *)

ScriptTypeOK ==
  /\ clock \in Seconds
  /\ script \in [Scripts -> [st : {"idle", "connecting", "raised", "opening", "writing", "ready",
                                   "running", "ran", "removing", "failed", "done"},
                             second : Seconds]]
  /\ FilesTypeOK
  /\ run \in [Scripts -> [sent : BOOLEAN, text : Texts \cup {Unread}]]
  /\ rm \in [Scripts -> {"unsent", "sent", "done"}]

\* A script whose second no other shares runs its own text and nothing else,
\* however long it takes and whatever fails; one that was given up for lost may
\* find its file removed.
ApartScriptsRunOwn ==
  \A s \in Scripts :
    /\ run[s].text # Unread
    /\ \A u \in Scripts \ {s} : At(u) = "idle" \/ script[u].second # script[s].second
    => run[s].text \in {{s}, NoFile} /\ (run[s].text = NoFile => rm[s] = "done")

\* server/shell_engine.py:90, "Upload and execute a script on the remote host.": the
\* text that is executed is the one that was uploaded by the call.
RunsItsOwnText ==
  \A s \in Scripts : run[s].text \in {Unread, NoFile, {s}}

\* A file that is left on the host is left by a script that has got as far as to
\* open one there and whose removal was not carried out: it is still at work, or it
\* has failed or was given up on the way.  Scripts that share a path account for
\* each other, and where all removals were carried out nothing is left.
LeftoversAreUnremoved ==
  \A p \in Seconds :
    file[p] # NoFile =>
      \E s \in Scripts :
        /\ Path(s) = p /\ rm[s] # "done"
        /\ At(s) \notin {"idle", "connecting", "raised", "opening"}
===============================================================================
