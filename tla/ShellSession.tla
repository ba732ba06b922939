----------------------------- MODULE ShellSession -----------------------------
(***************************************************************************)
(* One persistent shell session of server/session_manager.py: its place in *)
(* the table of sessions, the remote "bash -i" on its terminal, and the    *)
(* calls that share its streams.  Sessions share nothing but the table, a  *)
(* dictionary keyed by a fresh id, so one is enough.  An action is the code*)
(* between two suspension points, or one step of the remote shell.         *)
(*                                                                         *)
(* A call on a session that is not listed raises KeyError and changes      *)
(* nothing.  Of what the terminal shows only what the properties tell apart*)
(* is kept: the numbered pieces of text that commands print, each of which *)
(* may end a line or leave it unfinished, and the sentinels.  Prompts and  *)
(* other echoes are left out, but for the line that an echo ends.  A read  *)
(* may end behind any piece, also inside a line, and inside a sentinel.  A *)
(* line end is taken as one character: the empty line that a read between  *)
(* its two makes is left out.                                              *)
(*                                                                         *)
(* Definitions named Fault... are plausible defects of the definition that *)
(* follows them; no specification uses them.                               *)
(***************************************************************************)
EXTENDS Naturals, Sequences, FiniteSets, SequencesExt

CONSTANTS
  Execs,        (* calls of execute_in_session, each with its sentinel     *)
  Closers,      (* calls of close_session                                  *)
  None,         (* no call                                                 *)
  BufferLines,  (* OUTPUT_BUFFER_LINES                                     *)
  MaxOut,       (* bound: MaxOut[e], pieces of text that a command prints, *)
                (* or bash at its start for e = None                       *)
  MaxEnv        (* bound: calls of set_env                                 *)

ASSUME NoneAssumption == None \notin Execs \cup Closers
ASSUME BoundsAssumption ==
  BufferLines \in Nat \ {0} /\ MaxOut \in [Execs \cup {None} -> Nat] /\ MaxEnv \in Nat

VARIABLES
  phase,    (* of the session: none, draining, listed in _sessions, removed*)
            (* from it, or failed: create_session raised                   *)
  shell,    (* the remote bash: off, boot, prompt, busy or gone            *)
  running,  (* the line it is executing                                    *)
  printed,  (* how many pieces a command, or bash at its start, has printed*)
  whole,    (* how many of them are in lines that it has ended             *)
  closing,  (* process.close() has asked the host to close the channel     *)
  inp,      (* what was written to stdin and bash has not read             *)
  out,      (* what came to stdout and the server has not read             *)
  buffer,   (* output_buffer                                               *)
  exec,     (* exec[e]: the call and what it has collected                 *)
  closer,   (* closer[k]: idle, waiting, done or raised                    *)
  envs      (* how many times set_env wrote                                *)

remote == <<shell, running, printed, whole, closing>>
vars == <<phase, remote, inp, out, buffer, exec, closer, envs>>

Out(by, n, eol) == [kind |-> "out", by |-> by, n |-> n, eol |-> eol]
Sentinel(e) == [kind |-> "sentinel", by |-> e, n |-> 0, eol |-> TRUE]

Input(kind, by) == [kind |-> kind, by |-> by]
NoInput == Input("none", None)

Init ==
  /\ phase = "none"
  /\ shell = "off" /\ running = NoInput
  /\ printed = [x \in Execs \cup {None} |-> 0]
  /\ whole = [x \in Execs \cup {None} |-> 0] /\ closing = FALSE
  /\ inp = <<>> /\ out = <<>> /\ buffer = <<>>
  /\ exec = [e \in Execs |-> [st |-> "idle", lines |-> <<>>, alone |-> FALSE, fresh |-> FALSE]]
  /\ closer = [k \in Closers |-> "idle"]
  /\ envs = 0

-----------------------------------------------------------------------------
(* The terminal and the shell.  bash reads a line at its prompt and echoes *)
(* it then; what arrives while something runs is echoed by the terminal at *)
(* once, and by bash again when it reads it.  An echo goes on with the line*)
(* that was left unfinished, and ends it.                                  *)

\* The text s with its last line ended.
Ended(s) == [i \in DOMAIN s |-> IF i = Len(s) THEN [s[i] EXCEPT !.eol = TRUE] ELSE s[i]]

\* The text s with the echo of a line behind it.
Echoed(s, line) ==
  IF line.kind = "sentinel" THEN Append(s, Sentinel(line.by)) ELSE Ended(s)

\* stdin.write: what is written to a shell that is gone is lost.  Of a call's
\* lines the last one has the sentinel.
Write(lines) ==
  /\ inp' = IF shell = "gone" THEN inp ELSE inp \o lines
  /\ out' = IF shell \in {"boot", "busy"} THEN Echoed(Ended(out), Last(lines)) ELSE out

ReadLine ==
  /\ shell = "prompt" /\ inp # <<>>
  /\ out' = Echoed(out, Head(inp))
  /\ IF Head(inp).kind = "exit"
       THEN shell' = "gone" /\ running' = NoInput /\ inp' = <<>>
       ELSE shell' = "busy" /\ running' = Head(inp) /\ inp' = Tail(inp)
  /\ UNCHANGED <<phase, printed, whole, closing, buffer, exec, closer, envs>>

\* The command, or bash at its start, prints a piece of text, which ends the line
\* or does not.
PrintText ==
  LET by == running.by IN
  /\ shell = "boot" \/ (shell = "busy" /\ running.kind = "command")
  /\ printed[by] < MaxOut[by]
  /\ printed' = [printed EXCEPT ![by] = @ + 1]
  /\ \E eol \in BOOLEAN :
       /\ out' = Append(out, Out(by, printed[by] + 1, eol))
       /\ whole' = IF eol THEN [whole EXCEPT ![by] = printed[by] + 1] ELSE whole
  /\ UNCHANGED <<phase, shell, running, closing, inp, buffer, exec, closer, envs>>

\* What runs ends; for the line that follows a command, by printing the sentinel.
Finish ==
  /\ shell \in {"boot", "busy"}
  /\ shell' = "prompt" /\ running' = NoInput
  /\ out' = IF running.kind = "sentinel" THEN Append(out, Sentinel(running.by)) ELSE out
  /\ UNCHANGED <<phase, printed, whole, closing, inp, buffer, exec, closer, envs>>

Kill == shell' = "gone" /\ running' = NoInput /\ inp' = <<>>

\* The shell or its connection dies.
Die ==
  /\ shell \in {"boot", "prompt", "busy"}
  /\ Kill
  /\ UNCHANGED <<phase, printed, whole, closing, out, buffer, exec, closer, envs>>

\* The host closes the channel as it was asked to, and hangs up on the shell.
Hangup ==
  /\ closing /\ shell \in {"boot", "prompt", "busy"}
  /\ Kill
  /\ UNCHANGED <<phase, printed, whole, closing, out, buffer, exec, closer, envs>>

-----------------------------------------------------------------------------
(* create_session.                                                         *)

\* get_connection or create_process raises.
CreateFails ==
  /\ phase = "none"
  /\ phase' = "failed"
  /\ UNCHANGED <<remote, inp, out, buffer, exec, closer, envs>>

Create ==
  /\ phase = "none"
  /\ phase' = "draining" /\ shell' = "boot"
  /\ UNCHANGED <<running, printed, whole, closing, inp, out, buffer, exec, closer, envs>>

\* The lines of s from its place k on.
LinesFrom(s, k) == Cardinality({i \in k..Len(s) : s[i].eol})

FaultKeepOneLess(s, k) ==
  /\ LinesFrom(s, k) < BufferLines
  /\ k > 1 => LinesFrom(s, k - 1) >= BufferLines

FaultNeverTruncate(s, k) == k = 1

\* The last lines of s, as many as output_buffer may hold, begin at place k.
KeptFrom(s, k) ==
  /\ LinesFrom(s, k) <= BufferLines
  /\ k > 1 => LinesFrom(s, k - 1) > BufferLines

\* A read of _drain returns all that has arrived, any part of what was printed.
\* A line that goes on behind it becomes two lines of the buffer.
DrainRead ==
  /\ phase = "draining"
  /\ \E n \in 1..Len(out) :
       LET all == buffer \o Ended(SubSeq(out, 1, n)) IN
       /\ \E k \in 1..Len(all) + 1 :
            KeptFrom(all, k) /\ buffer' = SubSeq(all, k, Len(all))
       /\ out' = SubSeq(out, n + 1, Len(out))
  /\ UNCHANGED <<phase, remote, inp, exec, closer, envs>>

\* Half a second without output, or the end of the stream: the session is listed.
DrainDone ==
  /\ phase = "draining"
  /\ phase' = "listed"
  /\ UNCHANGED <<remote, inp, out, buffer, exec, closer, envs>>

\* bash was never silent for long and prints after five seconds: wait_for raises.
DrainTimeout ==
  /\ phase = "draining" /\ buffer # <<>>
  /\ phase' = "failed"
  /\ UNCHANGED <<remote, inp, out, buffer, exec, closer, envs>>

\* A stream that the loss of the connection has ended raises when all is read.
StreamBroken == shell = "gone" /\ out = <<>>

\* The read raises, and nothing catches it.
DrainRaises ==
  /\ phase = "draining" /\ StreamBroken
  /\ phase' = "failed"
  /\ UNCHANGED <<remote, inp, out, buffer, exec, closer, envs>>

-----------------------------------------------------------------------------
(* execute_in_session and set_env.                                         *)

\* _get: the session is in the table.
Found == phase = "listed"

\* History: no call that was alone in the session is so after a write.
Disturbed == [e \in Execs |-> [exec[e] EXCEPT !.alone = FALSE]]

StartExec(e) ==
  /\ Found /\ exec[e].st = "idle"
  /\ \/ /\ Write(<<Input("command", e), Input("sentinel", e)>>)
        /\ exec' = [Disturbed EXCEPT ![e] =
             [st |-> "reading", lines |-> <<>>,
              alone |-> /\ shell = "prompt" /\ inp = <<>>
                        /\ \A d \in Execs : exec[d].st # "reading",
              fresh |-> out = <<>>]]
     \/ /\ shell = "gone"                              \* stdin.write raises
        /\ exec' = [exec EXCEPT ![e].st = "raised"]
        /\ UNCHANGED <<inp, out>>
  /\ UNCHANGED <<phase, remote, buffer, closer, envs>>

FaultAnySentinel(e, chunk) == {i \in DOMAIN chunk : chunk[i].kind = "sentinel"}

\* The places in a chunk of the sentinel of call e.
Hits(e, chunk) == {i \in DOMAIN chunk : chunk[i] = Sentinel(e)}

\* The line of a chunk that place i is on begins behind place k.
LineBegins(chunk, k, i) ==
  /\ k # 0 => chunk[k].eol
  /\ \A j \in k + 1..i - 1 : ~chunk[j].eol

\* The chunk s when the read ended inside a sentinel, the last thing in it.
Torn(s) == [i \in DOMAIN s |-> IF i = Len(s) THEN [s[i] EXCEPT !.kind = "torn"] ELSE s[i]]

\* A read returns a chunk, any part of what was printed.  Its last line ends with
\* it; a sentinel that it ends in is found by neither this read nor the next one.
\* What is on the line of the sentinel is dropped, and the rest of the chunk too.
ReadChunk(e) ==
  /\ exec[e].st = "reading"
  /\ \E n \in 1..Len(out), torn \in BOOLEAN :
       LET text == SubSeq(out, 1, n)
           chunk == IF torn THEN Torn(text) ELSE Ended(text) IN
       /\ torn => out[n].kind = "sentinel"
       /\ out' = SubSeq(out, n + 1, Len(out))
       /\ \/ /\ Hits(e, chunk) = {}
             /\ exec' = [exec EXCEPT ![e].lines = @ \o chunk]
          \/ \E i \in Hits(e, chunk), k \in 0..n :
               /\ \A j \in Hits(e, chunk) : i <= j
               /\ k < i /\ LineBegins(chunk, k, i)
               /\ exec' = [exec EXCEPT ![e].st = "done",
                                       ![e].lines = @ \o SubSeq(chunk, 1, k)]
  /\ UNCHANGED <<phase, remote, inp, buffer, closer, envs>>

\* The deadline has passed, or the stream has ended: what was read, and "[timeout]".
ExecTimeout(e) ==
  /\ exec[e].st = "reading"
  /\ exec' = [exec EXCEPT ![e].st = "timedOut"]
  /\ UNCHANGED <<phase, remote, inp, out, buffer, closer, envs>>

\* The read raises: the error is answered, and nothing of what was read.
ExecRaises(e) ==
  /\ exec[e].st = "reading" /\ StreamBroken
  /\ exec' = [exec EXCEPT ![e].st = "error", ![e].lines = <<>>]
  /\ UNCHANGED <<phase, remote, inp, out, buffer, closer, envs>>

SetEnv ==
  /\ Found /\ envs < MaxEnv
  /\ envs' = envs + 1
  /\ Write(<<Input("export", None)>>)
  /\ exec' = Disturbed
  /\ UNCHANGED <<phase, remote, buffer, closer>>

-----------------------------------------------------------------------------
(* close_session.                                                          *)

FaultUnlistTwice(k) == phase' = "removed" /\ closer' = [closer EXCEPT ![k] = "done"]

\* The entry is deleted; it may be gone by now, then KeyError is raised.
Unlist(k) ==
  /\ phase' = "removed"
  /\ closer' = [closer EXCEPT ![k] = IF phase = "listed" THEN "done" ELSE "raised"]

Close(k) ==
  /\ Found /\ closer[k] = "idle"
  /\ \/ /\ Write(<<Input("exit", None)>>)
        /\ closer' = [closer EXCEPT ![k] = "waiting"]
        /\ exec' = Disturbed
        /\ UNCHANGED phase
     \/ /\ shell = "gone"                              \* stdin.write raises
        /\ Unlist(k)
        /\ UNCHANGED <<inp, out, exec>>
  /\ UNCHANGED <<remote, buffer, envs>>

\* process.wait() returns.
CloseExited(k) ==
  /\ closer[k] = "waiting" /\ shell = "gone"
  /\ Unlist(k)
  /\ UNCHANGED <<remote, inp, out, buffer, exec, envs>>

FaultCloseLeavesShell(k) ==
  /\ closer[k] = "waiting"
  /\ Unlist(k)
  /\ UNCHANGED <<remote, inp, out, buffer, exec, envs>>

FaultCloseGivesUp(k) ==
  /\ closer[k] = "waiting"
  /\ closer' = [closer EXCEPT ![k] = "raised"]
  /\ UNCHANGED <<phase, remote, inp, out, buffer, exec, envs>>

\* Three seconds are over: process.close() asks the host to close the channel, and
\* nobody waits until it has.
CloseTimeout(k) ==
  /\ closer[k] = "waiting"
  /\ closing' = TRUE
  /\ Unlist(k)
  /\ UNCHANGED <<shell, running, printed, whole, inp, out, buffer, exec, envs>>

Next ==
  \/ Create \/ CreateFails \/ DrainRead \/ DrainDone \/ DrainTimeout \/ DrainRaises
  \/ ReadLine \/ PrintText \/ Finish \/ Die \/ Hangup
  \/ \E e \in Execs : StartExec(e) \/ ReadChunk(e) \/ ExecTimeout(e) \/ ExecRaises(e)
  \/ SetEnv
  \/ \E k \in Closers : Close(k) \/ CloseExited(k) \/ CloseTimeout(k)

Spec == Init /\ [][Next]_vars

\* The wait of close_session ends within its three seconds, and a host that is
\* asked to close a channel does so, or the connection is lost.
Fairness ==
  /\ \A k \in Closers : WF_vars(CloseExited(k) \/ CloseTimeout(k))
  /\ WF_vars(Hangup)

FairSpec == Spec /\ Fairness
-----------------------------------------------------------------------------
(* Properties.                                                             *)

Lines ==
  [kind : {"out", "sentinel", "torn"}, by : Execs \cup {None}, n : Nat, eol : BOOLEAN]

Inputs ==
  [kind : {"none", "command", "sentinel", "export", "exit"}, by : Execs \cup {None}]

Call ==
  [st : {"idle", "reading", "done", "timedOut", "error", "raised"}, lines : Seq(Lines),
   alone : BOOLEAN, fresh : BOOLEAN]

\* Every variable keeps its type, and the output buffer its limit.
TypeOK ==
  /\ phase \in {"none", "draining", "listed", "removed", "failed"}
  /\ shell \in {"off", "boot", "prompt", "busy", "gone"}
  /\ running \in Inputs
  /\ printed \in [Execs \cup {None} -> Nat] /\ whole \in [Execs \cup {None} -> Nat]
  /\ closing \in BOOLEAN
  /\ inp \in Seq(Inputs) /\ out \in Seq(Lines) /\ buffer \in Seq(Lines)
  /\ LinesFrom(buffer, 1) <= BufferLines
  /\ exec \in [Execs -> Call]
  /\ closer \in [Closers -> {"idle", "waiting", "done", "raised"}]
  /\ envs \in 0..MaxEnv

\* The places in what is returned to call e of what command d printed.
OutputAt(e, d) ==
  {i \in DOMAIN exec[e].lines : exec[e].lines[i].kind = "out" /\ exec[e].lines[i].by = d}

\* The pieces of the output of e that are returned to it.
Returned(e) == {exec[e].lines[i].n : i \in OutputAt(e, e)}

\* A command sent to a session that is at its prompt, and left alone until its
\* sentinel is found, is answered with every line that it has ended, wherever the
\* chunks end.  Of a last line that it left unfinished the end may be missing, and
\* nothing before that: the echo of the sentinel is on this line and takes with it
\* what the same read returned.  The pieces are in order, none is doubled, and
\* none is of another's output when nothing was left unread.
ExactWhenUndisturbed ==
  \A e \in Execs :
    exec[e].st = "done" /\ exec[e].alone =>
      /\ 1..whole[e] \subseteq Returned(e)
      /\ \A n \in Returned(e) : n <= printed[e] /\ 1..n \subseteq Returned(e)
      /\ \A i, j \in OutputAt(e, e) : i < j => exec[e].lines[i].n < exec[e].lines[j].n
      /\ exec[e].fresh => \A d \in (Execs \cup {None}) \ {e} : OutputAt(e, d) = {}

\* What create_session drains is kept from the newest text back, none lost or
\* doubled, in as many lines as the buffer may hold; a line that two reads have
\* returned in parts counts as two.
BufferIsTail ==
  phase = "draining" =>
    LET kept == buffer \o out  first == printed[None] - Len(kept) IN
    /\ \A i \in 1..Len(kept) :
         kept[i].kind = "out" /\ kept[i].by = None /\ kept[i].n = first + i
    /\ first > 0 => LinesFrom(buffer, 1) = BufferLines

\* However many calls close a session at once, one of them removes it and
\* answers; another raises only after that.
OneCloseWins ==
  /\ Cardinality({k \in Closers : closer[k] = "done"}) = (IF phase = "removed" THEN 1 ELSE 0)
  /\ (\E k \in Closers : closer[k] = "raised") => phase = "removed"

\* A session that is removed from the table while its shell runs on has been asked
\* to end, whichever of several closes got there first: no shell is left that
\* nobody can end any more.
RemovedIsEnding == phase = "removed" => shell = "gone" \/ closing

\* A session that somebody closes is gone from the table and from its host in
\* the end, whatever it is running and whoever else uses it.
CloseTakesEffect ==
  \A k \in Closers : closer[k] = "waiting" ~> phase = "removed" /\ shell = "gone"

\* session_manager.py:84, "Use a sentinel to detect command completion": a call
\* answered by its sentinel has had its command completed.
SentinelMeansComplete ==
  \A e \in Execs :
    exec[e].st = "done" =>
      /\ running # Input("command", e)
      /\ \A i \in DOMAIN inp : inp[i] # Input("command", e)
===============================================================================
