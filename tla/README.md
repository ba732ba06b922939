# TLA+ model of ssh-shell-mcp

ssh-shell-mcp is an MCP server: an agent calls its tools, and the tools run
commands, keep shell sessions and tunnels, and move files on remote hosts over
SSH. It is one Python process with one asyncio event loop. Every tool call is a
task; tasks interleave only where a coroutine suspends at an `await`. Two bridges
offer the same functions to others: `web_server.py` over HTTP, and
`copilot_bridge.py`, a second MCP server whose tools are requests to the first.
All state but the audit log is in memory, so a crash loses it. What is hard is
the interleaving of calls, also on the remote hosts, their timeouts and
cancellations, the death of connections, and calls that are abandoned halfway.

This directory holds the TLA+ modules that model the server and its bridges, the
TLC configurations that check them on small instances, and theorems about them
that TLAPS checks for every value of the constants.

## 1. The system

| Component | State | Operations | Interacts with |
|---|---|---|---|
| Registry and pool, `server/connection_manager.py` | `_registry`, `_registry_loaded`, `_pool`, `_locks`; per connection `in_use` and whether it is alive | register, remove, list hosts; `get_connection`, `release_connection`; `close_all` | every component that reaches a host takes a connection here |
| Security policy, `server/security.py` | `_rate_counters` | `check_host`, `check_command`, `check_rate_limit`, `enforce` | called by `_gate` of `server.py` |
| MCP tools, `server.py` | none of its own | some fifty tools; retry, ping, tmux and fleet health have loops and timeouts | all components below |
| Sessions, `server/session_manager.py` | `_sessions`; per session a remote `bash -i`, its output stream, its buffer and its environment | create, exec, read buffer, set env, list, close | takes a connection and never gives it back |
| Command execution, `server/shell_engine.py` | none | exec, stream, batch, script upload, exec with env | pool, audit log; a script leaves a file on the host for a while |
| Orchestration, `server/orchestrator.py` | none | parallel, rolling, group, broadcast, playbooks | command execution; reads the registry |
| File operations, `server/file_ops.py` | none; the files are the hosts' | SFTP upload, download, read, write, delete, list, sync | takes a connection and never gives it back |
| Tunnels, `server/network_tools.py` | `_tunnels`, and a listener for each | open local, remote, SOCKS; close, list | takes a connection and never gives it back |
| Audit log, `server/audit.py` | `_history`, a ring of 500; `audit.jsonl` | append, read the last n, statistics | written by execution and tools |
| Process and system tools, `server/process_manager.py`, `server/system_inspector.py` | none | build commands, parse their output | command execution, audit log |
| HTTP bridge, `web_server.py` | its own registry, pool and ring | dispatch of requests | the same functions as the tools |
| Copilot bridge, `copilot_bridge.py` | none | start-up that looks for the web server; a request per tool | the HTTP bridge |

What makes each correct, and what is hard about it:

* **Pool.** `get_connection` looks up the configuration, waits for the host's
  `asyncio.Lock`, and either takes a live connection with a use to spare or
  suspends in `asyncssh.connect` with the lock held. Meanwhile other callers
  release, connections die, hosts are registered again or removed, and a
  `wait_for` around the call may cancel it, in the queue or in the connect.
  Counters must stay exact, capacity must hold, one connect per host must be in
  flight, no live connection may drop out of the pool, what is handed out must
  be alive, and every waiter must be served or refused.
* **Policy gate.** The rate limit is a sliding window shared by all tools. It
  must hold in every window, refuse only when full, and one refused host of
  `ssh_parallel` must stop all of them.
* **Sessions.** Output of a command is found in a shared stream by an end
  marker, in reads that end anywhere. Two commands in one session, or a command that
  timed out and then answers, mix their output; two closes of one session race;
  creation can fail after the remote shell was started.
* **Execution and orchestration.** Connect errors are raised, command errors are
  returned; a loop over hosts may or may not survive either. A list must stop
  where it should and nowhere else, and what is answered must agree with what was
  audited, whatever runs beside it.
* **Scripts.** Upload, run and remove are three steps on a path that is named by
  the second, each may fail, and a command goes on after its caller timed out.
* **Tunnels.** A tunnel is opened in three steps and closed by whoever names it;
  its connection may die in between and afterwards, and a host closes its listener
  when it gets to it. A listener must never be left that nobody can close or has
  closed.
* **Files.** Opening a file to write empties it. Two calls that meet at a file,
  or one that fails after the opening, leave it empty or mixed; what is reported
  as written must be there.
* **Audit log.** A ring at its limit, and a slice by a limit that may be zero.
* **Bridges.** The Copilot bridge gives up after sixty seconds on a request that
  may go on; the web server may crash with it and come back without its
  registry. A command must not be sent twice, and what is answered must be so.

## 2. Modules

| Module | What it is |
|---|---|
| `ConnectionPool` | registry and pool, every operation, every interleaving of callers |
| `ConnectionLease` | what the pool promises its callers: borrowing live connections within their capacity |
| `MCConnectionPool`, `ConnectionPoolProofs` | instances for TLC; theorems about the pool, and that it implements the lease |
| `PolicyGate` | the policy, the rate window and the families of tools that use or do not use the gate |
| `MCPolicyGate`, `PolicyGateProofs` | instance; theorems |
| `ShellSession` | one shell session, its remote bash and terminal, and the calls that share its streams |
| `MCShellSession`, `ShellSessionProofs`, `SessionOutputProofs` | instances; theorems, the second about what a call gets that is alone |
| `Fleet` | one call that runs commands on hosts: batches, rolling and parallel execution, broadcasts, playbooks, retries, tmux, fleet health, inspection and process tools, down to `ssh_exec`, the audit log and the readers of its ring |
| `FleetPromise` | what a call on hosts promises: lists that advance in order until a result ends them, and an answer that tells what was run |
| `MCFleet`, `FleetProofs` | instance; theorems about a call, and that it keeps the promise |
| `Tunnels` | opening, listing and closing tunnels over connections that may be lost |
| `RemoteFiles` | the files of a host as SFTP clients change them |
| `Scripts` | `ssh_exec_script` on one host: upload, run, remove, and what the host does of it later |
| `HostWork` | tunnels and scripts together over the connections of one host, as `ConnectionLease` promises them |
| `MCHostWork`, `HostWorkProofs` | instances; theorems |
| `FileOps` | calls that read, write, delete and sync the files of a host |
| `MCFileOps`, `FileOpsProofs` | instance; theorems |
| `Bridge` | the Copilot bridge and the web server it talks to, two processes of which one crashes |
| `MCBridge`, `BridgeProofs` | instance; theorems |

How they meet. In the code everything that reaches a host goes through
`get_connection`. `HostWork` composes two of its users with `ConnectionLease`,
the abstract specification that `ConnectionPool` is shown to implement: a caller
obtains a live connection, gives its use back, or leaves without. `ShellSession`,
`Fleet`, `FileOps` and `Bridge`, which do not look at what others hold, take
`get_connection` as a step that succeeds or raises at any time. `Fleet` takes
the outcome of the gate. `Scripts` and `FileOps` share `RemoteFiles`.

Definitions whose names start with `Fault` are plausible defects of the
definition after them. No specification uses them; putting one in the place of
its definition makes TLC report the property it is meant for.

### ConnectionPool

| Code | Model |
|---|---|
| `_registry`, `_registry_loaded` | `registry`, `loaded`; a host is registered when its value is not `None`; of its configuration only the target (address, user, credentials) is kept |
| `_pool[h]`, a list | `pool[h]`, a set: connections are numbered in the order they are opened and appended, so the first of the list is the smallest of the set |
| `PooledConnection.in_use`, `is_alive` | `conn[c].inUse`, `conn[c].alive` |
| `_locks[h]`, an `asyncio.Lock` | `lock[h]` and the FIFO `queue[h]` |
| a task inside `get_connection` | `task[t]`: idle, waiting, connecting, holding |

An action is what runs between two suspension points. `GetConnection` runs up to
the lock; if the lock is free (nobody has it and nobody is queued, the condition
of `asyncio.Lock.acquire`) it goes on through `Reuse` or up to the connect.
`Wake` is a queued task that gets the lock; a lock that was released and whose
first waiter has not yet run is not free for others. `ConnectOk` and
`ConnectFail` end a connect. `CancelWait` and `ConnectFail` also stand for a
cancellation, which `ssh_ping_host` makes with `wait_for`. `Release` is
`release_connection`, which counts down only what is still in the pool. `Leave`
is the end of a user that never calls it: the file operations, and sessions and
tunnels once they are over. It only touches `conn[c].lost`, a history counter.
`Die` is the loss of an SSH connection.

`RegisterHost` and `RemoveHost` leave the pool alone, as the code does.

### PolicyGate

A pattern is the set of names or commands it matches, so the regular expressions
and globs of `policies.yaml` become constants. `calls[h]` is `_rate_counters[h]`,
as indices into the history `admitted[h]` of the times of all calls let pass.
`time.time()` is `now`, which the model takes to be monotone; `RateTenths` is
the limit in tenths because it is a float. `CommandTool`, `BatchTool`,
`UngatedTool`, `CheckCommand` and `ParallelCall`/`ParallelGate` are the five
ways tools use the gate. A check never suspends; the loop of `ssh_parallel`
makes one after the other, so while `par` is not `NoPar` only it and the clock
move. `answer` is the last result of a tool.

### ShellSession

| Code | Model |
|---|---|
| the entry in `_sessions` | `phase`: none, draining, listed, removed, failed |
| the remote `bash -i` | `shell`: off, boot, prompt, busy, gone, and `running`; `printed` pieces of output, of which `whole` are in lines that have ended |
| `process.close()` | `closing`: the host was asked to close the channel |
| `process.stdin`, `process.stdout` | `inp`, `out`: what was written and is not yet read |
| `output_buffer` | `buffer` |
| a call of `execute_in_session` | `exec[e]`: where it stands, `lines` collected; history: `alone` in the session, `fresh` stream |
| a call of `close_session` | `closer[k]` |
| `session.env` and its `export` | `envs`, a count |

Sessions meet only in the table, which is keyed by fresh ids, so one session is
enough; that two ids made from eight hexadecimal digits coincide is ignored.
`create_process` asks for a terminal, and a terminal echoes: what is typed while
bash is at its prompt is echoed as bash reads it, what is typed while something
runs is echoed at once. A command prints numbered pieces of text, and each ends its
line or leaves it unfinished (`eol`); an echo goes on with an unfinished line and
ends it. Of the echoes the model keeps the sentinels and that end, and no prompts.
A read (`ReadChunk`, `DrainRead`) returns any part of what has been printed, also one
that ends inside a line or a sentinel. What the code does with it is in the model:

* `splitlines` and `"\n".join` make two lines of one that two reads return in parts,
  so a chunk's last line counts as ended (`Ended`), in the answer and in the buffer;
* a sentinel that two reads return in parts is found by neither (`Torn`), and the
  call goes on to the printed one or to its timeout;
* the line with the sentinel is dropped with all that is on it, also with the part
  of an unfinished last line of output that came in the same read (`LineBegins`), and
  so is the rest of the chunk.

Lines end with two characters; a read that ends between them adds an empty line to
what is returned, which the model leaves out, as the properties are about the text.

`process.close()` only asks for the end of the channel. The host does so later
(`Hangup`), and `CloseTimeout` removes the session without waiting for it. A read on
a lost connection raises when all is read (`StreamBroken`): then `create_session`
raises (`DrainRaises`), and a command is answered with the error and without what it
had collected (`ExecRaises`). Commands that read their standard input, and a client
that cancels its call, are not modelled.

### Fleet

| Code | Model |
|---|---|
| a tool call and its arguments | `call`: the mode, the list of commands of each subtask, the stop flag |
| a coroutine in `asyncio.gather`, or the only one | `sub[i]`: where it stands in its list, its results |
| commands that reached a host | `sent`, a history |
| `audit.jsonl` | `log` |
| `_history` | `ring` |
| `get_history(limit, host)` | `GetHistory` |
| what the tool returns | `answer` |

`Connected`, `ConnectFails`, `EndsAndGoesOn`, `EndsAndReturns` and `Awake` are the pieces of
the loops between suspension points. The loops of `ssh_exec_batch`,
`ssh_rolling_exec`, `run_playbook`, `ssh_exec_retry`, the two steps of
`ssh_tmux_send`, the fallback of `ssh_logs` and the row of commands of
`ssh_system_info` differ in `GoesOn`, in what they keep (`Collected`), in whether
they sleep, and in whether the whole is audited once more. A command that exits
with an error, times out or raises has the result "failed": the code handles them
alike up to the text. `PingTimeout` is the outer `wait_for` of `ssh_ping_host`;
each ping of a fleet asks the policy for itself and may be refused. The
informative records a loop appends when it stops are left out. Empty lists of
hosts or steps are left out too: they return at once.

`FleetPromise` forgets connects, sleeps, retries and the ring. Of a call it keeps
the lists that were `asked` (with the results that end a list, taken from
`GoesOn`), what is on record as `done` of each, and what is `told`. The mapping
reads `done` from the audit log (`Recorded`) and `told` from the answer, without
the words for a host that was not reached (`OfCommands`). An answer must tell of
each list that came to its end exactly what is on record, or the last of it for
the tools that keep one result, and nothing of a list that was cut short.

### Tunnels, Scripts and HostWork

| Code | Model |
|---|---|
| a call of `open_local_forward`, `open_remote_forward`, `open_dynamic_proxy` | `tunnel[o]`: idle, connecting, forwarding, up (its listener is, the call has not gone on), open, closing or failed; the port it asked for, in this process or on the host (`HostPorts`) |
| `_tunnels` | `table`, by the calls that opened them |
| the `asyncssh` listener of a call | `listener[o]`: the connection it is up over, or `NoConn` |
| a call of `close_tunnel` | `close[k]` |
| a call of `ssh_exec_script`, its `int(time.time())` | `script[s]` with its `second`; `clock` |
| `/tmp/_mcp_script_<second>.sh` on the host | `file[second]`, `handle[s]` |
| the interpreter, and `rm -f`, on the host | `run[s]`, `rm[s]`: sent, and later carried out or never |
| a use of a pooled connection | `lease[t]`; a script is two callers, its upload and its command |

`close_tunnel` pops the entry and asks the listener to close without a suspension in
between (`Pop`). One that is in this process has closed then; one on the host closes
when the host gets to it (`HostCloses`), or never. The wait for it (`CloseEnds`)
returns or raises, and both are answered alike. `Lost` is the death of a
connection: its listeners go, their entries stay. A local listener needs nothing from
the connection to come up, so it may do so after the loss (`ListenerUp`), or not be
told of a loss while its call has not gone on (`Lost`); one on the host needs its
answer, and its call fails when that is lost (`ForwardFails`). Calls that are
cancelled while they open or close a tunnel are not modelled. `HostReads` and `HostRemoves`
are steps of the host; nothing ties them to the call that sent the command, which
may have timed out. A file holds the set of scripts whose text is in it: none
when it was opened and not yet written, two when a shorter text was written over
a longer one.

### FileOps

| Code | Model |
|---|---|
| a call of `ssh_upload_file`, `ssh_write_file` | a "write" with a text of its own |
| `ssh_download_file`, `ssh_read_file` | a "read"; `seen[c]` is what it returned |
| `ssh_delete_file`, `ssh_sync_directory` | "delete", "sync" with a set of paths |
| where the call stands, its counts and errors | `call[c]` with `todo`, `at`, `done`, `failed` |
| the remote files | `file`, `handle` of `RemoteFiles` |

`Turn` goes to the next file, and `OpenFile` opens it to write, which empties it.
`WriteText` may report an error although the text was written (the close of the file
failed), `Delete` likewise; `Error` is one before the effect, and may come before the
file was opened, as from `makedirs`, or after. `before[c]` records
which calls were over when `c` began, so that properties can tell calls that
overlap from calls that follow each other.

### Bridge

| Code | Model |
|---|---|
| the loop of `startup` | `probes` |
| a call of a tool of `copilot_bridge.py` | `asked[c]`, `client[c]` |
| the request in `web_server.py`, up to its status | `server[c]` |
| `_registry` of the web server | `registry` |
| the process of the web server | `up`, `crashes` |

`GivesUp` is the timeout of `httpx.AsyncClient` or a broken connection; the web
server is not told and goes on. `Crash` loses its requests and its registry, which
`Restart` finds again only as far as `hosts.yaml` has it. `Answer` is what each
tool makes of a status: only `ssh_exec` looks at it. `Lookup` may refuse an `ssh_exec`
with 400, when its host or command is empty.

## 3. What is checked

| Run | Instance | Shows |
|---|---|---|
| `MCPoolSafety.cfg` | 2 hosts, 3 tasks, 2 uses per connection, 3 connections; 1.3 million states | exact counters, capacity, one connect per host, no live connection forgotten, growth only under demand, the load keeps registrations, refinement of `ConnectionLease` (with it, only live connections are handed out) |
| `MCPoolLiveness.cfg` | 1 host, 3 tasks, 1 use, 2 connections; 6 thousand states | every waiter is served or refused |
| `MCPoolLostSlots.cfg` | 1 host, 2 tasks | fails: finding 1 |
| `MCPolicyGate.cfg` | 3 hosts, 3 commands, 1.5 calls per second, 2 ticks a second, 4 times; 2.5 million states | rate window, refusals, what gated tools run |
| `MCSessionOutput.cfg` | 2 commands of two pieces of output and of one; 18 million states | a command left alone gets the lines it has ended, of its last unfinished one the front at most, and nothing of another's |
| `MCSessionClose.cfg` | 3 closes, a command, a `set_env`, bash printing two pieces at its start, buffer of 1; 0.9 million states | one close wins, a shell that outlives its session was asked to end, a close takes effect; the drained buffer is the newest output |
| `MCSessionSentinel.cfg` | 2 commands, 1 close, 1 `set_env` | fails: finding 2 |
| `MCFleet.cfg` | up to 3 of 2 hosts, lists of 2, history of 2; 68 thousand states | lists run up to what stops them, log and answers agree, the ring is the end of the log and its readers get the newest of it, nothing runs after an answer, every call is answered; refinement of `FleetPromise` |
| `MCHostWork.cfg` | 1 tunnel on a port here or on the host, 2 closes, 2 scripts in two seconds, 2 connections of 2 uses; 1.9 million states | what listens is listed, about to be, or was asked to close; uses are held by who works with them, scripts of different seconds never mix, a file that is left was not removed |
| `MCScriptMixup.cfg` | 2 scripts in one second | fails: finding 3 |
| `MCFileOps.cfg` | 3 calls on 2 files; 5 million states | what is reported as written is there, reads see the last write, only failed or concurrent writes damage a file |
| `MCBridge.cfg` | 3 calls, 2 hosts of which 1 is in `hosts.yaml`, 2 probes, 2 crashes; 1.7 million states | no command is sent twice, what is answered of a command is so |

Why the bounds are enough. Three tasks are more than the two uses of a
connection, so a pool is full while a caller waits; one more caller can then
queue behind a connect. Three connections let one die and be pruned while two
are live on the same host. With one use per connection and three tasks, two
tasks queue behind the third. A second host makes mixing pools possible, and is
registered only at run time. In the gate, the window of two ticks is crossed
both inside and at its end in four ticks; 1.5 calls a second make the limit
fractional; one host matches no pattern, one command is both blocked and
allowed, and one is neither. Two hosts in `ssh_parallel` let the second fail after
the first passed; a list may name one host twice.

Two commands are what it takes to mix streams: one leaves output or a busy shell, the
other meets it. One of them prints two pieces, so that one can be in an ended line and
one in an unfinished one, both in one line, or each in a read of its own. With a buffer
of one line every drained chunk overflows it, also one that ends inside a line. Three
closes let two wait while a third comes to a dead shell. In a fleet call, lists of two
commands have a last one and one that is not; three subtasks let one raise, one run
and one be done; a list may name a host twice; a ring of two overflows in every mode
with more than one subtask, and limits of one and two are read from it.

One tunnel is enough beside the scripts: tunnels meet only at a port that is taken,
a forward may fail without that as well, and the theorem is about any number of them.
Two closes meet one entry, or one that the
other has popped, while it is being opened, open or closed. Two scripts may share a
second or not, and one may start while the other is at any of its steps; with the
tunnel they want more uses than the connections have. Two connections let one die
under a script or a tunnel while others go on. Three calls on two files let one begin
after a second that overlaps a third; a sync has a file before and one after the
one it fails at. Two crashes of the web server let a registry be lost, built up
again and lost again, each with a request at work; of two hosts one comes back
with a restart and one does not.

Symmetry is used only for tasks, commands, tunnels, scripts, the calls of `Bridge`
and, with the files, the calls and paths of `FileOps`, and not where liveness is
checked.
All of these are interchangeable: no definition names or orders one.

Deadlock is checked for the pool and the gate, which never stop. A session, a
fleet call, the work on a host, file calls and bridged calls come to an end, and
their runs allow it.

Fairness. `FairSpec` of the pool assumes that the event loop resumes a waiter
whose lock was released, which asyncio does in FIFO order, and that every connect
ends: `get_connection` passes `connect_timeout`. Nothing is assumed of holders,
deaths or registrations. For a session the wait of `close_session` is fair, which
ends by the exit of the shell or after three seconds, and `Hangup`: a host that is
asked to close a channel does so, or the connection is lost. Commands may run for
ever. For a fleet call the event loop, the connects (`connect_timeout`), the commands
(`wait_for` in `ssh_exec`) and the sleeps of finite length are fair. Nothing is
claimed to happen in the end of tunnels, scripts and file calls: SFTP and
`wait_closed` have no timeout. Nor of bridged calls: that each ends is what the sixty
seconds of `httpx` say, and a property could only repeat that assumption.

## 4. What is proved

Each theorem holds for every value of the constants that satisfies the named
assumptions of the module: `None` and its like are no names, sets that are counted
are finite, sizes are positive.

**Pool.** `TypeCorrect`, `AccountingHolds`, `CapacityHolds`,
`OneConnectPerHostHolds`, `NoLiveConnectionForgottenHolds`, `HandsOutLiveHolds`,
`LoadKeepsRegistrationsHolds`, `PoolGrowthJustifiedHolds`,
`SomeoneHasTheTurnHolds`, and `PoolImplementsLease`. `Accounting` is not
inductive. A release at the wrong host would leave a counter up, so `PoolOwner`
says a pooled connection is held only by callers of the host that pools it; a fresh
connection must have no holder, so `FreshConn` and the last part of `TypeOK` say
that numbers above `opened` are unused and nobody holds them; `Capacity` follows for
pooled connections from `Accounting` and the test on `in_use`, and is kept for
pruned ones because nobody can take them any more. `IndInv` is the conjunction.
The proofs split a step into *quiet* ones, which move no connection and at most
prune, and the five that do (take, open, release, leave, die); each lemma looks at
those six cases only, and the same six are the stuttering and the five actions of
`ConnectionLease`. `HandsOutLive` has a theorem and no run: `ImplementsLease`, which
has both, asks it of every borrow.

`PoolGrowthJustified` is not inductive either: nothing in it says what was true when
the connect began that now makes the pool longer. `GrowthInv` adds that while a
connect to a host is in flight the uses of all its live connections, the newest
included, are fewer than the tasks and the lost uses together (`CoveredBut`). It is
true when the connect begins, because nothing can be reused then: the uses of live
connections, as pairs of a connection and a number, are all lost or map one to one
into the tasks, and the task that connects is left over (`AllCovered`). What happens
afterwards only loses more uses or takes connections away (`GrowthKind`); a death
takes as many uses out of one side as it can take out of the other.

`SomeoneHasTheTurn` is what `ServedOrRefused` rests on besides fairness: whoever
waits at a host waits for a connect of another there, or finds the lock free with a
live waiter at the head of the queue. It needs `WaitersQueued`, that the queue of a
lock holds exactly its waiters, each once; a call that enters at the end, leaves from
the head or is cancelled in the middle keeps that (`QueueMoves`).

**Gate.** `TypeCorrect`, `RateWindowHolds`, `RefusalJustifiedHolds`,
`GatedRunsPermittedHolds`. The rate window needs `RecentKept`: every call let pass
within the last window is still in the list, so what the check counts is the whole
window. Its converse for refusals needs nothing but the types and that history only
grows. What `ssh_parallel` runs needs `Passed`: the hosts of the call that are not
left in the loop were permitted, by a head-or-tail argument over the list.

**Session.** `TypeCorrect`, `OneCloseWinsHolds`, `RemovedIsEndingHolds`,
`BufferIsTailHolds`. The types need `Written`: what bash has yet to echo belongs to a
call. `OneCloseWins` counts; `CloseInv` instead names the one close that won (`Won`)
and says that a removed session has one and an unremoved one none, which each end
of a close preserves, and that its shell is gone or was asked to end: a close finds
it gone (`CloseExited`, a write that raises) or asks (`CloseTimeout`). `BufferIsTail`
needs `EarlyInv`: until the session is listed nobody writes to it, and buffer and
stream are the newest pieces printed (`NewestPrinted`), which a read that overflows
the buffer keeps wherever it ends (`DrainMoves`), as does a piece that is printed; the
lines of a row are counted by the pieces that end one (`LinesKept`, `LinesLess`).
`ExactWhenUndisturbedHolds` lays what a call that is alone has collected and what is
still unread in one row (`Stream`). `Answering` says that this row tells its whole
output so far in order, with the last ended piece at the end of a line (`Told`), that
none of its sentinels is in the row while bash has anything left to read, and how far
bash is with its two lines (`Stage`). A read moves text within the row or ends a line
in it, or tears the one sentinel it ends in; a row of the same text tells the same
(`Alike`, `SameTold`). An answer is the row up to the line of the sentinel: no output
follows the sentinel, and the line begins behind an ended piece, so all ended lines
are before it, and of the last one a front (`PrefixTold`, `Given`). `Untouched` starts
it: nothing of a call is anywhere before it begins.

**Fleet call.** `TypeCorrect`, `HistoryIsTailHolds`, `NothingRunsAfterAnswerHolds`,
`HistoryIsNewestHolds`, `RunsExactlyUntilStoppedHolds`, `AuditTellsResultsHolds` and
`FleetKeepsPromise`. The
ring is inductive as "the newest entries of the log" (`PushNewest`: an append
and a pop give the newest of the longer log; twice for a playbook). For
`NothingRunsAfterAnswer`, `AnsweredIsOver` says that once answered no subtask is
left; a loop answers for its only subtask, which `LoopsAreOne` gives.

The others are about what is filtered out of a log. `Picked` says which elements a
list comprehension with a condition keeps, by the rank of each place among the
places that meet it; ranks are a bijection (`RankBijection`), so one more place at
the end is one more element (`PickMore`), and of a tail of the log the same elements
are picked but for those at its dropped places (`PickTail`). The last gives
`HistoryIsNewest`: what is picked from the ring is the end of what is picked from
the log (`RingOfHost`). `RecordedMore` and `RecordsOfStep` say that an audit adds to
the records of the one subtask that ran a command and to no others. `RunInv` is
inductive: `Fits` ties the records of a subtask to its step in its list, and
`Tells` to the results it has for an answer. Both properties follow, and with
`Settled`, which says that playbooks answered with results are all done, so does the
refinement: the end of a command is an `Advance`, which `Fits` says is of a list not
at its end (`EndsTell`) and which answers at once when the tool is a loop; the
answers of `gather` name a subtask on every host (`OneIsKept`).

**Host work.** `TypeCorrect`, `ListenersAreListedHolds`, `UsesAreHeldHolds`,
`ApartScriptsRunOwnHolds`, `LeftoversAreUnremovedHolds`, all from `HostInv`. `LeaseInv`
says that only opened connections are up or borrowed, so a connection that is opened
for one caller revives no listener of another. `Placed` says of each tunnel by itself
when it has its use (`TunnelUses`), over what its listener can be up (`ListenerFits`:
the connection it holds, or after its close one of the host), and when the table shows
it (`ShownFits`); an action changes one tunnel, but for a lost connection
(`LostStep`). `ScriptUses` is the same for the two callers that a script is, which are
all different (`Callers`). For the files, `Steady` ties what was sent and what is open
to the place of a script, `FindsOwn` says what a script alone in its second finds at its
path, and `Owned` that a file is there only for a script that has opened one (`Began`)
and whose removal was not carried out. A step of one side leaves the other's part alone
(`Spares`, `TunnelsLeftAlone`).

**File calls.** `TypeCorrect`, `WrittenIsThereHolds`, `DamageIsExplainedHolds`. `CallsInv`
says where a call stands and that it has a file open only between `OpenFile` and
the end of its turn (`Steady`). `WrittenIsThere` needs `Keeps`: an
undisturbed writer has its file open and empty up to its text, and its text there
afterwards. `DamageIsExplained` needs three parts: `Behind`, that a text that shows
behind an open file came from a call that overlaps; `Emptied` and `Mixed`, who is to
blame for either. `ReadIsLastWriteHolds` needs `LastStands`, that calls that changed
a file in turn leave there what the last of them did, and `ReadsOnce`, that a read
is over once it has read, so that no call can come between.

**Bridge.** `TypeCorrect`, `SentOnceHolds`, `AnswersHoldHolds`. `CallFits` ties how
often a command was sent, and what the client has, to the state of the request in
the web server, for each call by itself; a crash forgets the request but never
moves it back.

Only model-checked is liveness (`ServedOrRefused`, `CloseTakesEffect`, `CallAnswered`),
which with fairness and ENABLED is out of the prover's reach.
Every safety property of a passing run is a theorem. What a run refutes (section 5)
is shown by the counterexample of TLC.

## 5. Findings

1. `IdleMeansUnused`. File operations, sessions and tunnels never call
   `release_connection`. The counter stays up; after `pool_size` such calls the
   connection is never reused, and a new one is opened beside it.
2. `SentinelMeansComplete`. A command sent to a session while its shell is busy
   is answered by the terminal's echo of its own sentinel, before it has run.
3. `RunsItsOwnText`. Two scripts that start on a host within one second share a
   remote path: one may run the other's text, or find its file removed.

Noticed while modelling, without a run of their own:

* Pool and registry. Pooled connections are found by host name and survive
  `remove_host` and `register_host`: a host registered again at another address is
  served from connections to the old one. A host of `hosts.yaml` that was removed
  is back after a restart. The group tools, fleet health, `ssh_full_status` and
  `ssh_check_host_access` read the registry before it is loaded. `close_all` of
  the pool and of the tunnels has no caller.
* Gate. `README.md:386` says every tool is gated; several call the gate without
  their commands (`ssh_run_batch`, `ssh_run_script`, `ssh_playbook`) and several do
  not call it. `ssh_check_command`, a dry run, takes a place in the host's rate
  window (`server.py:856`).
* Sessions. When the drain of a new session times out or raises, the shell runs on and
  no session lists it. Output without a line end shares its last line with the echo of
  the sentinel, and `execute_in_session` drops that line (`session_manager.py:101`): of
  `printf done` nothing may be returned. A read that ends inside a line puts a line
  break into it. `close_session` answers that a session is closed when it has only asked
  for it (`session_manager.py:132`). `execute_in_session` never fills the buffer that
  `ssh_session_read` returns; it holds what was drained at creation
  (`docs/tools.md:27`). Sessions whose shell has died stay in the list
  (`docs/tools.md:29`).
* Execution. A connect that fails ends `ssh_exec_retry`, `ssh_rolling` and the
  batches by an exception: it is not retried, and results so far are lost to the
  caller, also with `stop_on_error=False`. When one playbook of a group raises, the
  call answers at once and the others run on. `ssh_broadcast` answers by host, so
  of a host named twice one list of results is dropped. `run_playbook` counts its
  closing remark as one of `steps_run`. `ssh_background_process` answers "failed"
  when its command timed out, though it may run; `ssh_start_process` in the
  background answers that it started whatever happened; `ssh_monitor_process`
  answers that a process is not running when it could not find out.
* Answers. A host of `ssh_broadcast` whose batch ran some commands and then could not
  connect is answered with the error alone (`orchestrator.py:70`): what ran is only in
  the audit log. `FleetPromise` has it as a list that was cut short.
* Audit. A ping whose `wait_for` runs out after its command was sent is not in
  the audit log: a cancellation passes the `except` clauses of `ssh_exec`. Tunnels
  and transfers are audited as "ok" also when they failed (`server.py:748`,
  `server.py:311`). `get_history(0)` returns the whole history. A restart loses
  the ring, though `audit.jsonl` has its entries.
* Files. A write that fails leaves an emptied file behind.
* Tunnels. A tunnel whose connection died stays listed until it is closed, and a local
  one may be listed whose connection was lost before it came up. `close_tunnel` answers
  "closed" (`network_tools.py:127`) also when the close raised, with the host maybe
  still listening and no entry left to close it by. It waits for `wait_closed` without
  a bound.
* Bridges. `ssh_register_host` of the Copilot bridge answers "Host registered" to
  a status of 500. Its `ssh_process_list` always answers null: it passes an
  argument `filter` that the function does not have. The registry of the web
  server is its own, and is not that of the MCP server beside it.
  `copilot_bridge.py` ends its `main` with `async with mcp` and `mcp.wait()`; the
  model takes them to serve calls.

## 6. Plan

Done: the pool with its lease, the gate, a session, a fleet call with its promise and
the readers of its ring, tunnels and scripts over the lease, file calls, and the
bridges, each with its proofs.

Left, in this order:

1. An abstract specification of file calls, over which `ReadIsLastWrite` and
   `WrittenIsThere` are statements about a register per file.
2. `PoolShutdown`: `close_all` with callers still connecting, once the code has
   a caller for it.

## 7. Not modelled

* `ssh_exec_stream`, which no tool uses; `get_audit_stats`, whose counts are a fold
  over the ring; `close_all` of the pool, which has no caller.
* What changes nothing and only prints the state of others: listings of hosts,
  files, sessions and tunnels, `web_server_health`.
* Transports and their options, the API's request models, CORS, log files.
* Wording and layout of results, command lines, parsing of YAML, JSON and the
  output of commands, and regular expressions: data the properties do not tell
  apart. The wall clock is taken to be monotone.
* Deployment files, documents and tests have no behaviour of the program.
