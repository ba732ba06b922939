----------------------------- MODULE FleetPromise ------------------------------
(***************************************************************************)
(* What a call that runs commands on hosts promises, whatever its tool     *)
(* does with connections, sleeps, retries and gathers: each of its lists   *)
(* of commands is run in order up to a result that ends it, the answer     *)
(* tells of every list that came to its end exactly what was run, and      *)
(* nothing is run after the answer unless it was an exception.             *)
(***************************************************************************)
EXTENDS Naturals, Sequences

CONSTANTS
  Hosts,     (* host names                                                 *)
  Subs,      (* the lists a call may have                                  *)
  Results    (* what a command may end with                                *)

VARIABLES
  asked,     (* the call: its lists, as the host of each command, the      *)
             (* results that end a list, whether the answer is the last    *)
             (* result only, and whether lists survive an exception        *)
  done,      (* done[i] is what was run of list i and is on record         *)
  told       (* the answer: what it tells of each list it names            *)

promiseVars == <<asked, done, told>>

NotAsked == [lists |-> <<>>, ends |-> {}, last |-> FALSE, late |-> FALSE]

Calls ==
  [lists : Seq(Seq(Hosts)), ends : SUBSET Results, last : BOOLEAN, late : BOOLEAN]

PromiseInit ==
  /\ asked = NotAsked
  /\ done = [i \in Subs |-> <<>>]
  /\ told = [st |-> "none", of |-> <<>>]

\* A client asks for a call.
Ask ==
  /\ asked = NotAsked
  /\ asked' \in Calls \ {NotAsked}
  /\ UNCHANGED <<done, told>>

Lists == DOMAIN asked.lists

\* A list with these results is at its end: it was run out, or one ended it.
AtEnd(i, ran) ==
  \/ Len(ran) = Len(asked.lists[i])
  \/ ran # <<>> /\ ran[Len(ran)].r \in asked.ends

\* What an answer tells of a list with these results: nothing if it was cut short.
Telling(i, ran) ==
  IF ~AtEnd(i, ran) THEN <<>>
  ELSE IF asked.last /\ ran # <<>> THEN <<ran[Len(ran)]>> ELSE ran

\* An answer names a list for every host that a list begins with.
Tell ==
  /\ told.st = "none"
  /\ \E named \in SUBSET Lists :
       /\ \A i \in Lists : \E j \in named : asked.lists[j][1] = asked.lists[i][1]
       /\ told' = [st |-> "results", of |-> [i \in named |-> Telling(i, done'[i])]]

\* The next command of list i is run at its host.  A call with one list may
\* answer in the same breath.
Advance(i) ==
  /\ told.st = "none" \/ (told.st = "raised" /\ asked.late)
  /\ i \in Lists /\ ~AtEnd(i, done[i])
  /\ \E r \in Results :
       done' = [done EXCEPT ![i] =
                  Append(@, [host |-> asked.lists[i][Len(@) + 1], r |-> r])]
  /\ UNCHANGED told \/ Tell
  /\ UNCHANGED asked

\* The call answers with results, or with an exception that tells nothing.
Answer ==
  /\ asked # NotAsked
  /\ Tell \/ (told.st = "none" /\ told' = [st |-> "raised", of |-> <<>>])
  /\ UNCHANGED <<asked, done>>

PromiseNext == Ask \/ Answer \/ \E i \in Subs : Advance(i)

PromiseSpec == PromiseInit /\ [][PromiseNext]_promiseVars
===============================================================================
