---------------------------- MODULE MCShellSession ----------------------------
(* Small instances of ShellSession for TLC.                                *)
EXTENDS ShellSession

\* One command prints two pieces of text, the others one.
First == CHOOSE e \in Execs : TRUE
MCOutput == [x \in Execs \cup {None} |-> IF x = First THEN 2 ELSE IF x = None THEN 0 ELSE 1]

\* bash prints two pieces at its start, and a command none.
MCStart == [x \in Execs \cup {None} |-> IF x = None THEN 2 ELSE 0]

\* Everything prints one.
MCOne == [x \in Execs \cup {None} |-> 1]
===============================================================================
