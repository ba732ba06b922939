------------------------------ MODULE MCHostWork -------------------------------
(* Small instances of HostWork for TLC.                                    *)
EXTENDS HostWork, TLC

MCTasks == Opens \cup {Upload(s) : s \in Scripts} \cup {Command(s) : s \in Scripts}

Symmetry == Permutations(Opens) \cup Permutations(Closes) \cup Permutations(Scripts)
===============================================================================
