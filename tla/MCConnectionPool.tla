--------------------------- MODULE MCConnectionPool ---------------------------
(* Small instances of ConnectionPool for TLC.                              *)
EXTENDS ConnectionPool

CONSTANTS h1, h2, g1, g2

\* hosts.yaml registers h1 only; h2 is known once it is registered at run time.
MCHostsYaml == [h \in Hosts |-> IF h = h1 THEN g1 ELSE None]

TaskSymmetry == Permutations(Tasks)
===============================================================================
