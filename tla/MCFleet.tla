------------------------------- MODULE MCFleet --------------------------------
(* Small instances of Fleet for TLC.  No symmetry: liveness is checked.    *)
EXTENDS Fleet
===============================================================================
