------------------------------ MODULE RemoteFiles ------------------------------
(***************************************************************************)
(* The files of a host as SFTP clients change them: opening for writing    *)
(* creates or empties the file at a path, writing fills it, removing takes *)
(* it away under those who have it open.  What a file holds is the set of  *)
(* writers whose text is in it.                                            *)
(*                                                                         *)
(* Definitions named Fault... are plausible defects of the definition that *)
(* follows them; no specification uses them.                               *)
(***************************************************************************)
CONSTANTS
  Writers,   (* calls that write to files, each its own text               *)
  Paths,     (* paths on the host                                          *)
  NoFile,    (* nothing is at the path                                     *)
  NoPath     (* not a path: no file is open, or one that has no path now   *)

VARIABLES
  file,     (* file[p]: what is at path p                                  *)
  handle    (* handle[w]: the path of the file w has open                  *)

Texts == (SUBSET Writers) \cup {NoFile}

FilesInit(before) ==
  /\ file = [p \in Paths |-> before]
  /\ handle = [w \in Writers |-> NoPath]

FaultOpenToWrite(w, p) ==
  /\ file' = [file EXCEPT ![p] = IF @ = NoFile THEN {} ELSE @]
  /\ handle' = [handle EXCEPT ![w] = p]

OpenToWrite(w, p) ==
  /\ file' = [file EXCEPT ![p] = {}]
  /\ handle' = [handle EXCEPT ![w] = p]

\* The text of w is written over what another has written since the file was
\* opened, which shows behind it if it was longer, and the file is closed.  A file
\* that was removed meanwhile is written unseen.
Write(w, p) ==
  /\ IF handle[w] = p
       THEN \E rest \in {{}, file[p]} : file' = [file EXCEPT ![p] = {w} \cup rest]
       ELSE UNCHANGED file
  /\ handle' = [handle EXCEPT ![w] = NoPath]

\* The file is closed with nothing written.
CloseUnwritten(w) ==
  /\ handle' = [handle EXCEPT ![w] = NoPath]
  /\ UNCHANGED file

FaultRemoveFile(p) ==
  /\ file' = [file EXCEPT ![p] = NoFile]
  /\ UNCHANGED handle

RemoveFile(p) ==
  /\ file' = [file EXCEPT ![p] = NoFile]
  /\ handle' = [w \in Writers |-> IF handle[w] = p THEN NoPath ELSE handle[w]]

FilesTypeOK ==
  /\ file \in [Paths -> Texts]
  /\ handle \in [Writers -> Paths \cup {NoPath}]
  /\ \A w \in Writers : handle[w] # NoPath => file[handle[w]] # NoFile
===============================================================================
