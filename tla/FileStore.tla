----------------------------- MODULE FileStore -----------------------------
(***************************************************************************)
(* What the file manager promises about the files that clients upload,     *)
(* without saying how: an upload starts where there is nothing, on a file  *)
(* of its own; the file ends whole or is gone, and an upload that ended    *)
(* never comes back; a file that is whole stays as it is, unless clients   *)
(* move or delete it, which they do at some paths only.                    *)
(***************************************************************************)
CONSTANTS Path, Upload,
          FileOps, \* the paths clients rename, delete and create folders at
          Absent,  \* no file
          Folder   \* a folder

VARIABLES file,    \* file[p]: Absent, Folder, or whose file it is and whether it is whole
          begun    \* the uploads that ever started

vars == <<file, begun>>

Partial(p) == file[p] \notin {Absent, Folder} /\ ~file[p].whole

Init == file = [p \in Path |-> Absent] /\ begun = {}

\* A file is created; that of an empty upload is whole.
Begin(p) ==
  /\ file[p] = Absent
  /\ \E u \in Upload \ begun, whole \in BOOLEAN :
       /\ file' = [file EXCEPT ![p] = [by |-> u, whole |-> whole]]
       /\ begun' = begun \cup {u}

\* The last block is there.
Finish(p) ==
  /\ Partial(p) /\ file' = [file EXCEPT ![p].whole = TRUE]
  /\ UNCHANGED begun

\* The upload is cancelled, abandoned, pushed out or gets too much.
Discard(p) ==
  /\ Partial(p) /\ file' = [file EXCEPT ![p] = Absent]
  /\ UNCHANGED begun

\* Clients move, delete and create what is not being uploaded.
Movable(p) == p \in FileOps /\ ~Partial(p)

Rename(p, q) ==
  /\ Movable(p) /\ Movable(q) /\ file[p] # Absent
  /\ file[q] = Absent \/ (file[p] = Folder <=> file[q] = Folder)
  /\ file' = [file EXCEPT ![q] = file[p], ![p] = Absent]
  /\ UNCHANGED begun

Delete(p) ==
  /\ Movable(p) /\ file[p] # Absent /\ file' = [file EXCEPT ![p] = Absent]
  /\ UNCHANGED begun

CreateFolder(p) ==
  /\ Movable(p) /\ file[p] = Absent /\ file' = [file EXCEPT ![p] = Folder]
  /\ UNCHANGED begun

Next ==
  \E p \in Path :
    \/ Begin(p) \/ Finish(p) \/ Discard(p) \/ Delete(p) \/ CreateFolder(p)
    \/ \E q \in Path \ {p} : Rename(p, q)

Spec == Init /\ [][Next]_vars
=============================================================================
