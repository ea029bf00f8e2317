--------------------------- MODULE MCFileUploads ----------------------------
(* FileUploads on small instances: two connections and two paths.          *)
EXTENDS FileUploads, TLC

CONSTANTS c1, c2, p1, p2

\* Each client uploads to a path of its own.
OwnPaths == c1 :> {p1} @@ c2 :> {p2}
=============================================================================
