------------------------ MODULE MCFileManagerClient ------------------------
(* One client that uploads a file of two blocks, an empty one, or both.    *)
EXTENDS FileManagerClient, TLC

CONSTANTS f1, f2, top, sub

MCSize == (f1 :> 2) @@ (f2 :> 0)
MCSelections == {<<f1, f2>>}
=============================================================================
