--------------------------- MODULE MCWebServices ----------------------------
(* WebServices with one connection of each kind and room for two.          *)
EXTENDS WebServices, TLC

CONSTANTS f1, n1, t1

OneOfEach == f1 :> "file" @@ n1 :> "notification" @@ t1 :> "terminal"
=============================================================================
