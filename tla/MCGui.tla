------------------------------- MODULE MCGui -------------------------------
(* Pages with one or two services, with and without web authentication.    *)
EXTENDS Gui

MCOptions ==
  {{"reconnect", "terminal"}, {"reconnect", "notification"},
   {"reconnect", "notification", "slowClose"}, {"reconnect", "audio"},
   {"reconnect", "webAuth", "notification", "audio"}, {"reconnect", "webAuth", "terminal"},
   {"terminal", "audio"}}
=============================================================================
