------------------------- MODULE MCNotificationHub --------------------------
(* NotificationHub with two D-Bus calls at a time, for one web client.     *)
EXTENDS NotificationHub
=============================================================================
