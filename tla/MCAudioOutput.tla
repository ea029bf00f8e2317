--------------------------- MODULE MCAudioOutput ---------------------------
(* The player as the page makes it: buffers of 20 ms, a lag of 250 ms; fed *)
(* with 5, 15 and 45 ms of sound at a time.                                *)
EXTENDS AudioOutput

MCChunks == {1, 3, 9}
=============================================================================
