----------------------------- MODULE MCManager -------------------------------
(* Two managers, the old and the new, are enough for a reload, which may   *)
(* change the number of threads.  The old one has two, so that one can     *)
(* have ended while the other still holds a client; the new one has none.  *)
EXTENDS SLSManager

TwoThenNone == <<2, 0>>
OnlyMain    == <<0, 0>>

(* A group may hold the listener and one client.                           *)
TwoEach     == <<2, 2>>
=============================================================================
