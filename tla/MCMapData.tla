----------------------------- MODULE MCMapData ------------------------------
(* A ring of five cells, packets of two: the packet size does not divide   *)
(* the ring, a buffer of two packets cannot hold a full ring, and the log  *)
(* is long enough to lap a reader twice.                                   *)
EXTENDS SLSMapData
=============================================================================
