------------------------------ MODULE MCServer ------------------------------
(* One stream name, where all contention is, and no more objects than it   *)
(* takes to have a publisher replaced while a player and the pull relay    *)
(* are about:                                                              *)
(*   MCServerOne     one worker thread, as misc/srt-server.cfg has it      *)
(*   MCServerPool    two threads, no pull relay                            *)
(*   MCServerRelay   two threads and a pull relay                          *)
(*   MCServerRobbed  the same, for what does not hold there                *)
EXTENDS SLSServer
=============================================================================
