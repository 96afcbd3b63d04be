------------------------------ MODULE MCPusher ------------------------------
(* Two upstreams, so that one can be due while the other is not, and a     *)
(* pusher for each; two groups that reconnect them.                        *)
EXTENDS SLSPusherManager

(* In mode hash a start makes one pusher: it takes a second start, while   *)
(* the first one's pusher lives, for two groups to have the manager to     *)
(* connect again at once.                                                  *)
OneOrTwo == [all |-> 1, hash |-> 2]
=============================================================================
