---------------------------- MODULE BroadcastLog ----------------------------
(***************************************************************************)
(* What a stream promises its players: the publisher appends to a log and  *)
(* every player is handed the log from the moment it attached, in order    *)
(* and without gaps, as long as it stays within Window of the end.  A      *)
(* player further behind is resumed somewhere inside the window.  When the *)
(* stream ends and begins again, the players of the old one are lost: the  *)
(* log promises them nothing.                                              *)
(***************************************************************************)
EXTENDS Integers, Sequences

CONSTANTS Readers, Window

VARIABLES
    open,       \* the stream has a publisher
    total,      \* length of the log
    next,       \* next position of each reader, Unattached or Lost
    handed      \* what each reader was last handed

vars == <<open, total, next, handed>>

Unattached == -1
Lost       == -2

Segment(from, n) == [i \in 1 .. n |-> from + (i - 1)]

Begin ==
    /\ ~open
    /\ open' = TRUE
    /\ total' = 0
    /\ next' = [r \in Readers |-> IF next[r] = Unattached THEN Unattached ELSE Lost]
    /\ UNCHANGED handed

End ==
    /\ open
    /\ open' = FALSE
    /\ UNCHANGED <<total, next, handed>>

Publish ==
    /\ open
    /\ total' > total
    /\ UNCHANGED <<open, next, handed>>

(* A reader attaches at the end of the log and may be handed a preamble.   *)
Attach(r) ==
    /\ open
    /\ next[r] = Unattached
    /\ next' = [next EXCEPT ![r] = total]
    /\ handed' = [handed EXCEPT ![r] = handed'[r]]
    /\ UNCHANGED <<open, total>>

Deliver(r) ==
    /\ open
    /\ next[r] >= 0
    /\ \E behind \in 1 .. Window : \E n \in 1 .. behind :
        /\ total - next[r] <= Window => behind = total - next[r]
        /\ total - behind >= next[r]
        /\ next' = [next EXCEPT ![r] = total - behind + n]
        /\ handed' = [handed EXCEPT ![r] = Segment(total - behind, n)]
    /\ UNCHANGED <<open, total>>

(* Too little is there to fill a packet.                                   *)
DeliverNothing(r) ==
    /\ open
    /\ next[r] >= 0
    /\ handed' = [handed EXCEPT ![r] = << >>]
    /\ UNCHANGED <<open, total, next>>

Orphaned(r) ==
    /\ open
    /\ next[r] = Lost
    /\ handed' = [handed EXCEPT ![r] = handed'[r]]
    /\ UNCHANGED <<open, total, next>>

Init ==
    /\ open = FALSE
    /\ total = 0
    /\ next = [r \in Readers |-> Unattached]
    /\ handed = [r \in Readers |-> << >>]

Next ==
    \/ Begin
    \/ End
    \/ Publish
    \/ \E r \in Readers : Attach(r) \/ Deliver(r) \/ DeliverNothing(r) \/ Orphaned(r)

Spec == Init /\ [][Next]_vars
=============================================================================
