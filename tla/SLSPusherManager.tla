-------------------------- MODULE SLSPusherManager ---------------------------
(***************************************************************************)
(* The push relay of one stream: its CSLSPusherManager                     *)
(* (SLSPusherManager.cc), the pushers it makes, and what the worker groups *)
(* do for it (SLSGroup.cc).  The manager has no thread.  start is called   *)
(* by the listener's thread when the stream gets a publisher, and          *)
(* reconnect by any group that has the manager in its reconnect list,      *)
(* where one of the group's pushers that died has put it.                  *)
(*                                                                         *)
(* Which upstream has to be connected again stands in the manager's table, *)
(* and who will do it in the groups' lists.  Both are written at different *)
(* moments by different threads; the table has a lock of its own, which    *)
(* reconnect_all holds from beginning to end, connections included.        *)
(***************************************************************************)
EXTENDS Integers, FiniteSets, FiniteSetsExt

CONSTANTS
    Groups,         \* the worker threads
    Listening,      \* the one that runs the listener's handler
    Upstreams,      \* m_upstreams, numbered in the order of their urls,
                    \* which is taken to be that of the configuration
    Pushers,        \* pusher objects: bounds how many exist at once
    MaxStarts,      \* bound: starts that came to connect
    MaxEntries,     \* bound: entries of the manager in one group's list
    None            \* model value

ASSUME PusherAssumption ==
    /\ Listening \in Groups /\ IsFiniteSet(Groups) /\ Groups \cap {None, "none", "queue"} = {}
    /\ Upstreams \subseteq Nat \ {0} /\ Upstreams # {} /\ IsFiniteSet(Upstreams)
    /\ IsFiniteSet(Pushers) /\ Pushers \cap Groups = {}
    /\ MaxStarts \in [{"all", "hash"} -> Nat] /\ MaxEntries \in Nat

VARIABLES
    m_mode,                 \* "all" or "hash", from the configuration
    publisher,              \* the registry has a publisher of the stream
    m_map_reconnect_relay,  \* mode all: url -> "no" (not in the table), or
                            \* "wait" or "due" by its time
    m_reconnect_begin_tm,   \* mode hash: likewise, "wait" or "due"
    m_rwclock,              \* the group that holds the table's lock, or None
    m_list_reconnect,       \* group -> entries of this manager in its list
    pusher,                 \* the pusher objects
    worker,                 \* group -> where its thread is in this code
    \* history
    starts,                 \* starts that came to connect
    lost                    \* urls whose pusher was deleted without uninit

table == <<m_map_reconnect_relay, m_reconnect_begin_tm>>
vars  == <<m_mode, publisher, table, m_rwclock, m_list_reconnect, pusher, worker, starts, lost>>

(* The url that get_hash_url picks for the stream.                         *)
HashUrl == Min(Upstreams)
Chosen  == IF m_mode = "all" THEN Upstreams ELSE {HashUrl}

Exists(p) == pusher[p].at # "none"
Free      == {p \in Pushers : ~Exists(p)}
InTable   == {u \in Upstreams : m_map_reconnect_relay[u] # "no"}
NoPusher  == [at |-> "none", url |-> 0]

Idle(g)     == worker[g].pc = "idle"
At(g, pc)   == worker[g].pc = pc
Return(g)   == worker' = [worker EXCEPT ![g].pc = "idle", ![g].todo = {}, ![g].cur = None]
CanLock     == m_rwclock = None
Stamp(u, t) == m_map_reconnect_relay' = [m_map_reconnect_relay EXCEPT ![u] = t]

(* CSLSRelayManager::connect with a socket that could be opened: the new   *)
(* pusher goes to the queue of roles.                                      *)
Connect(u) == \E p \in Free : pusher' = [pusher EXCEPT ![p] = [at |-> "queue", url |-> u]]

-----------------------------------------------------------------------------
(* start, by the listener's thread.                                        *)

PublisherComes ==
    /\ Idle(Listening) /\ ~publisher /\ starts < MaxStarts[m_mode]
    /\ publisher' = TRUE
    /\ worker' = [worker EXCEPT ![Listening].pc = "start"]
    /\ UNCHANGED <<m_mode, table, m_rwclock, m_list_reconnect, pusher, starts, lost>>

Start(g) ==
    /\ At(g, "start")
    /\ IF publisher
       THEN /\ worker' = [worker EXCEPT ![g].pc = "connect", ![g].todo = Chosen]
            /\ starts' = starts + 1
       ELSE Return(g) /\ UNCHANGED starts
    /\ UNCHANGED <<m_mode, publisher, table, m_rwclock, m_list_reconnect, pusher, lost>>

(* connect_all and connect_hash.  Only connect_all enters a failure into   *)
(* the table, for which it waits for the lock.                             *)
ForgetUrl(u)  == UNCHANGED m_map_reconnect_relay
RecordUrl(u)  == IF m_mode = "all" THEN CanLock /\ Stamp(u, "wait")
                 ELSE UNCHANGED m_map_reconnect_relay

ConnectNext(g) ==
    /\ At(g, "connect") /\ worker[g].todo # {}
    /\ LET u == Min(worker[g].todo) IN
        /\ worker' = [worker EXCEPT ![g].todo = @ \ {u}]
        /\ \/ Connect(u) /\ UNCHANGED m_map_reconnect_relay
           \/ RecordUrl(u) /\ UNCHANGED pusher
    /\ UNCHANGED <<m_mode, publisher, m_reconnect_begin_tm, m_rwclock, m_list_reconnect, starts, lost>>

Started(g) ==
    /\ At(g, "connect") /\ worker[g].todo = {}
    /\ Return(g)
    /\ UNCHANGED <<m_mode, publisher, table, m_rwclock, m_list_reconnect, pusher, starts, lost>>

-----------------------------------------------------------------------------
(* The groups.                                                             *)

(* check_new_role: a pusher whose socket has gone meanwhile may not be     *)
(* accepted by the epoll, and is deleted without CSLSRelay::uninit.        *)
TakePusher(g) ==
    /\ Idle(g)
    /\ \E p \in Pushers :
        /\ pusher[p].at = "queue"
        /\ \/ pusher' = [pusher EXCEPT ![p].at = g] /\ UNCHANGED lost
           \/ pusher' = [pusher EXCEPT ![p] = NoPusher] /\ lost' = lost \cup {pusher[p].url}
    /\ UNCHANGED <<m_mode, publisher, table, m_rwclock, m_list_reconnect, worker, starts>>

(* check_invalid_sock: a pusher's connection broke, or it had no data for  *)
(* the idle timeout.  First the manager gets onto the group's list ...     *)
CloseRole(g) ==
    /\ Idle(g) /\ m_list_reconnect[g] < MaxEntries
    /\ \E p \in Pushers :
        /\ pusher[p].at = g
        /\ worker' = [worker EXCEPT ![g].pc = "uninit", ![g].cur = p]
    /\ m_list_reconnect' = [m_list_reconnect EXCEPT ![g] = @ + 1]
    /\ UNCHANGED <<m_mode, publisher, table, m_rwclock, pusher, starts, lost>>

(* ... then uninit calls add_reconnect_stream, and the role is deleted.    *)
UninitPusher(g) ==
    /\ At(g, "uninit")
    /\ IF m_mode = "all"
       THEN CanLock /\ Stamp(pusher[worker[g].cur].url, "wait") /\ UNCHANGED m_reconnect_begin_tm
       ELSE m_reconnect_begin_tm' = "wait" /\ UNCHANGED m_map_reconnect_relay
    /\ pusher' = [pusher EXCEPT ![worker[g].cur] = NoPusher]
    /\ Return(g)
    /\ UNCHANGED <<m_mode, publisher, m_rwclock, m_list_reconnect, starts, lost>>

-----------------------------------------------------------------------------
(* check_reconnect_relay and reconnect.                                    *)

(* reconnect looks the publisher up before it does anything else.          *)
Reconnect(g) ==
    /\ Idle(g) /\ m_list_reconnect[g] > 0
    /\ worker' = [worker EXCEPT ![g].pc = m_mode, ![g].no_publisher = ~publisher]
    /\ UNCHANGED <<m_mode, publisher, table, m_rwclock, m_list_reconnect, pusher, starts, lost>>

(* On SLS_OK the manager leaves the list.                                  *)
LeaveList(g, ok) ==
    m_list_reconnect' = IF ok THEN [m_list_reconnect EXCEPT ![g] = @ - 1] ELSE m_list_reconnect

(* Nothing locks m_reconnect_begin_tm: two groups may both have found it   *)
(* due, which here is a DueHash between their steps.                       *)
ReconnectHash(g) ==
    /\ At(g, "hash")
    /\ \/ /\ m_reconnect_begin_tm = "wait"
          /\ UNCHANGED <<m_reconnect_begin_tm, pusher, m_list_reconnect>>
       \/ /\ m_reconnect_begin_tm = "due"
          /\ m_reconnect_begin_tm' = "wait"
          /\ \/ UNCHANGED pusher /\ LeaveList(g, FALSE)
             \/ ~worker[g].no_publisher /\ Connect(HashUrl) /\ LeaveList(g, TRUE)
    /\ Return(g)
    /\ UNCHANGED <<m_mode, publisher, m_map_reconnect_relay, m_rwclock, starts, lost>>

(* ret is that of the last connect, all_ret says that none failed.         *)
ReconnectAll(g) ==
    /\ At(g, "all") /\ CanLock
    /\ m_rwclock' = g
    /\ worker' = [worker EXCEPT ![g].pc = "table", ![g].todo = InTable,
                                ![g].ret = FALSE, ![g].all_ret = TRUE]
    /\ UNCHANGED <<m_mode, publisher, table, m_list_reconnect, pusher, starts, lost>>

Result(g, ok, ret) ==
    worker' = [worker EXCEPT ![g].todo = @ \ {Min(@)}, ![g].ret = ret,
                             ![g].all_ret = worker[g].all_ret /\ ok]

BreakOff(g, u) ==
    worker' = [worker EXCEPT ![g].todo = {}, ![g].ret = FALSE, ![g].all_ret = FALSE]
PassOver(g, u) == Result(g, worker[g].ret, worker[g].ret)

KeepUrl(u)  == Stamp(u, "wait")
EraseUrl(u) == Stamp(u, "no")

(* The next url of the table: not due, no publisher, failed, or connected. *)
NextUrl(g) ==
    /\ At(g, "table") /\ worker[g].todo # {}
    /\ LET u == Min(worker[g].todo) IN
        \/ /\ m_map_reconnect_relay[u] = "wait"
           /\ PassOver(g, u)
           /\ UNCHANGED <<m_map_reconnect_relay, pusher>>
        \/ /\ m_map_reconnect_relay[u] = "due" /\ worker[g].no_publisher
           /\ PassOver(g, u)
           /\ Stamp(u, "wait")
           /\ UNCHANGED pusher
        \/ /\ m_map_reconnect_relay[u] = "due" /\ ~worker[g].no_publisher
           /\ Result(g, FALSE, FALSE)
           /\ Stamp(u, "wait")
           /\ UNCHANGED pusher
        \/ /\ m_map_reconnect_relay[u] = "due" /\ ~worker[g].no_publisher
           /\ Connect(u)
           /\ Result(g, TRUE, TRUE)
           /\ EraseUrl(u)
    /\ UNCHANGED <<m_mode, publisher, m_reconnect_begin_tm, m_rwclock, m_list_reconnect, starts, lost>>

EndOfTable(g) ==
    /\ At(g, "table") /\ worker[g].todo = {}
    /\ m_rwclock' = None
    /\ LeaveList(g, worker[g].all_ret)
    /\ Return(g)
    /\ UNCHANGED <<m_mode, publisher, table, pusher, starts, lost>>

-----------------------------------------------------------------------------
(* The publisher and the clock.                                            *)

PublisherGoes ==
    /\ publisher
    /\ publisher' = FALSE
    /\ UNCHANGED <<m_mode, table, m_rwclock, m_list_reconnect, pusher, worker, starts, lost>>

(* reconnect_interval passes for a url, or for the manager.  That a group  *)
(* measures it by the time at which it began its list is a later Due.      *)
Due(u) ==
    /\ m_map_reconnect_relay[u] = "wait"
    /\ Stamp(u, "due")
    /\ UNCHANGED <<m_mode, publisher, m_reconnect_begin_tm, m_rwclock, m_list_reconnect, pusher,
                   worker, starts, lost>>

DueHash ==
    /\ m_reconnect_begin_tm = "wait"
    /\ m_reconnect_begin_tm' = "due"
    /\ UNCHANGED <<m_mode, publisher, m_map_reconnect_relay, m_rwclock, m_list_reconnect, pusher,
                   worker, starts, lost>>

-----------------------------------------------------------------------------
Init ==
    /\ m_mode \in {"all", "hash"}
    /\ publisher = FALSE
    /\ m_map_reconnect_relay = [u \in Upstreams |-> "no"]
    /\ m_reconnect_begin_tm = "due"
    /\ m_rwclock = None
    /\ m_list_reconnect = [g \in Groups |-> 0]
    /\ pusher = [p \in Pushers |-> NoPusher]
    /\ worker = [g \in Groups |-> [pc |-> "idle", todo |-> {}, cur |-> None,
                                   no_publisher |-> FALSE, ret |-> FALSE, all_ret |-> TRUE]]
    /\ starts = 0
    /\ lost = {}

(* What a group goes on with once it has begun.                            *)
Proceed(g) ==
    \/ Start(g) \/ ConnectNext(g) \/ Started(g) \/ UninitPusher(g)
    \/ ReconnectHash(g) \/ ReconnectAll(g) \/ NextUrl(g) \/ EndOfTable(g)

Next ==
    \/ PublisherComes \/ PublisherGoes \/ DueHash
    \/ \E u \in Upstreams : Due(u)
    \/ \E g \in Groups : TakePusher(g) \/ CloseRole(g) \/ Reconnect(g) \/ Proceed(g)

Spec == Init /\ [][Next]_vars

(* A group's thread goes on and visits its reconnect list in every loop,   *)
(* however often its pushers die in between; the lock is handed out        *)
(* fairly; time passes.                                                    *)
FairSpec ==
    /\ Spec
    /\ \A g \in Groups : SF_vars(Proceed(g)) /\ SF_vars(Reconnect(g))
    /\ \A u \in Upstreams : WF_vars(Due(u))

-----------------------------------------------------------------------------
(* The manager's entries in the groups' lists.                             *)
Entries == {e \in Groups \X (1 .. MaxEntries) : e[2] <= m_list_reconnect[e[1]]}

Closing(p) == \E g \in Groups : At(g, "uninit") /\ worker[g].cur = p
PushersTo(u) == {p \in Pushers : Exists(p) /\ pusher[p].url = u}

(* Once start has gone through them, an upstream of mode all is never      *)
(* forgotten: it has a pusher or stands in the table, whatever fails or    *)
(* dies and whoever reconnects (but for check_new_role's deletions).       *)
UpstreamKept ==
    m_mode = "all" /\ starts > 0 =>
        \A u \in Upstreams \ lost :
            PushersTo(u) # {} \/ u \in InTable \/ u \in worker[Listening].todo

(* No upstream gets a second pusher but from a second start: what is in    *)
(* the table (mode all) or on the lists (mode hash) stands for pushers     *)
(* that are gone, and each is replaced once, whichever group does it.      *)
OnePusherPerStart ==
    \A u \in Upstreams :
        LET missing == IF m_mode = "hash" THEN Cardinality(Entries)
                       ELSE Cardinality({u} \cap InTable)
        IN Cardinality({p \in PushersTo(u) : ~Closing(p)}) + missing <= starts

(* As long as a group has the manager on its list, every url of the table  *)
(* whose time has come is tried, whatever becomes of the others.           *)
DueIsTried ==
    \A u \in Upstreams :
        m_map_reconnect_relay[u] = "due" /\ Entries # {} ~>
            m_map_reconnect_relay[u] # "due" \/ Entries = {}

(* "reconnect interval, unit s" (SLSRelay.hpp:30): when the interval has   *)
(* passed, an upstream that failed is connected again while there is       *)
(* something to push.                                                      *)
DueIsRetried ==
    \A u \in Upstreams :
        m_map_reconnect_relay[u] = "due" ~> m_map_reconnect_relay[u] # "due" \/ ~publisher
=============================================================================
