----------------------------- MODULE SLSServer ------------------------------
(***************************************************************************)
(* One server block at work: its listener (SLSListener.cc), the roles its  *)
(* clients and its pull relay become (SLSRole.cc and its subclasses), the  *)
(* two maps they share (CSLSMapPublisher, CSLSMapData), the queue of new   *)
(* roles (CSLSRoleList) and the worker threads that own them               *)
(* (SLSGroup.cc).                                                          *)
(*                                                                         *)
(* A worker's loop is: wait on its epoll, run the handlers of the sockets  *)
(* that are ready, then idle_check.  Each map operation locks on its own,  *)
(* so a handler is cut into steps at its map and queue operations, and     *)
(* the workers interleave between them.  The media data is left out        *)
(* (SLSMapData models it) but for whether a stream has a ring at all.      *)
(***************************************************************************)
EXTENDS Naturals, Sequences, FiniteSets

CONSTANTS
    Groups,             \* the worker threads
    Listening,          \* the group whose epoll holds the listener's socket
    Publishers,         \* publisher objects: bounds how many exist at once
    Players,            \* player objects, likewise
    Pullers,            \* puller objects; none: the app has no pull relay
    Streams,            \* stream names
    WorkerConnections,  \* worker_connections, the roles a group may hold
    OnEventUrl,         \* on_event_url is configured
    IdleTimeout,        \* idle_streams_timeout is not -1
    Listener, None      \* model values

ASSUME ServerAssumption ==
    /\ Listening \in Groups
    /\ IsFiniteSet(Publishers \cup Players \cup Pullers)
    /\ Publishers \cap Players = {} /\ Pullers \cap (Publishers \cup Players) = {}
    /\ Listener \notin Publishers \cup Players \cup Pullers
    /\ None \notin Streams \cup Publishers \cup Players \cup Pullers
    /\ WorkerConnections \in Nat \ {0}
    /\ OnEventUrl \in BOOLEAN /\ IdleTimeout \in BOOLEAN

Roles == Publishers \cup Players \cup Pullers

VARIABLES
    m_map_array,                \* streams with a ring (CSLSMapData)
    m_map_push_2_pushlisher,    \* stream -> publisher or puller, or None
    m_list_role,                \* roles no group has taken yet
    m_map_role,                 \* group -> the roles in its epoll
    m_list_reconnect,           \* group -> streams to pull again (a set: the
                                \* list may hold a relay manager twice)
    role,                       \* the role objects
    worker,                     \* group -> where its thread is
    lost                        \* history: streams whose publisher object was
                                \* deleted without uninit

maps == <<m_map_array, m_map_push_2_pushlisher>>
vars == <<maps, m_list_role, m_map_role, m_list_reconnect, role, worker, lost>>

(* http: "waiting" for the answer to on_connect, "closing" with an on_close *)
(* request that is not sent yet, "off" with no request open.                *)
NoRole == [state |-> "none", srt |-> "null", http |-> "off", key |-> None, stale |-> FALSE]

(* Faulty variants, named for the fault, stand before what they would      *)
(* replace.                                                                *)
KeylessRole(k, http) == [NoRole EXCEPT !.state = "inited", !.srt = "up", !.http = http]
NewRole(k, http)     == [NoRole EXCEPT !.state = "inited", !.srt = "up", !.key = k, !.http = http]

AskHttp == IF OnEventUrl THEN "waiting" ELSE "off"

Exists(r) == role[r].state # "none"
Free(R)   == {r \in R : ~Exists(r)}

Update(r, x) == role' = [role EXCEPT ![r] = x]

At(g, pc)   == worker[g].pc = pc
Goto(g, pc) == worker' = [worker EXCEPT ![g].pc = pc]
Drop(g, x)  == worker' = [worker EXCEPT ![g].todo = @ \ {x}]
Begin(g, pc, todo) == worker' = [worker EXCEPT ![g].pc = pc, ![g].todo = todo]

-----------------------------------------------------------------------------
(* CSLSRole.                                                               *)

(* The functions of a role r are given as the records its object x may     *)
(* become.                                                                 *)

(* invalid_srt and on_close: a role the event server had accepted opens a  *)
(* request to say so, and open tries to send it for ten milliseconds.      *)
Invalidated(r, x) ==
    {[x EXCEPT !.srt = "null", !.http = h] :
        h \in IF OnEventUrl /\ r \notin Pullers /\ x.http = "off" /\ x.srt # "null"
              THEN {"off", "closing"} ELSE {x.http}}

(* check_http_passed of a role that waits: the handler goes on when the    *)
(* answer is 200; another one, or none in time, costs the role its socket. *)
Passed(x)    == [x EXCEPT !.http = "off"]
NotPassed(x) == {x, [x EXCEPT !.http = "off", !.srt = "null"]}

(* handler_read_data: a read that fails, or data with no ring to put it    *)
(* in, makes the group call invalid_srt; other data renews the idle timer. *)
(* CSLSPuller::handler then closes a puller that had no reader for the     *)
(* idle timeout, which is any puller as far as the model can tell.         *)
Read(r, x) ==
    IF x.srt = "up" /\ x.key \in m_map_array
    THEN LET y == [x EXCEPT !.stale = FALSE] IN
         {y} \cup (IF r \in Pullers /\ IdleTimeout
                   THEN {[y EXCEPT !.state = "invalid", !.srt = "null"]} ELSE {})
    ELSE Invalidated(r, x)

(* handler_write_data: without a ring the idle timer runs on (the packets  *)
(* a player may still have to send are left out: they come to an end).  A  *)
(* write that fails is no error here.                                      *)
Written(x) == {[x EXCEPT !.stale = @ /\ x.key \notin m_map_array]}

Handled(r) ==
    LET handle(x) == IF r \in Players THEN Written(x) ELSE Read(r, x) IN
    IF role[r].http = "waiting"
    THEN NotPassed(role[r]) \cup handle(Passed(role[r]))
    ELSE handle(role[r])

HeldInvalid(r)      == role[r].state = "invalid" \/ role[r].srt # "up"
DeafInvalid(r)      == role[r].state = "invalid" \/ role[r].stale

(* get_state: the timer, then the socket.                                  *)
Invalid(r) ==
    \/ role[r].state = "invalid"
    \/ role[r].stale
    \/ role[r].srt # "up"

(* uninit: a publisher and a puller unregister in different orders, a      *)
(* player has nothing to unregister.                                       *)
RelayUninit(r)  == IF r \in Players THEN <<"delete">>
                   ELSE <<"uninit_name", "uninit_ring", "delete">>
LeakyUninit(r)  == IF r \in Players THEN <<"delete">> ELSE <<"uninit_name", "delete">>
BareUninit(r)   == <<"delete">>
SilentUninit(r) == IF r \in Players THEN <<"delete">> ELSE <<"uninit_ring", "delete">>

Uninit(r) ==
    IF r \in Publishers THEN <<"uninit_ring", "uninit_name", "delete">>
    ELSE IF r \in Pullers THEN <<"uninit_name", "uninit_ring", "delete">>
    ELSE <<"delete">>

-----------------------------------------------------------------------------
(* CSLSListener::handler.                                                  *)

(* A client is accepted; its stream id makes it a player or a publisher of *)
(* stream k.  Any other client is turned away at once.                     *)
Accept(g) ==
    /\ At(g, "events") /\ Listener \in worker[g].todo
    /\ \/ Drop(g, Listener)
       \/ \E k \in Streams, pc \in {"find", "pub_find"} :
            /\ pc = "find" => Free(Players) # {}
            /\ pc = "pub_find" => Free(Publishers) # {}
            /\ worker' = [worker EXCEPT ![g].todo = @ \ {Listener},
                                        ![g].pc = pc, ![g].key = k, ![g].ret = "events"]
    /\ UNCHANGED <<maps, m_list_role, m_map_role, m_list_reconnect, role, lost>>

Registered(g) == m_map_push_2_pushlisher[worker[g].key]

(* A player's stream is looked up; without a publisher it is pulled.       *)
FindPublisher(g) ==
    /\ At(g, "find")
    /\ IF Registered(g) # None
       THEN worker' = [worker EXCEPT ![g].pc = "is_exist", ![g].cur = Registered(g)]
       ELSE IF Pullers = {} THEN Goto(g, "events")
       ELSE worker' = [worker EXCEPT ![g].pc = "start", ![g].ret = "find_again"]
    /\ UNCHANGED <<maps, m_list_role, m_map_role, m_list_reconnect, role, lost>>

FindAgain(g) ==
    /\ At(g, "find_again")
    /\ IF Registered(g) # None
       THEN worker' = [worker EXCEPT ![g].pc = "is_exist", ![g].cur = Registered(g)]
       ELSE Goto(g, "events")
    /\ UNCHANGED <<maps, m_list_role, m_map_role, m_list_reconnect, role, lost>>

CheckRing(g) ==
    /\ At(g, "is_exist")
    /\ Goto(g, IF worker[g].key \in m_map_array THEN "push_player" ELSE "events")
    /\ UNCHANGED <<maps, m_list_role, m_map_role, m_list_reconnect, role, lost>>

(* The player is queued, and the publisher found above is dereferenced.    *)
PushPlayer(g) ==
    /\ At(g, "push_player")
    /\ \E r \in Free(Players) :
        /\ Update(r, NewRole(worker[g].key, AskHttp))
        /\ m_list_role' = Append(m_list_role, r)
    /\ worker' = [worker EXCEPT ![g].pc = "events", ![g].cur = None]
    /\ UNCHANGED <<maps, m_map_role, m_list_reconnect, lost>>

(* A publisher is refused while its stream has one.                        *)
FindFree(g) ==
    /\ At(g, "pub_find")
    /\ Goto(g, IF Registered(g) = None THEN "pub_add" ELSE "events")
    /\ UNCHANGED <<maps, m_list_role, m_map_role, m_list_reconnect, role, lost>>

(* new CSLSPublisher and CSLSMapData::add, which keeps a ring there is.    *)
AddRing(g) ==
    /\ At(g, "pub_add")
    /\ m_map_array' = m_map_array \cup {worker[g].key}
    /\ Goto(g, "pub_set")
    /\ UNCHANGED <<m_map_push_2_pushlisher, m_list_role, m_map_role, m_list_reconnect, role, lost>>

(* set_push_2_pushlisher: it fails if a puller was faster, and the new     *)
(* publisher, which does not know the maps yet, is dropped.                *)
WrongTaken(g) == FALSE
Taken(g)      == Registered(g) # None

RegisterPublisher(g) ==
    /\ At(g, "pub_set")
    /\ IF Taken(g)
       THEN /\ Goto(g, "events")
            /\ UNCHANGED <<role, m_map_push_2_pushlisher>>
       ELSE \E r \in Free(Publishers) :
            /\ Update(r, NewRole(worker[g].key, AskHttp))
            /\ m_map_push_2_pushlisher' = [m_map_push_2_pushlisher EXCEPT ![worker[g].key] = r]
            /\ worker' = [worker EXCEPT ![g].pc = "push", ![g].cur = r]
    /\ UNCHANGED <<m_map_array, m_list_role, m_map_role, m_list_reconnect, lost>>

(* The last step of a publisher's handler and of a puller's connect; after *)
(* a reconnect the manager's entry leaves the list, another may stay.      *)
PushRole(g) ==
    /\ At(g, "push")
    /\ m_list_role' = Append(m_list_role, worker[g].cur)
    /\ worker' = [worker EXCEPT ![g].pc = worker[g].ret, ![g].cur = None]
    /\ \/ UNCHANGED m_list_reconnect
       \/ /\ worker[g].ret = "reconnect"
          /\ m_list_reconnect' = [m_list_reconnect EXCEPT ![g] = @ \ {worker[g].key}]
    /\ UNCHANGED <<maps, m_map_role, role, lost>>

-----------------------------------------------------------------------------
(* CSLSPullerManager::start, by the listener's thread for a player or by   *)
(* any worker for a relay to be reconnected.                               *)

StartFailed(g) == worker' = [worker EXCEPT ![g].pc = IF worker[g].ret = "find_again"
                                                     THEN "events" ELSE "reconnect"]

Start(g) ==
    /\ At(g, "start")
    /\ IF Registered(g) # None THEN StartFailed(g) ELSE Goto(g, "connect")
    /\ UNCHANGED <<maps, m_list_role, m_map_role, m_list_reconnect, role, lost>>

(* connect opens a socket to an upstream and set_relay_param registers it. *)
(* No upstream may be left to try, or the stream have got a publisher.     *)
ConnectPuller(g) ==
    /\ At(g, "connect")
    /\ \/ /\ StartFailed(g)
          /\ UNCHANGED <<role, m_map_push_2_pushlisher>>
       \/ /\ Registered(g) = None
          /\ \E r \in Free(Pullers) :
                /\ Update(r, NewRole(worker[g].key, "off"))
                /\ m_map_push_2_pushlisher' = [m_map_push_2_pushlisher EXCEPT ![worker[g].key] = r]
                /\ worker' = [worker EXCEPT ![g].pc = "pull_add", ![g].cur = r]
    /\ UNCHANGED <<m_map_array, m_list_role, m_map_role, m_list_reconnect, lost>>

WrongAddPulledRing(g) ==
    /\ At(g, "pull_add") /\ Goto(g, "push")
    /\ UNCHANGED <<maps, m_list_role, m_map_role, m_list_reconnect, role, lost>>

AddPulledRing(g) ==
    /\ At(g, "pull_add")
    /\ m_map_array' = m_map_array \cup {worker[g].key}
    /\ Goto(g, "push")
    /\ UNCHANGED <<m_map_push_2_pushlisher, m_list_role, m_map_role, m_list_reconnect, role, lost>>

-----------------------------------------------------------------------------
(* CSLSGroup::handler and idle_check.                                      *)

(* srt_epoll_wait reports any of the group's sockets.                      *)
Poll(g) ==
    /\ At(g, "poll")
    /\ \E ready \in SUBSET m_map_role[g] : Begin(g, "events", ready)
    /\ UNCHANGED <<maps, m_list_role, m_map_role, m_list_reconnect, role, lost>>

HandleRole(g) ==
    /\ At(g, "events")
    /\ \E r \in worker[g].todo \ {Listener} :
        /\ \E x \in Handled(r) : Update(r, x)
        /\ Drop(g, r)
    /\ UNCHANGED <<maps, m_list_role, m_map_role, m_list_reconnect, lost>>

(* check_reconnect_relay: an entry that is not due is passed over.         *)
Reconnect(g) ==
    /\ At(g, "reconnect")
    /\ \E k \in worker[g].todo :
        \/ Drop(g, k)
        \/ worker' = [worker EXCEPT ![g].todo = @ \ {k}, ![g].pc = "start",
                                    ![g].key = k, ![g].ret = "reconnect"]
    /\ UNCHANGED <<maps, m_list_role, m_map_role, m_list_reconnect, role, lost>>

(* check_invalid_sock, role by role, and the steps of uninit.              *)
KeepRole(g) ==
    /\ At(g, "invalid")
    /\ \E r \in worker[g].todo : ~Invalid(r) /\ Drop(g, r)
    /\ UNCHANGED <<maps, m_list_role, m_map_role, m_list_reconnect, role, lost>>

CloseRole(g) ==
    /\ At(g, "invalid")
    /\ \E r \in worker[g].todo :
        /\ Invalid(r)
        /\ \E x \in Invalidated(r, role[r]) : Update(r, [x EXCEPT !.state = "invalid"])
        /\ worker' = [worker EXCEPT ![g].todo = @ \ {r}, ![g].pc = Head(Uninit(r)),
                                    ![g].cur = r, ![g].key = role[r].key]
        /\ m_list_reconnect' = [m_list_reconnect EXCEPT ![g] =
                IF r \in Pullers THEN @ \cup {role[r].key} ELSE @]
    /\ UNCHANGED <<maps, m_list_role, m_map_role, lost>>

AfterUninit(g) ==
    LET steps == Uninit(worker[g].cur) IN
    \E i \in 2 .. Len(steps) : At(g, steps[i - 1]) /\ Goto(g, steps[i])

UninitRing(g) ==
    /\ At(g, "uninit_ring")
    /\ m_map_array' = m_map_array \ {worker[g].key}
    /\ AfterUninit(g)
    /\ UNCHANGED <<m_map_push_2_pushlisher, m_list_role, m_map_role, m_list_reconnect, role, lost>>

(* remove looks for the object, not for the name, and takes the first one; *)
(* there are two when the object is where another was that check_new_role  *)
(* deleted.                                                                *)
UninitName(g) ==
    /\ At(g, "uninit_name")
    /\ LET named == {k \in Streams : m_map_push_2_pushlisher[k] = worker[g].cur} IN
        \/ named = {} /\ UNCHANGED <<m_map_push_2_pushlisher, lost>>
        \/ \E k \in named :
            /\ m_map_push_2_pushlisher' = [m_map_push_2_pushlisher EXCEPT ![k] = None]
            /\ lost' = lost \cup ({worker[g].key} \ {k})
    /\ AfterUninit(g)
    /\ UNCHANGED <<m_map_array, m_list_role, m_map_role, m_list_reconnect, role>>

(* The rest of uninit takes the http client with it, so the role is never  *)
(* put into m_list_wait_http_role but deleted here.                        *)
DeleteRole(g) ==
    /\ At(g, "delete")
    /\ Update(worker[g].cur, NoRole)
    /\ m_map_role' = [m_map_role EXCEPT ![g] = @ \ {worker[g].cur}]
    /\ worker' = [worker EXCEPT ![g].pc = "invalid", ![g].cur = None]
    /\ UNCHANGED <<maps, m_list_role, m_list_reconnect, lost>>

(* From one part of idle_check to the next.                                *)
NextPhase(g) ==
    /\ worker[g].todo = {}
    /\ \/ At(g, "events") /\ Begin(g, "reconnect", m_list_reconnect[g])
       \/ At(g, "reconnect") /\ Begin(g, "invalid", m_map_role[g] \ {Listener})
       \/ At(g, "invalid") /\ Begin(g, "new", {})
    /\ UNCHANGED <<maps, m_list_role, m_map_role, m_list_reconnect, role, lost>>

(* check_new_role takes at most one role.  A socket that has gone while it *)
(* was queued may no longer be known to SRT: it cannot be added, and the   *)
(* object is deleted without uninit of its class.                          *)
Full(g) == Cardinality(m_map_role[g]) >= WorkerConnections

TakeNothing(g) ==
    /\ At(g, "new")
    /\ Full(g) \/ m_list_role = << >>
    /\ Goto(g, "poll")
    /\ UNCHANGED <<maps, m_list_role, m_map_role, m_list_reconnect, role, lost>>

WrongRest == m_list_role
Rest      == Tail(m_list_role)

TakeRole(g) ==
    /\ At(g, "new") /\ ~Full(g) /\ m_list_role # << >>
    /\ m_list_role' = Rest
    /\ LET r == Head(m_list_role) IN
        \/ /\ m_map_role' = [m_map_role EXCEPT ![g] = @ \cup {r}]
           /\ UNCHANGED <<role, lost>>
        \/ /\ role[r].srt = "broken"
           /\ Update(r, NoRole)
           /\ lost' = lost \cup {k \in Streams : m_map_push_2_pushlisher[k] = r}
           /\ UNCHANGED m_map_role
    /\ Goto(g, "poll")
    /\ UNCHANGED <<maps, m_list_reconnect>>

-----------------------------------------------------------------------------
(* The peers and the clock.                                                *)

Break(r) ==
    /\ role[r].srt = "up"
    /\ Update(r, [role[r] EXCEPT !.srt = "broken"])
    /\ UNCHANGED <<maps, m_list_role, m_map_role, m_list_reconnect, worker, lost>>

(* idle_streams_timeout passes without data.                               *)
Expire(r) ==
    /\ IdleTimeout
    /\ Exists(r) /\ ~role[r].stale
    /\ Update(r, [role[r] EXCEPT !.stale = TRUE])
    /\ UNCHANGED <<maps, m_list_role, m_map_role, m_list_reconnect, worker, lost>>

-----------------------------------------------------------------------------
Init ==
    /\ m_map_array = {}
    /\ m_map_push_2_pushlisher = [k \in Streams |-> None]
    /\ m_list_role = << >>
    /\ m_map_role = [g \in Groups |-> IF g = Listening THEN {Listener} ELSE {}]
    /\ m_list_reconnect = [g \in Groups |-> {}]
    /\ role = [r \in Roles |-> NoRole]
    /\ worker = [g \in Groups |->
            [pc |-> "poll", todo |-> {}, cur |-> None, key |-> None, ret |-> "events"]]
    /\ lost = {}

Listen(g) ==
    \/ Accept(g) \/ FindPublisher(g) \/ FindAgain(g) \/ CheckRing(g) \/ PushPlayer(g)
    \/ FindFree(g) \/ AddRing(g) \/ RegisterPublisher(g)

Pull(g) == Start(g) \/ ConnectPuller(g) \/ AddPulledRing(g)

Work(g) ==
    \/ Listen(g) \/ Pull(g) \/ PushRole(g)
    \/ Poll(g) \/ HandleRole(g) \/ Reconnect(g) \/ NextPhase(g)
    \/ KeepRole(g) \/ CloseRole(g) \/ UninitRing(g) \/ UninitName(g) \/ DeleteRole(g)
    \/ TakeNothing(g) \/ TakeRole(g)

Next ==
    \/ \E g \in Groups : Work(g)
    \/ \E r \in Roles : Break(r) \/ Expire(r)

Spec == Init /\ [][Next]_vars

(* A worker thread loops for ever and time passes; nothing is assumed of   *)
(* the peers.                                                              *)
FairSpec ==
    /\ Spec
    /\ \A g \in Groups : WF_vars(Work(g))
    /\ \A r \in Roles : WF_vars(Expire(r))

-----------------------------------------------------------------------------
Role == [state : {"none", "inited", "invalid"}, srt : {"null", "up", "broken"},
         http : {"off", "waiting", "closing"}, key : Streams \cup {None}, stale : BOOLEAN]

Phases == {"poll", "events", "reconnect", "invalid", "new"}
Steps  == {"find", "find_again", "is_exist", "push_player", "pub_find", "pub_add", "pub_set",
           "push", "start", "connect", "pull_add", "uninit_ring", "uninit_name", "delete"}

Worker == [pc : Phases \cup Steps, todo : SUBSET (Roles \cup {Listener} \cup Streams),
           cur : Roles \cup {None}, key : Streams \cup {None},
           ret : {"events", "find_again", "reconnect"}]

TypeOK ==
    /\ m_map_array \subseteq Streams
    /\ m_map_push_2_pushlisher \in [Streams -> Publishers \cup Pullers \cup {None}]
    /\ m_list_role \in Seq(Roles)
    /\ m_map_role \in [Groups -> SUBSET (Roles \cup {Listener})]
    /\ m_list_reconnect \in [Groups -> SUBSET Streams]
    /\ role \in [Roles -> Role]
    /\ \A r \in Roles : Exists(r) <=> role[r].key # None
    /\ worker \in [Groups -> Worker]
    /\ lost \subseteq Streams

(* The threads that hold r in a local variable while it has no other owner *)
Creating(r) == {g \in Groups : worker[g].cur = r /\ worker[g].pc \in {"push", "pull_add"}}
Closing(r)  == {g \in Groups : worker[g].cur = r /\
                    worker[g].pc \in {"uninit_ring", "uninit_name", "delete"}}
Queued(r)   == {i \in DOMAIN m_list_role : m_list_role[i] = r}
Holding(r)  == {g \in Groups : r \in m_map_role[g]}

(* Every role object has one owner: the thread that makes it, the queue,   *)
(* or the group that took it from there.  So none is handled by two        *)
(* threads, deleted twice, or left behind.                                 *)
OwnedOnce ==
    \A r \in Roles :
        Cardinality(Creating(r)) + Cardinality(Queued(r)) + Cardinality(Holding(r))
            = IF Exists(r) THEN 1 ELSE 0

Settled(r) == Exists(r) /\ Creating(r) = {} /\ Closing(r) = {}

(* A name leads to a live object, except where check_new_role deleted one  *)
(* it could not add to its epoll, or a later object at the same address    *)
(* was then taken out under the name of that one.                          *)
NameIsLive ==
    \A k \in Streams \ lost : LET p == m_map_push_2_pushlisher[k] IN
        p # None => Exists(p) /\ role[p].key = k

(* Two publishers of one stream never are at work at the same time, and    *)
(* the one that is can be found by its name.                               *)
OnePublisher ==
    \A r \in Publishers \cup Pullers :
        Settled(r) => m_map_push_2_pushlisher[role[r].key] = r

(* A publisher that is at work has a ring to put its data in.              *)
PublisherHasRing ==
    \A r \in Publishers \cup Pullers : Settled(r) => role[r].key \in m_map_array

(* A ring does not outlive the stream: some publisher or some thread that  *)
(* is making or closing one will remove it.                                *)
RingHasOwner ==
    \A k \in m_map_array \ lost :
        \/ m_map_push_2_pushlisher[k] # None
        \/ \E g \in Groups : worker[g].key = k /\ worker[g].pc \in {"pub_set", "uninit_ring"}

(* The publisher object a new player's thread found still exists when that *)
(* thread dereferences it, unless its name was stale already.              *)
FoundIsLive ==
    \A g \in Groups :
        At(g, "push_player") /\ worker[g].key \notin lost => Exists(worker[g].cur)

-----------------------------------------------------------------------------
(* A role whose socket has gone is deleted once a group has it.            *)
BrokenIsDeleted ==
    \A r \in Roles : Holding(r) # {} /\ role[r].srt # "up" ~> ~Exists(r)

(* The name of a publisher whose socket has gone becomes free, unless the  *)
(* workers have no place for it or have deleted it without uninit.         *)
NameIsFreed ==
    \A r \in Publishers \cup Pullers :
        Exists(r) /\ role[r].srt # "up" ~>
            \/ \A k \in Streams \ lost : m_map_push_2_pushlisher[k] # r
            \/ \A g \in Groups : Full(g)

(* A player, or a publisher robbed of its ring, whose stream has gone for  *)
(* good is timed out.                                                      *)
OrphanLeaves ==
    IdleTimeout => \A r \in Roles :
        Holding(r) # {} /\ role[r].key \notin m_map_array ~>
            ~Exists(r) \/ role[r].key \in m_map_array
=============================================================================
