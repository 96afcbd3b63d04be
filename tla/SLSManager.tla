----------------------------- MODULE SLSManager ------------------------------
(***************************************************************************)
(* The life of the server: main's loop (srt_server.cc), the managers it    *)
(* makes (SLSManager.cc) and the groups of each (SLSGroup.cc).  A reload   *)
(* closes the current manager's listeners, flags its groups and puts it    *)
(* aside; a new manager takes over.  The groups of the old one go on with  *)
(* the clients they have, and it is deleted when they have all ended.      *)
(* With worker_threads 0 a manager has one group, which main itself runs.  *)
(*                                                                         *)
(* A manager is a number; it has one listener, which is the role of that   *)
(* number.  What roles do is left to SLSServer: here they have a socket    *)
(* and stand in a manager's queue or in a group's map.                     *)
(***************************************************************************)
EXTENDS Naturals, Sequences, FiniteSets

CONSTANTS
    MaxManagers,    \* bound: managers made, one at first and one per reload
    WorkerThreads,  \* manager -> worker_threads, which each reads anew
    WorkerConnections,  \* manager -> worker_connections, likewise
    Clients         \* clients: bounds how many are ever accepted

ASSUME ManagerAssumption ==
    /\ MaxManagers \in Nat \ {0} /\ WorkerThreads \in [1 .. MaxManagers -> Nat]
    /\ WorkerConnections \in [1 .. MaxManagers -> Nat]
    /\ Clients \cap (0 .. MaxManagers) = {}

Managers == 1 .. MaxManagers
Workers(k) == IF WorkerThreads[k] = 0 THEN {0} ELSE 1 .. WorkerThreads[k]
Groups   == UNION {{k} \X Workers(k) : k \in Managers}
Roles    == Managers \cup Clients
Mine(k)  == {g \in Groups : g[1] = k}

VARIABLES
    b_exit, b_reload,       \* set by the signal handlers
    main,                   \* where main is, and the manager and the groups
                            \* it is about
    sls_manager,            \* the current manager, or 0
    made,                   \* managers made so far
    reload_manager_list,
    maps,                   \* manager -> its maps: "none", "alive", "deleted"
    m_servers,              \* managers whose listener is still on their list
    m_workers,              \* groups that were made and not deleted
    group,                  \* group -> its thread and its flags
    m_map_role,             \* group -> the roles it holds
    m_list_role,            \* manager -> its queue of roles
    open,                   \* roles with an open socket
    deleted                 \* roles that were deleted

managers == <<sls_manager, made, reload_manager_list, maps, m_servers, m_workers>>
roles    == <<m_map_role, m_list_role, open, deleted>>
vars     == <<b_exit, b_reload, main, managers, group, roles>>

Check ==
    main' = [main EXCEPT !.pc = "check", !.todo = reload_manager_list]
Threaded(k) == WorkerThreads[k] > 0
AtMain(pc) == main.pc = pc
Go(pc)    == main' = [main EXCEPT !.pc = pc]
NextOne(g) == g \in main.groups /\ \A h \in main.groups : g[2] <= h[2]
Held(k)   == UNION {m_map_role[g] : g \in Mine(k)}
Queued(k) == {m_list_role[k][i] : i \in DOMAIN m_list_role[k]}
Created   == (UNION {Held(k) \cup Queued(k) : k \in Managers}) \cup deleted

-----------------------------------------------------------------------------
(* A group: CSLSEpollThread::work and CSLSGroup::handler.                  *)

AtGroup(g, pc) == group[g].pc = pc
Goto(g, pc)    == group' = [group EXCEPT ![g].pc = pc]
Return(g)      == Goto(g, IF Threaded(g[1]) THEN "top" ELSE "returned")

(* A reloaded group ends when it holds no role.                            *)
HastyDrained(g) == group[g].m_reload
Drained(g)      == group[g].m_reload /\ m_map_role[g] = {}

DeafLoop(g) == FALSE
MayEnd(g)   == group[g].m_exit

EndLoop(g) ==
    /\ AtGroup(g, "top") /\ MayEnd(g)
    /\ Goto(g, "clear")
    /\ UNCHANGED <<b_exit, b_reload, main, managers, roles>>

(* Handlers of roles: of all they do, the listener's accept matters here.  *)
AcceptOne(g) ==
    /\ g[1] \in m_map_role[g] \cap open
    /\ \E c \in Clients \ Created :
        /\ m_list_role' = [m_list_role EXCEPT ![g[1]] = Append(@, c)]
        /\ open' = open \cup {c}

(* check_invalid_sock: roles whose socket has gone are deleted.            *)
CheckInvalid(g) ==
    /\ m_map_role' = [m_map_role EXCEPT ![g] = @ \cap open]
    /\ deleted' = deleted \cup (m_map_role[g] \ open)

(* What handler does up to check_new_role touches the group's own roles,   *)
(* and the queue only by adding to its end.                                *)
Handler(g) ==
    /\ AtGroup(g, "handler") \/ (AtGroup(g, "top") /\ ~MayEnd(g))
    /\ IF Drained(g)
       THEN /\ group' = [group EXCEPT ![g].m_exit = TRUE,
                                      ![g].pc = IF Threaded(g[1]) THEN "top" ELSE "returned"]
            /\ UNCHANGED roles
       ELSE /\ AcceptOne(g) \/ UNCHANGED <<m_list_role, open>>
            /\ CheckInvalid(g)
            /\ Goto(g, "new")
    /\ UNCHANGED <<b_exit, b_reload, main, managers>>

(* check_new_role, which takes no role above worker_connections.  A        *)
(* listener that main has closed has no socket and is deleted; a client's  *)
(* broken one the epoll may take or not.                                   *)
FullGroup(g) == Cardinality(m_map_role[g]) >= WorkerConnections[g[1]]

CheckNew(g) ==
    LET q == m_list_role[g[1]] IN
    /\ AtGroup(g, "new")
    /\ \/ (q = <<>> \/ FullGroup(g)) /\ UNCHANGED roles
       \/ /\ q # <<>> /\ ~FullGroup(g)
          /\ Head(q) \notin Managers \ open
          /\ m_list_role' = [m_list_role EXCEPT ![g[1]] = Tail(q)]
          /\ m_map_role' = [m_map_role EXCEPT ![g] = @ \cup {Head(q)}]
          /\ UNCHANGED <<open, deleted>>
       \/ /\ q # <<>> /\ ~FullGroup(g)
          /\ Head(q) \notin open
          /\ m_list_role' = [m_list_role EXCEPT ![g[1]] = Tail(q)]
          /\ deleted' = deleted \cup {Head(q)}
          /\ UNCHANGED <<m_map_role, open>>
    /\ Return(g)
    /\ UNCHANGED <<b_exit, b_reload, main, managers>>

KeepRoles(g)  == UNCHANGED roles
ClearRoles(g) ==
    /\ m_map_role' = [m_map_role EXCEPT ![g] = {}]
    /\ open' = open \ m_map_role[g]
    /\ deleted' = deleted \cup m_map_role[g]
    /\ UNCHANGED m_list_role

(* clear, and the end of the thread.                                       *)
Clear(g) ==
    /\ AtGroup(g, "clear")
    /\ ClearRoles(g)
    /\ Goto(g, "done")
    /\ UNCHANGED <<b_exit, b_reload, main, managers>>

Work(g) ==
    EndLoop(g) \/ Handler(g) \/ CheckNew(g) \/ Clear(g)

-----------------------------------------------------------------------------
(* main's loop.                                                            *)

Loop ==
    /\ AtMain("loop")
    /\ IF b_exit THEN Go("exit")
       ELSE IF Threaded(sls_manager) THEN Check ELSE Go("serve")
    /\ UNCHANGED <<b_exit, b_reload, managers, group, roles>>

(* single_thread_handler: the current manager's group.                     *)
Serve ==
    /\ AtMain("serve")
    /\ \E g \in Mine(sls_manager) : Goto(g, "handler")
    /\ Go("serving")
    /\ UNCHANGED <<b_exit, b_reload, managers, roles>>

Served ==
    /\ AtMain("serving")
    /\ \E g \in Mine(sls_manager) : AtGroup(g, "returned") /\ Goto(g, "idle")
    /\ Check
    /\ UNCHANGED <<b_exit, b_reload, managers, roles>>

Unjoined(g) == TRUE
Joined(g)   == group[g].pc = "done"

(* check_invalid of a reloaded manager joins and deletes the groups that   *)
(* have ended; without groups the manager is stopped.                      *)
CheckManager(k) ==
    /\ AtMain("check") /\ k \in main.todo
    /\ LET ended == {g \in Mine(k) \cap m_workers : group[g].m_exit} IN
        /\ \A g \in ended : Joined(g)
        /\ m_workers' = m_workers \ ended
        /\ main' = [main EXCEPT !.todo = @ \ {k}, !.k = k, !.back = "check",
                        !.pc = IF Mine(k) \cap m_workers \subseteq ended THEN "stop" ELSE "check"]
    /\ UNCHANGED <<b_exit, b_reload, sls_manager, made, reload_manager_list, maps, m_servers,
                   group, roles>>

Checked ==
    /\ AtMain("check") /\ main.todo = {}
    /\ Go(IF b_reload THEN "reload" ELSE "loop")
    /\ UNCHANGED <<b_exit, b_reload, managers, group, roles>>

-----------------------------------------------------------------------------
(* reload: the listeners are closed, then the groups are flagged.          *)

LeaveOpen(k) == UNCHANGED open
Shut(k)      == open' = open \ {k}

Reload ==
    /\ AtMain("reload")
    /\ b_reload' = FALSE
    /\ Shut(sls_manager)
    /\ m_servers' = m_servers \ {sls_manager}
    /\ main' = [main EXCEPT !.pc = "flag", !.groups = Mine(sls_manager) \cap m_workers]
    /\ UNCHANGED <<b_exit, sls_manager, made, reload_manager_list, maps, m_workers, group,
                   m_map_role, m_list_role, deleted>>

NoFlag(g) == UNCHANGED group
Flag(g)   == group' = [group EXCEPT ![g].m_reload = TRUE]

FlagGroup(g) ==
    /\ AtMain("flag") /\ NextOne(g)
    /\ Flag(g)
    /\ main' = [main EXCEPT !.groups = @ \ {g}]
    /\ UNCHANGED <<b_exit, b_reload, managers, roles>>

(* Once the old manager is put aside, the configuration is read again,     *)
(* which may fail, and a new manager is made.                              *)
NoManager == {0}
Aside     == {sls_manager}

PutAside ==
    /\ AtMain("flag") /\ main.groups = {}
    /\ reload_manager_list' = reload_manager_list \cup Aside
    /\ \/ sls_manager' = 0 /\ Go("exit") /\ UNCHANGED <<made, maps>>
       \/ /\ made' = made + 1 /\ sls_manager' = made + 1
          /\ maps' = [maps EXCEPT ![made + 1] = "alive"]
          /\ Go("start")
    /\ UNCHANGED <<b_exit, b_reload, m_servers, m_workers, group, roles>>

(* start: the listener, and then the groups, each of which runs as soon as *)
(* it is made.  The port may be taken; listen may fail, and the socket,    *)
(* bound by then, is of a listener that start does not keep.  A listener   *)
(* in its list is one that start made, whether or not a later one fails.   *)
StartListener ==
    /\ AtMain("start")
    /\ \/ Go("exit") /\ UNCHANGED <<m_servers, m_list_role, open>>
       \/ /\ open' = open \cup {sls_manager}
          /\ Go("exit")
          /\ UNCHANGED <<m_servers, m_list_role>>
       \/ /\ m_servers' = m_servers \cup {sls_manager}
          /\ open' = open \cup {sls_manager}
          /\ m_list_role' = [m_list_role EXCEPT ![sls_manager] = Append(@, sls_manager)]
          /\ \E pc \in {"start_groups", "exit"} :
                main' = [main EXCEPT !.pc = pc, !.groups = Mine(sls_manager)]
    /\ UNCHANGED <<b_exit, b_reload, sls_manager, made, reload_manager_list, maps, m_workers,
                   group, m_map_role, deleted>>

(* init_epoll may fail, which ends start with the groups made so far; so   *)
(* may pthread_create, which nobody looks at: the group has no thread.     *)
StartGroup(g) ==
    /\ AtMain("start_groups") /\ NextOne(g)
    /\ \/ Go("exit") /\ UNCHANGED <<m_workers, group>>
       \/ /\ m_workers' = m_workers \cup {g}
          /\ Goto(g, "idle") \/ (Threaded(g[1]) /\ Goto(g, "top"))
          /\ main' = [main EXCEPT !.groups = @ \ {g}]
    /\ UNCHANGED <<b_exit, b_reload, sls_manager, made, reload_manager_list, maps, m_servers, roles>>

Started ==
    /\ AtMain("start_groups") /\ main.groups = {}
    /\ Go("loop")
    /\ UNCHANGED <<b_exit, b_reload, managers, group, roles>>

-----------------------------------------------------------------------------
(* stop of manager main.k: listeners, groups, maps, and last the queue.    *)

Stop ==
    /\ AtMain("stop")
    /\ open' = open \ ({main.k} \cap m_servers)
    /\ m_servers' = m_servers \ {main.k}
    /\ main' = [main EXCEPT !.pc = "stop_groups", !.groups = Mine(main.k) \cap m_workers]
    /\ UNCHANGED <<b_exit, b_reload, sls_manager, made, reload_manager_list, maps, m_workers,
                   group, m_map_role, m_list_role, deleted>>

(* CSLSThread::stop returns at once when there is no thread.               *)
HasThread(g) == Threaded(g[1]) /\ ~AtGroup(g, "idle")

StopGroup(g) ==
    /\ AtMain("stop_groups") /\ NextOne(g) /\ ~group[g].m_exit
    /\ IF HasThread(g)
       THEN group' = [group EXCEPT ![g].m_exit = TRUE] /\ UNCHANGED <<m_workers, main>>
       ELSE /\ m_workers' = m_workers \ {g}
            /\ main' = [main EXCEPT !.groups = @ \ {g}]
            /\ UNCHANGED group
    /\ UNCHANGED <<b_exit, b_reload, sls_manager, made, reload_manager_list, maps, m_servers, roles>>

JoinGroup(g) ==
    /\ AtMain("stop_groups") /\ NextOne(g) /\ group[g].m_exit /\ Joined(g)
    /\ m_workers' = m_workers \ {g}
    /\ main' = [main EXCEPT !.groups = @ \ {g}]
    /\ UNCHANGED <<b_exit, b_reload, sls_manager, made, reload_manager_list, maps, m_servers,
                   group, roles>>

SkipGroups == TRUE
NoGroups   == main.groups = {}

StopMaps ==
    /\ AtMain("stop_groups") /\ NoGroups
    /\ maps' = [maps EXCEPT ![main.k] = "deleted"]
    /\ Go("stop_queue")
    /\ UNCHANGED <<b_exit, b_reload, sls_manager, made, reload_manager_list, m_servers, m_workers,
                   group, roles>>

(* erase uninitialises and deletes what nobody took from the queue.  main  *)
(* then deletes the manager and goes on where it was.                      *)
StopQueue ==
    /\ AtMain("stop_queue")
    /\ open' = open \ Queued(main.k)
    /\ deleted' = deleted \cup Queued(main.k)
    /\ m_list_role' = [m_list_role EXCEPT ![main.k] = <<>>]
    /\ reload_manager_list' = reload_manager_list \ {main.k}
    /\ sls_manager' = IF sls_manager = main.k THEN 0 ELSE sls_manager
    /\ Go(main.back)
    /\ UNCHANGED <<b_exit, b_reload, made, maps, m_servers, m_workers, group, m_map_role>>

(* EXIT_PROC: the current manager first, then the reloaded ones.           *)
Exit ==
    /\ AtMain("exit")
    /\ \/ /\ sls_manager # 0
          /\ main' = [main EXCEPT !.pc = "stop", !.k = sls_manager, !.back = "exit"]
       \/ /\ sls_manager = 0
          /\ \E k \in reload_manager_list :
                main' = [main EXCEPT !.pc = "stop", !.k = k, !.back = "exit"]
       \/ sls_manager = 0 /\ reload_manager_list = {} /\ Go("done")
    /\ UNCHANGED <<b_exit, b_reload, managers, group, roles>>

Main ==
    \/ Loop \/ Serve \/ Served \/ Checked
    \/ Reload \/ PutAside \/ StartListener \/ Started
    \/ Stop \/ StopMaps \/ StopQueue \/ Exit
    \/ \E k \in Managers : CheckManager(k)
    \/ \E g \in Groups : FlagGroup(g) \/ StartGroup(g) \/ StopGroup(g) \/ JoinGroup(g)

-----------------------------------------------------------------------------
(* Signals and peers.                                                      *)

CtrlC ==
    /\ ~b_exit /\ b_exit' = TRUE
    /\ UNCHANGED <<b_reload, main, managers, group, roles>>

Hup ==
    /\ ~b_reload /\ b_reload' = TRUE
    /\ made + (IF AtMain("flag") THEN 1 ELSE 0) < MaxManagers
    /\ UNCHANGED <<b_exit, main, managers, group, roles>>

Break(c) ==
    /\ c \in open
    /\ open' = open \ {c}
    /\ UNCHANGED <<b_exit, b_reload, main, managers, group, m_map_role, m_list_role, deleted>>

-----------------------------------------------------------------------------
Init ==
    /\ b_exit = FALSE /\ b_reload = FALSE
    /\ main = [pc |-> "start", k |-> 1, todo |-> {}, groups |-> {}, back |-> "exit"]
    /\ sls_manager = 1 /\ made = 1 /\ reload_manager_list = {}
    /\ maps = [k \in Managers |-> IF k = 1 THEN "alive" ELSE "none"]
    /\ m_servers = {} /\ m_workers = {}
    /\ group = [g \in Groups |-> [pc |-> "none", m_exit |-> FALSE, m_reload |-> FALSE]]
    /\ m_map_role = [g \in Groups |-> {}]
    /\ m_list_role = [k \in Managers |-> <<>>]
    /\ open = {} /\ deleted = {}

Next ==
    \/ Main \/ CtrlC \/ Hup
    \/ \E g \in Groups : Work(g)
    \/ \E c \in Clients : Break(c)

Spec == Init /\ [][Next]_vars

(* main and the worker threads keep running.                               *)
FairSpec == Spec /\ WF_vars(Main) /\ \A g \in Groups : WF_vars(Work(g))

-----------------------------------------------------------------------------
Exiting ==
    \/ main.pc \in {"exit", "done"}
    \/ main.pc \in {"stop", "stop_groups", "stop_queue"} /\ main.back = "exit"
Running(g) == group[g].pc \notin {"none", "idle", "done"}
ClientsOf(k) == (Held(k) \cup Queued(k)) \cap Clients

MainState  == [pc : {"loop", "serve", "serving", "check", "reload", "flag", "start",
                     "start_groups", "stop", "stop_groups", "stop_queue", "exit", "done"},
               k : Managers, todo : SUBSET Managers, groups : SUBSET Groups,
               back : {"check", "exit"}]
GroupState == [pc : {"none", "idle", "top", "handler", "new", "clear", "returned", "done"},
               m_exit : BOOLEAN, m_reload : BOOLEAN]

TypeOK ==
    /\ b_exit \in BOOLEAN /\ b_reload \in BOOLEAN
    /\ main \in MainState
    /\ sls_manager \in 0 .. MaxManagers /\ made \in Managers
    /\ reload_manager_list \subseteq Managers
    /\ maps \in [Managers -> {"none", "alive", "deleted"}]
    /\ m_servers \subseteq Managers /\ m_workers \subseteq Groups
    /\ group \in [Groups -> GroupState]
    /\ m_map_role \in [Groups -> SUBSET Roles]
    /\ m_list_role \in [Managers -> Seq(Roles)]
    /\ open \subseteq Roles /\ deleted \subseteq Roles

(* A group's thread, which uses the group, its roles, and through them the *)
(* maps and the queue, has ended before main deletes any of these.         *)
GroupOutlived ==
    \A g \in Groups :
        Running(g) => g \in m_workers /\ maps[g[1]] = "alive"

(* Whatever a thread has taken is closed and deleted while the maps exist  *)
(* that the role's uninit removes its stream from.                         *)
MapsOutliveRoles ==
    \A k \in Managers : maps[k] = "deleted" /\ Threaded(k) => Held(k) = {}

(* The old listener is closed when the new one wants the port.             *)
OneListener == Cardinality(open \cap Managers) <= 1

(* When main ends no thread runs, and of a manager with threads no socket  *)
(* is open and no role is left, wherever it was when the signal came and   *)
(* however the reload went.  (A manager without threads is stopped without *)
(* its group's clear: the process ends with the roles.  A listener that    *)
(* could not listen is in no list: the process ends with its socket.)      *)
NothingLeft ==
    AtMain("done") =>
        /\ \A g \in Groups : ~Running(g)
        /\ \A r \in open : \/ r \in Managers \ Created
                         \/ \E k \in Managers : ~Threaded(k) /\ r \in Held(k)
        /\ \A k \in Managers : Queued(k) = {} /\ (Threaded(k) => Held(k) = {})

(* A reload cuts nobody off whom a group has taken: a client leaves the    *)
(* group only when its peer has gone, or because the server ends.          *)
DrainKeepsTaken ==
    [][\A g \in Groups : \A c \in Clients \cap open :
            c \in m_map_role[g] /\ c \notin m_map_role[g]' => Exiting]_vars

(* A reloaded manager whose clients have all gone is deleted, if start     *)
(* could make the threads of all its groups.                               *)
AllThreads(k) == Threaded(k) => \A g \in Mine(k) : HasThread(g)
DrainEnds ==
    \A k \in Managers :
        <>[](ClientsOf(k) \cap open = {}) =>
            (k \in reload_manager_list /\ AllThreads(k) ~> maps[k] = "deleted")

(* Ctrl-C ends the process, even in the middle of a reload.                *)
ExitEnds == b_exit ~> AtMain("done")
=============================================================================
