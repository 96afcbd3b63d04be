-------------------------- MODULE SLSManagerProofs ---------------------------
(* Proofs about SLSManager: for any number of managers, of threads of each *)
(* and of clients.                                                         *)
EXTENDS SLSManager, FiniteSetTheorems, TLAPS

Stopping == main.pc \in {"stop", "stop_groups", "stop_queue"}
Checking == main.pc = "check" \/ (Stopping /\ main.back = "check")
Serving  == main.pc \in {"loop", "serve", "serving", "reload", "flag"} \/ Checking

(* The managers main knows: the current one and those put aside.           *)
ListInv ==
    /\ sls_manager \in {0, made}
    /\ reload_manager_list \subseteq 1 .. made
    /\ sls_manager \notin reload_manager_list
    /\ main.todo \subseteq reload_manager_list
    /\ ~Checking => main.todo = {}
    /\ Stopping => /\ main.k \notin main.todo
                   /\ main.k \in reload_manager_list \/ (main.back = "exit" /\ main.k = sls_manager)
    /\ Serving => sls_manager # 0
    /\ main.pc \in {"start", "start_groups"} => sls_manager # 0

(* There is room for the manager a reload makes.                           *)
MadeInv ==
    /\ b_reload \/ main.pc \in {"reload", "flag"} => made < MaxManagers
    /\ b_reload /\ main.pc = "flag" => made + 1 < MaxManagers

(* A manager's maps exist as long as one of its groups does.  The current  *)
(* manager has all its groups, unless it is starting: then main has those  *)
(* it still has to start.  When it stops one, main has those left to stop. *)
WorkersInv ==
    /\ \A g \in m_workers : maps[g[1]] = "alive"
    /\ Serving => Mine(sls_manager) \subseteq m_workers
    /\ main.pc \in {"start", "start_groups"} => maps[sls_manager] = "alive"
    /\ main.pc = "start" => Mine(sls_manager) \cap m_workers = {}
    /\ main.pc = "start_groups" => /\ main.groups \subseteq Mine(sls_manager)
                                   /\ Mine(sls_manager) \ main.groups = Mine(sls_manager) \cap m_workers
    /\ main.pc = "stop_groups" => main.groups = Mine(main.k) \cap m_workers

(* A thread runs only in a group that exists, and holds no role before it  *)
(* begins or after it has ended; main runs a group only when it serves.    *)
ThreadInv ==
    /\ \A g \in Groups :
        Threaded(g[1]) => \/ group[g].pc \notin {"none", "idle", "done"} /\ g \in m_workers
                          \/ group[g].pc \in {"none", "idle", "done"} /\ m_map_role[g] = {}
    /\ \A g \in Groups :
        ~Threaded(g[1]) /\ Running(g) => main.pc = "serving" /\ g[1] = sls_manager
    /\ main.pc \in {"serve", "serving"} => ~Threaded(sls_manager)

(* Only the listener of the last manager made is open, and not before that *)
(* manager starts or once it is flagged.                                   *)
ListenerInv ==
    /\ open \cap Managers \subseteq {made}
    /\ main.pc \in {"start", "flag"} => made \notin open

(* Of the managers made, main knows those it has still to delete: groups   *)
(* and queued roles are only theirs, and at the end there are none.        *)
Known == reload_manager_list \cup ({sls_manager} \ {0})

KnownInv ==
    /\ \A g \in m_workers : g[1] \in Known
    /\ \A k \in Managers : m_list_role[k] # <<>> => k \in Known
    /\ main.pc = "stop_queue" => Mine(main.k) \cap m_workers = {}
    /\ main.pc = "done" => Known = {}

(* Whoever has a socket is in a queue or in a group, unless it is a        *)
(* listener that could not listen.                                         *)
Placed(r) == \/ \E g \in Groups : r \in m_map_role[g]
             \/ \E k \in Managers : r \in Queued(k)
OpenInv   == \A r \in open : Placed(r) \/ r \in Managers \ Created

(* A listener is in a queue, in a group or deleted only once its manager   *)
(* has been started.                                                       *)
NewInv == \A k \in Managers \cap Created : k < made \/ (k = made /\ main.pc # "start")

(* A thread leaves its loop because the group has drained, or because the  *)
(* server ends: the managers deleted before that have no groups left.      *)
DrainInv ==
    /\ \A g \in Groups :
        IF Threaded(g[1])
        THEN /\ group[g].pc # "handler"
             /\ group[g].m_exit \/ group[g].pc = "clear" =>
                    \/ Exiting
                    \/ m_map_role[g] = {} /\ group[g].pc \in {"none", "idle", "top", "clear", "done"}
        ELSE group[g].pc \notin {"top", "clear"}
    /\ Stopping /\ main.back = "check" => Mine(main.k) \cap m_workers = {}

IInv ==
    /\ TypeOK /\ ListInv /\ MadeInv /\ WorkersInv /\ ThreadInv /\ ListenerInv
    /\ KnownInv /\ OpenInv /\ NewInv /\ DrainInv

-----------------------------------------------------------------------------
(* A group belongs to the manager that made it.                            *)
LEMMA GroupOfManager ==
    ASSUME NEW g \in Groups
    PROVE  g[1] \in Managers /\ g \in Mine(g[1])
  <1>1. PICK k \in Managers : g \in {k} \X Workers(k)
    BY DEF Groups
  <1>2. g[1] = k
    BY <1>1
  <1>. QED
    BY <1>2 DEF Mine

(* A manager without threads has one group.                                *)
LEMMA SingleGroup ==
    ASSUME NEW g \in Groups, NEW h \in Groups, g[1] = h[1], ~Threaded(g[1])
    PROVE  g = h
  <1>1. PICK k \in Managers : g \in {k} \X Workers(k)
    BY DEF Groups
  <1>2. PICK j \in Managers : h \in {j} \X Workers(j)
    BY DEF Groups
  <1>3. k = g[1] /\ j = g[1]
    BY <1>1, <1>2
  <1>4. WorkerThreads[k] = 0
    BY <1>3, ManagerAssumption DEF Threaded, Managers
  <1>5. g = <<k, 0>> /\ h = <<k, 0>>
    BY <1>1, <1>2, <1>3, <1>4 DEF Workers
  <1>. QED
    BY <1>5

-----------------------------------------------------------------------------
(* Type correctness.                                                       *)

(* The types hold at first.                                                *)
LEMMA TypeInit ==
    ASSUME Init PROVE TypeOK
  <1>1. 1 \in Managers /\ 1 \in 0 .. MaxManagers
    BY ManagerAssumption DEF Managers
  <1>2. main \in MainState
    BY <1>1 DEF Init, MainState
  <1>3. group \in [Groups -> GroupState]
    BY DEF Init, GroupState
  <1>4. m_list_role \in [Managers -> Seq(Roles)]
    BY DEF Init
  <1>. QED
    BY <1>1, <1>2, <1>3, <1>4 DEF Init, TypeOK

(* A group that goes to a place of its loop keeps its type.                *)
LEMMA GotoType ==
    ASSUME group \in [Groups -> GroupState], NEW g \in Groups, NEW pc, Goto(g, pc),
           pc \in {"none", "idle", "top", "handler", "new", "clear", "returned", "done"}
    PROVE  group' \in [Groups -> GroupState]
  <1>1. [group[g] EXCEPT !.pc = pc] \in GroupState
    BY DEF GroupState
  <1>. QED
    BY <1>1 DEF Goto

(* The steps of a group.                                                   *)
LEMMA TypeWork ==
    ASSUME TypeOK, NEW g \in Groups, Work(g)
    PROVE  TypeOK'
  <1>. USE DEF managers, roles
  <1>0. g[1] \in Managers
    BY GroupOfManager
  <1>a. group \in [Groups -> GroupState]
    BY DEF TypeOK
  <1>1. CASE EndLoop(g)
    <2>1. group' \in [Groups -> GroupState]
      BY <1>1, <1>a, GotoType DEF EndLoop
    <2>. QED
      BY <1>1, <2>1 DEF EndLoop, TypeOK
  <1>2. CASE Handler(g)
    <2>1. CASE Drained(g)
      <3>1. [group[g] EXCEPT !.m_exit = TRUE,
                             !.pc = IF Threaded(g[1]) THEN "top" ELSE "returned"] \in GroupState
        BY <1>a DEF GroupState
      <3>2. group' = [group EXCEPT ![g] = [group[g] EXCEPT !.m_exit = TRUE,
                             !.pc = IF Threaded(g[1]) THEN "top" ELSE "returned"]]
        BY <1>2, <2>1 DEF Handler
      <3>3. group' \in [Groups -> GroupState]
        BY <3>1, <3>2, <1>a
      <3>. QED
        BY <1>2, <2>1, <3>3 DEF Handler, TypeOK
    <2>2. CASE ~Drained(g)
      <3>1. group' \in [Groups -> GroupState]
        BY <1>2, <2>2, <1>a, GotoType DEF Handler
      <3>2. m_map_role' \in [Groups -> SUBSET Roles] /\ deleted' \subseteq Roles
        BY <1>2, <2>2 DEF Handler, TypeOK, CheckInvalid
      <3>3. m_list_role' \in [Managers -> Seq(Roles)] /\ open' \subseteq Roles
        <4>1. CASE UNCHANGED <<m_list_role, open>>
          BY <4>1 DEF TypeOK
        <4>2. CASE AcceptOne(g)
          <5>1. PICK c \in Clients \ Created :
                  /\ m_list_role' = [m_list_role EXCEPT ![g[1]] = Append(@, c)]
                  /\ open' = open \cup {c}
            BY <4>2 DEF AcceptOne
          <5>2. c \in Roles
            BY DEF Roles
          <5>3. Append(m_list_role[g[1]], c) \in Seq(Roles)
            BY <5>2, <1>0 DEF TypeOK
          <5>. QED
            BY <5>1, <5>2, <5>3 DEF TypeOK
        <4>. QED
          BY <1>2, <2>2, <4>1, <4>2 DEF Handler
      <3>. QED
        BY <1>2, <3>1, <3>2, <3>3 DEF Handler, TypeOK
    <2>. QED
      BY <2>1, <2>2
  <1>3. CASE CheckNew(g)
    <2>1. group' \in [Groups -> GroupState]
      BY <1>3, <1>a, GotoType DEF CheckNew, Return
    <2>2. m_list_role[g[1]] \in Seq(Roles)
      BY <1>0 DEF TypeOK
    <2>3. m_list_role[g[1]] # <<>> => /\ Head(m_list_role[g[1]]) \in Roles
                                      /\ Tail(m_list_role[g[1]]) \in Seq(Roles)
      BY <2>2
    <2>4. /\ m_map_role' \in [Groups -> SUBSET Roles] /\ deleted' \subseteq Roles
          /\ m_list_role' \in [Managers -> Seq(Roles)] /\ open' \subseteq Roles
      <3>0. TypeOK
        OBVIOUS
      <3>1. CASE UNCHANGED roles
        BY <3>0, <3>1 DEF TypeOK
      <3>2. CASE /\ m_list_role[g[1]] # <<>>
                 /\ m_list_role' = [m_list_role EXCEPT ![g[1]] = Tail(m_list_role[g[1]])]
                 /\ m_map_role' = [m_map_role EXCEPT ![g] = @ \cup {Head(m_list_role[g[1]])}]
                 /\ UNCHANGED <<open, deleted>>
        <4>1. m_list_role' \in [Managers -> Seq(Roles)]
          BY <3>0, <3>2, <2>3 DEF TypeOK
        <4>2. m_map_role' \in [Groups -> SUBSET Roles]
          BY <3>0, <3>2, <2>3 DEF TypeOK
        <4>. QED
          BY <3>0, <3>2, <4>1, <4>2 DEF TypeOK
      <3>3. CASE /\ m_list_role[g[1]] # <<>>
                 /\ m_list_role' = [m_list_role EXCEPT ![g[1]] = Tail(m_list_role[g[1]])]
                 /\ deleted' = deleted \cup {Head(m_list_role[g[1]])}
                 /\ UNCHANGED <<m_map_role, open>>
        <4>1. m_list_role' \in [Managers -> Seq(Roles)]
          BY <3>0, <3>3, <2>3 DEF TypeOK
        <4>. QED
          BY <3>0, <3>3, <2>3, <4>1 DEF TypeOK
      <3>. QED
        BY <1>3, <3>1, <3>2, <3>3 DEF CheckNew
    <2>. QED
      BY <1>3, <2>1, <2>4 DEF CheckNew, TypeOK
  <1>4. CASE Clear(g)
    <2>1. group' \in [Groups -> GroupState]
      BY <1>4, <1>a, GotoType DEF Clear
    <2>. QED
      BY <1>4, <2>1 DEF Clear, ClearRoles, TypeOK
  <1>. QED
    BY <1>1, <1>2, <1>3, <1>4 DEF Work

(* The steps of main.                                                      *)
LEMMA TypeMain ==
    ASSUME TypeOK, ListInv, MadeInv, Main
    PROVE  TypeOK'
  <1>. USE DEF managers, roles
  <1>a. main \in MainState /\ group \in [Groups -> GroupState]
        /\ reload_manager_list \subseteq Managers
    BY DEF TypeOK
  <1>b. \A k \in Managers : Mine(k) \subseteq Groups
    BY DEF Mine
  <1>1. CASE Loop
    <2>1. main' \in MainState
      BY <1>1, <1>a DEF Loop, Go, Check, MainState
    <2>. QED
      BY <1>1, <2>1 DEF Loop, TypeOK
  <1>2. CASE Serve
    <2>1. main' \in MainState
      BY <1>2, <1>a DEF Serve, Go, MainState
    <2>2. PICK g \in Mine(sls_manager) : Goto(g, "handler")
      BY <1>2 DEF Serve
    <2>3. group' \in [Groups -> GroupState]
      BY <2>2, <1>a, GotoType DEF Mine
    <2>. QED
      BY <1>2, <2>1, <2>3 DEF Serve, TypeOK
  <1>3. CASE Served
    <2>1. main' \in MainState
      BY <1>3, <1>a DEF Served, Check, MainState
    <2>2. PICK g \in Mine(sls_manager) : Goto(g, "idle")
      BY <1>3 DEF Served
    <2>3. group' \in [Groups -> GroupState]
      BY <2>2, <1>a, GotoType DEF Mine
    <2>. QED
      BY <1>3, <2>1, <2>3 DEF Served, TypeOK
  <1>4. CASE Checked
    <2>1. main' \in MainState
      BY <1>4, <1>a DEF Checked, Go, MainState
    <2>. QED
      BY <1>4, <2>1 DEF Checked, TypeOK
  <1>5. CASE Reload
    <2>1. main' \in MainState
      BY <1>5, <1>a DEF Reload, MainState, Mine
    <2>. QED
      BY <1>5, <2>1 DEF Reload, TypeOK, Shut
  <1>6. CASE PutAside
    <2>1. main.pc = "flag"
      BY <1>6 DEF PutAside, AtMain
    <2>2. made + 1 \in Managers
      BY <2>1, ManagerAssumption DEF MadeInv, TypeOK, Managers
    <2>3. sls_manager \in Managers
      BY <2>1, ManagerAssumption DEF ListInv, Serving, TypeOK, Managers
    <2>4. main' \in MainState
      BY <1>6, <1>a DEF PutAside, Go, MainState
    <2>5. sls_manager' \in 0 .. MaxManagers /\ made' \in Managers
      BY <1>6, <2>2, ManagerAssumption DEF PutAside, TypeOK, Managers
    <2>. QED
      BY <1>6, <2>2, <2>3, <2>4, <2>5 DEF PutAside, TypeOK, Aside
  <1>7. CASE StartListener
    <2>1. sls_manager \in Managers
      BY <1>7, ManagerAssumption DEF StartListener, AtMain, ListInv, TypeOK, Managers
    <2>2. m_list_role[sls_manager] \in Seq(Roles) /\ sls_manager \in Roles
      BY <2>1 DEF TypeOK, Roles
    <2>3. Append(m_list_role[sls_manager], sls_manager) \in Seq(Roles)
      BY <2>2
    <2>4. main' \in MainState
      BY <1>7, <1>a DEF StartListener, Go, MainState, Mine
    <2>5. m_list_role' \in [Managers -> Seq(Roles)]
      <3>1. m_list_role \in [Managers -> Seq(Roles)]
        BY DEF TypeOK
      <3>2. CASE UNCHANGED m_list_role
        BY <3>1, <3>2
      <3>3. CASE m_list_role' = [m_list_role EXCEPT ![sls_manager] = Append(@, sls_manager)]
        BY <3>1, <3>3, <2>1, <2>3
      <3>. QED
        BY <1>7, <3>2, <3>3 DEF StartListener
    <2>6. open' \subseteq Roles /\ m_servers' \subseteq Managers
      BY <1>7, <2>1, <2>2 DEF StartListener, TypeOK
    <2>. QED
      BY <1>7, <2>4, <2>5, <2>6 DEF StartListener, TypeOK
  <1>8. CASE Started
    <2>1. main' \in MainState
      BY <1>8, <1>a DEF Started, Go, MainState
    <2>. QED
      BY <1>8, <2>1 DEF Started, TypeOK
  <1>9. CASE Stop
    <2>1. main' \in MainState
      BY <1>9, <1>a DEF Stop, MainState, Mine
    <2>. QED
      BY <1>9, <2>1 DEF Stop, TypeOK
  <1>10. CASE StopMaps
    <2>1. main' \in MainState
      BY <1>10, <1>a DEF StopMaps, Go, MainState
    <2>. QED
      BY <1>10, <2>1 DEF StopMaps, TypeOK
  <1>11. CASE StopQueue
    <2>1. main.k \in Managers /\ main' \in MainState
      BY <1>11, <1>a DEF StopQueue, Go, MainState
    <2>2. Queued(main.k) \subseteq Roles
      <3>1. m_list_role[main.k] \in Seq(Roles)
        BY <2>1 DEF TypeOK
      <3>. QED
        BY <3>1 DEF Queued
    <2>3. <<>> \in Seq(Roles)
      OBVIOUS
    <2>4. sls_manager' \in 0 .. MaxManagers
      BY <1>11, ManagerAssumption DEF StopQueue, TypeOK
    <2>5. m_list_role' \in [Managers -> Seq(Roles)]
      BY <1>11, <2>3 DEF StopQueue, TypeOK
    <2>. QED
      BY <1>11, <2>1, <2>2, <2>4, <2>5 DEF StopQueue, TypeOK
  <1>12. CASE Exit
    <2>1. sls_manager # 0 => sls_manager \in Managers
      BY ManagerAssumption DEF TypeOK, Managers
    <2>2. main' \in MainState
      BY <1>12, <1>a, <2>1 DEF Exit, Go, MainState
    <2>. QED
      BY <1>12, <2>2 DEF Exit, TypeOK
  <1>13. CASE \E k \in Managers : CheckManager(k)
    <2>1. PICK k \in Managers : CheckManager(k)
      BY <1>13
    <2>2. main' \in MainState
      <3>1. PICK pc \in {"stop", "check"} :
              main' = [main EXCEPT !.todo = @ \ {k}, !.k = k, !.back = "check", !.pc = pc]
        BY <2>1 DEF CheckManager
      <3>. QED
        BY <3>1, <1>a DEF MainState
    <2>3. m_workers' \subseteq m_workers
      BY <2>1 DEF CheckManager
    <2>. QED
      BY <2>1, <2>2, <2>3 DEF CheckManager, TypeOK
  <1>14. CASE \E g \in Groups : FlagGroup(g)
    <2>1. PICK g \in Groups : FlagGroup(g)
      BY <1>14
    <2>2. [group[g] EXCEPT !.m_reload = TRUE] \in GroupState
      BY <1>a DEF GroupState
    <2>3. group' \in [Groups -> GroupState]
      BY <2>1, <2>2, <1>a DEF FlagGroup, Flag
    <2>4. main' \in MainState
      BY <2>1, <1>a DEF FlagGroup, MainState
    <2>. QED
      BY <2>1, <2>3, <2>4 DEF FlagGroup, TypeOK
  <1>15. CASE \E g \in Groups : StartGroup(g)
    <2>1. PICK g \in Groups : StartGroup(g)
      BY <1>15
    <2>2. UNCHANGED group \/ \E pc \in {"idle", "top"} : Goto(g, pc)
      BY <2>1 DEF StartGroup
    <2>3. group' \in [Groups -> GroupState]
      BY <2>1, <2>2, <1>a, GotoType
    <2>4. main' \in MainState
      BY <2>1, <1>a DEF StartGroup, Go, MainState
    <2>. QED
      BY <2>1, <2>3, <2>4 DEF StartGroup, TypeOK
  <1>16. CASE \E g \in Groups : StopGroup(g)
    <2>1. PICK g \in Groups : StopGroup(g)
      BY <1>16
    <2>2. [group[g] EXCEPT !.m_exit = TRUE] \in GroupState
      BY <1>a DEF GroupState
    <2>3. group' \in [Groups -> GroupState]
      BY <2>1, <2>2, <1>a DEF StopGroup
    <2>4. main' \in MainState
      BY <2>1, <1>a DEF StopGroup, MainState
    <2>5. m_workers' \subseteq m_workers
      BY <2>1 DEF StopGroup
    <2>. QED
      BY <2>1, <2>3, <2>4, <2>5 DEF StopGroup, TypeOK
  <1>17. CASE \E g \in Groups : JoinGroup(g)
    <2>1. main' \in MainState
      BY <1>17, <1>a DEF JoinGroup, MainState
    <2>. QED
      BY <1>17, <2>1 DEF JoinGroup, TypeOK
  <1>. QED
    BY <1>1, <1>2, <1>3, <1>4, <1>5, <1>6, <1>7, <1>8, <1>9, <1>10, <1>11, <1>12, <1>13,
       <1>14, <1>15, <1>16, <1>17 DEF Main

(* Every step keeps them.                                                  *)
LEMMA TypeNext ==
    ASSUME TypeOK, ListInv, MadeInv, [Next]_vars
    PROVE  TypeOK'
  <1>1. CASE Main
    BY <1>1, TypeMain
  <1>2. CASE \E g \in Groups : Work(g)
    BY <1>2, TypeWork
  <1>3. CASE CtrlC \/ Hup
    BY <1>3 DEF CtrlC, Hup, TypeOK, managers, roles
  <1>4. CASE \E c \in Clients : Break(c)
    BY <1>4 DEF Break, TypeOK, managers
  <1>5. CASE UNCHANGED vars
    BY <1>5 DEF vars, TypeOK, managers, roles
  <1>. QED
    BY <1>1, <1>2, <1>3, <1>4, <1>5 DEF Next
-----------------------------------------------------------------------------
(* A group's steps change none of main's state.                            *)
LEMMA WorkFrame ==
    ASSUME NEW g \in Groups, Work(g)
    PROVE  UNCHANGED <<b_exit, b_reload, main, managers>>
  BY DEF Work, EndLoop, Handler, CheckNew, Clear

(* The managers main knows.                                                *)
LEMMA ListMain ==
    ASSUME TypeOK, ListInv, Main
    PROVE  ListInv'
  <1>. USE DEF managers, AtMain, Go, ListInv, Serving, Checking, Stopping
  <1>a. main \in MainState /\ made \in Nat /\ sls_manager \in Nat
    BY ManagerAssumption DEF TypeOK, Managers
  <1>1. CASE Loop
    BY <1>1, <1>a DEF Loop, Check, MainState
  <1>2. CASE Serve
    BY <1>2, <1>a DEF Serve, MainState
  <1>3. CASE Served
    BY <1>3, <1>a DEF Served, Check, MainState
  <1>4. CASE Checked
    BY <1>4, <1>a DEF Checked, MainState
  <1>5. CASE Reload
    BY <1>5, <1>a DEF Reload, MainState
  <1>6. CASE PutAside
    <2>1. sls_manager = made /\ made \in 1 .. made + 1 /\ made + 1 \notin 1 .. made
          /\ 1 .. made \subseteq 1 .. made + 1 /\ made \in 1 .. made /\ made # made + 1
      BY <1>6, <1>a, ManagerAssumption DEF PutAside, TypeOK, Managers
    <2>2. CASE sls_manager' = 0 /\ Go("exit") /\ UNCHANGED <<made, maps>>
      BY <1>6, <1>a, <2>1, <2>2 DEF PutAside, Aside, MainState
    <2>3. CASE made' = made + 1 /\ sls_manager' = made + 1 /\ Go("start")
      BY <1>6, <1>a, <2>1, <2>3 DEF PutAside, Aside, MainState
    <2>. QED
      BY <1>6, <2>2, <2>3 DEF PutAside
  <1>7. CASE StartListener
    BY <1>7, <1>a DEF StartListener, MainState
  <1>8. CASE Started
    BY <1>8, <1>a DEF Started, MainState
  <1>9. CASE Stop
    BY <1>9, <1>a DEF Stop, MainState
  <1>10. CASE StopMaps
    BY <1>10, <1>a DEF StopMaps, MainState
  <1>11. CASE StopQueue
    BY <1>11, <1>a DEF StopQueue, MainState
  <1>12. CASE Exit
    BY <1>12, <1>a DEF Exit, MainState
  <1>13. ASSUME NEW k \in Managers, CheckManager(k) PROVE ListInv'
    BY <1>13, <1>a DEF CheckManager, MainState
  <1>14. ASSUME NEW g \in Groups, FlagGroup(g) PROVE ListInv'
    BY <1>14, <1>a DEF FlagGroup, MainState
  <1>15. ASSUME NEW g \in Groups, StartGroup(g) PROVE ListInv'
    BY <1>15, <1>a DEF StartGroup, MainState
  <1>16. ASSUME NEW g \in Groups, StopGroup(g) PROVE ListInv'
    BY <1>16, <1>a DEF StopGroup, MainState
  <1>17. ASSUME NEW g \in Groups, JoinGroup(g) PROVE ListInv'
    BY <1>17, <1>a DEF JoinGroup, MainState
  <1>. QED
    BY <1>1, <1>2, <1>3, <1>4, <1>5, <1>6, <1>7, <1>8, <1>9, <1>10, <1>11, <1>12, <1>13,
       <1>14, <1>15, <1>16, <1>17 DEF Main

(* The room for managers.                                                  *)
LEMMA MadeMain ==
    ASSUME TypeOK, MadeInv, Main
    PROVE  MadeInv'
  <1>. USE DEF managers, AtMain, Go, MadeInv
  <1>a. main \in MainState /\ made \in Nat /\ MaxManagers \in Nat
    BY ManagerAssumption DEF TypeOK, Managers
  <1>1. CASE Loop
    <2>1. main'.pc \in {"exit", "check", "serve"}
      BY <1>1, <1>a DEF Loop, Check, MainState
    <2>. QED
      BY <1>1, <2>1, <1>a DEF Loop
  <1>2. CASE Serve
    BY <1>2, <1>a DEF Serve, MainState
  <1>3. CASE Served
    BY <1>3, <1>a DEF Served, Check, MainState
  <1>4. CASE Checked
    BY <1>4, <1>a DEF Checked, MainState
  <1>5. CASE Reload
    BY <1>5, <1>a DEF Reload, MainState
  <1>6. CASE PutAside
    BY <1>6, <1>a DEF PutAside, MainState
  <1>7. CASE StartListener
    <2>1. main'.pc \in {"exit", "start_groups"}
      BY <1>7, <1>a DEF StartListener, MainState
    <2>. QED
      BY <1>7, <2>1, <1>a DEF StartListener
  <1>8. CASE Started
    BY <1>8, <1>a DEF Started, MainState
  <1>9. CASE Stop
    BY <1>9, <1>a DEF Stop, MainState
  <1>10. CASE StopMaps
    BY <1>10, <1>a DEF StopMaps, MainState
  <1>11. CASE StopQueue
    <2>1. main'.pc \in {"check", "exit"}
      BY <1>11, <1>a DEF StopQueue, MainState
    <2>. QED
      BY <1>11, <2>1, <1>a DEF StopQueue
  <1>12. CASE Exit
    <2>1. main'.pc \in {"stop", "done"}
      BY <1>12, <1>a DEF Exit, MainState
    <2>. QED
      BY <1>12, <2>1, <1>a DEF Exit
  <1>13. ASSUME NEW k \in Managers, CheckManager(k) PROVE MadeInv'
    BY <1>13, <1>a DEF CheckManager, MainState
  <1>14. ASSUME NEW g \in Groups, FlagGroup(g) PROVE MadeInv'
    BY <1>14, <1>a DEF FlagGroup, MainState
  <1>15. ASSUME NEW g \in Groups, StartGroup(g) PROVE MadeInv'
    BY <1>15, <1>a DEF StartGroup, MainState
  <1>16. ASSUME NEW g \in Groups, StopGroup(g) PROVE MadeInv'
    BY <1>16, <1>a DEF StopGroup, MainState
  <1>17. ASSUME NEW g \in Groups, JoinGroup(g) PROVE MadeInv'
    BY <1>17, <1>a DEF JoinGroup, MainState
  <1>. QED
    BY <1>1, <1>2, <1>3, <1>4, <1>5, <1>13, <1>14, <1>15, <1>6, <1>7, <1>8, <1>9, <1>10,
       <1>11, <1>12, <1>16, <1>17 DEF Main

(* The groups that exist.                                                  *)
LEMMA WorkersMain ==
    ASSUME TypeOK, ListInv, MadeInv, WorkersInv, KnownInv, Main
    PROVE  WorkersInv'
  <1>. USE DEF managers, AtMain, Go, WorkersInv, Serving, Checking, Stopping
  <1>a. main \in MainState /\ made \in Nat /\ sls_manager \in Nat
        /\ maps \in [Managers -> {"none", "alive", "deleted"}] /\ m_workers \subseteq Groups
    BY ManagerAssumption DEF TypeOK, Managers
  <1>b. \A j, k : j # k => Mine(j) \cap Mine(k) = {}
    BY DEF Mine
  <1>c. sls_manager # 0 => sls_manager \in Managers
    BY <1>a DEF TypeOK, Managers
  <1>1. CASE Loop
    <2>0. Go("exit") \/ Check \/ Go("serve")
      BY <1>1 DEF Loop
    <2>1. main'.pc \in {"exit", "check", "serve"}
      BY <2>0, <1>a DEF Check, MainState
    <2>. QED
      BY <1>1, <2>1, <1>a DEF Loop
  <1>2. CASE Serve
    BY <1>2, <1>a DEF Serve, MainState
  <1>3. CASE Served
    BY <1>3, <1>a DEF Served, Check, MainState
  <1>4. CASE Checked
    BY <1>4, <1>a DEF Checked, MainState
  <1>5. CASE Reload
    BY <1>5, <1>a DEF Reload, MainState
  <1>6. CASE PutAside
    <2>1. main.pc = "flag" /\ m_workers' = m_workers
      BY <1>6 DEF PutAside
    <2>2. made + 1 \in Managers
      BY <2>1, <1>a, ManagerAssumption DEF MadeInv, Managers
    <2>3. CASE Go("exit") /\ UNCHANGED maps
      BY <2>1, <2>3, <1>a DEF MainState
    <2>4. CASE sls_manager' = made + 1 /\ maps' = [maps EXCEPT ![made + 1] = "alive"] /\ Go("start")
      <3>1. maps'[made + 1] = "alive" /\ \A k \in Managers : maps[k] = "alive" => maps'[k] = "alive"
        BY <2>2, <2>4, <1>a
      <3>2. \A g \in m_workers : g[1] \in Managers
        BY <1>a, GroupOfManager
      <3>3. main'.pc = "start"
        BY <2>4, <1>a DEF MainState
      <3>4. \A g \in m_workers : g[1] # made + 1
        BY <1>a DEF KnownInv, Known, ListInv
      <3>5. Mine(made + 1) \cap m_workers = {}
        BY <3>4 DEF Mine
      <3>. QED
        BY <2>1, <2>4, <3>1, <3>2, <3>3, <3>5
    <2>. QED
      BY <1>6, <2>3, <2>4 DEF PutAside
  <1>7. CASE StartListener
    <2>1. CASE Go("exit")
      BY <1>7, <2>1, <1>a DEF StartListener, MainState
    <2>2. ASSUME NEW pc \in {"start_groups", "exit"},
                 main' = [main EXCEPT !.pc = pc, !.groups = Mine(sls_manager)]
          PROVE  WorkersInv'
      BY <1>7, <2>2, <1>a DEF StartListener, MainState
    <2>. QED
      BY <1>7, <2>1, <2>2 DEF StartListener
  <1>8. CASE Started
    BY <1>8, <1>a DEF Started, MainState
  <1>9. CASE Stop
    BY <1>9, <1>a DEF Stop, MainState
  <1>10. CASE StopMaps
    <2>1. Mine(main.k) \cap m_workers = {} /\ m_workers' = m_workers /\ sls_manager' = sls_manager
      BY <1>10 DEF StopMaps, NoGroups
    <2>2. \A g \in m_workers : g[1] # main.k /\ g[1] \in Managers
      BY <2>1, <1>a, GroupOfManager
    <2>3. \A g \in m_workers : maps'[g[1]] = "alive"
      BY <1>10, <2>2, <1>a DEF StopMaps
    <2>. QED
      BY <1>10, <2>1, <2>3, <1>a DEF StopMaps, MainState
  <1>11. CASE StopQueue
    BY <1>11, <1>a DEF StopQueue, MainState, ListInv
  <1>12. CASE Exit
    BY <1>12, <1>a DEF Exit, MainState
  <1>13. ASSUME NEW k \in Managers, CheckManager(k) PROVE WorkersInv'
    <2>1. k # sls_manager
      BY <1>13 DEF CheckManager, ListInv
    <2>2. m_workers \ Mine(k) \subseteq m_workers' /\ m_workers' \subseteq m_workers
      BY <1>13 DEF CheckManager
    <2>3. PICK pc \in {"stop", "check"} :
              main' = [main EXCEPT !.todo = @ \ {k}, !.k = k, !.back = "check", !.pc = pc]
      BY <1>13 DEF CheckManager
    <2>4. main.pc = "check" /\ UNCHANGED <<sls_manager, maps>>
      BY <1>13 DEF CheckManager
    <2>5. Mine(sls_manager) \subseteq m_workers'
      BY <2>1, <2>2, <2>4, <1>b
    <2>. QED
      BY <2>2, <2>3, <2>4, <2>5, <1>a DEF MainState
  <1>14. ASSUME NEW g \in Groups, FlagGroup(g) PROVE WorkersInv'
    BY <1>14, <1>a DEF FlagGroup, MainState
  <1>15. ASSUME NEW g \in Groups, StartGroup(g) PROVE WorkersInv'
    <2>1. g[1] = sls_manager
      BY <1>15 DEF StartGroup, NextOne, Mine
    <2>2. CASE Go("exit") /\ UNCHANGED m_workers
      BY <1>15, <2>2, <1>a DEF StartGroup, MainState
    <2>3. CASE m_workers' = m_workers \cup {g} /\ main' = [main EXCEPT !.groups = @ \ {g}]
      BY <1>15, <2>1, <2>3, <1>a DEF StartGroup, MainState
    <2>. QED
      BY <1>15, <2>2, <2>3 DEF StartGroup
  <1>16. ASSUME NEW g \in Groups, StopGroup(g) PROVE WorkersInv'
    <2>1. main.pc = "stop_groups" /\ g \in Mine(main.k)
      BY <1>16 DEF StopGroup, NextOne
    <2>2. CASE UNCHANGED <<m_workers, main>>
      BY <1>16, <2>2 DEF StopGroup
    <2>3. CASE /\ m_workers' = m_workers \ {g}
               /\ main' = [main EXCEPT !.groups = @ \ {g}]
      <3>1. main.back = "check" => main.k # sls_manager
        BY <2>1 DEF ListInv
      <3>2. main.back = "check" => Mine(sls_manager) \subseteq m_workers'
        BY <2>1, <2>3, <3>1, <1>b
      <3>. QED
        BY <1>16, <2>1, <2>3, <3>2, <1>a DEF StopGroup, MainState
    <2>. QED
      BY <1>16, <2>2, <2>3 DEF StopGroup
  <1>17. ASSUME NEW g \in Groups, JoinGroup(g) PROVE WorkersInv'
    <2>1. main.pc = "stop_groups" /\ g \in Mine(main.k)
      BY <1>17 DEF JoinGroup, NextOne
    <2>2. main.back = "check" => main.k # sls_manager
      BY <2>1 DEF ListInv
    <2>3. main.back = "check" => Mine(sls_manager) \subseteq m_workers'
      BY <1>17, <2>1, <2>2, <1>b DEF JoinGroup
    <2>. QED
      BY <1>17, <2>1, <2>3, <1>a DEF JoinGroup, MainState
  <1>. QED
    BY <1>1, <1>2, <1>3, <1>4, <1>5, <1>6, <1>7, <1>8, <1>9, <1>10, <1>11, <1>12, <1>13,
       <1>14, <1>15, <1>16, <1>17 DEF Main

(* Threads and the groups they run in.                                     *)
LEMMA ThreadWork ==
    ASSUME TypeOK, ThreadInv, NEW g \in Groups, Work(g)
    PROVE  ThreadInv'
  <1>. USE DEF managers, AtGroup, Goto, Running
  <1>a. group \in [Groups -> GroupState] /\ m_map_role \in [Groups -> SUBSET Roles]
    BY DEF TypeOK
  <1>b. UNCHANGED <<main, sls_manager, m_workers>>
    BY WorkFrame
  <1>1. \A h \in Groups \ {g} : group'[h] = group[h] /\ m_map_role'[h] = m_map_role[h]
    <2>1. CASE EndLoop(g)
      BY <2>1, <1>a DEF EndLoop, roles
    <2>2. CASE Handler(g)
      BY <2>2, <1>a DEF Handler, CheckInvalid, roles
    <2>3. CASE CheckNew(g)
      BY <2>3, <1>a DEF CheckNew, Return, roles
    <2>4. CASE Clear(g)
      BY <2>4, <1>a DEF Clear, ClearRoles
    <2>. QED
      BY <2>1, <2>2, <2>3, <2>4 DEF Work
  <1>2. group[g].pc \in {"top", "handler", "new", "clear"}
    BY DEF Work, EndLoop, Handler, CheckNew, Clear
  <1>3. \/ group'[g].pc \notin {"none", "idle", "done"}
        \/ group'[g].pc = "done" /\ m_map_role'[g] = {}
    <2>1. CASE EndLoop(g)
      BY <2>1, <1>a DEF EndLoop, GroupState
    <2>2. CASE Handler(g)
      BY <2>2, <1>a DEF Handler, GroupState
    <2>3. CASE CheckNew(g)
      BY <2>3, <1>a DEF CheckNew, Return, GroupState
    <2>4. CASE Clear(g)
      BY <2>4, <1>a DEF Clear, ClearRoles, GroupState
    <2>. QED
      BY <2>1, <2>2, <2>3, <2>4 DEF Work
  <1>4. Threaded(g[1]) => g \in m_workers
    BY <1>2 DEF ThreadInv
  <1>5. ~Threaded(g[1]) => main.pc = "serving" /\ g[1] = sls_manager
    BY <1>2 DEF ThreadInv
  <1>6. \A h \in Groups :
            Threaded(h[1])' =>
                \/ group'[h].pc \notin {"none", "idle", "done"} /\ h \in m_workers'
                \/ group'[h].pc \in {"none", "idle", "done"} /\ m_map_role'[h] = {}
    BY <1>b, <1>1, <1>3, <1>4 DEF ThreadInv, Threaded
  <1>7. \A h \in Groups :
            ~Threaded(h[1])' /\ Running(h)' => main'.pc = "serving" /\ h[1] = sls_manager'
    BY <1>b, <1>1, <1>5 DEF ThreadInv, Threaded
  <1>. QED
    BY <1>b, <1>6, <1>7 DEF ThreadInv, Threaded

(* main's steps keep what is known of the threads.                         *)
LEMMA ThreadMain ==
    ASSUME TypeOK, ListInv, WorkersInv, ThreadInv, Main
    PROVE  ThreadInv'
  <1>. USE DEF managers, roles, AtMain, Go, Goto, AtGroup, ThreadInv, Running, Threaded
  <1>a. main \in MainState /\ group \in [Groups -> GroupState]
    BY DEF TypeOK
  <1>b. \A k : Mine(k) \subseteq Groups
    BY DEF Mine
  <1>1. CASE Loop
    BY <1>1, <1>a DEF Loop, Check, MainState
  <1>2. CASE Serve
    <2>1. PICK g \in Mine(sls_manager) : Goto(g, "handler")
      BY <1>2 DEF Serve
    <2>2. g \in Groups /\ g[1] = sls_manager
      BY DEF Mine
    <2>3. \A h \in Groups \ {g} : group'[h] = group[h]
      BY <2>1, <1>a
    <2>4. main'.pc = "serving" /\ main.pc = "serve"
          /\ UNCHANGED <<sls_manager, m_workers, m_map_role>>
      BY <1>2, <1>a DEF Serve, MainState
    <2>. QED
      BY <2>2, <2>3, <2>4
  <1>3. CASE Served
    <2>1. PICK g \in Mine(sls_manager) : Goto(g, "idle")
      BY <1>3 DEF Served
    <2>2. g \in Groups /\ g[1] = sls_manager
      BY DEF Mine
    <2>3. /\ group'[g].pc = "idle"
          /\ \A h \in Groups \ {g} : group'[h] = group[h]
      BY <2>1, <2>2, <1>a DEF GroupState
    <2>4. main'.pc = "check" /\ main.pc = "serving"
          /\ UNCHANGED <<sls_manager, m_workers, m_map_role>>
      BY <1>3, <1>a DEF Served, Check, MainState
    <2>5. \A h \in Groups \ {g} : ~(~Threaded(h[1]) /\ Running(h))
      BY <2>2, <2>4, SingleGroup
    <2>. QED
      BY <2>2, <2>3, <2>4, <2>5
  <1>4. CASE Checked
    BY <1>4, <1>a DEF Checked, MainState
  <1>5. CASE Reload
    BY <1>5, <1>a DEF Reload, MainState
  <1>6. CASE PutAside
    BY <1>6, <1>a DEF PutAside, MainState
  <1>7. CASE StartListener
    <2>1. main'.pc \in {"exit", "start_groups"}
      BY <1>7, <1>a DEF StartListener, MainState
    <2>. QED
      BY <1>7, <2>1 DEF StartListener
  <1>8. CASE Started
    BY <1>8, <1>a DEF Started, MainState
  <1>9. CASE Stop
    BY <1>9, <1>a DEF Stop, MainState
  <1>10. CASE StopMaps
    BY <1>10, <1>a DEF StopMaps, MainState
  <1>11. CASE StopQueue
    <2>1. main'.pc \in {"check", "exit"}
      BY <1>11, <1>a DEF StopQueue, MainState
    <2>. QED
      BY <1>11, <2>1 DEF StopQueue
  <1>12. CASE Exit
    <2>1. main'.pc \in {"stop", "done"}
      BY <1>12, <1>a DEF Exit, MainState
    <2>. QED
      BY <1>12, <2>1 DEF Exit
  <1>13. ASSUME NEW k \in Managers, CheckManager(k) PROVE ThreadInv'
    <2>1. main'.pc \in {"stop", "check"} /\ main.pc = "check"
          /\ UNCHANGED <<sls_manager, group, m_map_role>>
      BY <1>13, <1>a DEF CheckManager, MainState
    <2>2. \A g \in m_workers \ m_workers' : group[g].pc = "done"
      BY <1>13 DEF CheckManager, Joined
    <2>. QED
      BY <2>1, <2>2
  <1>14. ASSUME NEW g \in Groups, FlagGroup(g) PROVE ThreadInv'
    <2>1. \A h \in Groups : group'[h].pc = group[h].pc
      BY <1>14, <1>a DEF FlagGroup, Flag, GroupState
    <2>2. main'.pc = "flag" /\ main.pc = "flag"
          /\ UNCHANGED <<sls_manager, m_workers, m_map_role>>
      BY <1>14, <1>a DEF FlagGroup, MainState
    <2>. QED
      BY <2>1, <2>2
  <1>15. ASSUME NEW g \in Groups, StartGroup(g) PROVE ThreadInv'
    <2>0. main.pc = "start_groups" /\ UNCHANGED <<sls_manager, m_map_role>>
      BY <1>15 DEF StartGroup
    <2>1. CASE Go("exit") /\ UNCHANGED <<m_workers, group>>
      <3>1. main'.pc = "exit"
        BY <2>1, <1>a DEF MainState
      <3>. QED
        BY <2>0, <2>1, <3>1
    <2>2. ASSUME NEW pc, Goto(g, pc), pc = "idle" \/ (Threaded(g[1]) /\ pc = "top"),
                 m_workers' = m_workers \cup {g}, main' = [main EXCEPT !.groups = @ \ {g}]
          PROVE  ThreadInv'
      <3>1. /\ group'[g].pc = pc
            /\ \A h \in Groups \ {g} : group'[h] = group[h]
        BY <2>2, <1>a DEF GroupState
      <3>2. main'.pc = "start_groups"
        BY <2>0, <2>2, <1>a DEF MainState
      <3>3. g \notin m_workers
        BY <1>15, <2>0 DEF WorkersInv, StartGroup, NextOne
      <3>4. Threaded(g[1]) => m_map_role[g] = {}
        BY <3>3
      <3>. QED
        BY <2>0, <2>2, <3>1, <3>2, <3>4
    <2>. QED
      BY <1>15, <2>1, <2>2 DEF StartGroup
  <1>16. ASSUME NEW g \in Groups, StopGroup(g) PROVE ThreadInv'
    <2>1. \A h \in Groups : group'[h].pc = group[h].pc
      BY <1>16, <1>a DEF StopGroup, GroupState
    <2>2. main'.pc = "stop_groups" /\ main.pc = "stop_groups"
          /\ UNCHANGED <<sls_manager, m_map_role>>
      BY <1>16, <1>a DEF StopGroup, MainState
    <2>3. \A h \in m_workers \ m_workers' : ~Threaded(h[1]) \/ group[h].pc = "idle"
      BY <1>16 DEF StopGroup, HasThread
    <2>. QED
      BY <2>1, <2>2, <2>3
  <1>17. ASSUME NEW g \in Groups, JoinGroup(g) PROVE ThreadInv'
    <2>1. main'.pc = "stop_groups" /\ main.pc = "stop_groups" /\ group[g].pc = "done"
          /\ m_workers' = m_workers \ {g} /\ UNCHANGED <<sls_manager, group, m_map_role>>
      BY <1>17, <1>a DEF JoinGroup, Joined, MainState
    <2>. QED
      BY <2>1
  <1>. QED
    BY <1>1, <1>2, <1>3, <1>4, <1>5, <1>6, <1>7, <1>8, <1>9, <1>10, <1>11, <1>12, <1>13,
       <1>14, <1>15, <1>16, <1>17 DEF Main

(* Listeners.                                                              *)
LEMMA ListenerWork ==
    ASSUME TypeOK, ListenerInv, NEW g \in Groups, Work(g)
    PROVE  ListenerInv'
  <1>1. UNCHANGED <<main, made>>
    BY WorkFrame DEF managers
  <1>2. open' \subseteq open \cup Clients
    BY DEF Work, EndLoop, Handler, AcceptOne, CheckNew, Clear, ClearRoles, roles
  <1>3. Clients \cap (0 .. MaxManagers) = {} /\ MaxManagers \in Nat
    BY ManagerAssumption
  <1>4. open' \cap Managers \subseteq open
    BY <1>2, <1>3 DEF Managers
  <1>5. made \in Managers
    BY DEF TypeOK
  <1>. QED
    BY <1>1, <1>2, <1>4, <1>5 DEF ListenerInv

(* They leave one listener open at most.                                   *)
LEMMA ListenerMain ==
    ASSUME TypeOK, ListInv, MadeInv, ListenerInv, Main
    PROVE  ListenerInv'
  <1>. USE DEF managers, roles, AtMain, Go, ListenerInv
  <1>a. main \in MainState /\ made \in Nat
    BY ManagerAssumption DEF TypeOK, Managers
  <1>1. CASE Loop
    <2>1. main'.pc \in {"exit", "check", "serve"}
      BY <1>1, <1>a DEF Loop, Check, MainState
    <2>. QED
      BY <1>1, <2>1 DEF Loop
  <1>2. CASE Serve
    BY <1>2, <1>a DEF Serve, MainState
  <1>3. CASE Served
    BY <1>3, <1>a DEF Served, Check, MainState
  <1>4. CASE Checked
    BY <1>4, <1>a DEF Checked, MainState
  <1>5. CASE Reload
    <2>1. sls_manager = made
      BY <1>5 DEF Reload, ListInv, Serving
    <2>2. main'.pc = "flag"
      BY <1>5, <1>a DEF Reload, MainState
    <2>. QED
      BY <1>5, <2>1, <2>2 DEF Reload, Shut
  <1>6. CASE PutAside
    <2>1. open \cap Managers = {} /\ open' = open
      BY <1>6 DEF PutAside
    <2>2. made' \in Managers
      BY <1>6, ManagerAssumption DEF PutAside, MadeInv, TypeOK, Managers
    <2>. QED
      BY <2>1, <2>2
  <1>7. CASE StartListener
    <2>1. main'.pc \in {"exit", "start_groups"}
      BY <1>7, <1>a DEF StartListener, MainState
    <2>2. sls_manager = made
      BY <1>7 DEF StartListener, ListInv
    <2>3. open' \subseteq open \cup {sls_manager} /\ made' = made
      BY <1>7 DEF StartListener
    <2>. QED
      BY <2>1, <2>2, <2>3
  <1>8. CASE Started
    BY <1>8, <1>a DEF Started, MainState
  <1>9. CASE Stop
    BY <1>9, <1>a DEF Stop, MainState
  <1>10. CASE StopMaps
    BY <1>10, <1>a DEF StopMaps, MainState
  <1>11. CASE StopQueue
    <2>1. main'.pc \in {"check", "exit"}
      BY <1>11, <1>a DEF StopQueue, MainState
    <2>. QED
      BY <1>11, <2>1 DEF StopQueue
  <1>12. CASE Exit
    <2>1. main'.pc \in {"stop", "done"}
      BY <1>12, <1>a DEF Exit, MainState
    <2>. QED
      BY <1>12, <2>1 DEF Exit
  <1>13. ASSUME NEW k \in Managers, CheckManager(k) PROVE ListenerInv'
    <2>1. main'.pc \in {"stop", "check"}
      BY <1>13, <1>a DEF CheckManager, MainState
    <2>. QED
      BY <1>13, <2>1 DEF CheckManager
  <1>14. ASSUME NEW g \in Groups, FlagGroup(g) PROVE ListenerInv'
    BY <1>14, <1>a DEF FlagGroup, MainState
  <1>15. ASSUME NEW g \in Groups, StartGroup(g) PROVE ListenerInv'
    BY <1>15, <1>a DEF StartGroup, MainState
  <1>16. ASSUME NEW g \in Groups, StopGroup(g) PROVE ListenerInv'
    BY <1>16, <1>a DEF StopGroup, MainState
  <1>17. ASSUME NEW g \in Groups, JoinGroup(g) PROVE ListenerInv'
    BY <1>17, <1>a DEF JoinGroup, MainState
  <1>. QED
    BY <1>1, <1>2, <1>3, <1>4, <1>5, <1>6, <1>7, <1>8, <1>9, <1>10, <1>11, <1>12, <1>13,
       <1>14, <1>15, <1>16, <1>17 DEF Main

(* What main knows to delete.                                              *)
LEMMA KnownWork ==
    ASSUME TypeOK, ListInv, WorkersInv, ThreadInv, KnownInv, NEW g \in Groups, Work(g)
    PROVE  KnownInv'
  <1>1. UNCHANGED <<main, sls_manager, reload_manager_list, m_workers>>
    BY WorkFrame DEF managers
  <1>2. g[1] \in Managers /\ g \in Mine(g[1])
    BY GroupOfManager
  <1>3. group[g].pc \in {"top", "handler", "new", "clear"}
    BY DEF Work, EndLoop, Handler, CheckNew, Clear, AtGroup
  <1>4. g[1] \in Known
    <2>1. CASE Threaded(g[1])
      BY <2>1, <1>3 DEF ThreadInv, KnownInv
    <2>2. CASE ~Threaded(g[1])
      <3>1. main.pc = "serving" /\ g[1] = sls_manager
        BY <2>2, <1>3 DEF ThreadInv, Running
      <3>2. sls_manager # 0
        BY <3>1 DEF ListInv, Serving
      <3>. QED
        BY <3>1, <3>2 DEF Known
    <2>. QED
      BY <2>1, <2>2
  <1>5. \A k \in Managers \ {g[1]} : m_list_role'[k] = m_list_role[k]
    <2>1. m_list_role \in [Managers -> Seq(Roles)]
      BY DEF TypeOK
    <2>2. CASE EndLoop(g)
      BY <2>2 DEF EndLoop, roles
    <2>3. CASE Handler(g)
      BY <2>1, <2>3 DEF Handler, AcceptOne, roles
    <2>4. CASE CheckNew(g)
      BY <2>1, <2>4 DEF CheckNew, roles
    <2>5. CASE Clear(g)
      BY <2>5 DEF Clear, ClearRoles
    <2>. QED
      BY <2>2, <2>3, <2>4, <2>5 DEF Work
  <1>6. Known' = Known
    BY <1>1 DEF Known
  <1>7. \A k \in Managers : m_list_role'[k] # <<>> => k \in Known
    BY <1>4, <1>5 DEF KnownInv
  <1>. QED
    BY <1>1, <1>6, <1>7 DEF KnownInv, Mine

(* They keep what main knows of the managers.                              *)
LEMMA KnownMain ==
    ASSUME TypeOK, ListInv, MadeInv, WorkersInv, KnownInv, Main
    PROVE  KnownInv'
  <1>. USE DEF managers, roles, AtMain, Go, KnownInv
  <1>a. /\ main \in MainState /\ made \in Nat /\ sls_manager \in Nat
        /\ m_list_role \in [Managers -> Seq(Roles)] /\ m_workers \subseteq Groups
    BY ManagerAssumption DEF TypeOK, Managers
  <1>b. \A g \in m_workers : g[1] \in Managers /\ g \in Mine(g[1])
    BY <1>a, GroupOfManager
  <1>1. CASE Loop
    <2>1. main'.pc \in {"exit", "check", "serve"}
      BY <1>1, <1>a DEF Loop, Check, MainState
    <2>. QED
      BY <1>1, <2>1 DEF Loop, Known
  <1>2. CASE Serve
    BY <1>2, <1>a DEF Serve, MainState, Known
  <1>3. CASE Served
    BY <1>3, <1>a DEF Served, Check, MainState, Known
  <1>4. CASE Checked
    BY <1>4, <1>a DEF Checked, MainState, Known
  <1>5. CASE Reload
    BY <1>5, <1>a DEF Reload, MainState, Known
  <1>6. CASE PutAside
    <2>1. Known \subseteq Known'
      BY <1>6 DEF PutAside, Known, Aside
    <2>2. main'.pc \in {"exit", "start"}
      BY <1>6, <1>a DEF PutAside, MainState
    <2>3. UNCHANGED <<m_workers, m_list_role>>
      BY <1>6 DEF PutAside
    <2>. QED
      BY <2>1, <2>2, <2>3
  <1>7. CASE StartListener
    <2>1. main'.pc \in {"exit", "start_groups"}
      BY <1>7, <1>a DEF StartListener, MainState
    <2>2. UNCHANGED <<m_workers, sls_manager, reload_manager_list>>
      BY <1>7 DEF StartListener
    <2>3. Known' = Known
      BY <2>2 DEF Known
    <2>4. sls_manager \in Known
      BY <1>7 DEF StartListener, ListInv, Known
    <2>5. \A k \in Managers \ {sls_manager} : m_list_role'[k] = m_list_role[k]
      BY <1>7, <1>a DEF StartListener
    <2>. QED
      BY <2>1, <2>2, <2>3, <2>4, <2>5
  <1>8. CASE Started
    BY <1>8, <1>a DEF Started, MainState, Known
  <1>9. CASE Stop
    BY <1>9, <1>a DEF Stop, MainState, Known
  <1>10. CASE StopMaps
    <2>1. main'.pc = "stop_queue" /\ main'.k = main.k
      BY <1>10, <1>a DEF StopMaps, MainState
    <2>2. Mine(main.k) \cap m_workers = {}
      BY <1>10 DEF StopMaps, NoGroups, WorkersInv
    <2>3. UNCHANGED <<m_workers, m_list_role, sls_manager, reload_manager_list>>
      BY <1>10 DEF StopMaps
    <2>4. Known' = Known
      BY <2>3 DEF Known
    <2>. QED
      BY <2>1, <2>2, <2>3, <2>4
  <1>11. CASE StopQueue
    <2>1. main'.pc \in {"check", "exit"}
      BY <1>11, <1>a DEF StopQueue, MainState, ListInv, Stopping
    <2>2. Known \ {main.k} \subseteq Known'
      BY <1>11 DEF StopQueue, Known
    <2>3. Mine(main.k) \cap m_workers = {} /\ m_workers' = m_workers
      BY <1>11 DEF StopQueue
    <2>4. \A g \in m_workers : g[1] # main.k
      BY <2>3, <1>b
    <2>5. /\ m_list_role'[main.k] = <<>>
          /\ \A k \in Managers \ {main.k} : m_list_role'[k] = m_list_role[k]
      BY <1>11, <1>a DEF StopQueue, MainState
    <2>. QED
      BY <2>1, <2>2, <2>3, <2>4, <2>5
  <1>12. CASE Exit
    <2>1. main'.pc = "stop" \/ (main'.pc = "done" /\ Known = {})
      BY <1>12, <1>a DEF Exit, MainState, Known
    <2>. QED
      BY <1>12, <2>1 DEF Exit, Known
  <1>13. ASSUME NEW k \in Managers, CheckManager(k) PROVE KnownInv'
    <2>1. main'.pc \in {"stop", "check"}
      BY <1>13, <1>a DEF CheckManager, MainState
    <2>. QED
      BY <1>13, <2>1 DEF CheckManager, Known
  <1>14. ASSUME NEW g \in Groups, FlagGroup(g) PROVE KnownInv'
    BY <1>14, <1>a DEF FlagGroup, MainState, Known
  <1>15. ASSUME NEW g \in Groups, StartGroup(g) PROVE KnownInv'
    <2>1. g[1] = sls_manager /\ sls_manager # 0
      BY <1>15 DEF StartGroup, NextOne, Mine, WorkersInv, ListInv
    <2>. QED
      BY <1>15, <2>1, <1>a DEF StartGroup, MainState, Known
  <1>16. ASSUME NEW g \in Groups, StopGroup(g) PROVE KnownInv'
    <2>1. main'.pc = "stop_groups" /\ m_workers' \subseteq m_workers
      BY <1>16, <1>a DEF StopGroup, MainState
    <2>. QED
      BY <1>16, <2>1 DEF StopGroup, Known
  <1>17. ASSUME NEW g \in Groups, JoinGroup(g) PROVE KnownInv'
    BY <1>17, <1>a DEF JoinGroup, MainState, Known
  <1>. QED
    BY <1>1, <1>2, <1>3, <1>4, <1>5, <1>6, <1>7, <1>8, <1>9, <1>10, <1>11, <1>12, <1>13,
       <1>14, <1>15, <1>16, <1>17 DEF Main

(* A role has been created when it has a place or was deleted.             *)
LEMMA CreatedPlaced ==
    ASSUME NEW r
    PROVE  r \in Created <=> Placed(r) \/ r \in deleted
  <1>1. r \in Created <=>
            (\E k \in Managers : r \in Held(k) \/ r \in Queued(k)) \/ r \in deleted
    BY DEF Created
  <1>2. ASSUME NEW k \in Managers, r \in Held(k)
        PROVE  \E g \in Groups : r \in m_map_role[g]
    BY <1>2 DEF Held, Mine
  <1>3. ASSUME NEW g \in Groups, r \in m_map_role[g]
        PROVE  \E k \in Managers : r \in Held(k)
    <2>1. g[1] \in Managers /\ g \in Mine(g[1])
      BY GroupOfManager
    <2>2. r \in Held(g[1])
      BY <1>3, <2>1 DEF Held, Mine
    <2>. QED
      BY <2>1, <2>2
  <1>. QED
    BY <1>1, <1>2, <1>3 DEF Placed

(* So it is after a step.                                                  *)
LEMMA CreatedPlacedNext ==
    ASSUME NEW r
    PROVE  r \in Created' <=> Placed(r)' \/ r \in deleted'
  <1>1. r \in Created' <=>
            (\E k \in Managers : r \in Held(k)' \/ r \in Queued(k)') \/ r \in deleted'
    BY DEF Created
  <1>2. ASSUME NEW k \in Managers, r \in Held(k)'
        PROVE  \E g \in Groups : r \in m_map_role'[g]
    BY <1>2 DEF Held, Mine
  <1>3. ASSUME NEW g \in Groups, r \in m_map_role'[g]
        PROVE  \E k \in Managers : r \in Held(k)'
    <2>1. g[1] \in Managers /\ g \in Mine(g[1])
      BY GroupOfManager
    <2>2. r \in Held(g[1])'
      BY <1>3, <2>1 DEF Held, Mine
    <2>. QED
      BY <2>1, <2>2
  <1>. QED
    BY <1>1, <1>2, <1>3 DEF Placed

(* A group's steps create clients and nothing else.                        *)
LEMMA CreatedWork ==
    ASSUME TypeOK, NEW g \in Groups, Work(g), NEW r \in Created', r \notin Clients
    PROVE  r \in Created
  <1>a. /\ m_map_role \in [Groups -> SUBSET Roles] /\ m_list_role \in [Managers -> Seq(Roles)]
        /\ g[1] \in Managers
    BY GroupOfManager DEF TypeOK
  <1>. DEFINE q == m_list_role[g[1]]
  <1>b. q \in Seq(Roles)
    BY <1>a
  <1>c. \/ \E h \in Groups : r \in m_map_role'[h]
        \/ \E k \in Managers : r \in Queued(k)'
        \/ r \in deleted'
    BY CreatedPlacedNext DEF Placed
  <1>d. /\ \A h \in Groups : r \in m_map_role[h] => r \in Created
        /\ \A k \in Managers : r \in Queued(k) => r \in Created
        /\ r \in deleted => r \in Created
    BY CreatedPlaced DEF Placed
  <1>. HIDE DEF q
  <1>1. ASSUME NEW k \in Managers, r \in Queued(k)' PROVE r \in Queued(k)
    <2>1. PICK i \in DOMAIN m_list_role'[k] : r = m_list_role'[k][i]
      BY <1>1 DEF Queued
    <2>2. CASE m_list_role'[k] = m_list_role[k]
      BY <2>1, <2>2 DEF Queued
    <2>3. CASE k = g[1] /\ \E c \in Clients : m_list_role'[k] = Append(q, c)
      BY <2>1, <2>3, <1>b DEF Queued, q
    <2>4. CASE k = g[1] /\ q # <<>> /\ m_list_role'[k] = Tail(q)
      <3>1. i + 1 \in DOMAIN q /\ r = q[i + 1]
        BY <2>1, <2>4, <1>b
      <3>. QED
        BY <2>4, <3>1 DEF Queued, q
    <2>5. \/ m_list_role' = m_list_role
          \/ \E c \in Clients : m_list_role' = [m_list_role EXCEPT ![g[1]] = Append(@, c)]
          \/ q # <<>> /\ m_list_role' = [m_list_role EXCEPT ![g[1]] = Tail(q)]
      BY DEF Work, EndLoop, Handler, AcceptOne, CheckNew, Clear, ClearRoles, roles, q
    <2>. QED
      BY <2>2, <2>3, <2>4, <2>5, <1>a DEF q
  <1>2. ASSUME NEW h \in Groups, r \in m_map_role'[h]
        PROVE  r \in m_map_role[h] \/ r \in Queued(g[1])
    <2>1. CASE CheckNew(g)
      <3>1. q # <<>> => Head(q) \in Queued(g[1])
        BY <1>b DEF Queued, q
      <3>. QED
        BY <1>2, <2>1, <3>1, <1>a DEF CheckNew, roles, q
    <2>2. CASE EndLoop(g) \/ Handler(g) \/ Clear(g)
      BY <1>2, <2>2, <1>a DEF EndLoop, Handler, CheckInvalid, Clear, ClearRoles, roles
    <2>. QED
      BY <2>1, <2>2 DEF Work
  <1>3. r \in deleted' => r \in deleted \/ r \in m_map_role[g] \/ r \in Queued(g[1])
    <2>1. CASE CheckNew(g)
      <3>1. q # <<>> => Head(q) \in Queued(g[1])
        BY <1>b DEF Queued, q
      <3>. QED
        BY <2>1, <3>1, <1>a DEF CheckNew, roles, q
    <2>2. CASE EndLoop(g) \/ Handler(g) \/ Clear(g)
      BY <2>2, <1>a DEF EndLoop, Handler, CheckInvalid, Clear, ClearRoles, roles
    <2>. QED
      BY <2>1, <2>2 DEF Work
  <1>. QED
    BY <1>a, <1>c, <1>d, <1>1, <1>2, <1>3

(* main's creates a listener when it starts one.                           *)
LEMMA CreatedMain ==
    ASSUME TypeOK, Main, NEW r \in Created'
    PROVE  r \in Created \/ (AtMain("start") /\ r = sls_manager)
  <1>a. m_list_role \in [Managers -> Seq(Roles)] /\ main.k \in Managers
    BY DEF TypeOK, MainState
  <1>b. \/ \E h \in Groups : r \in m_map_role'[h]
        \/ \E k \in Managers : r \in Queued(k)'
        \/ r \in deleted'
    BY CreatedPlacedNext DEF Placed
  <1>c. /\ \A h \in Groups : r \in m_map_role[h] => r \in Created
        /\ \A k \in Managers : r \in Queued(k) => r \in Created
        /\ r \in deleted => r \in Created
    BY CreatedPlaced DEF Placed
  <1>1. CASE StartListener
    <2>1. UNCHANGED <<m_map_role, deleted>>
      BY <1>1 DEF StartListener
    <2>2. ASSUME NEW k \in Managers, r \in Queued(k)'
          PROVE  r \in Queued(k) \/ r = sls_manager
      <3>1. m_list_role[k] \in Seq(Roles)
        BY <1>a
      <3>2. \/ m_list_role'[k] = m_list_role[k]
            \/ m_list_role'[k] = Append(m_list_role[k], sls_manager)
        BY <1>1, <1>a DEF StartListener
      <3>. QED
        BY <2>2, <3>1, <3>2 DEF Queued
    <2>. QED
      BY <1>1, <1>b, <1>c, <2>1, <2>2 DEF StartListener
  <1>2. CASE StopQueue
    <2>1. m_map_role' = m_map_role /\ deleted' = deleted \cup Queued(main.k)
      BY <1>2 DEF StopQueue
    <2>2. ASSUME NEW k \in Managers, r \in Queued(k)' PROVE r \in Queued(k)
      BY <1>2, <2>2, <1>a DEF StopQueue, Queued
    <2>. QED
      BY <1>a, <1>b, <1>c, <2>1, <2>2
  <1>3. CASE UNCHANGED <<m_map_role, m_list_role, deleted>>
    BY <1>3, <1>b, <1>c DEF Queued
  <1>4. Loop \/ Serve \/ Served \/ Checked \/ Started \/ Exit =>
            UNCHANGED <<m_map_role, m_list_role, deleted>>
    BY DEF Loop, Serve, Served, Checked, Started, Exit, roles
  <1>5. Reload \/ PutAside \/ Stop \/ StopMaps => UNCHANGED <<m_map_role, m_list_role, deleted>>
    BY DEF Reload, PutAside, Stop, StopMaps, roles
  <1>6. \A k \in Managers : CheckManager(k) => UNCHANGED <<m_map_role, m_list_role, deleted>>
    BY DEF CheckManager, roles
  <1>7. \A g \in Groups : FlagGroup(g) \/ StartGroup(g) \/ StopGroup(g) \/ JoinGroup(g) =>
            UNCHANGED <<m_map_role, m_list_role, deleted>>
    BY DEF FlagGroup, StartGroup, StopGroup, JoinGroup, roles
  <1>. QED
    BY <1>1, <1>2, <1>3, <1>4, <1>5, <1>6, <1>7 DEF Main

(* Listeners are new until they are started.                               *)
LEMMA NewWork ==
    ASSUME TypeOK, NewInv, NEW g \in Groups, Work(g)
    PROVE  NewInv'
  <1>1. UNCHANGED <<main, made>>
    BY WorkFrame DEF managers
  <1>2. ASSUME NEW k \in Managers PROVE k \notin Clients
    BY ManagerAssumption DEF Managers
  <1>. QED
    BY <1>1, <1>2, CreatedWork DEF NewInv, Managers

(* main starts the last manager made, once.                                *)
LEMMA NewMain ==
    ASSUME TypeOK, ListInv, NewInv, Main
    PROVE  NewInv'
  <1>. USE DEF AtMain, Go, managers
  <1>a. main \in MainState /\ made \in Nat /\ Managers \subseteq Nat
    BY ManagerAssumption DEF TypeOK, Managers
  <1>. SUFFICES ASSUME NEW k \in Managers \cap Created'
                PROVE  k < made' \/ (k = made' /\ main'.pc # "start")
    BY DEF NewInv, Managers
  <1>b. k \in Created \/ (main.pc = "start" /\ k = sls_manager)
    BY CreatedMain
  <1>c. main.pc = "start" => sls_manager = made
    BY DEF ListInv
  <1>d. k <= made
    BY <1>a, <1>b, <1>c DEF NewInv
  <1>1. CASE PutAside
    <2>1. main.pc = "flag" /\ k \in Created
      BY <1>1, <1>b DEF PutAside
    <2>2. \/ made' = made + 1
          \/ made' = made /\ main'.pc = "exit"
      BY <1>1, <1>a DEF PutAside, MainState
    <2>. QED
      BY <1>a, <1>d, <2>2
  <1>2. CASE made' = made /\ main'.pc # "start"
    BY <1>a, <1>d, <1>2
  <1>3. Loop \/ Serve \/ Served \/ Checked \/ Started \/ Exit => made' = made /\ main'.pc # "start"
    BY <1>a DEF Loop, Check, Serve, Served, Checked, Started, Exit, MainState
  <1>4. Reload \/ StartListener \/ Stop \/ StopMaps \/ StopQueue =>
            made' = made /\ main'.pc # "start"
    BY <1>a DEF Reload, StartListener, Stop, StopMaps, StopQueue, MainState
  <1>5. \A j \in Managers : CheckManager(j) => made' = made /\ main'.pc # "start"
    BY <1>a DEF CheckManager, MainState
  <1>6. \A g \in Groups : FlagGroup(g) \/ StartGroup(g) \/ StopGroup(g) \/ JoinGroup(g) =>
            made' = made /\ main'.pc # "start"
    BY <1>a DEF FlagGroup, StartGroup, StopGroup, JoinGroup, MainState
  <1>. QED
    BY <1>1, <1>2, <1>3, <1>4, <1>5, <1>6 DEF Main

(* Where the open roles are.                                               *)
LEMMA OpenWork ==
    ASSUME TypeOK, OpenInv, NEW g \in Groups, Work(g)
    PROVE  OpenInv'
  <1>a. /\ m_map_role \in [Groups -> SUBSET Roles] /\ m_list_role \in [Managers -> Seq(Roles)]
        /\ g[1] \in Managers
    BY GroupOfManager DEF TypeOK
  <1>. SUFFICES ASSUME NEW r \in open', ~(r \in Managers \ Created') PROVE Placed(r)'
    BY DEF OpenInv, Managers
  <1>b. r \in open => Placed(r)
    <2>1. r \in Managers => r \notin Clients
      BY ManagerAssumption DEF Managers
    <2>. QED
      BY <2>1, CreatedWork DEF OpenInv
  <1>1. CASE UNCHANGED roles
    <2>1. Placed(r)
      BY <1>1, <1>b DEF roles
    <2>. QED
      BY <1>1, <2>1 DEF roles, Placed, Queued
  <1>2. CASE Handler(g) /\ ~Drained(g)
    <2>1. \A h \in Groups : m_map_role[h] \cap open \subseteq m_map_role'[h]
      BY <1>2, <1>a DEF Handler, CheckInvalid
    <2>2. CASE UNCHANGED <<m_list_role, open>>
      <3>1. Placed(r)
        BY <2>2, <1>b
      <3>. QED
        BY <2>1, <2>2, <3>1 DEF Placed, Queued
    <2>3. CASE AcceptOne(g)
      <3>1. PICK c \in Clients \ Created :
              /\ m_list_role' = [m_list_role EXCEPT ![g[1]] = Append(@, c)]
              /\ open' = open \cup {c}
        BY <2>3 DEF AcceptOne
      <3>2. m_list_role[g[1]] \in Seq(Roles) /\ c \in Roles
        BY <1>a DEF Roles
      <3>3. m_list_role'[g[1]] = Append(m_list_role[g[1]], c)
        BY <3>1, <1>a
      <3>4. c \in Queued(g[1])'
        BY <3>2, <3>3 DEF Queued
      <3>5. \A k \in Managers : Queued(k) \subseteq Queued(k)'
        <4>. SUFFICES ASSUME NEW k \in Managers PROVE Queued(k) \subseteq Queued(k)'
          OBVIOUS
        <4>1. CASE k = g[1]
          BY <4>1, <3>2, <3>3 DEF Queued
        <4>2. CASE k # g[1]
          BY <4>2, <3>1, <1>a DEF Queued
        <4>. QED
          BY <4>1, <4>2
      <3>6. CASE r = c
        BY <3>4, <3>6, <1>a DEF Placed
      <3>7. CASE r \in open
        BY <3>5, <3>7, <2>1, <1>b DEF Placed
      <3>. QED
        BY <3>1, <3>6, <3>7
    <2>. QED
      BY <1>2, <2>2, <2>3 DEF Handler
  <1>3. CASE CheckNew(g) /\ m_list_role[g[1]] # <<>> /\ ~UNCHANGED roles
    <2>. DEFINE q == m_list_role[g[1]]
    <2>1. /\ q # <<>> /\ open' = open
          /\ m_list_role' = [m_list_role EXCEPT ![g[1]] = Tail(q)]
          /\ \A h \in Groups : m_map_role[h] \subseteq m_map_role'[h]
          /\ Head(q) \in m_map_role'[g] \/ Head(q) \notin open
      BY <1>3, <1>a DEF CheckNew
    <2>2. q \in Seq(Roles)
      BY <1>a
    <2>3. m_list_role'[g[1]] = Tail(q)
      BY <2>1, <1>a
    <2>4. \A i \in DOMAIN q : i = 1 \/ (i - 1 \in DOMAIN Tail(q) /\ q[i] = Tail(q)[i - 1])
      BY <2>1, <2>2
    <2>5. Queued(g[1]) \subseteq {Head(q)} \cup Queued(g[1])'
      <3>. SUFFICES ASSUME NEW i \in DOMAIN q, i # 1
                    PROVE  q[i] \in Queued(g[1])'
        BY <2>1, <2>2 DEF Queued
      <3>1. i - 1 \in DOMAIN Tail(q) /\ q[i] = Tail(q)[i - 1]
        BY <2>4
      <3>. QED
        BY <3>1, <2>3 DEF Queued
    <2>6. \A k \in Managers \ {g[1]} : Queued(k)' = Queued(k)
      BY <2>1, <1>a DEF Queued
    <2>7. Placed(r)
      BY <2>1, <1>b
    <2>8. CASE \E h \in Groups : r \in m_map_role[h]
      BY <2>1, <2>8 DEF Placed
    <2>9. CASE \E k \in Managers : r \in Queued(k)
      BY <2>1, <2>5, <2>6, <2>9 DEF Placed
    <2>. QED
      BY <2>7, <2>8, <2>9 DEF Placed
  <1>4. CASE Clear(g)
    <2>1. /\ r \in open /\ r \notin m_map_role[g] /\ m_list_role' = m_list_role
          /\ \A h \in Groups \ {g} : m_map_role'[h] = m_map_role[h]
      BY <1>4, <1>a DEF Clear, ClearRoles
    <2>2. Placed(r)
      BY <2>1, <1>b
    <2>. QED
      BY <2>1, <2>2 DEF Placed, Queued
  <1>5. Handler(g) /\ Drained(g) => UNCHANGED roles
    BY DEF Handler
  <1>6. EndLoop(g) => UNCHANGED roles
    BY DEF EndLoop
  <1>7. CheckNew(g) /\ m_list_role[g[1]] = <<>> => UNCHANGED roles
    BY DEF CheckNew
  <1>. QED
    BY <1>1, <1>2, <1>3, <1>4, <1>5, <1>6, <1>7 DEF Work

(* They keep what is known of the open sockets.                            *)
LEMMA OpenMain ==
    ASSUME TypeOK, ListInv, ListenerInv, OpenInv, NewInv, Main
    PROVE  OpenInv'
  <1>a. /\ m_list_role \in [Managers -> Seq(Roles)] /\ sls_manager \in 0 .. MaxManagers
        /\ main \in MainState
    BY DEF TypeOK
  <1>b. ASSUME NEW r \in open, ~(r \in Managers \ Created') PROVE Placed(r)
    <2>1. ~(AtMain("start") /\ r = sls_manager)
      BY DEF AtMain, ListInv, ListenerInv
    <2>. QED
      BY <1>b, <2>1, CreatedMain DEF OpenInv
  <1>0. CASE StartListener /\ m_list_role' = m_list_role
    <2>1. UNCHANGED <<m_map_role, m_list_role, deleted>> /\ open' \subseteq open \cup {sls_manager}
      BY <1>0 DEF StartListener
    <2>2. Created' = Created
      BY <2>1 DEF Created, Held, Queued, Mine
    <2>3. sls_manager \in Managers \ Created
      BY <1>0, <1>a, ManagerAssumption DEF StartListener, AtMain, ListInv, NewInv, Managers
    <2>4. \A r : Placed(r)' <=> Placed(r)
      BY <2>1 DEF Placed, Queued
    <2>. QED
      BY <2>1, <2>2, <2>3, <2>4 DEF OpenInv, Managers
  <1>1. CASE StartListener /\ m_list_role' # m_list_role
    <2>1. /\ open' = open \cup {sls_manager} /\ m_map_role' = m_map_role
          /\ m_list_role' = [m_list_role EXCEPT ![sls_manager] = Append(@, sls_manager)]
      BY <1>1 DEF StartListener
    <2>2. PICK k \in Managers : k = sls_manager
      BY <1>1, <1>a, ManagerAssumption DEF StartListener, AtMain, ListInv, Managers
    <2>3. m_list_role[k] \in Seq(Roles) /\ k \in Roles
      BY <1>a DEF Roles
    <2>4. m_list_role'[k] = Append(m_list_role[k], k)
      BY <2>1, <2>2, <1>a
    <2>5. k \in Queued(k)'
      BY <2>3, <2>4 DEF Queued
    <2>6. Queued(k) \subseteq Queued(k)'
      BY <2>3, <2>4 DEF Queued
    <2>7. \A j \in Managers \ {k} : Queued(j)' = Queued(j)
      BY <2>1, <2>2, <1>a DEF Queued
    <2>8. Placed(k)'
      BY <2>5 DEF Placed
    <2>9. ASSUME NEW r \in open, ~(r \in Managers \ Created') PROVE Placed(r)'
      <3>1. Placed(r)
        BY <2>9, <1>b
      <3>. QED
        BY <2>1, <2>6, <2>7, <3>1 DEF Placed
    <2>. QED
      BY <2>1, <2>2, <2>8, <2>9 DEF OpenInv, Managers
  <1>2. CASE StopQueue
    <2>1. PICK k \in Managers : k = main.k
      BY <1>a DEF MainState
    <2>2. /\ open' = open \ Queued(k) /\ m_map_role' = m_map_role
          /\ m_list_role' = [m_list_role EXCEPT ![k] = <<>>]
      BY <1>2, <2>1 DEF StopQueue
    <2>3. \A j \in Managers \ {k} : Queued(j)' = Queued(j)
      BY <2>2, <1>a DEF Queued
    <2>4. ASSUME NEW r \in open', ~(r \in Managers \ Created') PROVE Placed(r)'
      <3>1. r \notin Queued(k) /\ Placed(r)
        BY <2>2, <2>4, <1>b
      <3>. QED
        BY <2>2, <2>3, <3>1 DEF Placed
    <2>. QED
      BY <2>4 DEF OpenInv, Managers
  <1>3. CASE open' \subseteq open /\ UNCHANGED <<m_map_role, m_list_role>>
    <2>1. ASSUME NEW r \in open', ~(r \in Managers \ Created') PROVE Placed(r)'
      <3>1. Placed(r)
        BY <1>3, <2>1, <1>b
      <3>. QED
        BY <1>3, <3>1 DEF Placed, Queued
    <2>. QED
      BY <2>1 DEF OpenInv, Managers
  <1>4. Loop \/ Serve \/ Served \/ Checked \/ Started \/ Exit =>
            open' \subseteq open /\ UNCHANGED <<m_map_role, m_list_role>>
    BY DEF Loop, Serve, Served, Checked, Started, Exit, roles
  <1>5. Reload \/ PutAside \/ Stop \/ StopMaps =>
            open' \subseteq open /\ UNCHANGED <<m_map_role, m_list_role>>
    BY DEF Reload, Shut, PutAside, Stop, StopMaps, roles
  <1>6. \A k \in Managers : CheckManager(k) =>
            open' \subseteq open /\ UNCHANGED <<m_map_role, m_list_role>>
    BY DEF CheckManager, roles
  <1>7. \A g \in Groups : FlagGroup(g) \/ StartGroup(g) \/ StopGroup(g) \/ JoinGroup(g) =>
            open' \subseteq open /\ UNCHANGED <<m_map_role, m_list_role>>
    BY DEF FlagGroup, StartGroup, StopGroup, JoinGroup, roles
  <1>. QED
    BY <1>0, <1>1, <1>2, <1>3, <1>4, <1>5, <1>6, <1>7 DEF Main

(* Why threads end.                                                        *)
LEMMA DrainWork ==
    ASSUME TypeOK, DrainInv, NEW g \in Groups, Work(g)
    PROVE  DrainInv'
  <1>. USE DEF AtGroup, Goto
  <1>a. group \in [Groups -> GroupState] /\ m_map_role \in [Groups -> SUBSET Roles]
    BY DEF TypeOK
  <1>b. UNCHANGED <<main, m_workers>>
    BY WorkFrame DEF managers
  <1>c. Exiting' = Exiting /\ Stopping' = Stopping
    BY <1>b DEF Exiting, Stopping
  <1>1. \A h \in Groups \ {g} : group'[h] = group[h] /\ m_map_role'[h] = m_map_role[h]
    <2>1. CASE EndLoop(g)
      BY <2>1, <1>a DEF EndLoop, roles
    <2>2. CASE Handler(g)
      BY <2>2, <1>a DEF Handler, CheckInvalid, roles
    <2>3. CASE CheckNew(g)
      BY <2>3, <1>a DEF CheckNew, Return, roles
    <2>4. CASE Clear(g)
      BY <2>4, <1>a DEF Clear, ClearRoles
    <2>. QED
      BY <2>1, <2>2, <2>3, <2>4 DEF Work
  <1>2. CASE Threaded(g[1])
    <2>1. group[g].pc # "handler"
      BY <1>2 DEF DrainInv
    <2>2. group[g].m_exit \/ group[g].pc = "clear" =>
              Exiting \/ (m_map_role[g] = {} /\ group[g].pc \in {"none", "idle", "top", "clear", "done"})
      BY <1>2 DEF DrainInv
    <2>3. /\ group'[g].pc # "handler"
          /\ group'[g].m_exit \/ group'[g].pc = "clear" =>
              Exiting \/ (m_map_role'[g] = {} /\ group'[g].pc \in {"none", "idle", "top", "clear", "done"})
      <3>1. CASE EndLoop(g)
        BY <3>1, <2>2, <1>a DEF EndLoop, MayEnd, roles, GroupState
      <3>2. CASE Handler(g) /\ Drained(g)
        BY <3>2, <1>2, <1>a DEF Handler, Drained, roles, GroupState
      <3>3. CASE Handler(g) /\ ~Drained(g)
        BY <3>3, <2>1, <1>a DEF Handler, MayEnd, GroupState
      <3>4. CASE CheckNew(g)
        BY <3>4, <1>2, <2>2, <1>a DEF CheckNew, Return, GroupState
      <3>5. CASE Clear(g)
        BY <3>5, <1>a DEF Clear, ClearRoles, GroupState
      <3>. QED
        BY <3>1, <3>2, <3>3, <3>4, <3>5 DEF Work
    <2>. QED
      BY <1>2, <2>3, <1>1, <1>b, <1>c DEF DrainInv, Threaded, Mine
  <1>3. CASE ~Threaded(g[1])
    <2>1. group[g].pc \notin {"top", "clear"}
      BY <1>3 DEF DrainInv
    <2>2. Handler(g) \/ CheckNew(g)
      BY <2>1 DEF Work, EndLoop, Clear
    <2>3. group'[g].pc \in {"new", "returned"}
      BY <1>3, <2>1, <2>2, <1>a DEF Handler, CheckNew, Return, GroupState
    <2>. QED
      BY <1>3, <2>3, <1>1, <1>b, <1>c DEF DrainInv, Threaded, Mine
  <1>. QED
    BY <1>2, <1>3

(* They keep what is known of a reloaded manager.                          *)
LEMMA DrainMain ==
    ASSUME TypeOK, WorkersInv, ThreadInv, DrainInv, Main
    PROVE  DrainInv'
  <1>. USE DEF managers, roles, AtMain, Go, Stopping, Exiting, Threaded
  <1>a. main \in MainState /\ group \in [Groups -> GroupState]
    BY DEF TypeOK
  <1>. DEFINE Same == /\ UNCHANGED <<m_map_role, m_workers>>
                      /\ \A g \in Groups : group'[g] = group[g]
              Part == \A g \in Groups :
                 IF WorkerThreads[g[1]] > 0
                 THEN /\ group'[g].pc # "handler"
                      /\ group'[g].m_exit \/ group'[g].pc = "clear" =>
                          \/ Exiting'
                          \/ /\ m_map_role'[g] = {}
                             /\ group'[g].pc \in {"none", "idle", "top", "clear", "done"}
                 ELSE group'[g].pc \notin {"top", "clear"}
  <1>b. Same /\ (Exiting => Exiting') => Part
    BY DEF DrainInv
  <1>1. CASE Loop
    <2>1. main'.pc \in {"exit", "check", "serve"} /\ main.pc = "loop"
      BY <1>1, <1>a DEF Loop, Check, MainState
    <2>. QED
      BY <1>1, <1>b, <2>1 DEF Loop, DrainInv
  <1>2. CASE Serve
    <2>1. PICK g \in Mine(sls_manager) : Goto(g, "handler")
      BY <1>2 DEF Serve
    <2>2. g \in Groups /\ ~Threaded(g[1]) /\ main.pc = "serve"
      BY <1>2 DEF Mine, Serve, ThreadInv
    <2>3. /\ group'[g].pc = "handler"
          /\ \A h \in Groups \ {g} : group'[h] = group[h]
      BY <2>1, <2>2, <1>a DEF Goto, GroupState
    <2>4. main'.pc = "serving" /\ UNCHANGED <<m_workers, m_map_role>>
      BY <1>2, <1>a DEF Serve, MainState
    <2>. QED
      BY <2>2, <2>3, <2>4 DEF DrainInv
  <1>3. CASE Served
    <2>1. PICK g \in Mine(sls_manager) : Goto(g, "idle")
      BY <1>3 DEF Served
    <2>2. g \in Groups /\ ~Threaded(g[1]) /\ main.pc = "serving"
      BY <1>3 DEF Mine, Served, ThreadInv
    <2>3. /\ group'[g].pc = "idle"
          /\ \A h \in Groups \ {g} : group'[h] = group[h]
      BY <2>1, <2>2, <1>a DEF Goto, GroupState
    <2>4. main'.pc = "check" /\ UNCHANGED <<m_workers, m_map_role>>
      BY <1>3, <1>a DEF Served, Check, MainState
    <2>. QED
      BY <2>2, <2>3, <2>4 DEF DrainInv
  <1>4. CASE Checked
    BY <1>4, <1>a DEF Checked, MainState, DrainInv
  <1>5. CASE Reload
    BY <1>5, <1>a DEF Reload, MainState, DrainInv
  <1>6. CASE PutAside
    <2>1. main'.pc \in {"exit", "start"} /\ main.pc = "flag"
      BY <1>6, <1>a DEF PutAside, MainState
    <2>. QED
      BY <1>6, <1>b, <2>1 DEF PutAside, DrainInv
  <1>7. CASE StartListener
    <2>1. main'.pc \in {"exit", "start_groups"} /\ main.pc = "start"
      BY <1>7, <1>a DEF StartListener, MainState
    <2>. QED
      BY <1>7, <1>b, <2>1 DEF StartListener, DrainInv
  <1>8. CASE Started
    BY <1>8, <1>a DEF Started, MainState, DrainInv
  <1>9. CASE Stop
    <2>1. main'.pc = "stop_groups" /\ main'.k = main.k /\ main'.back = main.back /\ main.pc = "stop"
      BY <1>9, <1>a DEF Stop, MainState
    <2>. QED
      BY <1>9, <1>b, <2>1 DEF Stop, DrainInv, Mine
  <1>10. CASE StopMaps
    <2>1. main'.pc = "stop_queue" /\ main'.k = main.k /\ main'.back = main.back
          /\ main.pc = "stop_groups"
      BY <1>10, <1>a DEF StopMaps, MainState
    <2>. QED
      BY <1>10, <1>b, <2>1 DEF StopMaps, DrainInv, Mine
  <1>11. CASE StopQueue
    <2>1. main'.pc = main.back /\ main.pc = "stop_queue" /\ main.back \in {"check", "exit"}
      BY <1>11, <1>a DEF StopQueue, MainState
    <2>. QED
      BY <1>11, <1>b, <2>1 DEF StopQueue, DrainInv
  <1>12. CASE Exit
    <2>1. main'.pc = "done" \/ (main'.pc = "stop" /\ main'.back = "exit")
      BY <1>12, <1>a DEF Exit, MainState
    <2>. QED
      BY <1>12, <1>b, <2>1 DEF Exit, DrainInv
  <1>13. ASSUME NEW k \in Managers, CheckManager(k) PROVE DrainInv'
    <2>1. PICK pc \in {"stop", "check"} :
            /\ main' = [main EXCEPT !.todo = @ \ {k}, !.k = k, !.back = "check", !.pc = pc]
            /\ pc = "stop" => Mine(k) \cap m_workers
                                \subseteq {g \in Mine(k) \cap m_workers : group[g].m_exit}
      BY <1>13 DEF CheckManager
    <2>2. /\ m_workers' = m_workers \ {g \in Mine(k) \cap m_workers : group[g].m_exit}
          /\ UNCHANGED <<m_map_role, group>> /\ main.pc = "check"
      BY <1>13 DEF CheckManager
    <2>3. main'.pc = pc /\ main'.k = k
      BY <2>1, <1>a DEF MainState
    <2>4. pc = "stop" => Mine(k) \cap m_workers' = {}
      BY <2>1, <2>2
    <2>. QED
      BY <2>2, <2>3, <2>4 DEF DrainInv, Mine
  <1>14. ASSUME NEW g \in Groups, FlagGroup(g) PROVE DrainInv'
    <2>1. \A h \in Groups : group'[h].pc = group[h].pc /\ group'[h].m_exit = group[h].m_exit
      BY <1>14, <1>a DEF FlagGroup, Flag, GroupState
    <2>2. main'.pc = "flag" /\ main.pc = "flag" /\ UNCHANGED <<m_workers, m_map_role>>
      BY <1>14, <1>a DEF FlagGroup, MainState
    <2>. QED
      BY <2>1, <2>2 DEF DrainInv
  <1>15. ASSUME NEW g \in Groups, StartGroup(g) PROVE DrainInv'
    <2>1. main.pc = "start_groups" /\ m_map_role' = m_map_role
      BY <1>15 DEF StartGroup
    <2>2. CASE Go("exit") /\ UNCHANGED <<m_workers, group>>
      <3>1. main'.pc = "exit"
        BY <2>2, <1>a DEF MainState
      <3>. QED
        BY <2>1, <2>2, <3>1 DEF DrainInv
    <2>3. ASSUME NEW pc, Goto(g, pc), pc = "idle" \/ (Threaded(g[1]) /\ pc = "top"),
                 main' = [main EXCEPT !.groups = @ \ {g}]
          PROVE  DrainInv'
      <3>1. /\ group'[g].pc = pc /\ group'[g].m_exit = group[g].m_exit
            /\ \A h \in Groups \ {g} : group'[h] = group[h]
        BY <2>3, <1>a DEF Goto, GroupState
      <3>2. main'.pc = "start_groups"
        BY <2>1, <2>3, <1>a DEF MainState
      <3>. QED
        BY <2>1, <2>3, <3>1, <3>2 DEF DrainInv
    <2>. QED
      BY <1>15, <2>2, <2>3 DEF StartGroup
  <1>16. ASSUME NEW g \in Groups, StopGroup(g) PROVE DrainInv'
    <2>1. main.pc = "stop_groups" /\ g \in Mine(main.k) \cap m_workers
      BY <1>16 DEF StopGroup, NextOne, WorkersInv
    <2>2. main.back = "exit"
      BY <2>1, <1>a DEF DrainInv, MainState
    <2>3. main'.pc = "stop_groups" /\ main'.back = "exit" /\ m_map_role' = m_map_role
      BY <1>16, <2>2, <1>a DEF StopGroup, MainState
    <2>4. \A h \in Groups : group'[h].pc = group[h].pc
      BY <1>16, <1>a DEF StopGroup, GroupState
    <2>. QED
      BY <2>3, <2>4 DEF DrainInv
  <1>17. ASSUME NEW g \in Groups, JoinGroup(g) PROVE DrainInv'
    <2>1. main'.pc = "stop_groups" /\ main'.back = main.back /\ main'.k = main.k
          /\ main.pc = "stop_groups" /\ m_workers' \subseteq m_workers
          /\ UNCHANGED <<group, m_map_role>>
      BY <1>17, <1>a DEF JoinGroup, MainState
    <2>. QED
      BY <2>1 DEF DrainInv, Mine
  <1>. QED
    BY <1>1, <1>2, <1>3, <1>4, <1>5, <1>6, <1>7, <1>8, <1>9, <1>10, <1>11, <1>12, <1>13,
       <1>14, <1>15, <1>16, <1>17 DEF Main

-----------------------------------------------------------------------------
(* The invariant holds at first.                                           *)
LEMMA InitIInv ==
    ASSUME Init PROVE IInv
  <1>1. TypeOK
    BY TypeInit
  <1>2. ListInv
    BY DEF Init, ListInv, Stopping, Checking, Serving
  <1>3. MadeInv
    BY DEF Init, MadeInv
  <1>4. WorkersInv
    <2>1. 1 \in Managers
      BY ManagerAssumption DEF Managers
    <2>. QED
      BY <2>1 DEF Init, WorkersInv, Stopping, Checking, Serving
  <1>5. ThreadInv
    BY DEF Init, ThreadInv, Running
  <1>6. ListenerInv
    BY DEF Init, ListenerInv
  <1>7. KnownInv /\ OpenInv /\ DrainInv
    BY DEF Init, KnownInv, OpenInv, DrainInv, Stopping
  <1>8. NewInv
    <2>1. Created = {}
      BY DEF Init, Created, Held, Queued, Mine
    <2>. QED
      BY <2>1 DEF NewInv
  <1>. QED
    BY <1>1, <1>2, <1>3, <1>4, <1>5, <1>6, <1>7, <1>8 DEF IInv

(* Every step keeps it.                                                    *)
LEMMA NextIInv ==
    ASSUME IInv, [Next]_vars PROVE IInv'
  <1>. USE DEF IInv
  <1>1. TypeOK'
    BY TypeNext
  <1>2. CASE Main
    BY <1>1, <1>2, ListMain, MadeMain, WorkersMain, ThreadMain, ListenerMain,
       KnownMain, OpenMain, NewMain, DrainMain
  <1>3. ASSUME NEW g \in Groups, Work(g) PROVE IInv'
    <2>1. UNCHANGED <<b_reload, main, managers>>
      BY <1>3, WorkFrame
    <2>2. ListInv' /\ MadeInv' /\ WorkersInv'
      BY <2>1 DEF managers, ListInv, MadeInv, WorkersInv, Stopping, Checking, Serving
    <2>3. ThreadInv' /\ ListenerInv'
      BY <1>3, ThreadWork, ListenerWork
    <2>4. KnownInv' /\ OpenInv' /\ NewInv' /\ DrainInv'
      BY <1>3, KnownWork, OpenWork, NewWork, DrainWork
    <2>. QED
      BY <1>1, <2>2, <2>3, <2>4
  <1>a. UNCHANGED <<m_map_role, m_list_role, deleted>> => Created' = Created
    BY DEF Created, Held, Queued, Mine
  <1>4. CASE CtrlC
    BY <1>1, <1>4, <1>a DEF CtrlC, managers, roles, ListInv, MadeInv, WorkersInv, ThreadInv, ListenerInv,
       Stopping, Checking, Serving, Running, Known, KnownInv, Placed, OpenInv, Queued,
       Exiting, DrainInv, NewInv, Managers
  <1>5. CASE Hup
    <2>1. MadeInv'
      BY <1>5, ManagerAssumption DEF Hup, managers, MadeInv, AtMain, TypeOK, Managers
    <2>. QED
      BY <1>1, <1>5, <2>1, <1>a DEF Hup, managers, roles, ListInv, WorkersInv, ThreadInv, ListenerInv,
         Stopping, Checking, Serving, Running, Known, KnownInv, Placed, OpenInv, Queued,
         Exiting, DrainInv, NewInv, Managers
  <1>6. ASSUME NEW c \in Clients, Break(c) PROVE IInv'
    <2>1. ListenerInv'
      BY <1>6 DEF Break, managers, ListenerInv
    <2>2. OpenInv'
      BY <1>6, <1>a DEF Break, managers, OpenInv, Placed, Queued, Managers
    <2>3. ListInv' /\ MadeInv' /\ WorkersInv' /\ ThreadInv'
      BY <1>6 DEF Break, managers, ListInv, MadeInv, WorkersInv, ThreadInv,
         Stopping, Checking, Serving, Running
    <2>4. KnownInv' /\ DrainInv'
      BY <1>6 DEF Break, managers, Known, KnownInv, Stopping, Exiting, DrainInv
    <2>5. NewInv'
      BY <1>6, <1>a DEF Break, managers, NewInv, Managers
    <2>. QED
      BY <1>1, <2>1, <2>2, <2>3, <2>4, <2>5
  <1>7. CASE UNCHANGED vars
    BY <1>1, <1>7, <1>a DEF vars, managers, roles, ListInv, MadeInv, WorkersInv, ThreadInv, ListenerInv,
       Stopping, Checking, Serving, Running, Known, KnownInv, Placed, OpenInv, Queued,
       Exiting, DrainInv, NewInv, Managers
  <1>. QED
    BY <1>2, <1>3, <1>4, <1>5, <1>6, <1>7 DEF Next

(* Type correctness: whatever main, the threads, the peers and the signals *)
(* do, every variable of the life of the server keeps its type; a reload   *)
(* in particular always finds a number for the manager it makes.           *)
THEOREM TypeCorrect == Spec => []TypeOK
  <1>1. IInv => TypeOK
    BY DEF IInv
  <1>. QED
    BY InitIInv, NextIInv, <1>1, PTL DEF Spec

(* A group's thread has ended before main deletes the group or the maps it *)
(* uses: in stop, in the check of a reloaded manager, and when main itself *)
(* runs the group (CSLSManager::stop, CSLSManager::check_invalid,          *)
(* CSLSThread::stop).                                                      *)
THEOREM GroupOutlivedCorrect == Spec => []GroupOutlived
  <1>1. IInv => GroupOutlived
    <2>. SUFFICES ASSUME IInv, NEW g \in Groups, Running(g)
                  PROVE  g \in m_workers /\ maps[g[1]] = "alive"
      BY DEF GroupOutlived
    <2>1. g \in m_workers
      <3>1. CASE Threaded(g[1])
        BY <3>1 DEF IInv, ThreadInv, Running
      <3>2. CASE ~Threaded(g[1])
        <4>1. g \in Mine(sls_manager) /\ main.pc = "serving"
          BY <3>2, GroupOfManager DEF IInv, ThreadInv
        <4>. QED
          BY <4>1 DEF IInv, WorkersInv, Serving
      <3>. QED
        BY <3>1, <3>2
    <2>. QED
      BY <2>1 DEF IInv, WorkersInv
  <1>. QED
    BY InitIInv, NextIInv, <1>1, PTL DEF Spec

(* When stop deletes a manager's maps, the threads of the manager have     *)
(* cleared every role they held, so no role's uninit comes too late to     *)
(* remove its stream (CSLSManager::stop, CSLSGroup::clear).                *)
THEOREM MapsOutliveRolesCorrect == Spec => []MapsOutliveRoles
  <1>1. IInv => MapsOutliveRoles
    <2>. SUFFICES ASSUME IInv, NEW k \in Managers, maps[k] = "deleted", Threaded(k)
                  PROVE  Held(k) = {}
      BY DEF MapsOutliveRoles
    <2>1. \A g \in Mine(k) : m_map_role[g] = {}
      BY DEF Mine, IInv, ThreadInv, WorkersInv
    <2>. QED
      BY <2>1 DEF Held
  <1>. QED
    BY InitIInv, NextIInv, <1>1, PTL DEF Spec

(* At most one listener has the port: reload has closed the current one    *)
(* before the new manager's starts, and a stopped manager leaves none      *)
(* (CSLSManager::reload, CSLSManager::start, CSLSManager::stop).           *)
THEOREM OneListenerCorrect == Spec => []OneListener
  <1>1. IInv => OneListener
    <2>. SUFFICES ASSUME IInv PROVE Cardinality(open \cap Managers) <= 1
      BY DEF OneListener
    <2>1. open \cap Managers \subseteq {made}
      BY DEF IInv, ListenerInv
    <2>2. IsFiniteSet({made}) /\ Cardinality({made}) = 1
      BY FS_Singleton
    <2>. QED
      BY <2>1, <2>2, FS_Subset
  <1>. QED
    BY InitIInv, NextIInv, <1>1, PTL DEF Spec

(* When main ends no thread runs any more, and no socket and no role is    *)
(* left of a manager with threads, wherever main, the threads and a reload *)
(* were when the signal came (EXIT_PROC, CSLSManager::stop).               *)
THEOREM NothingLeftCorrect == Spec => []NothingLeft
  <1>1. IInv => NothingLeft
    <2>. SUFFICES ASSUME IInv, main.pc = "done"
                  PROVE  /\ \A g \in Groups : ~Running(g)
                         /\ \A r \in open : \/ r \in Managers \ Created
                                          \/ \E k \in Managers : ~Threaded(k) /\ r \in Held(k)
                         /\ \A k \in Managers : Queued(k) = {} /\ (Threaded(k) => Held(k) = {})
      BY DEF NothingLeft, AtMain
    <2>. USE DEF IInv
    <2>1. m_workers = {}
      BY DEF KnownInv, TypeOK
    <2>2. \A k \in Managers : Queued(k) = {}
      BY DEF KnownInv, Queued
    <2>3. ASSUME NEW g \in Groups
          PROVE  ~Running(g) /\ (Threaded(g[1]) => m_map_role[g] = {})
      BY <2>1 DEF ThreadInv, Running
    <2>4. ASSUME NEW k \in Managers, Threaded(k) PROVE Held(k) = {}
      BY <2>3, <2>4 DEF Held, Mine
    <2>5. ASSUME NEW r \in open, ~(r \in Managers \ Created)
          PROVE  \E k \in Managers : ~Threaded(k) /\ r \in Held(k)
      <3>1. PICK g \in Groups : r \in m_map_role[g]
        BY <2>2, <2>5 DEF OpenInv, Placed
      <3>2. g[1] \in Managers /\ g \in Mine(g[1])
        BY GroupOfManager
      <3>3. r \in Held(g[1])
        BY <3>1, <3>2 DEF Held
      <3>. QED
        BY <2>3, <3>1, <3>2, <3>3
    <2>. QED
      BY <2>2, <2>3, <2>4, <2>5
  <1>. QED
    BY InitIInv, NextIInv, <1>1, PTL DEF Spec

(* A reload cuts off no client that a group has taken: an open client      *)
(* leaves its group only because the server ends (CSLSEpollThread::work,   *)
(* CSLSGroup::reload, CSLSGroup::clear).                                   *)
THEOREM DrainKeepsTakenCorrect == Spec => DrainKeepsTaken
  <1>1. ASSUME IInv, [Next]_vars
        PROVE  [\A g \in Groups : \A c \in Clients \cap open :
                    c \in m_map_role[g] /\ c \notin m_map_role[g]' => Exiting]_vars
    <2>. SUFFICES ASSUME NEW g \in Groups, NEW c \in Clients \cap open,
                         c \in m_map_role[g], c \notin m_map_role[g]'
                  PROVE  Exiting
      OBVIOUS
    <2>a. group \in [Groups -> GroupState] /\ m_map_role \in [Groups -> SUBSET Roles]
      BY <1>1 DEF IInv, TypeOK
    <2>1. m_map_role' # m_map_role
      OBVIOUS
    <2>2. ~Main
      <3>1. Loop \/ Serve \/ Served \/ Checked \/ Started \/ Exit => m_map_role' = m_map_role
        BY DEF Loop, Serve, Served, Checked, Started, Exit, roles
      <3>2. Reload \/ PutAside \/ StartListener \/ Stop \/ StopMaps \/ StopQueue =>
                m_map_role' = m_map_role
        BY DEF Reload, PutAside, StartListener, Stop, StopMaps, StopQueue, roles
      <3>3. \A k \in Managers : CheckManager(k) => m_map_role' = m_map_role
        BY DEF CheckManager, roles
      <3>4. \A h \in Groups : FlagGroup(h) \/ StartGroup(h) \/ StopGroup(h) \/ JoinGroup(h) =>
                m_map_role' = m_map_role
        BY DEF FlagGroup, StartGroup, StopGroup, JoinGroup, roles
      <3>. QED
        BY <2>1, <3>1, <3>2, <3>3, <3>4 DEF Main
    <2>3. PICK h \in Groups : Work(h)
      BY <1>1, <2>1, <2>2 DEF Next, CtrlC, Hup, Break, vars, roles
    <2>4. Clear(h) /\ h = g
      <3>1. ~EndLoop(h)
        BY <2>1 DEF EndLoop, roles
      <3>2. ~Handler(h)
        BY <2>a DEF Handler, CheckInvalid, roles
      <3>3. ~CheckNew(h)
        BY <2>a DEF CheckNew, roles
      <3>4. Clear(h)
        BY <2>3, <3>1, <3>2, <3>3 DEF Work
      <3>. QED
        BY <2>a, <3>4 DEF Clear, ClearRoles
    <2>5. group[g].pc = "clear" /\ m_map_role[g] # {}
      BY <2>4 DEF Clear, AtGroup
    <2>. QED
      BY <1>1, <2>5 DEF IInv, DrainInv
  <1>. QED
    BY InitIInv, NextIInv, <1>1, PTL DEF Spec, DrainKeepsTaken
=============================================================================
