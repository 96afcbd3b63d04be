-------------------------- MODULE SLSServerProofs ---------------------------
(* Proofs about SLSServer: for any number of worker threads, of publisher, *)
(* player and puller objects and of streams, with or without an event      *)
(* server and an idle timeout.                                             *)
EXTENDS SLSServer, FiniteSetTheorems, SequenceTheorems, TLAPS

Sources     == Publishers \cup Pullers
ListenSteps == {"find", "find_again", "is_exist", "push_player", "pub_find", "pub_add", "pub_set"}
RelaySteps  == {"start", "connect", "pull_add", "push"}
MakeSteps   == {"push", "pull_add"}
CloseSteps  == {"uninit_ring", "uninit_name", "delete"}

Makes(g, r)  == worker[g].cur = r /\ worker[g].pc \in MakeSteps
Closes(g, r) == worker[g].cur = r /\ worker[g].pc \in CloseSteps
IsQueued(r)  == \E i \in DOMAIN m_list_role : m_list_role[i] = r

(* What a thread has in its hands, by where it is: which thread it may be, *)
(* the stream and the role it is about, ...                                *)
PlaceInv(g) ==
    LET w == worker[g] IN
    /\ w.pc \in ListenSteps => g = Listening
    /\ w.pc \in Steps => w.key # None
    /\ w.pc = "pull_add" => w.cur \in Pullers
    /\ w.pc \in {"push", "uninit_ring", "uninit_name"} => w.cur \in Sources
    /\ w.pc = "delete" => w.cur \in Roles
    /\ w.pc \in MakeSteps \cup CloseSteps => role[w.cur].key = w.key
    /\ w.pc \in {"start", "connect", "pull_add"} => w.ret # "events"
    /\ w.pc \in RelaySteps /\ w.ret = "find_again" => g = Listening
    /\ w.pc \in {"pub_find", "pub_add", "pub_set"} => w.ret = "events"

(* ... and what is left of the round: sockets of its own group while it    *)
(* handles events or looks for invalid roles, relays when it reconnects.   *)
TodoInv(g) ==
    LET w == worker[g] IN
    /\ w.pc \in {"poll", "new"} => w.todo = {}
    /\ w.pc \in ListenSteps \cup {"events"} => w.todo \subseteq m_map_role[g]
    /\ w.pc \in RelaySteps /\ w.ret # "reconnect" => w.todo \subseteq m_map_role[g]
    /\ w.pc \in RelaySteps /\ w.ret = "reconnect" => w.todo \subseteq Streams
    /\ w.pc = "reconnect" => w.todo \subseteq Streams
    /\ w.pc \in CloseSteps \cup {"invalid"} => w.todo \subseteq m_map_role[g] \ {Listener}
    /\ w.pc \in CloseSteps => w.cur \in m_map_role[g] \ w.todo

ListenerInv == \A g \in Groups : Listener \in m_map_role[g] <=> g = Listening

(* One owner, said element by element.                                     *)
OwnerInv ==
    /\ \A i, j \in DOMAIN m_list_role : m_list_role[i] = m_list_role[j] => i = j
    /\ \A g, h \in Groups : \A r \in Roles : r \in m_map_role[g] \cap m_map_role[h] => g = h
    /\ \A g, h \in Groups : \A r \in Roles : Makes(g, r) /\ Makes(h, r) => g = h
    /\ \A g \in Groups : \A r \in Roles : r \in m_map_role[g] => ~IsQueued(r)
    /\ \A g \in Groups : \A r \in Roles : Makes(g, r) => ~IsQueued(r)
    /\ \A g, h \in Groups : \A r \in Roles : Makes(g, r) => r \notin m_map_role[h]
    /\ \A r \in Roles : Exists(r) <=> \/ \E g \in Groups : r \in m_map_role[g] \/ Makes(g, r)
                                      \/ IsQueued(r)

(* The name was taken out by the step of uninit that does this.            *)
NameOut(g, r) ==
    /\ worker[g].cur = r
    /\ worker[g].pc = "delete" \/ (worker[g].pc = "uninit_ring" /\ r \in Pullers)

(* A source has its stream's name from its making to its uninit, ...       *)
NameInv ==
    /\ \A r \in Sources :
        Exists(r) => \/ m_map_push_2_pushlisher[role[r].key] = r
                     \/ \E g \in Groups : NameOut(g, r)
    /\ \A g \in Groups : \A r \in Sources :
        NameOut(g, r) /\ worker[g].key \notin lost =>
            m_map_push_2_pushlisher[worker[g].key] # r

(* ... the listener's thread adds rings for names that are no publisher's, *)
(* and a publisher's ring goes before its name.                            *)
RingInv ==
    \A g \in Groups :
        /\ worker[g].pc \in {"pub_add", "pub_set"} =>
            m_map_push_2_pushlisher[worker[g].key] \notin Publishers
        /\ worker[g].pc = "uninit_name" /\ worker[g].cur \in Publishers =>
            worker[g].key \notin m_map_array

(* Without a pull relay, or with one worker: nobody gets a stream's name   *)
(* between the two halves of a puller's uninit, and a ring is only removed *)
(* by the one that has the name, or had it last.                           *)
Undivided == Pullers = {} \/ Groups = {Listening}

PulledInv ==
    /\ \A g \in Groups : worker[g].pc = "uninit_ring" =>
        m_map_push_2_pushlisher[worker[g].key] \in {None, worker[g].cur}
    /\ \A g \in Groups : worker[g].pc \in {"pub_set", "push"} => worker[g].key \in m_map_array

RingsInv == Undivided => PulledInv /\ PublisherHasRing

(* With one worker a name that was looked up still stands.                 *)
FoundInv ==
    \A g \in Groups : worker[g].pc \in {"is_exist", "push_player"} =>
        worker[g].cur # None /\ m_map_push_2_pushlisher[worker[g].key] = worker[g].cur

LookupInv == Groups = {Listening} => FoundInv

IInv ==
    /\ TypeOK
    /\ \A g \in Groups : PlaceInv(g) /\ TodoInv(g)
    /\ ListenerInv
    /\ OwnerInv
    /\ NameIsLive
    /\ NameInv
    /\ RingInv
    /\ RingHasOwner
    /\ RingsInv
    /\ LookupInv

-----------------------------------------------------------------------------
(* A step of a thread.                                                     *)

Others(g) == worker' \in [Groups -> Worker] /\ \A h \in Groups \ {g} : worker'[h] = worker[h]

Fields(g, pc, todo, cur, key, ret) ==
    /\ worker'[g].pc = pc /\ worker'[g].todo = todo /\ worker'[g].cur = cur
    /\ worker'[g].key = key /\ worker'[g].ret = ret

(* The types of a thread's variables.                                      *)
LEMMA WorkerFields ==
    ASSUME worker \in [Groups -> Worker], NEW g \in Groups
    PROVE  /\ worker[g].pc \in Phases \cup Steps /\ worker[g].cur \in Roles \cup {None}
           /\ worker[g].todo \in SUBSET (Roles \cup {Listener} \cup Streams)
           /\ worker[g].key \in Streams \cup {None}
           /\ worker[g].ret \in {"events", "find_again", "reconnect"}
  BY DEF Worker

(* The next lemmas: what an assignment to one thread's variables makes of  *)
(* them.                                                                   *)
LEMMA SetRecord ==
    ASSUME worker \in [Groups -> Worker], NEW g \in Groups, NEW w \in Worker,
           worker' = [worker EXCEPT ![g] = w]
    PROVE  Others(g) /\ worker'[g] = w
  BY DEF Others

(* The thread goes on somewhere else.                                      *)
LEMMA SetGoto ==
    ASSUME worker \in [Groups -> Worker], NEW g \in Groups, NEW pc \in Phases \cup Steps, Goto(g, pc)
    PROVE  Others(g) /\ Fields(g, pc, worker[g].todo, worker[g].cur, worker[g].key, worker[g].ret)
  BY DEF Goto, Worker, Others, Fields

(* It is done with a socket or a stream.                                   *)
LEMMA SetDrop ==
    ASSUME worker \in [Groups -> Worker], NEW g \in Groups, NEW x, Drop(g, x)
    PROVE  Others(g) /\ Fields(g, worker[g].pc, worker[g].todo \ {x}, worker[g].cur, worker[g].key, worker[g].ret)
  BY DEF Drop, Worker, Others, Fields

(* It begins the next part of its round.                                   *)
LEMMA SetBegin ==
    ASSUME worker \in [Groups -> Worker], NEW g \in Groups, NEW pc \in Phases \cup Steps,
           NEW todo \in SUBSET (Roles \cup {Listener} \cup Streams), Begin(g, pc, todo)
    PROVE  Others(g) /\ Fields(g, pc, todo, worker[g].cur, worker[g].key, worker[g].ret)
  BY DEF Begin, Worker, Others, Fields

(* It has a role in its hands.                                             *)
LEMMA SetCur ==
    ASSUME worker \in [Groups -> Worker], NEW g \in Groups, NEW pc \in Phases \cup Steps,
           NEW cur \in Roles \cup {None},
           worker' = [worker EXCEPT ![g].pc = pc, ![g].cur = cur]
    PROVE  Others(g) /\ Fields(g, pc, worker[g].todo, cur, worker[g].key, worker[g].ret)
  BY DEF Worker, Others, Fields

(* It is to come back to where it says.                                    *)
LEMMA SetRet ==
    ASSUME worker \in [Groups -> Worker], NEW g \in Groups, NEW pc \in Phases \cup Steps,
           NEW ret \in {"events", "find_again", "reconnect"},
           worker' = [worker EXCEPT ![g].pc = pc, ![g].ret = ret]
    PROVE  Others(g) /\ Fields(g, pc, worker[g].todo, worker[g].cur, worker[g].key, ret)
  BY DEF Worker, Others, Fields

(* It has accepted a client.                                               *)
LEMMA SetAccepted ==
    ASSUME worker \in [Groups -> Worker], NEW g \in Groups, NEW pc \in Phases \cup Steps,
           NEW x, NEW key \in Streams, NEW ret \in {"events", "find_again", "reconnect"},
           worker' = [worker EXCEPT ![g].todo = @ \ {x}, ![g].pc = pc, ![g].key = key, ![g].ret = ret]
    PROVE  Others(g) /\ Fields(g, pc, worker[g].todo \ {x}, worker[g].cur, key, ret)
  <1>. DEFINE v == worker[g]
              w == [v EXCEPT !.todo = @ \ {x}, !.pc = pc, !.key = key, !.ret = ret]
  <1>1. v \in Worker
    OBVIOUS
  <1>2. /\ w.todo = v.todo \ {x} /\ w.pc = pc /\ w.key = key /\ w.ret = ret /\ w.cur = v.cur
        /\ w \in Worker
    <2>. DEFINE u == [v EXCEPT !.todo = @ \ {x}, !.pc = pc]
    <2>. HIDE DEF v
    <2>1. u \in Worker /\ u.todo = v.todo \ {x} /\ u.pc = pc /\ u.cur = v.cur
      BY <1>1 DEF Worker
    <2>2. w = [u EXCEPT !.key = key, !.ret = ret]
      OBVIOUS
    <2>. HIDE DEF u, w
    <2>. QED
      BY <2>1, <2>2 DEF Worker
  <1>3. worker' = [worker EXCEPT ![g] = w]
    OBVIOUS
  <1>. HIDE DEF w
  <1>4. Others(g) /\ worker'[g] = w
    BY <1>2, <1>3, SetRecord, Zenon
  <1>. QED
    BY <1>2, <1>4, Zenon DEF Fields

(* It begins to uninit a role.                                             *)
LEMMA SetClosed ==
    ASSUME worker \in [Groups -> Worker], NEW g \in Groups, NEW pc \in Phases \cup Steps,
           NEW x \in Roles, NEW key \in Streams \cup {None},
           worker' = [worker EXCEPT ![g].todo = @ \ {x}, ![g].pc = pc, ![g].cur = x, ![g].key = key]
    PROVE  Others(g) /\ Fields(g, pc, worker[g].todo \ {x}, x, key, worker[g].ret)
  <1>. DEFINE v == worker[g]
              w == [v EXCEPT !.todo = @ \ {x}, !.pc = pc, !.cur = x, !.key = key]
  <1>1. v \in Worker
    OBVIOUS
  <1>2. /\ w.todo = v.todo \ {x} /\ w.pc = pc /\ w.cur = x /\ w.key = key /\ w.ret = v.ret
        /\ w \in Worker
    <2>. DEFINE u == [v EXCEPT !.todo = @ \ {x}, !.pc = pc]
    <2>. HIDE DEF v
    <2>1. /\ u \in Worker /\ u.todo = v.todo \ {x} /\ u.pc = pc /\ u.ret = v.ret
      BY <1>1 DEF Worker
    <2>2. w = [u EXCEPT !.cur = x, !.key = key]
      OBVIOUS
    <2>. HIDE DEF u, w
    <2>. QED
      BY <2>1, <2>2 DEF Worker
  <1>3. worker' = [worker EXCEPT ![g] = w]
    OBVIOUS
  <1>. HIDE DEF w
  <1>4. Others(g) /\ worker'[g] = w
    BY <1>2, <1>3, SetRecord, Zenon
  <1>. QED
    BY <1>2, <1>4, Zenon DEF Fields

-----------------------------------------------------------------------------
(* A change of one role.                                                   *)

SameKey(x, y) == x \in Role /\ x.key = y.key /\ (x.state = "none" <=> y.state = "none")

(* A place without a role has no stream.                                   *)
LEMMA NoRoleType == NoRole \in Role /\ NoRole.key = None /\ NoRole.state = "none"
  BY DEF NoRole, Role

(* A role that is made has its stream.                                     *)
LEMMA NewRoleType ==
    ASSUME NEW k \in Streams, NEW http \in {"off", "waiting", "closing"}
    PROVE  NewRole(k, http) \in Role /\ NewRole(k, http).key = k /\ NewRole(k, http).state # "none"
  <1>. DEFINE x == [NoRole EXCEPT !.state = "inited", !.srt = "up"]
              y == [x EXCEPT !.key = k, !.http = http]
  <1>1. x \in Role /\ x.state = "inited"
    BY NoRoleType DEF Role
  <1>2. y \in Role /\ y.key = k /\ y.state = "inited"
    <2>. HIDE DEF x
    <2>. QED  BY <1>1 DEF Role
  <1>3. NewRole(k, http) = y
    BY DEF NewRole
  <1>. QED  BY <1>2, <1>3

(* One role changes.                                                       *)
LEMMA UpdateRole ==
    ASSUME role \in [Roles -> Role], NEW r \in Roles, NEW x \in Role, Update(r, x)
    PROVE  /\ role' \in [Roles -> Role] /\ role'[r] = x
           /\ \A q \in Roles \ {r} : role'[q] = role[q]
  BY DEF Update

(* The next lemmas: what a role does to itself leaves its stream and that  *)
(* it exists alone.                                                        *)
LEMMA InvalidatedSame ==
    ASSUME NEW r \in Roles, NEW y \in Role, NEW x \in Invalidated(r, y)
    PROVE  SameKey(x, y)
  <1>1. PICK h \in {"off", "closing", y.http} : x = [y EXCEPT !.srt = "null", !.http = h]
    BY DEF Invalidated
  <1>2. h \in {"off", "waiting", "closing"}
    BY <1>1 DEF Role
  <1>. QED  BY <1>1, <1>2 DEF SameKey, Role

(* CSLSRole::handler_read_data.                                            *)
LEMMA ReadSame ==
    ASSUME NEW r \in Roles, NEW y \in Role, y.state # "none", NEW x \in Read(r, y)
    PROVE  SameKey(x, y)
  <1>1. CASE x \in Invalidated(r, y)
    BY <1>1, InvalidatedSame
  <1>2. CASE x \notin Invalidated(r, y)
    <2>. DEFINE z == [y EXCEPT !.stale = FALSE]
                u == [z EXCEPT !.state = "invalid", !.srt = "null"]
    <2>1. z \in Role /\ z.key = y.key /\ z.state = y.state
      BY DEF Role
    <2>2. u \in Role /\ u.key = y.key /\ u.state = "invalid"
      <3>. HIDE DEF z
      <3>. QED  BY <2>1 DEF Role
    <2>3. x = z \/ x = u
      BY <1>2 DEF Read
    <2>. HIDE DEF z, u
    <2>. QED  BY <2>1, <2>2, <2>3 DEF SameKey
  <1>. QED  BY <1>1, <1>2

(* CSLSRole::handler_write_data.                                           *)
LEMMA WrittenSame ==
    ASSUME NEW y \in Role, NEW x \in Written(y)
    PROVE  SameKey(x, y)
  BY DEF Written, SameKey, Role

(* A role that is not admitted.                                            *)
LEMMA NotPassedSame ==
    ASSUME NEW y \in Role, NEW x \in NotPassed(y)
    PROVE  SameKey(x, y)
  BY DEF NotPassed, SameKey, Role

(* A role that is.                                                         *)
LEMMA PassedSame ==
    ASSUME NEW y \in Role
    PROVE  SameKey(Passed(y), y)
  BY DEF Passed, SameKey, Role

(* A role's handler.                                                       *)
LEMMA HandledSame ==
    ASSUME role \in [Roles -> Role], NEW r \in Roles, Exists(r), NEW x \in Handled(r)
    PROVE  SameKey(x, role[r])
  <1>. DEFINE y == role[r]
              handled(z) == IF r \in Players THEN Written(z) ELSE Read(r, z)
  <1>1. y \in Role /\ y.state # "none"
    BY DEF Exists
  <1>2. \/ x \in NotPassed(y)
        \/ x \in handled(Passed(y))
        \/ x \in handled(y)
    BY DEF Handled
  <1>3. ASSUME NEW z \in Role, z.state # "none", x \in handled(z)
        PROVE  SameKey(x, z)
    <2>. HIDE DEF y
    <2>. QED  BY <1>3, WrittenSame, ReadSame, Zenon
  <1>4. Passed(y) \in Role /\ Passed(y).state # "none" /\ Passed(y).key = y.key
    BY <1>1, PassedSame DEF SameKey
  <1>. HIDE DEF y, handled
  <1>5. CASE x \in NotPassed(y)
    BY <1>1, <1>5, NotPassedSame DEF y
  <1>6. CASE x \in handled(Passed(y))
    <2>1. SameKey(x, Passed(y))
      BY <1>3, <1>4, <1>6
    <2>. QED  BY <2>1, <1>1, <1>4 DEF SameKey, y
  <1>7. CASE x \in handled(y)
    BY <1>1, <1>3, <1>7 DEF y
  <1>. QED  BY <1>2, <1>5, <1>6, <1>7

(* The role objects keep their streams, and none comes or goes.            *)
RolesKept == role' \in [Roles -> Role] /\ \A r \in Roles : role'[r].key = role[r].key /\ (Exists(r)' <=> Exists(r))

(* So does a step that changes only that role.                             *)
LEMMA KeepRoles ==
    ASSUME role \in [Roles -> Role], NEW r \in Roles, NEW x, SameKey(x, role[r]), Update(r, x)
    PROVE  RolesKept
  BY UpdateRole DEF SameKey, RolesKept, Exists

-----------------------------------------------------------------------------
(* What a step leaves as it is.                                            *)

(* A thread that makes or closes a role has one in its hands.              *)
LEMMA CurIsRole ==
    ASSUME NEW g \in Groups, PlaceInv(g), worker[g].pc \in MakeSteps \cup CloseSteps
    PROVE  worker[g].cur \in Roles /\ (worker[g].pc # "delete" => worker[g].cur \in Sources)
  BY DEF PlaceInv, MakeSteps, CloseSteps, Sources, Roles

(* A thread that takes no part in the step, in a group whose roles stay.   *)
LEMMA PlaceFrame ==
    ASSUME NEW h \in Groups, PlaceInv(h) /\ TodoInv(h),
           worker'[h] = worker[h], m_map_role'[h] = m_map_role[h],
           worker[h].pc \in MakeSteps \cup CloseSteps =>
               role'[worker[h].cur].key = role[worker[h].cur].key
    PROVE  PlaceInv(h)' /\ TodoInv(h)'
  BY DEF PlaceInv, TodoInv

(* Owners stay, if queue and groups do and nobody else makes a role.       *)
LEMMA OwnerFrame ==
    ASSUME OwnerInv, RolesKept, UNCHANGED <<m_list_role, m_map_role>>,
           \A h \in Groups : \A r \in Roles : Makes(h, r)' <=> Makes(h, r)
    PROVE  OwnerInv'
  BY DEF OwnerInv, RolesKept, IsQueued

(* Names stay true, if they do not change and nobody else has taken one    *)
(* out.                                                                    *)
LEMMA NamesFrame ==
    ASSUME NameIsLive, NameInv, RolesKept, UNCHANGED <<m_map_push_2_pushlisher, lost>>,
           m_map_push_2_pushlisher \in [Streams -> Publishers \cup Pullers \cup {None}],
           \A h \in Groups : \A r \in Sources : NameOut(h, r)' <=> NameOut(h, r),
           \A h \in Groups : \A r \in Sources : NameOut(h, r) => worker'[h].key = worker[h].key
    PROVE  NameIsLive' /\ NameInv'
  <1>1. NameIsLive'
    BY DEF NameIsLive, RolesKept, Roles
  <1>2. NameInv'
    BY DEF NameInv, RolesKept, Sources, Roles
  <1>. QED  BY <1>1, <1>2

(* A role is settled unless some thread makes or closes it.                *)
LEMMA SettledIs ==
    ASSUME NEW q
    PROVE  Settled(q) <=> /\ Exists(q)
                          /\ \A g \in Groups : worker[g].cur = q => worker[g].pc \notin MakeSteps \cup CloseSteps
  BY DEF Settled, Creating, Closing, MakeSteps, CloseSteps

(* A role that is settled after a step was before, unless this step made   *)
(* or closed it.                                                           *)
LEMMA SettledKept ==
    ASSUME NEW g \in Groups, Others(g), NEW q,
           Exists(q)' => Exists(q) /\ role'[q].key = role[q].key,
           worker[g].cur = q /\ worker[g].pc \in MakeSteps \cup CloseSteps =>
               worker'[g].cur = q /\ worker'[g].pc \in MakeSteps \cup CloseSteps,
           Settled(q)'
    PROVE  Settled(q) /\ role'[q].key = role[q].key
  <1>1. /\ Exists(q)'
        /\ \A h \in Groups : worker'[h].cur = q => worker'[h].pc \notin MakeSteps \cup CloseSteps
    BY DEF Settled, Creating, Closing, MakeSteps, CloseSteps
  <1>. QED  BY <1>1, SettledIs DEF Others

(* The rings stay, and no role comes to be at work but one that has one.    *)
LEMMA HasRingFrame ==
    ASSUME PublisherHasRing, m_map_array \subseteq m_map_array',
           \A q \in Sources : Settled(q)' =>
               (Settled(q) /\ role'[q].key = role[q].key) \/ role'[q].key \in m_map_array'
    PROVE  PublisherHasRing'
  BY DEF PublisherHasRing, Sources

(* A step of a thread that only moves about, and may change roles it does  *)
(* not delete.                                                             *)
LEMMA QuietStep ==
    ASSUME IInv, TypeOK', NEW g \in Groups, Others(g),
           UNCHANGED <<maps, m_list_role, m_map_role, lost>>, RolesKept,
           PlaceInv(g)' /\ TodoInv(g)',
           worker[g].pc \notin MakeSteps, worker'[g].pc \notin MakeSteps,
           \A r \in Sources : ~NameOut(g, r) /\ ~NameOut(g, r)',
           worker'[g].pc = "pub_add" => m_map_push_2_pushlisher[worker'[g].key] \notin Publishers,
           worker'[g].pc # "pub_set",
           worker'[g].pc = "uninit_name" => worker'[g].cur \notin Publishers,
           worker[g].pc = "pub_set" => m_map_push_2_pushlisher[worker[g].key] # None,
           worker[g].pc \notin CloseSteps,
           worker'[g].pc = "uninit_ring" => m_map_push_2_pushlisher[worker'[g].key] = worker'[g].cur,
           Groups = {Listening} /\ worker'[g].pc \in {"is_exist", "push_player"} =>
               worker'[g].cur # None /\ m_map_push_2_pushlisher[worker'[g].key] = worker'[g].cur
    PROVE  IInv'
  <1>1. TypeOK /\ OwnerInv /\ NameIsLive /\ NameInv /\ RingInv /\ RingHasOwner /\ ListenerInv
    BY DEF IInv
  <1>2. \A h \in Groups \ {g} : worker'[h] = worker[h]
    BY DEF Others
  <1>3. ASSUME NEW h \in Groups
        PROVE  PlaceInv(h)' /\ TodoInv(h)'
    <2>1. PlaceInv(h) /\ TodoInv(h)
      BY DEF IInv
    <2>2. CASE h # g
      <3>1. worker[h].pc \in MakeSteps \cup CloseSteps => role'[worker[h].cur].key = role[worker[h].cur].key
        BY <2>1, CurIsRole DEF RolesKept
      <3>. QED  BY <1>2, <2>1, <2>2, <3>1, PlaceFrame
    <2>. QED  BY <2>2
  <1>4. OwnerInv'
    <2>1. \A h \in Groups : \A r \in Roles : Makes(h, r)' <=> Makes(h, r)
      BY <1>2 DEF Makes
    <2>. QED  BY <1>1, <2>1, OwnerFrame
  <1>5. NameIsLive' /\ NameInv'
    <2>1. \A h \in Groups : \A r \in Sources :
            /\ NameOut(h, r)' <=> NameOut(h, r)
            /\ NameOut(h, r) => worker'[h].key = worker[h].key
      BY <1>2 DEF NameOut
    <2>2. m_map_push_2_pushlisher \in [Streams -> Publishers \cup Pullers \cup {None}]
      BY <1>1 DEF TypeOK
    <2>. QED  BY <1>1, <2>1, <2>2, NamesFrame DEF maps
  <1>6. RingInv'
    BY <1>1, <1>2 DEF RingInv, maps
  <1>7. RingHasOwner'
    BY <1>1, <1>2 DEF RingHasOwner, CloseSteps, maps
  <1>8. ListenerInv'
    BY <1>1 DEF ListenerInv
  <1>9. RingsInv'
    <2>1. SUFFICES ASSUME Undivided PROVE PulledInv' /\ PublisherHasRing'
      BY DEF RingsInv
    <2>2. PulledInv /\ PublisherHasRing
      BY <2>1 DEF IInv, RingsInv
    <2>3. PulledInv'
      BY <1>2, <2>2 DEF PulledInv, MakeSteps, maps
    <2>4. \A q \in Sources : Settled(q)' => Settled(q) /\ role'[q].key = role[q].key
      BY SettledKept DEF RolesKept, Sources, Roles
    <2>. QED  BY <2>2, <2>3, <2>4, HasRingFrame DEF maps
  <1>10. LookupInv'
    <2>1. LookupInv
      BY DEF IInv
    <2>. QED  BY <1>2, <2>1 DEF LookupInv, FoundInv, maps
  <1>. QED  BY <1>3, <1>4, <1>5, <1>6, <1>7, <1>8, <1>9, <1>10 DEF IInv

(* The types, after a step that changes roles and its own thread only.     *)
LEMMA TypeQuiet ==
    ASSUME TypeOK, NEW g \in Groups, Others(g), RolesKept,
           UNCHANGED <<maps, m_list_role, m_map_role, lost>>,
           m_list_reconnect' \in [Groups -> SUBSET Streams]
    PROVE  TypeOK'
  BY DEF TypeOK, Others, RolesKept, maps

Still == UNCHANGED <<maps, m_list_role, m_map_role, m_list_reconnect, role, lost>>

(* What the steps need of the invariant.                                   *)
LEMMA InvFacts ==
    ASSUME IInv, NEW g \in Groups
    PROVE  /\ PlaceInv(g) /\ TodoInv(g) /\ (Listener \in m_map_role[g] <=> g = Listening)
           /\ worker \in [Groups -> Worker] /\ role \in [Roles -> Role]
           /\ m_map_role[g] \subseteq Roles \cup {Listener}
           /\ m_list_reconnect[g] \subseteq Streams
  BY DEF IInv, TypeOK, ListenerInv

(* Roles that do not change keep their streams.                            *)
LEMMA StillKept ==
    ASSUME role \in [Roles -> Role], UNCHANGED role
    PROVE  RolesKept
  BY DEF RolesKept, Exists

(* A step of which nobody else sees anything.                              *)
LEMMA QuietMove ==
    ASSUME IInv, NEW g \in Groups, Others(g), Still,
           PlaceInv(g)' /\ TodoInv(g)',
           worker[g].pc \notin MakeSteps \cup CloseSteps,
           worker'[g].pc \notin MakeSteps \cup CloseSteps \cup {"pub_set"},
           worker'[g].pc = "pub_add" => m_map_push_2_pushlisher[worker'[g].key] \notin Publishers,
           worker[g].pc = "pub_set" => m_map_push_2_pushlisher[worker[g].key] # None,
           Groups = {Listening} /\ worker'[g].pc \in {"is_exist", "push_player"} =>
               worker'[g].cur # None /\ m_map_push_2_pushlisher[worker'[g].key] = worker'[g].cur
    PROVE  IInv'
  <1>1. RolesKept
    BY InvFacts, StillKept DEF Still
  <1>2. TypeOK'
    <2>1. TypeOK /\ m_list_reconnect \in [Groups -> SUBSET Streams]
      BY DEF IInv, TypeOK
    <2>. QED  BY <1>1, <2>1, TypeQuiet DEF Still
  <1>3. \A r \in Sources : ~NameOut(g, r) /\ ~NameOut(g, r)'
    BY DEF NameOut, CloseSteps
  <1>4. UNCHANGED <<maps, m_list_role, m_map_role, lost>>
    BY DEF Still
  <1>. QED  BY <1>1, <1>2, <1>3, <1>4, QuietStep DEF CloseSteps

-----------------------------------------------------------------------------
(* Who has the name of a stream.                                           *)

(* A role in a group's map exists and has a stream.                        *)
LEMMA HeldExists ==
    ASSUME IInv, NEW g \in Groups, NEW r \in Roles, r \in m_map_role[g]
    PROVE  Exists(r) /\ role[r] \in Role /\ role[r].key \in Streams
  BY DEF IInv, TypeOK, OwnerInv, Role

(* The role a thread closes is one of its group.                           *)
LEMMA ClosedHeld ==
    ASSUME IInv, NEW g \in Groups, worker[g].pc \in CloseSteps
    PROVE  /\ worker[g].cur \in Roles /\ worker[g].cur \in m_map_role[g] /\ Exists(worker[g].cur)
           /\ role[worker[g].cur].key = worker[g].key /\ worker[g].key \in Streams
  <1>1. PlaceInv(g) /\ TodoInv(g)
    BY InvFacts
  <1>2. worker[g].cur \in Roles /\ worker[g].cur \in m_map_role[g]
    BY <1>1, CurIsRole DEF TodoInv
  <1>. QED  BY <1>1, <1>2, HeldExists DEF PlaceInv

(* The source a thread makes has its name.                                 *)
LEMMA MakerHasName ==
    ASSUME IInv, NEW g \in Groups, worker[g].pc \in MakeSteps
    PROVE  /\ worker[g].cur \in Sources /\ Exists(worker[g].cur)
           /\ role[worker[g].cur].key = worker[g].key
           /\ m_map_push_2_pushlisher[worker[g].key] = worker[g].cur
  <1>. DEFINE r == worker[g].cur
  <1>1. r \in Sources /\ role[r].key = worker[g].key
    BY InvFacts, CurIsRole DEF PlaceInv, MakeSteps
  <1>2. r \in Roles /\ Makes(g, r) /\ OwnerInv /\ NameInv
    BY <1>1 DEF Sources, Roles, Makes, IInv
  <1>3. Exists(r)
    BY <1>2 DEF OwnerInv
  <1>4. \A h \in Groups : ~NameOut(h, r)
    <2>1. SUFFICES ASSUME NEW h \in Groups, NameOut(h, r) PROVE FALSE
      OBVIOUS
    <2>2. r \in m_map_role[h]
      BY <2>1, ClosedHeld DEF NameOut, CloseSteps
    <2>. QED  BY <1>2, <2>2 DEF OwnerInv
  <1>. QED  BY <1>1, <1>2, <1>3, <1>4 DEF NameInv

(* The source a thread closes has its name until uninit takes it out.      *)
LEMMA CloserHasName ==
    ASSUME IInv, NEW g \in Groups, worker[g].pc \in CloseSteps, worker[g].cur \in Sources,
           ~NameOut(g, worker[g].cur)
    PROVE  m_map_push_2_pushlisher[worker[g].key] = worker[g].cur
  <1>. DEFINE r == worker[g].cur
  <1>1. r \in Roles /\ r \in m_map_role[g] /\ Exists(r) /\ role[r].key = worker[g].key
    BY ClosedHeld
  <1>2. OwnerInv /\ NameInv
    BY DEF IInv
  <1>3. \A h \in Groups : ~NameOut(h, r)
    <2>1. SUFFICES ASSUME NEW h \in Groups, NameOut(h, r) PROVE FALSE
      OBVIOUS
    <2>2. r \in m_map_role[h]
      BY <2>1, ClosedHeld DEF NameOut, CloseSteps
    <2>3. g = h
      BY <1>1, <1>2, <2>2 DEF OwnerInv
    <2>. QED  BY <2>1, <2>3
  <1>. QED  BY <1>1, <1>2, <1>3 DEF NameInv

(* A source in a group's map has its name.                                 *)
LEMMA HeldHasName ==
    ASSUME IInv, NEW g \in Groups, NEW r \in Sources, r \in m_map_role[g], worker[g].pc \notin CloseSteps
    PROVE  m_map_push_2_pushlisher[role[r].key] = r
  <1>1. r \in Roles /\ Exists(r) /\ OwnerInv /\ NameInv
    BY HeldExists DEF Sources, Roles, IInv
  <1>2. \A h \in Groups : ~NameOut(h, r)
    <2>1. SUFFICES ASSUME NEW h \in Groups, NameOut(h, r) PROVE FALSE
      OBVIOUS
    <2>2. worker[h].pc \in CloseSteps /\ r \in m_map_role[h]
      BY <2>1, ClosedHeld DEF NameOut, CloseSteps
    <2>. QED  BY <1>1, <2>2 DEF OwnerInv
  <1>. QED  BY <1>1, <1>2 DEF NameInv

-----------------------------------------------------------------------------
(* The steps of a thread, one by one.                                      *)

(* The listener accepts a client.                                          *)
LEMMA AcceptInv ==
    ASSUME IInv, NEW g \in Groups, Accept(g)
    PROVE  IInv'
  <1>1. /\ PlaceInv(g) /\ TodoInv(g) /\ (Listener \in m_map_role[g] <=> g = Listening)
        /\ worker \in [Groups -> Worker]
    BY InvFacts
  <1>2. worker[g].pc = "events" /\ Listener \in worker[g].todo /\ Still
    BY DEF Accept, At, Still
  <1>3. CASE Drop(g, Listener)
    <2>1. Others(g) /\ Fields(g, "events", worker[g].todo \ {Listener}, worker[g].cur, worker[g].key, worker[g].ret)
      BY <1>1, <1>2, <1>3, SetDrop
    <2>2. PlaceInv(g)' /\ TodoInv(g)'
      BY <1>1, <1>2, <2>1
         DEF PlaceInv, TodoInv, Fields, Still, Steps, ListenSteps, RelaySteps, MakeSteps, CloseSteps
    <2>. QED  BY <1>2, <2>1, <2>2, QuietMove DEF Fields, MakeSteps, CloseSteps
  <1>4. ASSUME NEW k \in Streams, NEW pc \in {"find", "pub_find"},
               worker' = [worker EXCEPT ![g].todo = @ \ {Listener},
                                        ![g].pc = pc, ![g].key = k, ![g].ret = "events"]
        PROVE  IInv'
    <2>1. Others(g) /\ Fields(g, pc, worker[g].todo \ {Listener}, worker[g].cur, k, "events")
      BY <1>1, <1>4, SetAccepted DEF Steps
    <2>2. PlaceInv(g)' /\ TodoInv(g)'
      BY <1>1, <1>2, <2>1, ServerAssumption
         DEF PlaceInv, TodoInv, Fields, Still, Steps, ListenSteps, RelaySteps, MakeSteps, CloseSteps
    <2>. QED  BY <1>2, <2>1, <2>2, QuietMove DEF Fields, MakeSteps, CloseSteps
  <1>. QED  BY <1>3, <1>4 DEF Accept

(* It looks for the player's publisher ...                                 *)
LEMMA FindPublisherInv ==
    ASSUME IInv, NEW g \in Groups, FindPublisher(g)
    PROVE  IInv'
  <1>1. /\ PlaceInv(g) /\ TodoInv(g) /\ worker \in [Groups -> Worker]
        /\ worker[g].pc = "find" /\ Still
    BY InvFacts DEF FindPublisher, At, Still
  <1>2. /\ Others(g)
        /\ \/ /\ Registered(g) # None
              /\ Fields(g, "is_exist", worker[g].todo, Registered(g), worker[g].key, worker[g].ret)
           \/ Fields(g, "events", worker[g].todo, worker[g].cur, worker[g].key, worker[g].ret)
           \/ Fields(g, "start", worker[g].todo, worker[g].cur, worker[g].key, "find_again")
    <2>1. CASE Registered(g) # None
      <3>1. worker' = [worker EXCEPT ![g].pc = "is_exist", ![g].cur = Registered(g)]
        BY <2>1 DEF FindPublisher
      <3>2. Registered(g) \in Roles \cup {None}
        <4>1. worker[g].key \in Streams
          BY <1>1, WorkerFields DEF PlaceInv, Steps
        <4>2. m_map_push_2_pushlisher \in [Streams -> Publishers \cup Pullers \cup {None}]
          BY DEF IInv, TypeOK
        <4>. QED  BY <4>1, <4>2 DEF Registered, Roles
      <3>. QED  BY <1>1, <2>1, <3>1, <3>2, SetCur DEF Steps
    <2>2. CASE Registered(g) = None /\ Pullers = {}
      BY <1>1, <2>2, SetGoto DEF FindPublisher, Phases
    <2>3. CASE Registered(g) = None /\ Pullers # {}
      <3>1. worker' = [worker EXCEPT ![g].pc = "start", ![g].ret = "find_again"]
        BY <2>3 DEF FindPublisher
      <3>. QED  BY <1>1, <3>1, SetRet DEF Steps
    <2>. QED  BY <2>1, <2>2, <2>3
  <1>3. PlaceInv(g)' /\ TodoInv(g)'
    BY <1>1, <1>2
       DEF PlaceInv, TodoInv, Fields, Still, Steps, ListenSteps, RelaySteps, MakeSteps, CloseSteps
  <1>. QED  BY <1>1, <1>2, <1>3, QuietMove DEF Fields, Registered, MakeSteps, CloseSteps

(* ... and again, after a puller was started.                              *)
LEMMA FindAgainInv ==
    ASSUME IInv, NEW g \in Groups, FindAgain(g)
    PROVE  IInv'
  <1>1. /\ PlaceInv(g) /\ TodoInv(g) /\ worker \in [Groups -> Worker]
        /\ worker[g].pc = "find_again" /\ Still
    BY InvFacts DEF FindAgain, At, Still
  <1>2. /\ Others(g)
        /\ \/ /\ Registered(g) # None
              /\ Fields(g, "is_exist", worker[g].todo, Registered(g), worker[g].key, worker[g].ret)
           \/ Fields(g, "events", worker[g].todo, worker[g].cur, worker[g].key, worker[g].ret)
    <2>1. CASE Registered(g) # None
      <3>1. worker' = [worker EXCEPT ![g].pc = "is_exist", ![g].cur = Registered(g)]
        BY <2>1 DEF FindAgain
      <3>2. Registered(g) \in Roles \cup {None}
        <4>1. worker[g].key \in Streams
          BY <1>1, WorkerFields DEF PlaceInv, Steps
        <4>2. m_map_push_2_pushlisher \in [Streams -> Publishers \cup Pullers \cup {None}]
          BY DEF IInv, TypeOK
        <4>. QED  BY <4>1, <4>2 DEF Registered, Roles
      <3>. QED  BY <1>1, <2>1, <3>1, <3>2, SetCur DEF Steps
    <2>2. CASE Registered(g) = None
      BY <1>1, <2>2, SetGoto DEF FindAgain, Phases
    <2>. QED  BY <2>1, <2>2
  <1>3. PlaceInv(g)' /\ TodoInv(g)'
    BY <1>1, <1>2
       DEF PlaceInv, TodoInv, Fields, Still, Steps, ListenSteps, RelaySteps, MakeSteps, CloseSteps
  <1>. QED  BY <1>1, <1>2, <1>3, QuietMove DEF Fields, Registered, MakeSteps, CloseSteps

(* It looks for the publisher's ring.                                      *)
LEMMA CheckRingInv ==
    ASSUME IInv, NEW g \in Groups, CheckRing(g)
    PROVE  IInv'
  <1>1. /\ PlaceInv(g) /\ TodoInv(g) /\ worker \in [Groups -> Worker]
        /\ worker[g].pc = "is_exist" /\ Still
    BY InvFacts DEF CheckRing, At, Still
  <1>2. PICK pc \in {"push_player", "events"} : Goto(g, pc)
    BY DEF CheckRing
  <1>3. Others(g) /\ Fields(g, pc, worker[g].todo, worker[g].cur, worker[g].key, worker[g].ret)
    BY <1>1, <1>2, SetGoto DEF Phases, Steps
  <1>4. PlaceInv(g)' /\ TodoInv(g)'
    BY <1>1, <1>3
       DEF PlaceInv, TodoInv, Fields, Still, Steps, ListenSteps, RelaySteps, MakeSteps, CloseSteps
  <1>5. Groups = {Listening} => worker[g].cur # None /\ m_map_push_2_pushlisher[worker[g].key] = worker[g].cur
    BY <1>1 DEF IInv, LookupInv, FoundInv
  <1>. QED  BY <1>1, <1>3, <1>4, <1>5, QuietMove DEF Fields, MakeSteps, CloseSteps

(* It looks whether the publisher's name is free.                          *)
LEMMA FindFreeInv ==
    ASSUME IInv, NEW g \in Groups, FindFree(g)
    PROVE  IInv'
  <1>1. /\ PlaceInv(g) /\ TodoInv(g) /\ worker \in [Groups -> Worker]
        /\ worker[g].pc = "pub_find" /\ Still
    BY InvFacts DEF FindFree, At, Still
  <1>2. PICK pc \in {"pub_add", "events"} : Goto(g, pc) /\ (pc = "pub_add" => Registered(g) = None)
    BY DEF FindFree
  <1>3. Others(g) /\ Fields(g, pc, worker[g].todo, worker[g].cur, worker[g].key, worker[g].ret)
    BY <1>1, <1>2, SetGoto DEF Phases, Steps
  <1>4. PlaceInv(g)' /\ TodoInv(g)'
    BY <1>1, <1>3
       DEF PlaceInv, TodoInv, Fields, Still, Steps, ListenSteps, RelaySteps, MakeSteps, CloseSteps
  <1>5. worker'[g].pc = "pub_add" => m_map_push_2_pushlisher[worker'[g].key] \notin Publishers
    BY <1>2, <1>3, ServerAssumption DEF Fields, Registered
  <1>. QED  BY <1>1, <1>3, <1>4, <1>5, QuietMove DEF Fields, MakeSteps, CloseSteps

(* A start of a puller that failed comes back to where it was called.      *)
LEMMA StartFailedPlace ==
    ASSUME NEW g \in Groups, worker \in [Groups -> Worker], PlaceInv(g), TodoInv(g),
           worker[g].pc \in {"start", "connect"}, StartFailed(g), m_map_role' = m_map_role
    PROVE  /\ Others(g) /\ PlaceInv(g)' /\ TodoInv(g)' /\ worker'[g].pc \in {"events", "reconnect"}
  <1>1. PICK pc \in {"events", "reconnect"} : Goto(g, pc) /\ (pc = "events" <=> worker[g].ret = "find_again")
    BY DEF StartFailed, Goto
  <1>2. Others(g) /\ Fields(g, pc, worker[g].todo, worker[g].cur, worker[g].key, worker[g].ret)
    BY <1>1, SetGoto DEF Phases, Steps
  <1>3. worker[g].ret \in {"events", "find_again", "reconnect"}
    BY WorkerFields
  <1>. QED
    BY <1>1, <1>2, <1>3
       DEF PlaceInv, TodoInv, Fields, Steps, ListenSteps, RelaySteps, MakeSteps, CloseSteps

(* A puller manager is asked to start.                                     *)
LEMMA StartInv ==
    ASSUME IInv, NEW g \in Groups, Start(g)
    PROVE  IInv'
  <1>1. /\ PlaceInv(g) /\ TodoInv(g) /\ worker \in [Groups -> Worker]
        /\ worker[g].pc = "start" /\ Still
    BY InvFacts DEF Start, At, Still
  <1>2. CASE StartFailed(g)
    BY <1>1, <1>2, StartFailedPlace, QuietMove DEF Still, MakeSteps, CloseSteps
  <1>3. CASE Goto(g, "connect")
    <2>1. Others(g) /\ Fields(g, "connect", worker[g].todo, worker[g].cur, worker[g].key, worker[g].ret)
      BY <1>1, <1>3, SetGoto DEF Steps
    <2>2. PlaceInv(g)' /\ TodoInv(g)'
      BY <1>1, <2>1
         DEF PlaceInv, TodoInv, Fields, Still, Steps, ListenSteps, RelaySteps, MakeSteps, CloseSteps
    <2>. QED  BY <1>1, <2>1, <2>2, QuietMove DEF Fields, MakeSteps, CloseSteps
  <1>. QED  BY <1>2, <1>3 DEF Start

(* A round begins.                                                         *)
LEMMA PollInv ==
    ASSUME IInv, NEW g \in Groups, Poll(g)
    PROVE  IInv'
  <1>1. /\ PlaceInv(g) /\ TodoInv(g) /\ worker \in [Groups -> Worker]
        /\ m_map_role[g] \subseteq Roles \cup {Listener} /\ worker[g].pc = "poll" /\ Still
    BY InvFacts DEF Poll, At, Still
  <1>2. PICK ready \in SUBSET m_map_role[g] : Begin(g, "events", ready)
    BY DEF Poll
  <1>3. Others(g) /\ Fields(g, "events", ready, worker[g].cur, worker[g].key, worker[g].ret)
    BY <1>1, <1>2, SetBegin DEF Phases
  <1>4. PlaceInv(g)' /\ TodoInv(g)'
    BY <1>1, <1>3
       DEF PlaceInv, TodoInv, Fields, Still, Steps, ListenSteps, RelaySteps, MakeSteps, CloseSteps
  <1>. QED  BY <1>1, <1>3, <1>4, QuietMove DEF Fields, MakeSteps, CloseSteps

(* A group connects a stream's puller again.                               *)
LEMMA ReconnectInv ==
    ASSUME IInv, NEW g \in Groups, Reconnect(g)
    PROVE  IInv'
  <1>1. /\ PlaceInv(g) /\ TodoInv(g) /\ worker \in [Groups -> Worker]
        /\ worker[g].pc = "reconnect" /\ Still
    BY InvFacts DEF Reconnect, At, Still
  <1>2. PICK k \in worker[g].todo :
            \/ Drop(g, k)
            \/ worker' = [worker EXCEPT ![g].todo = @ \ {k}, ![g].pc = "start",
                                        ![g].key = k, ![g].ret = "reconnect"]
    BY DEF Reconnect
  <1>3. k \in Streams /\ k # None
    BY <1>1, ServerAssumption DEF TodoInv
  <1>4. /\ Others(g)
        /\ \/ Fields(g, "reconnect", worker[g].todo \ {k}, worker[g].cur, worker[g].key, worker[g].ret)
           \/ Fields(g, "start", worker[g].todo \ {k}, worker[g].cur, k, "reconnect")
    <2>1. CASE Drop(g, k)
      BY <1>1, <2>1, SetDrop
    <2>2. CASE worker' = [worker EXCEPT ![g].todo = @ \ {k}, ![g].pc = "start",
                                        ![g].key = k, ![g].ret = "reconnect"]
      BY <1>1, <1>3, <2>2, SetAccepted DEF Steps
    <2>. QED  BY <1>2, <2>1, <2>2
  <1>5. PlaceInv(g)' /\ TodoInv(g)'
    BY <1>1, <1>3, <1>4
       DEF PlaceInv, TodoInv, Fields, Still, Steps, ListenSteps, RelaySteps, MakeSteps, CloseSteps
  <1>. QED  BY <1>1, <1>4, <1>5, QuietMove DEF Fields, MakeSteps, CloseSteps

(* A role is kept.                                                         *)
LEMMA KeepRoleInv ==
    ASSUME IInv, NEW g \in Groups, KeepRole(g)
    PROVE  IInv'
  <1>1. /\ PlaceInv(g) /\ TodoInv(g) /\ worker \in [Groups -> Worker]
        /\ worker[g].pc = "invalid" /\ Still
    BY InvFacts DEF KeepRole, At, Still
  <1>2. PICK r \in worker[g].todo : Drop(g, r)
    BY DEF KeepRole
  <1>3. Others(g) /\ Fields(g, "invalid", worker[g].todo \ {r}, worker[g].cur, worker[g].key, worker[g].ret)
    BY <1>1, <1>2, SetDrop
  <1>4. PlaceInv(g)' /\ TodoInv(g)'
    BY <1>1, <1>3
       DEF PlaceInv, TodoInv, Fields, Still, Steps, ListenSteps, RelaySteps, MakeSteps, CloseSteps
  <1>. QED  BY <1>1, <1>3, <1>4, QuietMove DEF Fields, MakeSteps, CloseSteps

(* The next part of a round begins.                                        *)
LEMMA NextPhaseInv ==
    ASSUME IInv, NEW g \in Groups, NextPhase(g)
    PROVE  IInv'
  <1>1. /\ PlaceInv(g) /\ TodoInv(g) /\ worker \in [Groups -> Worker]
        /\ m_map_role[g] \subseteq Roles \cup {Listener} /\ m_list_reconnect[g] \subseteq Streams
        /\ worker[g].pc \in {"events", "reconnect", "invalid"} /\ Still
    BY InvFacts DEF NextPhase, At, Still
  <1>2. PICK pc, todo : /\ Begin(g, pc, todo)
                        /\ \/ pc = "reconnect" /\ todo = m_list_reconnect[g]
                           \/ pc = "invalid" /\ todo = m_map_role[g] \ {Listener}
                           \/ pc = "new" /\ todo = {}
    BY DEF NextPhase
  <1>3. Others(g) /\ Fields(g, pc, todo, worker[g].cur, worker[g].key, worker[g].ret)
    BY <1>1, <1>2, SetBegin DEF Phases
  <1>4. PlaceInv(g)' /\ TodoInv(g)'
    BY <1>1, <1>2, <1>3
       DEF PlaceInv, TodoInv, Fields, Still, Steps, ListenSteps, RelaySteps, MakeSteps, CloseSteps
  <1>. QED  BY <1>1, <1>2, <1>3, <1>4, QuietMove DEF Fields, MakeSteps, CloseSteps

(* A group takes no role.                                                  *)
LEMMA TakeNothingInv ==
    ASSUME IInv, NEW g \in Groups, TakeNothing(g)
    PROVE  IInv'
  <1>1. /\ PlaceInv(g) /\ TodoInv(g) /\ worker \in [Groups -> Worker]
        /\ worker[g].pc = "new" /\ Goto(g, "poll") /\ Still
    BY InvFacts DEF TakeNothing, At, Still
  <1>2. Others(g) /\ Fields(g, "poll", worker[g].todo, worker[g].cur, worker[g].key, worker[g].ret)
    BY <1>1, SetGoto DEF Phases
  <1>3. PlaceInv(g)' /\ TodoInv(g)'
    BY <1>1, <1>2
       DEF PlaceInv, TodoInv, Fields, Still, Steps, ListenSteps, RelaySteps, MakeSteps, CloseSteps
  <1>. QED  BY <1>1, <1>2, <1>3, QuietMove DEF Fields, MakeSteps, CloseSteps

(* A group calls a role's handler.                                         *)
LEMMA HandleRoleInv ==
    ASSUME IInv, NEW g \in Groups, HandleRole(g)
    PROVE  IInv'
  <1>1. /\ PlaceInv(g) /\ TodoInv(g) /\ worker \in [Groups -> Worker] /\ role \in [Roles -> Role]
        /\ m_map_role[g] \subseteq Roles \cup {Listener}
        /\ worker[g].pc = "events" /\ UNCHANGED <<maps, m_list_role, m_map_role, m_list_reconnect, lost>>
    BY InvFacts DEF HandleRole, At
  <1>2. PICK r \in worker[g].todo \ {Listener} : (\E x \in Handled(r) : Update(r, x)) /\ Drop(g, r)
    BY DEF HandleRole
  <1>3. PICK x \in Handled(r) : Update(r, x)
    BY <1>2
  <1>4. r \in Roles /\ r \in m_map_role[g]
    BY <1>1 DEF TodoInv
  <1>5. RolesKept
    <2>1. SameKey(x, role[r])
      BY <1>1, <1>4, HeldExists, HandledSame
    <2>. QED  BY <1>1, <1>3, <1>4, <2>1, KeepRoles
  <1>6. Others(g) /\ Fields(g, "events", worker[g].todo \ {r}, worker[g].cur, worker[g].key, worker[g].ret)
    BY <1>1, <1>2, SetDrop
  <1>7. PlaceInv(g)' /\ TodoInv(g)'
    BY <1>1, <1>6
       DEF PlaceInv, TodoInv, Fields, Steps, ListenSteps, RelaySteps, MakeSteps, CloseSteps
  <1>8. TypeOK'
    <2>1. TypeOK /\ m_list_reconnect \in [Groups -> SUBSET Streams]
      BY DEF IInv, TypeOK
    <2>. QED  BY <1>1, <1>5, <1>6, <2>1, TypeQuiet
  <1>9. \A q \in Sources : ~NameOut(g, q) /\ ~NameOut(g, q)'
    BY <1>1, <1>6 DEF NameOut, Fields
  <1>. QED  BY <1>1, <1>5, <1>6, <1>7, <1>8, <1>9, QuietStep DEF Fields, MakeSteps, CloseSteps

(* Where uninit begins: a publisher removes its ring first, a puller its   *)
(* name.                                                                   *)
LEMMA FirstUninit ==
    ASSUME NEW r \in Roles
    PROVE  /\ r \in Publishers => Head(Uninit(r)) = "uninit_ring"
           /\ r \in Pullers => Head(Uninit(r)) = "uninit_name"
           /\ r \in Players => Head(Uninit(r)) = "delete"
  BY ServerAssumption DEF Uninit

(* A group begins to uninit a role.                                        *)
LEMMA CloseRoleInv ==
    ASSUME IInv, NEW g \in Groups, CloseRole(g)
    PROVE  IInv'
  <1>1. /\ PlaceInv(g) /\ TodoInv(g) /\ worker \in [Groups -> Worker] /\ role \in [Roles -> Role]
        /\ m_map_role[g] \subseteq Roles \cup {Listener}
        /\ worker[g].pc = "invalid" /\ UNCHANGED <<maps, m_list_role, m_map_role, lost>>
    BY InvFacts DEF CloseRole, At
  <1>2. PICK r \in worker[g].todo :
            /\ \E x \in Invalidated(r, role[r]) : Update(r, [x EXCEPT !.state = "invalid"])
            /\ worker' = [worker EXCEPT ![g].todo = @ \ {r}, ![g].pc = Head(Uninit(r)),
                                        ![g].cur = r, ![g].key = role[r].key]
            /\ m_list_reconnect' = [m_list_reconnect EXCEPT ![g] =
                    IF r \in Pullers THEN @ \cup {role[r].key} ELSE @]
    BY DEF CloseRole
  <1>3. PICK x \in Invalidated(r, role[r]) : Update(r, [x EXCEPT !.state = "invalid"])
    BY <1>2
  <1>4. r \in Roles /\ r \in m_map_role[g] \ {Listener}
    BY <1>1, ServerAssumption DEF TodoInv, Roles, CloseSteps
  <1>5. Exists(r) /\ role[r] \in Role /\ role[r].key \in Streams
    BY <1>4, HeldExists
  <1>6. RolesKept
    <2>1. SameKey(x, role[r])
      BY <1>4, <1>5, InvalidatedSame
    <2>2. SameKey([x EXCEPT !.state = "invalid"], role[r])
      BY <1>5, <2>1 DEF SameKey, Role, Exists
    <2>. QED  BY <1>1, <1>3, <1>4, <2>2, KeepRoles
  <1>7. PICK pc \in CloseSteps : /\ Head(Uninit(r)) = pc
                                 /\ r \in Publishers => pc = "uninit_ring"
                                 /\ r \in Pullers => pc = "uninit_name"
                                 /\ r \in Players => pc = "delete"
    BY <1>4, FirstUninit DEF CloseSteps, Roles
  <1>8. Others(g) /\ Fields(g, pc, worker[g].todo \ {r}, r, role[r].key, worker[g].ret)
    <2>1. worker' = [worker EXCEPT ![g].todo = @ \ {r}, ![g].pc = pc, ![g].cur = r, ![g].key = role[r].key]
      BY <1>2, <1>7
    <2>. QED  BY <1>1, <1>4, <1>5, <2>1, SetClosed DEF CloseSteps, Steps
  <1>9. PlaceInv(g)' /\ TodoInv(g)'
    <2>1. role'[r].key = role[r].key /\ role[r].key # None
      BY <1>4, <1>5, <1>6, ServerAssumption DEF RolesKept
    <2>2. PlaceInv(g)'
      BY <1>1, <1>4, <1>7, <1>8, <2>1, ServerAssumption
         DEF PlaceInv, Fields, Sources, Roles, Steps, ListenSteps, RelaySteps, MakeSteps, CloseSteps
    <2>3. TodoInv(g)'
      BY <1>1, <1>4, <1>7, <1>8 DEF TodoInv, Fields, ListenSteps, RelaySteps, CloseSteps
    <2>. QED  BY <2>2, <2>3
  <1>10. TypeOK'
    <2>1. TypeOK /\ m_list_reconnect \in [Groups -> SUBSET Streams]
      BY DEF IInv, TypeOK
    <2>2. m_list_reconnect' \in [Groups -> SUBSET Streams]
      BY <1>2, <1>5, <2>1
    <2>. QED  BY <1>1, <1>6, <1>8, <2>1, <2>2, TypeQuiet
  <1>11. \A q \in Sources : ~NameOut(g, q) /\ ~NameOut(g, q)'
    BY <1>1, <1>4, <1>7, <1>8, ServerAssumption DEF NameOut, Fields, Sources, Roles
  <1>12. /\ worker'[g].pc = "uninit_name" => worker'[g].cur \notin Publishers
         /\ worker'[g].pc \notin MakeSteps \cup ListenSteps
         /\ worker'[g].pc = "uninit_ring" => worker'[g].cur \in Sources
    BY <1>4, <1>7, <1>8, ServerAssumption
       DEF Fields, CloseSteps, MakeSteps, ListenSteps, Sources, Roles
  <1>13. worker'[g].pc = "uninit_ring" => m_map_push_2_pushlisher[worker'[g].key] = worker'[g].cur
    BY <1>1, <1>4, <1>8, <1>12, HeldHasName DEF Fields, CloseSteps
  <1>. QED
    BY <1>1, <1>6, <1>8, <1>9, <1>10, <1>11, <1>12, <1>13, QuietStep
       DEF MakeSteps, ListenSteps, CloseSteps

(* A step that changes the rings only.                                     *)
LEMMA RingStep ==
    ASSUME IInv, NEW g \in Groups, Others(g), m_map_array' \subseteq Streams,
           UNCHANGED <<m_map_push_2_pushlisher, m_list_role, m_map_role, m_list_reconnect, role, lost>>,
           PlaceInv(g)' /\ TodoInv(g)',
           worker'[g].cur = worker[g].cur /\ worker'[g].key = worker[g].key,
           worker[g].pc \in MakeSteps <=> worker'[g].pc \in MakeSteps,
           \A r \in Sources : NameOut(g, r)' <=> NameOut(g, r),
           worker'[g].pc \notin {"is_exist", "push_player"},
           RingInv', RingHasOwner', RingsInv'
    PROVE  IInv'
  <1>1. TypeOK /\ OwnerInv /\ NameIsLive /\ NameInv /\ ListenerInv
    BY DEF IInv
  <1>2. \A h \in Groups \ {g} : worker'[h] = worker[h]
    BY DEF Others
  <1>3. TypeOK'
    BY <1>1 DEF TypeOK, Others, Exists
  <1>4. RolesKept
    BY InvFacts, StillKept
  <1>5. ASSUME NEW h \in Groups
        PROVE  PlaceInv(h)' /\ TodoInv(h)'
    <2>1. CASE h # g
      BY <1>2, <2>1, InvFacts, PlaceFrame
    <2>. QED  BY <2>1
  <1>6. OwnerInv'
    <2>1. \A h \in Groups : \A r \in Roles : Makes(h, r)' <=> Makes(h, r)
      BY <1>2 DEF Makes
    <2>. QED  BY <1>1, <1>4, <2>1, OwnerFrame
  <1>7. NameIsLive' /\ NameInv'
    <2>1. \A h \in Groups : \A r \in Sources :
            /\ NameOut(h, r)' <=> NameOut(h, r)
            /\ NameOut(h, r) => worker'[h].key = worker[h].key
      BY <1>2 DEF NameOut
    <2>2. m_map_push_2_pushlisher \in [Streams -> Publishers \cup Pullers \cup {None}]
      BY <1>1 DEF TypeOK
    <2>. QED  BY <1>1, <1>4, <2>1, <2>2, NamesFrame
  <1>8. ListenerInv'
    BY <1>1 DEF ListenerInv
  <1>9. LookupInv'
    <2>1. LookupInv
      BY DEF IInv
    <2>. QED  BY <1>2, <2>1 DEF LookupInv, FoundInv
  <1>. QED  BY <1>3, <1>5, <1>6, <1>7, <1>8, <1>9 DEF IInv

(* A ring more, for a stream a source is about to be made of.              *)
LEMMA MoreRings ==
    ASSUME IInv, NEW g \in Groups, Others(g), UNCHANGED <<m_map_push_2_pushlisher, role>>,
           m_map_array' = m_map_array \cup {worker[g].key},
           worker'[g].cur = worker[g].cur /\ worker'[g].key = worker[g].key,
           worker[g].pc \in MakeSteps \cup CloseSteps <=> worker'[g].pc \in MakeSteps \cup CloseSteps,
           worker'[g].pc # "uninit_ring"
    PROVE  RingsInv'
  <1>1. SUFFICES ASSUME Undivided PROVE PulledInv' /\ PublisherHasRing'
    BY DEF RingsInv
  <1>2. PulledInv /\ PublisherHasRing
    BY <1>1 DEF IInv, RingsInv
  <1>3. PulledInv'
    BY <1>2 DEF PulledInv, Others
  <1>4. \A q \in Sources : Settled(q)' => Settled(q) /\ role'[q].key = role[q].key
    BY SettledKept DEF Exists
  <1>. QED  BY <1>2, <1>3, <1>4, HasRingFrame

(* The listener's thread adds the publisher's ring.                        *)
LEMMA AddRingInv ==
    ASSUME IInv, NEW g \in Groups, AddRing(g)
    PROVE  IInv'
  <1>. DEFINE k == worker[g].key
  <1>1. /\ PlaceInv(g) /\ TodoInv(g) /\ worker \in [Groups -> Worker]
        /\ worker[g].pc = "pub_add" /\ Goto(g, "pub_set") /\ m_map_array' = m_map_array \cup {k}
        /\ UNCHANGED <<m_map_push_2_pushlisher, m_list_role, m_map_role, m_list_reconnect, role, lost>>
    BY InvFacts DEF AddRing, At
  <1>2. Others(g) /\ Fields(g, "pub_set", worker[g].todo, worker[g].cur, k, worker[g].ret)
    BY <1>1, SetGoto DEF Steps
  <1>3. PlaceInv(g)' /\ TodoInv(g)'
    BY <1>1, <1>2
       DEF PlaceInv, TodoInv, Fields, Steps, ListenSteps, RelaySteps, MakeSteps, CloseSteps
  <1>4. k \in Streams /\ m_map_array' \subseteq Streams
    BY <1>1, WorkerFields DEF IInv, TypeOK, PlaceInv, Steps
  <1>5. RingInv /\ RingHasOwner
    BY DEF IInv
  <1>6. RingInv'
    <2>1. ASSUME NEW h \in Groups, h # g, worker[h].pc = "uninit_name", worker[h].cur \in Publishers
          PROVE  worker[h].key # k
      <3>1. m_map_push_2_pushlisher[worker[h].key] \in Publishers
        BY <2>1, CloserHasName DEF CloseSteps, NameOut, Sources
      <3>. QED  BY <1>1, <1>5, <3>1 DEF RingInv
    <2>. QED  BY <1>1, <1>2, <1>5, <2>1 DEF RingInv, Others, Fields
  <1>7. RingHasOwner'
    BY <1>1, <1>2, <1>5 DEF RingHasOwner, Others, Fields
  <1>8. \A r \in Sources : NameOut(g, r)' <=> NameOut(g, r)
    BY <1>1, <1>2 DEF NameOut, Fields
  <1>9. RingsInv'
    BY <1>1, <1>2, MoreRings DEF Fields, MakeSteps, CloseSteps
  <1>. QED  BY <1>1, <1>2, <1>3, <1>4, <1>6, <1>7, <1>8, <1>9, RingStep DEF Fields, MakeSteps

(* A puller's ring is added, after its name.                               *)
LEMMA AddPulledRingInv ==
    ASSUME IInv, NEW g \in Groups, AddPulledRing(g)
    PROVE  IInv'
  <1>. DEFINE k == worker[g].key
  <1>1. /\ PlaceInv(g) /\ TodoInv(g) /\ worker \in [Groups -> Worker]
        /\ worker[g].pc = "pull_add" /\ Goto(g, "push") /\ m_map_array' = m_map_array \cup {k}
        /\ UNCHANGED <<m_map_push_2_pushlisher, m_list_role, m_map_role, m_list_reconnect, role, lost>>
    BY InvFacts DEF AddPulledRing, At
  <1>2. Others(g) /\ Fields(g, "push", worker[g].todo, worker[g].cur, k, worker[g].ret)
    BY <1>1, SetGoto DEF Steps
  <1>3. PlaceInv(g)' /\ TodoInv(g)'
    BY <1>1, <1>2
       DEF PlaceInv, TodoInv, Fields, Sources, Steps, ListenSteps, RelaySteps, MakeSteps, CloseSteps
  <1>4. k \in Streams /\ m_map_array' \subseteq Streams
    BY <1>1, WorkerFields DEF IInv, TypeOK, PlaceInv, Steps
  <1>5. RingInv /\ RingHasOwner
    BY DEF IInv
  <1>6. m_map_push_2_pushlisher[k] = worker[g].cur /\ worker[g].cur \in Pullers
    BY <1>1, MakerHasName DEF MakeSteps, PlaceInv
  <1>7. RingInv'
    <2>1. ASSUME NEW h \in Groups, h # g, worker[h].pc = "uninit_name", worker[h].cur \in Publishers
          PROVE  worker[h].key # k
      <3>1. m_map_push_2_pushlisher[worker[h].key] \in Publishers
        BY <2>1, CloserHasName DEF CloseSteps, NameOut, Sources
      <3>. QED  BY <1>6, <3>1, ServerAssumption
    <2>. QED  BY <1>1, <1>2, <1>5, <2>1 DEF RingInv, Others, Fields
  <1>8. RingHasOwner'
    BY <1>1, <1>2, <1>5, <1>6, ServerAssumption DEF RingHasOwner, Others, Fields
  <1>9. \A r \in Sources : NameOut(g, r)' <=> NameOut(g, r)
    BY <1>1, <1>2 DEF NameOut, Fields
  <1>10. RingsInv'
    BY <1>1, <1>2, MoreRings DEF Fields, MakeSteps, CloseSteps
  <1>. QED  BY <1>1, <1>2, <1>3, <1>4, <1>7, <1>8, <1>9, <1>10, RingStep DEF Fields, MakeSteps

(* The next step of uninit.                                                *)
LEMMA NextUninit ==
    ASSUME NEW g \in Groups, worker[g].cur \in Sources, AfterUninit(g)
    PROVE  /\ worker[g].cur \in Publishers /\ At(g, "uninit_ring") => Goto(g, "uninit_name")
           /\ worker[g].cur \in Publishers /\ At(g, "uninit_name") => Goto(g, "delete")
           /\ worker[g].cur \in Pullers /\ At(g, "uninit_name") => Goto(g, "uninit_ring")
           /\ worker[g].cur \in Pullers /\ At(g, "uninit_ring") => Goto(g, "delete")
  <1>. DEFINE steps == Uninit(worker[g].cur)
  <1>1. PICK i \in 2 .. Len(steps) : At(g, steps[i - 1]) /\ Goto(g, steps[i])
    BY DEF AfterUninit
  <1>2. CASE worker[g].cur \in Publishers
    <2>1. steps = <<"uninit_ring", "uninit_name", "delete">> /\ worker[g].cur \notin Pullers
      BY <1>2, ServerAssumption DEF Uninit
    <2>2. CASE i = 2
      BY <1>1, <2>1, <2>2 DEF At
    <2>3. CASE i = 3
      BY <1>1, <2>1, <2>3 DEF At
    <2>4. i = 2 \/ i = 3
      BY <2>1
    <2>. QED  BY <2>2, <2>3, <2>4
  <1>3. CASE worker[g].cur \in Pullers
    <2>1. steps = <<"uninit_name", "uninit_ring", "delete">> /\ worker[g].cur \notin Publishers
      BY <1>3, ServerAssumption DEF Uninit
    <2>2. CASE i = 2
      BY <1>1, <2>1, <2>2 DEF At
    <2>3. CASE i = 3
      BY <1>1, <2>1, <2>3 DEF At
    <2>4. i = 2 \/ i = 3
      BY <2>1
    <2>. QED  BY <2>2, <2>3, <2>4
  <1>. QED  BY <1>2, <1>3 DEF Sources

(* A ring is removed.                                                      *)
LEMMA UninitRingInv ==
    ASSUME IInv, NEW g \in Groups, UninitRing(g)
    PROVE  IInv'
  <1>. DEFINE k == worker[g].key
              r == worker[g].cur
  <1>1. /\ PlaceInv(g) /\ TodoInv(g) /\ worker \in [Groups -> Worker]
        /\ worker[g].pc = "uninit_ring" /\ AfterUninit(g) /\ m_map_array' = m_map_array \ {k}
        /\ UNCHANGED <<m_map_push_2_pushlisher, m_list_role, m_map_role, m_list_reconnect, role, lost>>
    BY InvFacts DEF UninitRing, At
  <1>2. r \in Sources
    BY <1>1 DEF PlaceInv
  <1>3. PICK pc \in {"uninit_name", "delete"} :
            /\ Goto(g, pc)
            /\ pc = "uninit_name" => r \in Publishers /\ r \notin Pullers
            /\ pc = "delete" => r \in Pullers
    BY <1>1, <1>2, NextUninit, ServerAssumption DEF At, Sources
  <1>4. Others(g) /\ Fields(g, pc, worker[g].todo, r, k, worker[g].ret)
    BY <1>1, <1>3, SetGoto DEF Steps
  <1>5. PlaceInv(g)' /\ TodoInv(g)'
    BY <1>1, <1>2, <1>4
       DEF PlaceInv, TodoInv, Fields, Sources, Roles, Steps, ListenSteps, RelaySteps, MakeSteps,
           CloseSteps
  <1>6. RingInv /\ RingHasOwner /\ m_map_array' \subseteq Streams
    BY <1>1 DEF IInv, TypeOK
  <1>7. RingInv'
    BY <1>1, <1>4, <1>6 DEF RingInv, Others, Fields
  <1>8. RingHasOwner'
    BY <1>1, <1>4, <1>6 DEF RingHasOwner, Others, Fields
  <1>9. \A q \in Sources : NameOut(g, q)' <=> NameOut(g, q)
    BY <1>1, <1>3, <1>4 DEF NameOut, Fields
  <1>10. RingsInv'
    <2>1. SUFFICES ASSUME Undivided PROVE PulledInv' /\ PublisherHasRing'
      BY DEF RingsInv
    <2>2. PulledInv /\ PublisherHasRing
      BY <2>1 DEF IInv, RingsInv
    <2>3. m_map_push_2_pushlisher[k] \in {None, r} /\ r # None /\ worker[g].pc \in CloseSteps
      BY <1>1, <1>2, <2>2, ServerAssumption DEF PulledInv, Sources, CloseSteps
    <2>4. ASSUME NEW h \in Groups, h # g, worker[h].pc \in {"pub_set", "push"}
          PROVE  worker[h].key # k
      <3>1. CASE worker[h].pc = "push"
        <4>1. m_map_push_2_pushlisher[worker[h].key] = worker[h].cur /\ worker[h].cur \in Sources
          BY <3>1, MakerHasName DEF MakeSteps
        <4>2. worker[h].cur \in Roles /\ Makes(h, worker[h].cur)
          BY <3>1, <4>1 DEF Makes, MakeSteps, Sources, Roles
        <4>3. worker[h].cur # r
          BY <2>3, <4>2, ClosedHeld DEF IInv, OwnerInv
        <4>. QED  BY <2>3, <4>1, <4>3, ServerAssumption DEF Sources
      <3>2. CASE worker[h].pc = "pub_set" /\ r \in Publishers
        <4>1. m_map_push_2_pushlisher[k] = r
          BY <1>1, <1>2, <2>3, <3>2, CloserHasName, ServerAssumption DEF NameOut
        <4>. QED  BY <1>6, <3>2, <4>1 DEF RingInv
      <3>3. CASE worker[h].pc = "pub_set" /\ r \in Pullers
        BY <2>1, <2>4, <3>3 DEF Undivided
      <3>. QED  BY <1>2, <2>4, <3>1, <3>2, <3>3 DEF Sources
    <2>5. PulledInv'
      BY <1>1, <1>4, <2>2, <2>4 DEF PulledInv, Others, Fields
    <2>6. ASSUME NEW q \in Sources, Settled(q)'
          PROVE  role'[q].key \in m_map_array'
      <3>1. Settled(q)
        BY <1>1, <1>4, <2>6, SettledKept DEF Exists, Fields, CloseSteps
      <3>2. q # r
        BY <2>3, <3>1, SettledIs
      <3>3. m_map_push_2_pushlisher[role[q].key] = q
        <4>1. Exists(q) /\ \A h \in Groups : ~NameOut(h, q)
          BY <3>1, SettledIs DEF NameOut, CloseSteps
        <4>. QED  BY <4>1 DEF IInv, NameInv
      <3>4. role[q].key # k
        BY <2>3, <3>2, <3>3, ServerAssumption DEF Sources
      <3>. QED  BY <1>1, <2>2, <3>1, <3>4 DEF PublisherHasRing, Sources
    <2>. QED  BY <2>5, <2>6 DEF PublisherHasRing, Sources
  <1>. QED  BY <1>1, <1>4, <1>5, <1>6, <1>7, <1>8, <1>9, <1>10, RingStep DEF Fields, MakeSteps

-----------------------------------------------------------------------------
(* Steps by which a role object comes, goes or changes hands.              *)

(* The threads that have another role in their hands see nothing of it.    *)
LEMMA OthersPlace ==
    ASSUME IInv, NEW g \in Groups, Others(g), PlaceInv(g)' /\ TodoInv(g)',
           \A h \in Groups \ {g} : m_map_role'[h] = m_map_role[h],
           NEW r \in Roles, \A q \in Roles \ {r} : role'[q] = role[q],
           \A h \in Groups \ {g} : worker[h].cur = r => worker[h].pc \notin MakeSteps \cup CloseSteps
    PROVE  \A h \in Groups : PlaceInv(h)' /\ TodoInv(h)'
  <1>1. SUFFICES ASSUME NEW h \in Groups, h # g
                 PROVE  PlaceInv(h)' /\ TodoInv(h)'
    OBVIOUS
  <1>2. PlaceInv(h) /\ TodoInv(h)
    BY InvFacts
  <1>3. worker'[h] = worker[h] /\ m_map_role'[h] = m_map_role[h]
    BY <1>1 DEF Others
  <1>4. worker[h].pc \in MakeSteps \cup CloseSteps => role'[worker[h].cur].key = role[worker[h].cur].key
    BY <1>1, <1>2, CurIsRole
  <1>. QED  BY <1>2, <1>3, <1>4, PlaceFrame

(* The role in a thread's hands exists.                                    *)
LEMMA HandsExist ==
    ASSUME IInv, NEW h \in Groups, worker[h].pc \in MakeSteps \cup CloseSteps
    PROVE  Exists(worker[h].cur)
  BY MakerHasName, ClosedHeld

(* A push adds its role to the queue, which had it not.                    *)
LEMMA QueueAppend ==
    ASSUME m_list_role \in Seq(Roles), NEW r \in Roles, m_list_role' = Append(m_list_role, r),
           ~IsQueued(r),
           \A i, j \in DOMAIN m_list_role : m_list_role[i] = m_list_role[j] => i = j
    PROVE  /\ m_list_role' \in Seq(Roles)
           /\ \A i, j \in DOMAIN m_list_role' : m_list_role'[i] = m_list_role'[j] => i = j
           /\ \A q \in Roles : IsQueued(q)' <=> IsQueued(q) \/ q = r
  <1>. DEFINE s == m_list_role
              n == Len(s)
              t == m_list_role'
  <1>1. /\ t \in Seq(Roles) /\ n \in Nat /\ DOMAIN s = 1 .. n /\ DOMAIN t = 1 .. (n + 1)
        /\ t[n + 1] = r /\ \A i \in 1 .. n : t[i] = s[i]
    OBVIOUS
  <1>2. \A i \in 1 .. n : s[i] # r
    BY <1>1 DEF IsQueued
  <1>3. ASSUME NEW i \in DOMAIN t, NEW j \in DOMAIN t, t[i] = t[j]
        PROVE  i = j
    <2>. HIDE DEF s, n, t
    <2>1. (i \in 1 .. n \/ i = n + 1) /\ (j \in 1 .. n \/ j = n + 1)
      BY <1>1
    <2>2. \A a, b \in 1 .. n : s[a] = s[b] => a = b
      BY <1>1 DEF s
    <2>. QED  BY <1>1, <1>2, <1>3, <2>1, <2>2
  <1>4. ASSUME NEW q \in Roles
        PROVE  IsQueued(q)' <=> IsQueued(q) \/ q = r
    <2>1. IsQueued(q)' <=> \E i \in 1 .. (n + 1) : t[i] = q
      BY <1>1 DEF IsQueued
    <2>2. IsQueued(q) <=> \E i \in 1 .. n : s[i] = q
      BY <1>1 DEF IsQueued
    <2>. HIDE DEF s, n, t
    <2>3. 1 .. (n + 1) = (1 .. n) \cup {n + 1}
      BY <1>1
    <2>. QED  BY <1>1, <2>1, <2>2, <2>3
  <1>. QED  BY <1>1, <1>3, <1>4

(* A pop takes the first role, which is there no more.                     *)
LEMMA QueueTail ==
    ASSUME m_list_role \in Seq(Roles), m_list_role # << >>, m_list_role' = Tail(m_list_role),
           \A i, j \in DOMAIN m_list_role : m_list_role[i] = m_list_role[j] => i = j
    PROVE  /\ m_list_role' \in Seq(Roles)
           /\ Head(m_list_role) \in Roles /\ IsQueued(Head(m_list_role))
           /\ \A i, j \in DOMAIN m_list_role' : m_list_role'[i] = m_list_role'[j] => i = j
           /\ \A q \in Roles : IsQueued(q)' <=> IsQueued(q) /\ q # Head(m_list_role)
  <1>. DEFINE s == m_list_role
              n == Len(s)
              t == m_list_role'
              r == Head(s)
  <1>1. /\ t \in Seq(Roles) /\ n \in Nat \ {0} /\ DOMAIN s = 1 .. n /\ DOMAIN t = 1 .. (n - 1)
        /\ r = s[1] /\ r \in Roles /\ \A i \in 1 .. (n - 1) : t[i] = s[i + 1]
    OBVIOUS
  <1>2. \A a, b \in 1 .. n : s[a] = s[b] => a = b
    BY <1>1
  <1>3. IsQueued(r)
    <2>1. 1 \in DOMAIN m_list_role
      BY <1>1
    <2>. QED  BY <1>1, <2>1 DEF IsQueued
  <1>4. ASSUME NEW i \in DOMAIN t, NEW j \in DOMAIN t, t[i] = t[j]
        PROVE  i = j
    <2>. HIDE DEF s, n, t
    <2>1. i + 1 \in 1 .. n /\ j + 1 \in 1 .. n /\ i \in Int /\ j \in Int
      BY <1>1
    <2>2. i + 1 = j + 1
      BY <1>1, <1>2, <1>4, <2>1
    <2>. QED  BY <2>1, <2>2
  <1>5. ASSUME NEW q \in Roles
        PROVE  IsQueued(q)' <=> IsQueued(q) /\ q # r
    <2>1. IsQueued(q)' <=> \E i \in 1 .. (n - 1) : t[i] = q
      BY <1>1 DEF IsQueued
    <2>2. IsQueued(q) <=> \E i \in 1 .. n : s[i] = q
      BY <1>1 DEF IsQueued
    <2>. HIDE DEF s, n, t, r
    <2>3. ASSUME NEW i \in 1 .. (n - 1), t[i] = q
          PROVE  q # r /\ \E j \in 1 .. n : s[j] = q
      <3>1. i + 1 \in 1 .. n /\ 1 \in 1 .. n /\ i + 1 # 1
        BY <1>1
      <3>. QED  BY <1>1, <1>2, <2>3, <3>1
    <2>4. ASSUME NEW j \in 1 .. n, s[j] = q, q # r
          PROVE  \E i \in 1 .. (n - 1) : t[i] = q
      <3>1. j # 1
        BY <1>1, <2>4
      <3>2. j - 1 \in 1 .. (n - 1) /\ (j - 1) + 1 = j
        BY <1>1, <3>1
      <3>. QED  BY <1>1, <2>4, <3>2
    <2>. QED  BY <2>1, <2>2, <2>3, <2>4
  <1>. QED  BY <1>1, <1>3, <1>4, <1>5

(* A new source is made under a name that was free.                        *)
LEMMA RegisterStep ==
    ASSUME IInv, NEW g \in Groups, NEW r \in Sources, ~Exists(r),
           NEW k \in Streams, k = worker[g].key, m_map_push_2_pushlisher[k] = None,
           NEW http \in {"off", "waiting"}, Update(r, NewRole(k, http)),
           m_map_push_2_pushlisher' = [m_map_push_2_pushlisher EXCEPT ![k] = r],
           NEW pc \in MakeSteps, worker[g].pc \notin MakeSteps \cup CloseSteps,
           Others(g), Fields(g, pc, worker[g].todo, r, k, worker[g].ret),
           UNCHANGED <<m_map_array, m_list_role, m_map_role, m_list_reconnect, lost>>,
           PlaceInv(g)' /\ TodoInv(g)', RingInv',
           Undivided /\ pc = "push" => k \in m_map_array
    PROVE  IInv'
  <1>1. TypeOK /\ OwnerInv /\ NameIsLive /\ NameInv /\ RingHasOwner /\ ListenerInv
    BY DEF IInv
  <1>2. /\ role' \in [Roles -> Role] /\ role'[r].key = k /\ Exists(r)'
        /\ \A q \in Roles \ {r} : role'[q] = role[q]
        /\ r \in Roles /\ r # None
    <2>1. r \in Roles /\ r # None /\ role \in [Roles -> Role]
      BY <1>1, ServerAssumption DEF Sources, Roles, TypeOK
    <2>. QED  BY <2>1, NewRoleType, UpdateRole DEF Exists
  <1>3. TypeOK'
    <2>1. m_map_push_2_pushlisher' \in [Streams -> Publishers \cup Pullers \cup {None}]
      BY <1>1 DEF TypeOK, Sources
    <2>2. \A q \in Roles : Exists(q)' <=> role'[q].key # None
      BY <1>1, <1>2, ServerAssumption DEF TypeOK, Exists
    <2>. QED  BY <1>1, <1>2, <2>1, <2>2 DEF TypeOK, Others
  <1>4. \A h \in Groups : PlaceInv(h)' /\ TodoInv(h)'
    <2>1. \A h \in Groups \ {g} : worker[h].cur = r => worker[h].pc \notin MakeSteps \cup CloseSteps
      BY HandsExist
    <2>. QED  BY <1>2, <2>1, OthersPlace
  <1>5. OwnerInv'
    <2>1. \A h \in Groups : \A q \in Roles : Makes(h, q)' <=> Makes(h, q) \/ (h = g /\ q = r)
      BY DEF Makes, Others, Fields
    <2>2. \A h \in Groups : ~Makes(h, r) /\ r \notin m_map_role[h]
      BY <1>1, <1>2 DEF OwnerInv
    <2>3. ~IsQueued(r) /\ \A q \in Roles : IsQueued(q)' <=> IsQueued(q)
      BY <1>1, <1>2 DEF OwnerInv, IsQueued
    <2>4. \A q \in Roles : Exists(q)' <=> Exists(q) \/ q = r
      BY <1>2 DEF Exists
    <2>. QED  BY <1>1, <2>1, <2>2, <2>3, <2>4 DEF OwnerInv
  <1>6. NameIsLive'
    <2>1. ASSUME NEW j \in Streams \ lost, m_map_push_2_pushlisher'[j] # None
          PROVE  /\ role'[m_map_push_2_pushlisher'[j]].state # "none"
                 /\ role'[m_map_push_2_pushlisher'[j]].key = j
      <3>1. CASE j = k
        BY <1>1, <1>2, <3>1 DEF TypeOK, Exists
      <3>2. CASE j # k
        <4>. DEFINE p == m_map_push_2_pushlisher[j]
        <4>1. m_map_push_2_pushlisher'[j] = p /\ p \in Roles
          BY <1>1, <2>1, <3>2 DEF TypeOK, Roles
        <4>2. role[p].state # "none" /\ role[p].key = j
          BY <1>1, <2>1, <4>1 DEF NameIsLive, Exists
        <4>3. p # r
          BY <4>2 DEF Exists
        <4>. QED  BY <1>2, <4>1, <4>2, <4>3
      <3>. QED  BY <3>1, <3>2
    <2>. QED  BY <2>1 DEF NameIsLive, Exists
  <1>7. NameInv'
    <2>1. ASSUME NEW h \in Groups, NEW q \in Sources, NameOut(h, q)'
          PROVE  NameOut(h, q) /\ h # g /\ q # r /\ worker'[h] = worker[h]
      <3>1. h # g
        BY <2>1 DEF NameOut, Fields, MakeSteps
      <3>2. worker'[h] = worker[h] /\ NameOut(h, q)
        BY <2>1, <3>1 DEF Others, NameOut
      <3>. QED  BY <3>1, <3>2, HandsExist DEF NameOut, CloseSteps
    <2>2. ASSUME NEW h \in Groups, NEW q \in Sources, NameOut(h, q)
          PROVE  NameOut(h, q)'
      BY <2>2 DEF NameOut, Others, CloseSteps
    <2>3. ASSUME NEW q \in Sources, Exists(q)'
          PROVE  \/ m_map_push_2_pushlisher'[role'[q].key] = q
                 \/ \E h \in Groups : NameOut(h, q)'
      <3>1. CASE q = r
        BY <1>1, <1>2, <3>1 DEF TypeOK
      <3>2. CASE q # r
        <4>1. q \in Roles /\ q # None
          BY ServerAssumption DEF Sources, Roles
        <4>2. Exists(q) /\ role'[q] = role[q]
          BY <1>2, <2>3, <3>2, <4>1 DEF Exists
        <4>3. role[q].key \in Streams
          BY <1>1, <4>1, <4>2 DEF TypeOK, Role
        <4>. QED  BY <1>1, <2>2, <4>1, <4>2, <4>3 DEF NameInv, TypeOK
      <3>. QED  BY <3>1, <3>2
    <2>4. ASSUME NEW h \in Groups, NEW q \in Sources, NameOut(h, q)', worker'[h].key \notin lost
          PROVE  m_map_push_2_pushlisher'[worker'[h].key] # q
      <3>1. NameOut(h, q) /\ h # g /\ q # r /\ worker'[h] = worker[h]
        BY <2>1, <2>4
      <3>2. worker[h].key \in Streams
        BY <3>1, ClosedHeld DEF NameOut, CloseSteps
      <3>3. m_map_push_2_pushlisher[worker[h].key] # q
        BY <1>1, <2>4, <3>1 DEF NameInv
      <3>. QED  BY <1>1, <3>1, <3>2, <3>3 DEF TypeOK
    <2>. QED  BY <2>3, <2>4 DEF NameInv
  <1>8. RingHasOwner'
    <2>1. SUFFICES ASSUME NEW j \in m_map_array \ lost, j # k
                   PROVE  \/ m_map_push_2_pushlisher'[j] # None
                          \/ \E h \in Groups : worker'[h].key = j /\ worker'[h].pc \in {"pub_set", "uninit_ring"}
      BY <1>1, <1>2 DEF RingHasOwner, TypeOK
    <2>2. m_map_push_2_pushlisher'[j] = m_map_push_2_pushlisher[j]
      BY <1>1, <2>1 DEF TypeOK
    <2>. QED  BY <1>1, <2>1, <2>2 DEF RingHasOwner, Others
  <1>9. ListenerInv'
    BY <1>1 DEF ListenerInv
  <1>10. RingsInv'
    <2>1. SUFFICES ASSUME Undivided PROVE PulledInv' /\ PublisherHasRing'
      BY DEF RingsInv
    <2>2. PulledInv /\ PublisherHasRing
      BY <2>1 DEF IInv, RingsInv
    <2>3. ASSUME NEW h \in Groups, worker'[h].pc = "uninit_ring"
          PROVE  m_map_push_2_pushlisher'[worker'[h].key] \in {None, worker'[h].cur}
      <3>1. h # g /\ worker'[h] = worker[h]
        BY <2>3 DEF Others, Fields, MakeSteps
      <3>2. worker[h].key \in Streams /\ worker[h].cur \in Sources
        BY <2>3, <3>1, ClosedHeld, InvFacts DEF CloseSteps, PlaceInv
      <3>3. worker[h].cur \in Publishers
        BY <2>1, <3>1, <3>2 DEF Undivided, Sources
      <3>4. m_map_push_2_pushlisher[worker[h].key] = worker[h].cur /\ worker[h].cur # None
        BY <2>3, <3>1, <3>2, <3>3, CloserHasName, ServerAssumption DEF NameOut, CloseSteps
      <3>. QED  BY <1>1, <3>1, <3>2, <3>4 DEF TypeOK
    <2>4. PulledInv'
      BY <2>1, <2>2, <2>3 DEF PulledInv, Others, Fields, MakeSteps
    <2>5. ASSUME NEW q \in Sources, Settled(q)'
          PROVE  Settled(q) /\ role'[q].key = role[q].key
      <3>1. q # r
        BY <2>5 DEF Settled, Creating, Fields, MakeSteps
      <3>. QED  BY <1>2, <2>5, <3>1, SettledKept DEF Exists, Sources, Roles
    <2>. QED  BY <2>2, <2>4, <2>5, HasRingFrame
  <1>11. LookupInv'
    BY DEF LookupInv, FoundInv, Fields, MakeSteps
  <1>. QED  BY <1>3, <1>4, <1>5, <1>6, <1>7, <1>8, <1>9, <1>10, <1>11 DEF IInv

(* The listener's thread registers the publisher.                          *)
LEMMA RegisterPublisherInv ==
    ASSUME IInv, NEW g \in Groups, RegisterPublisher(g)
    PROVE  IInv'
  <1>. DEFINE k == worker[g].key
  <1>1. /\ PlaceInv(g) /\ TodoInv(g) /\ worker \in [Groups -> Worker] /\ worker[g].pc = "pub_set"
        /\ UNCHANGED <<m_map_array, m_list_role, m_map_role, m_list_reconnect, lost>>
    BY InvFacts DEF RegisterPublisher, At
  <1>2. k \in Streams
    BY <1>1, WorkerFields DEF PlaceInv, Steps
  <1>3. CASE Taken(g)
    <2>1. Goto(g, "events") /\ Still /\ m_map_push_2_pushlisher[k] # None
      BY <1>1, <1>3 DEF RegisterPublisher, Still, Taken, Registered, maps
    <2>2. Others(g) /\ Fields(g, "events", worker[g].todo, worker[g].cur, k, worker[g].ret)
      BY <1>1, <2>1, SetGoto DEF Phases
    <2>3. PlaceInv(g)' /\ TodoInv(g)'
      BY <1>1, <2>1, <2>2
         DEF PlaceInv, TodoInv, Fields, Still, Steps, ListenSteps, RelaySteps, MakeSteps, CloseSteps
    <2>. QED  BY <1>1, <2>1, <2>2, <2>3, QuietMove DEF Fields, MakeSteps, CloseSteps
  <1>4. CASE ~Taken(g)
    <2>1. m_map_push_2_pushlisher[k] = None
      BY <1>4 DEF Taken, Registered
    <2>2. PICK r \in Free(Publishers) :
            /\ Update(r, NewRole(k, AskHttp))
            /\ m_map_push_2_pushlisher' = [m_map_push_2_pushlisher EXCEPT ![k] = r]
            /\ worker' = [worker EXCEPT ![g].pc = "push", ![g].cur = r]
      BY <1>4 DEF RegisterPublisher
    <2>3. r \in Sources /\ r \in Roles /\ ~Exists(r) /\ AskHttp \in {"off", "waiting"}
      BY <2>2 DEF Free, Sources, Roles, AskHttp
    <2>4. Others(g) /\ Fields(g, "push", worker[g].todo, r, k, worker[g].ret)
      BY <1>1, <2>2, <2>3, SetCur DEF Steps
    <2>5. role'[r].key = k /\ k # None
      BY <1>1, <1>2, <2>2, <2>3, NewRoleType, UpdateRole, InvFacts, ServerAssumption
    <2>6. PlaceInv(g)'
      BY <1>1, <2>3, <2>4, <2>5
         DEF PlaceInv, Fields, Steps, ListenSteps, RelaySteps, MakeSteps, CloseSteps
    <2>7. TodoInv(g)'
      BY <1>1, <2>4
         DEF PlaceInv, TodoInv, Fields, Steps, ListenSteps, RelaySteps, MakeSteps, CloseSteps
    <2>8. RingInv'
      <3>1. ASSUME NEW h \in Groups
            PROVE  worker'[h].pc \notin {"pub_add", "pub_set"}
        <4>1. h # g => worker'[h] = worker[h] /\ g = Listening /\ PlaceInv(h)
          BY <1>1, <2>4, InvFacts DEF Others, PlaceInv, ListenSteps
        <4>. QED  BY <2>4, <4>1 DEF Fields, PlaceInv, ListenSteps
      <3>2. RingInv
        BY DEF IInv
      <3>. QED  BY <1>1, <2>4, <3>1, <3>2 DEF RingInv, Others, Fields
    <2>9. Undivided => k \in m_map_array
      BY <1>1 DEF IInv, RingsInv, PulledInv
    <2>. QED
      BY <1>1, <1>2, <2>1, <2>2, <2>3, <2>4, <2>6, <2>7, <2>8, <2>9, RegisterStep
         DEF MakeSteps, CloseSteps
  <1>. QED  BY <1>3, <1>4

(* A puller is connected and registered.                                   *)
LEMMA ConnectPullerInv ==
    ASSUME IInv, NEW g \in Groups, ConnectPuller(g)
    PROVE  IInv'
  <1>. DEFINE k == worker[g].key
  <1>1. /\ PlaceInv(g) /\ TodoInv(g) /\ worker \in [Groups -> Worker] /\ worker[g].pc = "connect"
        /\ UNCHANGED <<m_map_array, m_list_role, m_map_role, m_list_reconnect, lost>>
    BY InvFacts DEF ConnectPuller, At
  <1>2. k \in Streams
    BY <1>1, WorkerFields DEF PlaceInv, Steps
  <1>3. CASE StartFailed(g) /\ UNCHANGED <<role, m_map_push_2_pushlisher>>
    <2>1. Still
      BY <1>1, <1>3 DEF Still, maps
    <2>. QED  BY <1>1, <1>3, <2>1, StartFailedPlace, QuietMove DEF MakeSteps, CloseSteps
  <1>4. ASSUME NEW r \in Free(Pullers), m_map_push_2_pushlisher[k] = None,
               Update(r, NewRole(k, "off")),
               m_map_push_2_pushlisher' = [m_map_push_2_pushlisher EXCEPT ![k] = r],
               worker' = [worker EXCEPT ![g].pc = "pull_add", ![g].cur = r]
        PROVE  IInv'
    <2>1. r \in Sources /\ r \in Roles /\ r \in Pullers /\ ~Exists(r)
      BY DEF Free, Sources, Roles
    <2>2. Others(g) /\ Fields(g, "pull_add", worker[g].todo, r, k, worker[g].ret)
      BY <1>1, <1>4, <2>1, SetCur DEF Steps
    <2>3. role'[r].key = k /\ k # None
      BY <1>1, <1>2, <1>4, <2>1, NewRoleType, UpdateRole, InvFacts, ServerAssumption
    <2>4. PlaceInv(g)'
      BY <1>1, <2>1, <2>2, <2>3
         DEF PlaceInv, Fields, Steps, ListenSteps, RelaySteps, MakeSteps, CloseSteps
    <2>5. TodoInv(g)'
      BY <1>1, <2>2
         DEF PlaceInv, TodoInv, Fields, Steps, ListenSteps, RelaySteps, MakeSteps, CloseSteps
    <2>6. RingInv'
      <3>1. ASSUME NEW h \in Groups, worker'[h].pc \in {"pub_add", "pub_set"}
            PROVE  m_map_push_2_pushlisher'[worker'[h].key] \notin Publishers
        <4>1. h # g /\ worker'[h] = worker[h]
          BY <2>2, <3>1 DEF Others, Fields
        <4>2. m_map_push_2_pushlisher[worker[h].key] \notin Publishers
          BY <3>1, <4>1 DEF IInv, RingInv
        <4>3. worker[h].key \in Streams /\ m_map_push_2_pushlisher \in [Streams -> Publishers \cup Pullers \cup {None}]
          BY <1>1, <3>1, <4>1, InvFacts, WorkerFields DEF PlaceInv, Steps, IInv, TypeOK
        <4>. QED  BY <1>4, <2>1, <4>1, <4>2, <4>3, ServerAssumption
      <3>2. RingInv
        BY DEF IInv
      <3>. QED  BY <1>1, <2>2, <3>1, <3>2 DEF RingInv, Others, Fields
    <2>. QED
      BY <1>1, <1>2, <1>4, <2>1, <2>2, <2>4, <2>5, <2>6, RegisterStep DEF MakeSteps, CloseSteps
  <1>. QED  BY <1>3, <1>4 DEF ConnectPuller, Registered

(* The player is made and goes onto the queue.                             *)
LEMMA PushPlayerInv ==
    ASSUME IInv, NEW g \in Groups, PushPlayer(g)
    PROVE  IInv'
  <1>. DEFINE k == worker[g].key
  <1>1. /\ PlaceInv(g) /\ TodoInv(g) /\ worker \in [Groups -> Worker] /\ worker[g].pc = "push_player"
        /\ worker' = [worker EXCEPT ![g].pc = "events", ![g].cur = None]
        /\ UNCHANGED <<maps, m_map_role, m_list_reconnect, lost>>
    BY InvFacts DEF PushPlayer, At
  <1>2. PICK r \in Free(Players) : Update(r, NewRole(k, AskHttp)) /\ m_list_role' = Append(m_list_role, r)
    BY DEF PushPlayer
  <1>3. TypeOK /\ OwnerInv /\ NameIsLive /\ NameInv /\ RingInv /\ RingHasOwner /\ ListenerInv
    BY DEF IInv
  <1>4. /\ k \in Streams /\ r \in Roles /\ r \notin Sources /\ ~Exists(r)
        /\ AskHttp \in {"off", "waiting", "closing"}
    BY <1>1, <1>2, WorkerFields, ServerAssumption DEF PlaceInv, Steps, Free, Roles, Sources, AskHttp
  <1>5. /\ role' \in [Roles -> Role] /\ role'[r].key = k /\ role'[r].state # "none"
        /\ \A q \in Roles \ {r} : role'[q] = role[q]
    BY <1>2, <1>3, <1>4, NewRoleType, UpdateRole DEF TypeOK
  <1>6. Others(g) /\ Fields(g, "events", worker[g].todo, None, k, worker[g].ret)
    BY <1>1, SetCur DEF Phases
  <1>7. PlaceInv(g)' /\ TodoInv(g)'
    BY <1>1, <1>6
       DEF PlaceInv, TodoInv, Fields, Steps, ListenSteps, RelaySteps, MakeSteps, CloseSteps
  <1>8. \A h \in Groups : PlaceInv(h)' /\ TodoInv(h)'
    <2>1. \A h \in Groups \ {g} : worker[h].cur = r => worker[h].pc \notin MakeSteps \cup CloseSteps
      BY <1>4, HandsExist
    <2>. QED  BY <1>1, <1>4, <1>5, <1>6, <1>7, <2>1, OthersPlace
  <1>9. ~IsQueued(r) /\ \A h \in Groups : ~Makes(h, r) /\ r \notin m_map_role[h]
    BY <1>3, <1>4 DEF OwnerInv
  <1>10. /\ m_list_role' \in Seq(Roles)
         /\ \A i, j \in DOMAIN m_list_role' : m_list_role'[i] = m_list_role'[j] => i = j
         /\ \A q \in Roles : IsQueued(q)' <=> IsQueued(q) \/ q = r
    <2>1. m_list_role \in Seq(Roles) /\ \A i, j \in DOMAIN m_list_role : m_list_role[i] = m_list_role[j] => i = j
      BY <1>3 DEF TypeOK, OwnerInv
    <2>. QED  BY <1>2, <1>4, <1>9, <2>1, QueueAppend
  <1>11. TypeOK'
    <2>1. \A q \in Roles : Exists(q)' <=> role'[q].key # None
      BY <1>3, <1>4, <1>5, ServerAssumption DEF TypeOK, Exists
    <2>. QED  BY <1>1, <1>3, <1>5, <1>6, <1>10, <2>1 DEF TypeOK, Others, maps
  <1>12. OwnerInv'
    <2>1. \A h \in Groups : \A q \in Roles : Makes(h, q)' <=> Makes(h, q)
      BY <1>1, <1>6 DEF Makes, MakeSteps, Others, Fields
    <2>2. \A q \in Roles : Exists(q)' <=> Exists(q) \/ q = r
      BY <1>5 DEF Exists
    <2>. QED  BY <1>1, <1>3, <1>9, <1>10, <2>1, <2>2 DEF OwnerInv
  <1>13. \A q \in Sources : q \in Roles /\ role'[q] = role[q]
    BY <1>4, <1>5 DEF Sources, Roles
  <1>14. NameIsLive'
    BY <1>1, <1>3, <1>13 DEF NameIsLive, Exists, TypeOK, Sources, maps
  <1>15. NameInv'
    <2>1. \A h \in Groups : \A q \in Sources :
            /\ NameOut(h, q)' <=> NameOut(h, q)
            /\ NameOut(h, q) => worker'[h].key = worker[h].key
      BY <1>1, <1>6 DEF NameOut, Others, Fields
    <2>. QED  BY <1>1, <1>3, <1>13, <2>1 DEF NameInv, Exists, maps
  <1>16. RingInv' /\ RingHasOwner'
    <2>1. RingInv'
      BY <1>1, <1>3, <1>6 DEF RingInv, Others, Fields, maps
    <2>2. RingHasOwner'
      BY <1>1, <1>3, <1>6 DEF RingHasOwner, Others, Fields, maps
    <2>. QED  BY <2>1, <2>2
  <1>17. ListenerInv'
    BY <1>1, <1>3 DEF ListenerInv
  <1>18. RingsInv'
    <2>1. SUFFICES ASSUME Undivided PROVE PulledInv' /\ PublisherHasRing'
      BY DEF RingsInv
    <2>2. PulledInv /\ PublisherHasRing
      BY <2>1 DEF IInv, RingsInv
    <2>3. PulledInv'
      BY <1>1, <1>6, <2>2 DEF PulledInv, Others, Fields, maps
    <2>4. \A q \in Sources : Settled(q)' => Settled(q) /\ role'[q].key = role[q].key
      BY <1>1, <1>6, <1>13, SettledKept DEF Exists, MakeSteps, CloseSteps
    <2>. QED  BY <1>1, <2>2, <2>3, <2>4, HasRingFrame DEF maps
  <1>19. LookupInv'
    BY <1>6 DEF LookupInv, FoundInv, Fields
  <1>. QED  BY <1>8, <1>11, <1>12, <1>14, <1>15, <1>16, <1>17, <1>18, <1>19 DEF IInv

(* A publisher or puller goes onto the queue.                              *)
LEMMA PushRoleInv ==
    ASSUME IInv, NEW g \in Groups, PushRole(g)
    PROVE  IInv'
  <1>. DEFINE r == worker[g].cur
  <1>1. /\ PlaceInv(g) /\ TodoInv(g) /\ worker \in [Groups -> Worker] /\ worker[g].pc = "push"
        /\ worker' = [worker EXCEPT ![g].pc = worker[g].ret, ![g].cur = None]
        /\ m_list_role' = Append(m_list_role, r)
        /\ UNCHANGED <<maps, m_map_role, role, lost>>
    BY InvFacts DEF PushRole, At
  <1>2. TypeOK /\ OwnerInv /\ NameIsLive /\ NameInv /\ RingInv /\ RingHasOwner /\ ListenerInv
    BY DEF IInv
  <1>3. r \in Roles /\ Makes(g, r)
    BY <1>1 DEF PlaceInv, Makes, MakeSteps, Sources, Roles
  <1>4. /\ worker[g].ret \in {"events", "find_again", "reconnect"}
        /\ Others(g) /\ Fields(g, worker[g].ret, worker[g].todo, None, worker[g].key, worker[g].ret)
    <2>1. worker[g].ret \in {"events", "find_again", "reconnect"}
      BY <1>1, WorkerFields
    <2>2. worker[g].ret \in Phases \cup Steps
      BY <2>1 DEF Phases, Steps
    <2>. QED  BY <1>1, <2>1, <2>2, SetCur
  <1>5. PlaceInv(g)' /\ TodoInv(g)'
    <2>1. PlaceInv(g)'
      BY <1>1, <1>4 DEF PlaceInv, Fields, Steps, ListenSteps, RelaySteps, MakeSteps, CloseSteps
    <2>2. TodoInv(g)'
      BY <1>1, <1>4 DEF TodoInv, Fields, ListenSteps, RelaySteps, CloseSteps
    <2>. QED  BY <2>1, <2>2
  <1>6. RolesKept
    BY <1>1, InvFacts, StillKept
  <1>7. \A h \in Groups : PlaceInv(h)' /\ TodoInv(h)'
    <2>1. ASSUME NEW h \in Groups, h # g
          PROVE  PlaceInv(h)' /\ TodoInv(h)'
      <3>1. worker'[h] = worker[h]
        BY <1>4, <2>1 DEF Others
      <3>. QED  BY <1>1, <3>1, InvFacts, PlaceFrame
    <2>. QED  BY <1>5, <2>1
  <1>8. /\ m_list_role' \in Seq(Roles)
        /\ \A i, j \in DOMAIN m_list_role' : m_list_role'[i] = m_list_role'[j] => i = j
        /\ \A q \in Roles : IsQueued(q)' <=> IsQueued(q) \/ q = r
    <2>1. /\ m_list_role \in Seq(Roles) /\ ~IsQueued(r)
          /\ \A i, j \in DOMAIN m_list_role : m_list_role[i] = m_list_role[j] => i = j
      BY <1>2, <1>3 DEF TypeOK, OwnerInv
    <2>. QED  BY <1>1, <1>3, <2>1, QueueAppend
  <1>9. TypeOK'
    <2>1. m_list_reconnect' \in [Groups -> SUBSET Streams]
      BY <1>2 DEF PushRole, TypeOK
    <2>2. \A q \in Roles : Exists(q)' <=> role'[q].key # None
      BY <1>1, <1>2 DEF TypeOK, Exists
    <2>. QED  BY <1>1, <1>2, <1>4, <1>8, <2>1, <2>2 DEF TypeOK, Others, maps
  <1>10. OwnerInv'
    <2>1. \A h \in Groups : \A q \in Roles : Makes(h, q)' <=> Makes(h, q) /\ h # g
      <3>1. \A q \in Roles : ~Makes(g, q)'
        BY <1>4 DEF Makes, MakeSteps, Fields
      <3>2. \A h \in Groups \ {g} : \A q \in Roles : Makes(h, q)' <=> Makes(h, q)
        BY <1>4 DEF Makes, Others
      <3>. QED  BY <3>1, <3>2
    <2>2. \A q \in Roles : Makes(g, q) => q = r
      BY DEF Makes
    <2>3. \A q \in Roles : Exists(q)' <=> Exists(q)
      BY <1>6 DEF RolesKept
    <2>. QED  BY <1>1, <1>2, <1>3, <1>8, <2>1, <2>2, <2>3 DEF OwnerInv
  <1>11. NameIsLive' /\ NameInv'
    <2>1. \A h \in Groups : \A q \in Sources :
            /\ NameOut(h, q)' <=> NameOut(h, q)
            /\ NameOut(h, q) => worker'[h].key = worker[h].key
      BY <1>1, <1>4 DEF NameOut, Others, Fields
    <2>2. m_map_push_2_pushlisher \in [Streams -> Publishers \cup Pullers \cup {None}]
      BY <1>2 DEF TypeOK
    <2>. QED  BY <1>1, <1>2, <1>6, <2>1, <2>2, NamesFrame DEF maps
  <1>12. RingInv'
    BY <1>1, <1>2, <1>4 DEF RingInv, Others, Fields, maps
  <1>13. RingHasOwner'
    BY <1>1, <1>2, <1>4 DEF RingHasOwner, Others, Fields, maps
  <1>14. ListenerInv'
    BY <1>1, <1>2 DEF ListenerInv
  <1>15. RingsInv'
    <2>1. SUFFICES ASSUME Undivided PROVE PulledInv' /\ PublisherHasRing'
      BY DEF RingsInv
    <2>2. PulledInv /\ PublisherHasRing
      BY <2>1 DEF IInv, RingsInv
    <2>3. PulledInv'
      BY <1>1, <1>4, <2>2 DEF PulledInv, Others, Fields, maps
    <2>4. role[r].key \in m_map_array
      BY <1>1, <2>2 DEF PulledInv, PlaceInv, MakeSteps
    <2>5. \A q \in Sources \ {r} : Settled(q)' => Settled(q) /\ role'[q].key = role[q].key
      BY <1>1, <1>4, SettledKept DEF Exists
    <2>. QED  BY <1>1, <2>2, <2>3, <2>4, <2>5, HasRingFrame DEF maps
  <1>16. LookupInv'
    BY <1>4 DEF LookupInv, FoundInv, Fields
  <1>. QED  BY <1>7, <1>9, <1>10, <1>11, <1>12, <1>13, <1>14, <1>15, <1>16 DEF IInv

(* A name is taken out.                                                    *)
LEMMA UninitNameInv ==
    ASSUME IInv, NEW g \in Groups, UninitName(g)
    PROVE  IInv'
  <1>. DEFINE r == worker[g].cur
              name == m_map_push_2_pushlisher
              key == worker[g].key
  <1>1. /\ PlaceInv(g) /\ TodoInv(g) /\ worker \in [Groups -> Worker] /\ worker[g].pc = "uninit_name"
        /\ AfterUninit(g) /\ UNCHANGED <<m_map_array, m_list_role, m_map_role, m_list_reconnect, role>>
    BY InvFacts DEF UninitName, At
  <1>2. TypeOK /\ OwnerInv /\ NameIsLive /\ NameInv /\ RingInv /\ RingHasOwner /\ ListenerInv
    BY DEF IInv
  <1>3. r \in Sources /\ r # None /\ key \in Streams /\ name[key] = r
    <2>1. r \in Sources /\ r # None
      BY <1>1, ServerAssumption DEF PlaceInv, Sources
    <2>2. key \in Streams
      BY <1>1, ClosedHeld DEF CloseSteps
    <2>3. name[key] = r
      BY <1>1, <2>1, CloserHasName DEF CloseSteps, NameOut
    <2>. QED  BY <2>1, <2>2, <2>3
  <1>4. PICK k \in Streams : /\ name[k] = r
                             /\ name' = [name EXCEPT ![k] = None]
                             /\ lost' = lost \cup ({key} \ {k})
    <2>1. {k \in Streams : name[k] = r} # {}
      BY <1>3
    <2>. QED  BY <2>1 DEF UninitName
  <1>5. PICK pc \in {"uninit_ring", "delete"} :
            /\ Goto(g, pc)
            /\ pc = "uninit_ring" => r \in Pullers
            /\ pc = "delete" => r \in Publishers
    BY <1>1, <1>3, NextUninit DEF At, Sources
  <1>6. Others(g) /\ Fields(g, pc, worker[g].todo, r, key, worker[g].ret)
    BY <1>1, <1>5, SetGoto DEF Steps
  <1>7. PlaceInv(g)' /\ TodoInv(g)'
    <2>1. PlaceInv(g)'
      BY <1>1, <1>3, <1>6
         DEF PlaceInv, Fields, Sources, Roles, Steps, ListenSteps, RelaySteps, MakeSteps, CloseSteps
    <2>2. TodoInv(g)'
      BY <1>1, <1>6 DEF TodoInv, Fields, ListenSteps, RelaySteps, CloseSteps
    <2>. QED  BY <2>1, <2>2
  <1>8. \A h \in Groups : PlaceInv(h)' /\ TodoInv(h)'
    <2>1. ASSUME NEW h \in Groups, h # g
          PROVE  PlaceInv(h)' /\ TodoInv(h)'
      <3>1. worker'[h] = worker[h]
        BY <1>6, <2>1 DEF Others
      <3>. QED  BY <1>1, <3>1, InvFacts, PlaceFrame
    <2>. QED  BY <1>7, <2>1
  <1>9. RolesKept
    BY <1>1, InvFacts, StillKept
  <1>10. /\ name' \in [Streams -> Publishers \cup Pullers \cup {None}]
         /\ lost \subseteq lost' /\ (k = key \/ key \in lost')
         /\ name'[k] = None /\ \A j \in Streams \ {k} : name'[j] = name[j]
    BY <1>2, <1>4 DEF TypeOK
  <1>11. TypeOK'
    <2>1. \A q \in Roles : Exists(q)' <=> role'[q].key # None
      BY <1>1, <1>2 DEF TypeOK, Exists
    <2>2. lost' \subseteq Streams
      BY <1>2, <1>3, <1>4 DEF TypeOK
    <2>. QED  BY <1>1, <1>2, <1>6, <1>10, <2>1, <2>2 DEF TypeOK, Others
  <1>12. OwnerInv'
    <2>1. \A h \in Groups : \A q \in Roles : Makes(h, q)' <=> Makes(h, q)
      BY <1>1, <1>6 DEF Makes, MakeSteps, Others, Fields
    <2>. QED  BY <1>1, <1>2, <1>9, <2>1, OwnerFrame
  <1>13. NameIsLive'
    <2>1. ASSUME NEW j \in Streams \ lost', name'[j] # None
          PROVE  role'[name'[j]].state # "none" /\ role'[name'[j]].key = j
      BY <1>1, <1>2, <1>10, <2>1 DEF NameIsLive, Exists
    <2>. QED  BY <2>1 DEF NameIsLive, Exists
  <1>14. NameInv'
    <2>1. \A h \in Groups : \A q \in Sources : NameOut(h, q)' <=> NameOut(h, q) \/ (h = g /\ q = r)
      <3>1. \A q \in Sources : ~NameOut(g, q)
        BY <1>1 DEF NameOut
      <3>2. \A q \in Sources : NameOut(g, q)' <=> q = r
        BY <1>5, <1>6 DEF NameOut, Fields
      <3>3. \A h \in Groups \ {g} : \A q \in Sources : NameOut(h, q)' <=> NameOut(h, q)
        BY <1>6 DEF NameOut, Others
      <3>. QED  BY <3>1, <3>2, <3>3
    <2>2. ASSUME NEW q \in Sources, Exists(q)'
          PROVE  name'[role'[q].key] = q \/ \E h \in Groups : NameOut(h, q)'
      <3>1. q \in Roles /\ q # None /\ role'[q] = role[q] /\ Exists(q)
        BY <1>1, <2>2, ServerAssumption DEF Sources, Roles, Exists
      <3>2. role[q].key \in Streams
        BY <1>2, <3>1 DEF TypeOK, Role
      <3>3. name[role[q].key] = q \/ \E h \in Groups : NameOut(h, q)
        BY <1>2, <3>1 DEF NameInv
      <3>. QED  BY <1>4, <1>10, <2>1, <3>1, <3>2, <3>3
    <2>3. ASSUME NEW h \in Groups, NEW q \in Sources, NameOut(h, q)', worker'[h].key \notin lost'
          PROVE  name'[worker'[h].key] # q
      <3>1. CASE h = g
        BY <1>3, <1>6, <1>10, <2>1, <2>3, <3>1, ServerAssumption DEF Fields, Sources
      <3>2. CASE h # g
        <4>1. worker'[h] = worker[h] /\ NameOut(h, q) /\ q # None
          BY <1>6, <2>1, <2>3, <3>2, ServerAssumption DEF Others, Sources
        <4>2. worker[h].key \in Streams
          BY <4>1, ClosedHeld DEF NameOut, CloseSteps
        <4>3. name[worker[h].key] # q
          BY <1>2, <1>10, <2>3, <4>1 DEF NameInv
        <4>. QED  BY <1>10, <4>1, <4>2, <4>3
      <3>. QED  BY <3>1, <3>2
    <2>. QED  BY <2>2, <2>3 DEF NameInv
  <1>15. RingInv'
    <2>1. ASSUME NEW h \in Groups, worker'[h].pc \in {"pub_add", "pub_set"}
          PROVE  name'[worker'[h].key] \notin Publishers
      <3>1. worker'[h] = worker[h] /\ PlaceInv(h)
        BY <1>5, <1>6, <2>1, InvFacts DEF Others, Fields
      <3>2. worker[h].key \in Streams
        BY <1>1, <2>1, <3>1, WorkerFields DEF PlaceInv, Steps
      <3>. QED  BY <1>2, <1>10, <2>1, <3>1, <3>2, ServerAssumption DEF RingInv
    <2>2. ASSUME NEW h \in Groups, worker'[h].pc = "uninit_name", worker'[h].cur \in Publishers
          PROVE  worker'[h].key \notin m_map_array'
      BY <1>1, <1>2, <1>5, <1>6, <2>2 DEF RingInv, Others, Fields
    <2>. QED  BY <2>1, <2>2 DEF RingInv
  <1>16. RingHasOwner'
    <2>1. ASSUME NEW j \in m_map_array' \ lost'
          PROVE  \/ name'[j] # None
                 \/ \E h \in Groups : worker'[h].key = j /\ worker'[h].pc \in {"pub_set", "uninit_ring"}
      <3>1. j \in Streams /\ j \in m_map_array /\ j \notin lost
        BY <1>1, <1>2, <1>10 DEF TypeOK
      <3>2. CASE j = k
        <4>1. role[r].key = k
          BY <1>2, <1>3, <1>4, <3>1, <3>2 DEF NameIsLive
        <4>2. k = key
          BY <1>1, <4>1, ClosedHeld DEF CloseSteps
        <4>3. pc = "uninit_ring"
          BY <1>1, <1>2, <1>5, <3>1, <3>2, <4>2 DEF RingInv
        <4>. QED  BY <1>6, <3>2, <4>2, <4>3 DEF Fields
      <3>3. CASE j # k
        <4>1. ASSUME NEW h \in Groups, worker[h].pc \in {"pub_set", "uninit_ring"}
              PROVE  worker'[h] = worker[h]
          BY <1>1, <1>6, <4>1 DEF Others
        <4>. QED  BY <1>2, <1>10, <3>1, <3>3, <4>1 DEF RingHasOwner
      <3>. QED  BY <3>2, <3>3
    <2>. QED  BY <2>1 DEF RingHasOwner
  <1>17. ListenerInv'
    BY <1>1, <1>2 DEF ListenerInv
  <1>18. RingsInv'
    <2>1. SUFFICES ASSUME Undivided PROVE PulledInv' /\ PublisherHasRing'
      BY DEF RingsInv
    <2>2. PulledInv /\ PublisherHasRing
      BY <2>1 DEF IInv, RingsInv
    <2>3. ASSUME NEW h \in Groups, worker'[h].pc = "uninit_ring"
          PROVE  name'[worker'[h].key] \in {None, worker'[h].cur}
      <3>1. CASE h = g
        BY <1>3, <1>6, <1>10, <3>1 DEF Fields
      <3>2. CASE h # g
        <4>1. worker'[h] = worker[h] /\ worker[h].key \in Streams
          BY <1>6, <2>3, <3>2, ClosedHeld DEF Others, CloseSteps
        <4>. QED  BY <1>10, <2>2, <2>3, <4>1 DEF PulledInv
      <3>. QED  BY <3>1, <3>2
    <2>4. PulledInv'
      BY <1>1, <1>6, <2>2, <2>3 DEF PulledInv, Others, Fields
    <2>5. \A q \in Sources : Settled(q)' => Settled(q) /\ role'[q].key = role[q].key
      BY <1>1, <1>6, SettledKept DEF Exists, Fields, CloseSteps
    <2>. QED  BY <1>1, <2>2, <2>4, <2>5, HasRingFrame
  <1>19. LookupInv'
    BY <1>6 DEF LookupInv, FoundInv, Fields
  <1>. QED  BY <1>8, <1>11, <1>12, <1>13, <1>14, <1>15, <1>16, <1>17, <1>18, <1>19 DEF IInv

(* The role is deleted.                                                    *)
LEMMA DeleteRoleInv ==
    ASSUME IInv, NEW g \in Groups, DeleteRole(g)
    PROVE  IInv'
  <1>. DEFINE r == worker[g].cur
              key == worker[g].key
  <1>1. /\ PlaceInv(g) /\ TodoInv(g) /\ worker \in [Groups -> Worker] /\ worker[g].pc = "delete"
        /\ Update(r, NoRole) /\ m_map_role' = [m_map_role EXCEPT ![g] = @ \ {r}]
        /\ worker' = [worker EXCEPT ![g].pc = "invalid", ![g].cur = None]
        /\ UNCHANGED <<maps, m_list_role, m_list_reconnect, lost>>
    BY InvFacts DEF DeleteRole, At
  <1>2. TypeOK /\ OwnerInv /\ NameIsLive /\ NameInv /\ RingInv /\ RingHasOwner /\ ListenerInv
    BY DEF IInv
  <1>3. r \in Roles /\ r # Listener /\ r \in m_map_role[g] /\ role[r].key = key /\ key \in Streams
    BY <1>1, ClosedHeld, ServerAssumption DEF CloseSteps, Roles
  <1>4. /\ role' \in [Roles -> Role] /\ role'[r].key = None /\ role'[r].state = "none"
        /\ \A q \in Roles \ {r} : role'[q] = role[q]
    BY <1>1, <1>2, <1>3, NoRoleType, UpdateRole DEF TypeOK
  <1>5. Others(g) /\ Fields(g, "invalid", worker[g].todo, None, key, worker[g].ret)
    BY <1>1, SetCur DEF Phases
  <1>6. /\ m_map_role' \in [Groups -> SUBSET (Roles \cup {Listener})]
        /\ m_map_role'[g] = m_map_role[g] \ {r}
        /\ \A h \in Groups \ {g} : m_map_role'[h] = m_map_role[h]
    BY <1>1, <1>2 DEF TypeOK
  <1>7. PlaceInv(g)' /\ TodoInv(g)'
    <2>1. PlaceInv(g)'
      BY <1>1, <1>5 DEF PlaceInv, Fields, Steps, ListenSteps, RelaySteps, MakeSteps, CloseSteps
    <2>2. TodoInv(g)'
      BY <1>1, <1>5, <1>6 DEF TodoInv, Fields, ListenSteps, RelaySteps, CloseSteps
    <2>. QED  BY <2>1, <2>2
  <1>8. ASSUME NEW h \in Groups, h # g, worker[h].cur = r
        PROVE  worker[h].pc \notin MakeSteps \cup CloseSteps
    <2>1. CASE worker[h].pc \in MakeSteps
      BY <1>2, <1>3, <1>8, <2>1 DEF OwnerInv, Makes
    <2>2. CASE worker[h].pc \in CloseSteps
      BY <1>2, <1>3, <1>8, <2>2, ClosedHeld DEF OwnerInv
    <2>. QED  BY <2>1, <2>2
  <1>9. \A h \in Groups : PlaceInv(h)' /\ TodoInv(h)'
    BY <1>3, <1>4, <1>5, <1>6, <1>7, <1>8, OthersPlace
  <1>10. TypeOK'
    <2>1. \A q \in Roles : Exists(q)' <=> role'[q].key # None
      BY <1>2, <1>4 DEF TypeOK, Exists
    <2>. QED  BY <1>1, <1>2, <1>4, <1>5, <1>6, <2>1 DEF TypeOK, Others, maps
  <1>11. OwnerInv'
    <2>1. \A h \in Groups : \A q \in Roles : Makes(h, q)' <=> Makes(h, q)
      BY <1>1, <1>5 DEF Makes, MakeSteps, Others, Fields
    <2>2. \A q \in Roles : Exists(q)' <=> Exists(q) /\ q # r
      BY <1>4 DEF Exists
    <2>3. \A q \in Roles : IsQueued(q)' <=> IsQueued(q)
      BY <1>1 DEF IsQueued
    <2>4. \A h \in Groups : \A q \in Roles : q \in m_map_role'[h] <=> q \in m_map_role[h] /\ q # r
      BY <1>2, <1>3, <1>6 DEF OwnerInv
    <2>. QED  BY <1>1, <1>2, <1>3, <2>1, <2>2, <2>3, <2>4 DEF OwnerInv
  <1>12. r \in Sources => NameOut(g, r)
    BY <1>1 DEF NameOut
  <1>13. NameIsLive'
    <2>1. ASSUME NEW j \in Streams \ lost, m_map_push_2_pushlisher[j] # None
          PROVE  /\ role'[m_map_push_2_pushlisher[j]].state # "none"
                 /\ role'[m_map_push_2_pushlisher[j]].key = j
      <3>. DEFINE p == m_map_push_2_pushlisher[j]
      <3>1. p \in Sources /\ p \in Roles /\ Exists(p) /\ role[p].key = j
        BY <1>2, <2>1 DEF TypeOK, Sources, Roles, NameIsLive
      <3>2. p # r
        BY <1>2, <1>3, <1>12, <3>1 DEF NameInv
      <3>. QED  BY <1>4, <3>1, <3>2 DEF Exists
    <2>. QED  BY <1>1, <2>1 DEF NameIsLive, Exists, maps
  <1>14. NameInv'
    <2>1. ASSUME NEW h \in Groups, NEW q \in Sources
          PROVE  NameOut(h, q)' <=> NameOut(h, q) /\ h # g
      BY <1>1, <1>5 DEF NameOut, Others, Fields
    <2>2. \A h \in Groups \ {g} : worker'[h] = worker[h]
      BY <1>5 DEF Others
    <2>3. ASSUME NEW q \in Sources, Exists(q)'
          PROVE  m_map_push_2_pushlisher[role'[q].key] = q \/ \E h \in Groups : NameOut(h, q)'
      <3>1. q \in Roles /\ q # r /\ role'[q] = role[q] /\ Exists(q)
        BY <1>4, <2>3 DEF Exists, Sources, Roles
      <3>2. \A h \in Groups : NameOut(h, q) => h # g
        BY <3>1 DEF NameOut
      <3>. QED  BY <1>2, <2>1, <3>1, <3>2 DEF NameInv
    <2>. QED  BY <1>1, <1>2, <2>1, <2>2, <2>3 DEF NameInv, maps
  <1>15. RingInv'
    BY <1>1, <1>2, <1>5 DEF RingInv, Others, Fields, maps
  <1>16. RingHasOwner'
    BY <1>1, <1>2, <1>5 DEF RingHasOwner, Others, Fields, maps
  <1>17. ListenerInv'
    BY <1>2, <1>3, <1>6 DEF ListenerInv
  <1>18. RingsInv'
    <2>1. SUFFICES ASSUME Undivided PROVE PulledInv' /\ PublisherHasRing'
      BY DEF RingsInv
    <2>2. PulledInv /\ PublisherHasRing
      BY <2>1 DEF IInv, RingsInv
    <2>3. PulledInv'
      BY <1>1, <1>5, <2>2 DEF PulledInv, Others, Fields, maps
    <2>4. ASSUME NEW q \in Sources, Settled(q)'
          PROVE  Settled(q) /\ role'[q].key = role[q].key
      <3>1. q # r
        BY <1>4, <2>4 DEF Settled, Exists
      <3>. QED  BY <1>4, <1>5, <2>4, <3>1, SettledKept DEF Exists, Sources, Roles
    <2>. QED  BY <1>1, <2>2, <2>3, <2>4, HasRingFrame DEF maps
  <1>19. LookupInv'
    BY <1>5 DEF LookupInv, FoundInv, Fields
  <1>. QED  BY <1>9, <1>10, <1>11, <1>13, <1>14, <1>15, <1>16, <1>17, <1>18, <1>19 DEF IInv

(* A group takes a role, or deletes it when the epoll does not.            *)
LEMMA TakeRoleInv ==
    ASSUME IInv, NEW g \in Groups, TakeRole(g)
    PROVE  IInv'
  <1>. DEFINE r == Head(m_list_role)
  <1>1. /\ PlaceInv(g) /\ TodoInv(g) /\ worker \in [Groups -> Worker] /\ worker[g].pc = "new"
        /\ m_list_role # << >> /\ m_list_role' = Tail(m_list_role) /\ Goto(g, "poll")
        /\ UNCHANGED <<maps, m_list_reconnect>>
    BY InvFacts DEF TakeRole, At, Rest
  <1>2. TypeOK /\ OwnerInv /\ NameIsLive /\ NameInv /\ RingInv /\ RingHasOwner /\ ListenerInv
    BY DEF IInv
  <1>3. Others(g) /\ Fields(g, "poll", worker[g].todo, worker[g].cur, worker[g].key, worker[g].ret)
    BY <1>1, SetGoto DEF Phases
  <1>4. /\ m_list_role' \in Seq(Roles) /\ r \in Roles /\ IsQueued(r)
        /\ \A i, j \in DOMAIN m_list_role' : m_list_role'[i] = m_list_role'[j] => i = j
        /\ \A q \in Roles : IsQueued(q)' <=> IsQueued(q) /\ q # r
    BY <1>1, <1>2, QueueTail DEF TypeOK, OwnerInv
  <1>5. \A h \in Groups : r \notin m_map_role[h] /\ ~Makes(h, r)
    BY <1>2, <1>4 DEF OwnerInv
  <1>6. r # Listener
    BY <1>4, ServerAssumption DEF Roles
  <1>7. \A h \in Groups : worker[h].cur = r => worker[h].pc \notin MakeSteps \cup CloseSteps
    BY <1>5, ClosedHeld DEF Makes
  <1>8. \A h \in Groups : \A q \in Roles : Makes(h, q)' <=> Makes(h, q)
    BY <1>1, <1>3 DEF Makes, MakeSteps, Others, Fields
  <1>9. \A h \in Groups : \A q \in Sources :
            /\ NameOut(h, q)' <=> NameOut(h, q)
            /\ NameOut(h, q) => worker'[h].key = worker[h].key /\ q # r
    BY <1>1, <1>3, <1>7 DEF NameOut, Others, Fields, CloseSteps
  <1>10. PlaceInv(g)' /\ TodoInv(g)'
    BY <1>1, <1>3
       DEF PlaceInv, TodoInv, Fields, Steps, ListenSteps, RelaySteps, MakeSteps, CloseSteps
  <1>11. RingInv'
    BY <1>1, <1>2, <1>3 DEF RingInv, Others, Fields, maps
  <1>12. m_map_push_2_pushlisher \in [Streams -> Publishers \cup Pullers \cup {None}]
    BY <1>2 DEF TypeOK
  <1>13. LookupInv'
    BY <1>3 DEF LookupInv, FoundInv, Fields
  <1>14. PulledInv => PulledInv'
    BY <1>1, <1>3 DEF PulledInv, Others, Fields, maps
  <1>15. CASE m_map_role' = [m_map_role EXCEPT ![g] = @ \cup {r}] /\ UNCHANGED <<role, lost>>
    <2>1. RolesKept
      BY <1>15, InvFacts, StillKept
    <2>2. /\ m_map_role' \in [Groups -> SUBSET (Roles \cup {Listener})]
          /\ m_map_role'[g] = m_map_role[g] \cup {r}
          /\ \A h \in Groups \ {g} : m_map_role'[h] = m_map_role[h]
      BY <1>2, <1>4, <1>15 DEF TypeOK
    <2>3. TypeOK'
      BY <1>1, <1>2, <1>3, <1>4, <1>15, <2>2 DEF TypeOK, Others, Exists, maps
    <2>4. \A h \in Groups : PlaceInv(h)' /\ TodoInv(h)'
      BY <1>3, <1>4, <1>7, <1>10, <1>15, <2>2, OthersPlace
    <2>5. OwnerInv'
      <3>1. \A q \in Roles : Exists(q)' <=> Exists(q)
        BY <2>1 DEF RolesKept
      <3>2. \A h \in Groups : \A q \in Roles : q \in m_map_role'[h] <=> q \in m_map_role[h] \/ (h = g /\ q = r)
        BY <2>2
      <3>. QED  BY <1>2, <1>4, <1>5, <1>8, <3>1, <3>2 DEF OwnerInv
    <2>6. NameIsLive' /\ NameInv'
      BY <1>1, <1>2, <1>9, <1>12, <1>15, <2>1, NamesFrame DEF maps
    <2>7. RingHasOwner'
      BY <1>1, <1>2, <1>3, <1>15 DEF RingHasOwner, Others, Fields, maps
    <2>8. ListenerInv'
      BY <1>2, <1>6, <2>2 DEF ListenerInv
    <2>9. RingsInv'
      <3>1. \A q \in Sources : Settled(q)' => Settled(q) /\ role'[q].key = role[q].key
        BY <1>1, <1>3, <2>1, SettledKept DEF RolesKept, Sources, Roles, MakeSteps, CloseSteps
      <3>. QED  BY <1>1, <1>14, <3>1, HasRingFrame DEF IInv, RingsInv, maps
    <2>. QED  BY <1>11, <1>13, <2>3, <2>4, <2>5, <2>6, <2>7, <2>8, <2>9 DEF IInv
  <1>16. CASE /\ Update(r, NoRole) /\ UNCHANGED m_map_role
              /\ lost' = lost \cup {k \in Streams : m_map_push_2_pushlisher[k] = r}
    <2>1. /\ role' \in [Roles -> Role] /\ role'[r].key = None /\ role'[r].state = "none"
          /\ \A q \in Roles \ {r} : role'[q] = role[q]
      BY <1>2, <1>4, <1>16, NoRoleType, UpdateRole DEF TypeOK
    <2>2. /\ lost \subseteq lost' /\ lost' \subseteq Streams
          /\ \A k \in Streams \ lost' : m_map_push_2_pushlisher[k] # r
      BY <1>2, <1>16 DEF TypeOK
    <2>3. TypeOK'
      <3>1. \A q \in Roles : Exists(q)' <=> role'[q].key # None
        BY <1>2, <2>1 DEF TypeOK, Exists
      <3>. QED  BY <1>1, <1>2, <1>3, <1>4, <1>16, <2>1, <2>2, <3>1 DEF TypeOK, Others, maps
    <2>4. \A h \in Groups : PlaceInv(h)' /\ TodoInv(h)'
      BY <1>3, <1>4, <1>7, <1>10, <1>16, <2>1, OthersPlace
    <2>5. OwnerInv'
      <3>1. \A q \in Roles : Exists(q)' <=> Exists(q) /\ q # r
        BY <2>1 DEF Exists
      <3>. QED  BY <1>2, <1>4, <1>5, <1>8, <1>16, <3>1 DEF OwnerInv
    <2>6. NameIsLive'
      <3>1. ASSUME NEW j \in Streams \ lost', m_map_push_2_pushlisher[j] # None
            PROVE  /\ role'[m_map_push_2_pushlisher[j]].state # "none"
                   /\ role'[m_map_push_2_pushlisher[j]].key = j
        <4>. DEFINE p == m_map_push_2_pushlisher[j]
        <4>1. p \in Roles /\ p # r /\ Exists(p) /\ role[p].key = j
          BY <1>2, <2>2, <3>1 DEF TypeOK, Roles, NameIsLive
        <4>. QED  BY <2>1, <4>1 DEF Exists
      <3>. QED  BY <1>1, <3>1 DEF NameIsLive, Exists, maps
    <2>7. NameInv'
      <3>1. ASSUME NEW q \in Sources, Exists(q)'
            PROVE  m_map_push_2_pushlisher[role'[q].key] = q \/ \E h \in Groups : NameOut(h, q)'
        <4>1. q \in Roles /\ q # r /\ role'[q] = role[q] /\ Exists(q)
          BY <2>1, <3>1 DEF Exists, Sources, Roles
        <4>. QED  BY <1>2, <1>9, <4>1 DEF NameInv
      <3>. QED  BY <1>1, <1>2, <1>9, <2>2, <3>1 DEF NameInv, maps
    <2>8. RingHasOwner'
      BY <1>1, <1>2, <1>3, <2>2 DEF RingHasOwner, Others, Fields, maps
    <2>9. ListenerInv'
      BY <1>2, <1>16 DEF ListenerInv
    <2>10. RingsInv'
      <3>1. ASSUME NEW q \in Sources, Settled(q)'
            PROVE  Settled(q) /\ role'[q].key = role[q].key
        <4>1. q # r
          BY <2>1, <3>1 DEF Settled, Exists
        <4>. QED
          BY <1>1, <1>3, <2>1, <3>1, <4>1, SettledKept
             DEF Exists, Sources, Roles, MakeSteps, CloseSteps
      <3>. QED  BY <1>1, <1>14, <3>1, HasRingFrame DEF IInv, RingsInv, maps
    <2>. QED  BY <1>11, <1>13, <2>3, <2>4, <2>5, <2>6, <2>7, <2>8, <2>9, <2>10 DEF IInv
  <1>. QED  BY <1>15, <1>16 DEF TakeRole

-----------------------------------------------------------------------------
(* The peers and the clock.                                                *)

LEMMA PeerStep ==
    ASSUME IInv, RolesKept,
           UNCHANGED <<maps, m_list_role, m_map_role, m_list_reconnect, worker, lost>>
    PROVE  IInv'
  <1>1. TypeOK /\ OwnerInv /\ NameIsLive /\ NameInv /\ RingInv /\ RingHasOwner /\ ListenerInv
    BY DEF IInv
  <1>2. TypeOK'
    BY <1>1 DEF TypeOK, RolesKept, maps
  <1>3. ASSUME NEW h \in Groups
        PROVE  PlaceInv(h)' /\ TodoInv(h)'
    <2>1. worker[h].pc \in MakeSteps \cup CloseSteps => role'[worker[h].cur].key = role[worker[h].cur].key
      BY InvFacts, CurIsRole DEF RolesKept
    <2>. QED  BY <2>1, InvFacts, PlaceFrame
  <1>4. OwnerInv'
    <2>1. \A h \in Groups : \A r \in Roles : Makes(h, r)' <=> Makes(h, r)
      BY DEF Makes
    <2>. QED  BY <1>1, <2>1, OwnerFrame
  <1>5. NameIsLive' /\ NameInv'
    <2>1. \A h \in Groups : \A r \in Sources : NameOut(h, r)' <=> NameOut(h, r)
      BY DEF NameOut
    <2>2. m_map_push_2_pushlisher \in [Streams -> Publishers \cup Pullers \cup {None}]
      BY <1>1 DEF TypeOK
    <2>. QED  BY <1>1, <2>1, <2>2, NamesFrame DEF maps
  <1>6. RingInv' /\ RingHasOwner' /\ ListenerInv'
    BY <1>1 DEF RingInv, RingHasOwner, ListenerInv, maps
  <1>7. RingsInv'
    <2>1. PulledInv => PulledInv'
      BY DEF PulledInv, maps
    <2>2. ASSUME NEW q \in Sources, Settled(q)'
          PROVE  Settled(q) /\ role'[q].key = role[q].key
      BY <2>2 DEF Settled, Creating, Closing, RolesKept, Sources, Roles
    <2>. QED  BY <2>1, <2>2, HasRingFrame DEF IInv, RingsInv, maps
  <1>8. LookupInv'
    BY DEF IInv, LookupInv, FoundInv, maps
  <1>. QED  BY <1>2, <1>3, <1>4, <1>5, <1>6, <1>7, <1>8 DEF IInv

(* A peer goes.                                                            *)
LEMMA BreakInv ==
    ASSUME IInv, NEW r \in Roles, Break(r)
    PROVE  IInv'
  <1>1. role \in [Roles -> Role]
    BY DEF IInv, TypeOK
  <1>2. SameKey([role[r] EXCEPT !.srt = "broken"], role[r])
    BY <1>1 DEF SameKey, Role
  <1>3. RolesKept
    BY <1>1, <1>2, KeepRoles DEF Break
  <1>. QED  BY <1>3, PeerStep DEF Break

(* A role has idled.                                                       *)
LEMMA ExpireInv ==
    ASSUME IInv, NEW r \in Roles, Expire(r)
    PROVE  IInv'
  <1>1. role \in [Roles -> Role]
    BY DEF IInv, TypeOK
  <1>2. SameKey([role[r] EXCEPT !.stale = TRUE], role[r])
    BY <1>1 DEF SameKey, Role
  <1>3. RolesKept
    BY <1>1, <1>2, KeepRoles DEF Expire
  <1>. QED  BY <1>3, PeerStep DEF Expire

-----------------------------------------------------------------------------

(* The invariant holds at first.                                           *)
LEMMA InitInv == Init => IInv
  <1>. SUFFICES ASSUME Init PROVE IInv
    OBVIOUS
  <1>1. /\ m_map_array = {} /\ m_map_push_2_pushlisher = [k \in Streams |-> None]
        /\ m_list_role = << >> /\ lost = {}
        /\ m_map_role = [g \in Groups |-> IF g = Listening THEN {Listener} ELSE {}]
        /\ m_list_reconnect = [g \in Groups |-> {}]
        /\ role = [r \in Roles |-> NoRole]
    BY DEF Init
  <1>2. \A g \in Groups : /\ worker[g].pc = "poll" /\ worker[g].todo = {} /\ worker[g].cur = None
                          /\ worker[g].key = None /\ worker[g].ret = "events"
    BY DEF Init
  <1>3. TypeOK
    <2>1. worker \in [Groups -> Worker]
      BY DEF Init, Worker, Phases
    <2>2. role \in [Roles -> Role] /\ \A r \in Roles : Exists(r) <=> role[r].key # None
      BY <1>1, NoRoleType DEF Exists
    <2>3. m_map_role \in [Groups -> SUBSET (Roles \cup {Listener})]
      BY <1>1
    <2>. QED  BY <1>1, <2>1, <2>2, <2>3 DEF TypeOK
  <1>4. \A g \in Groups : PlaceInv(g) /\ TodoInv(g)
    BY <1>2 DEF PlaceInv, TodoInv, Steps, ListenSteps, RelaySteps, MakeSteps, CloseSteps
  <1>5. ListenerInv
    BY <1>1 DEF ListenerInv
  <1>6. \A r \in Roles : ~Exists(r) /\ ~IsQueued(r) /\ \A g \in Groups : ~Makes(g, r) /\ r \notin m_map_role[g]
    BY <1>1, <1>2, NoRoleType, ServerAssumption DEF Exists, IsQueued, Makes, MakeSteps, Roles
  <1>7. OwnerInv
    BY <1>1, <1>6 DEF OwnerInv
  <1>8. NameIsLive
    BY <1>1 DEF NameIsLive
  <1>9. NameInv
    BY <1>2, <1>6 DEF NameInv, NameOut, Sources, Roles
  <1>10. RingInv /\ RingHasOwner
    BY <1>1, <1>2 DEF RingInv, RingHasOwner
  <1>11. RingsInv
    <2>1. PulledInv
      BY <1>2 DEF PulledInv
    <2>2. PublisherHasRing
      BY <1>6 DEF PublisherHasRing, Settled, Roles
    <2>. QED  BY <2>1, <2>2 DEF RingsInv
  <1>12. LookupInv
    BY <1>2 DEF LookupInv, FoundInv
  <1>. QED  BY <1>3, <1>4, <1>5, <1>7, <1>8, <1>9, <1>10, <1>11, <1>12 DEF IInv

(* Every step keeps it.                                                    *)
LEMMA NextInv == IInv /\ [Next]_vars => IInv'
  <1>. SUFFICES ASSUME IInv, [Next]_vars PROVE IInv'
    OBVIOUS
  <1>1. ASSUME NEW g \in Groups, Listen(g) PROVE IInv'
    BY <1>1, AcceptInv, FindPublisherInv, FindAgainInv, CheckRingInv, PushPlayerInv, FindFreeInv,
       AddRingInv, RegisterPublisherInv DEF Listen
  <1>2. ASSUME NEW g \in Groups, Pull(g) PROVE IInv'
    BY <1>2, StartInv, ConnectPullerInv, AddPulledRingInv DEF Pull
  <1>3. ASSUME NEW g \in Groups, Work(g) PROVE IInv'
    BY <1>1, <1>2, <1>3, PushRoleInv, PollInv, HandleRoleInv, ReconnectInv, NextPhaseInv, KeepRoleInv,
       CloseRoleInv, UninitRingInv, UninitNameInv, DeleteRoleInv, TakeNothingInv, TakeRoleInv DEF Work
  <1>4. CASE UNCHANGED vars
    <2>1. RolesKept
      BY <1>4, StillKept DEF vars, IInv, TypeOK
    <2>. QED  BY <1>4, <2>1, PeerStep DEF vars
  <1>. QED  BY <1>3, <1>4, BreakInv, ExpireInv DEF Next

(* So it holds in every reachable state.                                   *)
LEMMA SpecInv == Spec => []IInv
  BY InitInv, NextInv, PTL DEF Spec

-----------------------------------------------------------------------------
(* The theorems.                                                           *)

(* A set any two of whose members are the same has one member or none.     *)
LEMMA AtMostOne ==
    ASSUME NEW S, NEW P, \A x, y \in S : x = y, (\E x \in S : TRUE) <=> P
    PROVE  IsFiniteSet(S) /\ Cardinality(S) = IF P THEN 1 ELSE 0
  <1>1. CASE S = {}
    BY <1>1, FS_EmptySet
  <1>2. CASE S # {}
    <2>1. PICK x : S = {x}
      BY <1>2
    <2>. QED  BY <2>1, FS_Singleton
  <1>. QED  BY <1>1, <1>2

(* Owners counted, from owners compared.                                   *)
LEMMA OneOwner ==
    ASSUME IInv
    PROVE  OwnedOnce
  <1>1. SUFFICES ASSUME NEW r \in Roles
                 PROVE  Cardinality(Creating(r)) + Cardinality(Queued(r)) + Cardinality(Holding(r))
                            = IF Exists(r) THEN 1 ELSE 0
    BY DEF OwnedOnce
  <1>2. OwnerInv
    BY DEF IInv
  <1>. DEFINE made   == \E g \in Groups : Makes(g, r)
              held   == \E g \in Groups : r \in m_map_role[g]
              queued == IsQueued(r)
  <1>3. Cardinality(Creating(r)) = IF made THEN 1 ELSE 0
    <2>1. \A g : g \in Creating(r) <=> g \in Groups /\ Makes(g, r)
      BY DEF Creating, Makes, MakeSteps
    <2>2. (\A g, h \in Creating(r) : g = h) /\ ((\E g \in Creating(r) : TRUE) <=> made)
      BY <1>2, <2>1 DEF OwnerInv
    <2>. HIDE DEF made
    <2>. QED  BY <2>2, AtMostOne
  <1>4. Cardinality(Holding(r)) = IF held THEN 1 ELSE 0
    <2>1. (\A g, h \in Holding(r) : g = h) /\ ((\E g \in Holding(r) : TRUE) <=> held)
      BY <1>2 DEF OwnerInv, Holding
    <2>. HIDE DEF held
    <2>. QED  BY <2>1, AtMostOne
  <1>5. Cardinality(Queued(r)) = IF queued THEN 1 ELSE 0
    <2>1. (\A i, j \in Queued(r) : i = j) /\ ((\E i \in Queued(r) : TRUE) <=> queued)
      BY <1>2 DEF OwnerInv, Queued, IsQueued
    <2>. HIDE DEF queued
    <2>. QED  BY <2>1, AtMostOne
  <1>6. (made => ~queued /\ ~held) /\ (held => ~queued) /\ (Exists(r) <=> made \/ held \/ queued)
    BY <1>2 DEF OwnerInv
  <1>. HIDE DEF made, held, queued
  <1>. QED  BY <1>3, <1>4, <1>5, <1>6

(* Who works has the name, so two are one.                                 *)
LEMMA OneAtWork ==
    ASSUME IInv
    PROVE  OnePublisher
  <1>1. SUFFICES ASSUME NEW r \in Publishers \cup Pullers, Settled(r)
                 PROVE  m_map_push_2_pushlisher[role[r].key] = r
    BY DEF OnePublisher
  <1>2. Exists(r) /\ \A g \in Groups : ~NameOut(g, r)
    BY <1>1, SettledIs DEF NameOut, CloseSteps
  <1>. QED  BY <1>2 DEF IInv, NameInv, Sources

(* A name that still stands leads to a live object.                        *)
LEMMA LookedUpIsLive ==
    ASSUME IInv, Groups = {Listening}
    PROVE  FoundIsLive
  <1>1. SUFFICES ASSUME NEW g \in Groups, At(g, "push_player"), worker[g].key \notin lost
                 PROVE  Exists(worker[g].cur)
    BY DEF FoundIsLive
  <1>2. worker[g].cur # None /\ m_map_push_2_pushlisher[worker[g].key] = worker[g].cur
    BY <1>1 DEF IInv, LookupInv, FoundInv, At
  <1>3. worker[g].key \in Streams \ lost
    BY <1>1, InvFacts, WorkerFields DEF At, PlaceInv, Steps
  <1>4. NameIsLive
    BY DEF IInv
  <1>. QED  BY <1>2, <1>3, <1>4 DEF NameIsLive

(* The state keeps its types; a role object exists exactly while it has a  *)
(* stream.                                                                 *)
THEOREM TypeCorrect == Spec => []TypeOK
  <1>1. IInv => TypeOK
    BY DEF IInv
  <1>. QED  BY <1>1, SpecInv, PTL

(* Every role object has exactly one owner, however many threads there     *)
(* are: the thread that is making it, m_list_role, or one group's          *)
(* m_map_role.                                                             *)
THEOREM OwnedOnceCorrect == Spec => []OwnedOnce
  BY SpecInv, OneOwner, PTL

(* The publisher map leads to live objects of that stream, but for the     *)
(* names that check_new_role's delete has left behind.                     *)
THEOREM NameIsLiveCorrect == Spec => []NameIsLive
  <1>1. IInv => NameIsLive
    BY DEF IInv
  <1>. QED  BY <1>1, SpecInv, PTL

(* A publisher or puller at work is the one its stream's name leads to, so *)
(* that no stream has two.                                                 *)
THEOREM OnePublisherCorrect == Spec => []OnePublisher
  BY SpecInv, OneAtWork, PTL

(* A ring in CSLSMapData always has a name or a thread that will remove    *)
(* it.                                                                     *)
THEOREM RingHasOwnerCorrect == Spec => []RingHasOwner
  <1>1. IInv => RingHasOwner
    BY DEF IInv
  <1>. QED  BY <1>1, SpecInv, PTL

(* Without a pull relay, or with one worker thread, a publisher at work    *)
(* keeps its ring.  (With both it can be robbed of it.)                    *)
THEOREM PublisherHasRingCorrect == Undivided => (Spec => []PublisherHasRing)
  <1>1. IInv /\ Undivided => PublisherHasRing
    BY DEF IInv, RingsInv
  <1>. SUFFICES ASSUME Undivided PROVE Spec => []PublisherHasRing
    OBVIOUS
  <1>2. IInv => PublisherHasRing
    BY <1>1
  <1>. QED  BY <1>2, SpecInv, PTL

(* With one worker thread the publisher object that a new player's handler *)
(* found still exists when it is dereferenced.                             *)
THEOREM FoundIsLiveCorrect == Groups = {Listening} => (Spec => []FoundIsLive)
  <1>. SUFFICES ASSUME Groups = {Listening} PROVE Spec => []FoundIsLive
    OBVIOUS
  <1>1. IInv => FoundIsLive
    BY LookedUpIsLive
  <1>. QED  BY <1>1, SpecInv, PTL
=============================================================================
