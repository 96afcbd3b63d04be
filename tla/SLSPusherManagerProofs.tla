---------------------- MODULE SLSPusherManagerProofs -----------------------
(* Proofs about SLSPusherManager: for any number of worker threads, of     *)
(* upstreams and of pushers, in both modes.                                *)
EXTENDS SLSPusherManager, FiniteSetTheorems, TLAPS

Worker == [pc : {"idle", "start", "connect", "uninit", "hash", "all", "table"},
           todo : SUBSET Upstreams, cur : Pushers \cup {None},
           no_publisher : BOOLEAN, ret : BOOLEAN, all_ret : BOOLEAN]
Pusher == [at : {"none", "queue"} \cup Groups, url : Upstreams \cup {0}]

PusherType ==
    /\ m_mode \in {"all", "hash"}
    /\ publisher \in BOOLEAN
    /\ m_map_reconnect_relay \in [Upstreams -> {"no", "wait", "due"}]
    /\ m_reconnect_begin_tm \in {"wait", "due"}
    /\ m_rwclock \in Groups \cup {None}
    /\ m_list_reconnect \in [Groups -> 0 .. MaxEntries]
    /\ pusher \in [Pushers -> Pusher]
    /\ \A p \in Pushers : Exists(p) => pusher[p].url \in Upstreams
    /\ worker \in [Groups -> Worker]
    /\ starts \in Nat
    /\ lost \subseteq Upstreams

(* Who may be where.  A pusher is closed by the group that has it, and a   *)
(* group that reconnects has an entry.                                     *)
PlaceOf(g) ==
    /\ worker[g].pc \in {"start", "connect"} => g = Listening
    /\ worker[g].pc = "uninit" => worker[g].cur \in Pushers /\ pusher[worker[g].cur].at = g
    /\ worker[g].pc = "table" <=> m_rwclock = g
    /\ worker[g].pc \in {"all", "table"} => m_mode = "all"
    /\ worker[g].pc = "hash" => m_mode = "hash"
    /\ worker[g].pc \in {"hash", "all", "table"} => m_list_reconnect[g] # 0

PlaceInv == \A g \in Groups : PlaceOf(g)

(* The upstreams that a start has still to go through.                     *)
Pending(u)   == worker[Listening].pc = "connect" /\ u \in worker[Listening].todo
HasPusher(u) == \E p \in Pushers : Exists(p) /\ pusher[p].url = u
Kept(u)      == HasPusher(u) \/ m_map_reconnect_relay[u] # "no" \/ Pending(u)

KeptInv == m_mode = "all" /\ starts # 0 => \A u \in Upstreams \ lost : Kept(u)

(* In mode all what is to come counts with what there is, a closing pusher *)
(* too, for it is the table that takes its place.                          *)
One(b) == IF b THEN 1 ELSE 0

AllCount(u) ==
    Cardinality(PushersTo(u)) + One(m_map_reconnect_relay[u] # "no") + One(Pending(u))

AllInv == m_mode = "all" => \A u \in Upstreams : AllCount(u) <= starts

(* In mode hash there is one url, and an entry takes a pusher's place from *)
(* the moment it begins to close.                                          *)
Active    == {p \in Pushers : Exists(p) /\ ~Closing(p)}
HashCount == Cardinality(Active) + Cardinality(Entries) + One(Pending(HashUrl))

HashInv ==
    m_mode = "hash" =>
        /\ \A p \in Pushers : Exists(p) => pusher[p].url = HashUrl
        /\ \A u \in Upstreams : Pending(u) => u = HashUrl
        /\ HashCount <= starts

IInv == PusherType /\ PlaceInv /\ KeptInv /\ AllInv /\ HashInv

-----------------------------------------------------------------------------
(* Least elements, and how sets of pushers grow and shrink.                *)

(* Every set of naturals that is not empty has its least element in it.    *)
LEMMA LeastIn ==
    ASSUME NEW T \in SUBSET Nat, T # {}
    PROVE  Min(T) \in T
  <1>. DEFINE rel == OpToRel(<, Nat)
  <1>0. \A x, y \in Nat : y < x => <<y, x>> \in rel
    BY DEF OpToRel
  <1>3. IsWellFoundedOn(rel, Nat)
    BY NatLessThanWellFounded
  <1>. HIDE DEF rel
  <1>1. PICK x \in T : \A y \in T : ~(<<y, x>> \in rel)
    BY <1>3, WFMin
  <1>2. \A y \in T : x <= y
    <2>. SUFFICES ASSUME NEW y \in T PROVE x <= y
      OBVIOUS
    <2>1. x \in Nat /\ y \in Nat
      OBVIOUS
    <2>2. ~(y < x)
      BY <1>0, <1>1, <2>1
    <2>. QED  BY <2>1, <2>2
  <1>. QED  BY <1>2 DEF Min

(* And so has every set of upstreams.                                      *)
LEMMA LeastUpstream ==
    ASSUME NEW T \in SUBSET Upstreams, T # {}
    PROVE  Min(T) \in T
  BY PusherAssumption, LeastIn

(* The url of mode hash is one of the upstreams.                           *)
LEMMA HashIn == HashUrl \in Upstreams
  BY PusherAssumption, LeastUpstream DEF HashUrl

(* Sets of pushers can be counted.                                         *)
LEMMA SetOfPushers ==
    ASSUME NEW S \in SUBSET Pushers
    PROVE  IsFiniteSet(S) /\ Cardinality(S) \in Nat
  BY PusherAssumption, FS_Subset, FS_CardinalityType

(* A pusher more is one more at most.                                      *)
LEMMA MorePushers ==
    ASSUME NEW S \in SUBSET Pushers, NEW T \in SUBSET Pushers, NEW p, T \subseteq S \cup {p}
    PROVE  Cardinality(T) <= Cardinality(S) + 1
  <1>1. IsFiniteSet(S) /\ Cardinality(S) \in Nat /\ Cardinality(T) \in Nat
    BY SetOfPushers
  <1>2. /\ IsFiniteSet(S \cup {p})
        /\ Cardinality(S \cup {p}) = IF p \in S THEN Cardinality(S) ELSE Cardinality(S) + 1
    BY <1>1, FS_AddElement
  <1>3. Cardinality(T) <= Cardinality(S \cup {p}) /\ Cardinality(S \cup {p}) \in Nat
    BY <1>2, FS_Subset, FS_CardinalityType
  <1>. QED  BY <1>1, <1>2, <1>3

(* A subset has no more.                                                   *)
LEMMA FewerPushers ==
    ASSUME NEW S \in SUBSET Pushers, NEW T \in SUBSET S
    PROVE  Cardinality(T) <= Cardinality(S) /\ Cardinality(T) \in Nat /\ Cardinality(S) \in Nat
  <1>1. IsFiniteSet(S) /\ Cardinality(S) \in Nat
    BY SetOfPushers
  <1>. QED  BY <1>1, FS_Subset, FS_CardinalityType

(* A pusher less is one less.                                              *)
LEMMA OneLess ==
    ASSUME NEW S \in SUBSET Pushers, NEW p \in S
    PROVE  Cardinality(S \ {p}) + 1 = Cardinality(S)
  <1>1. IsFiniteSet(S) /\ Cardinality(S) \in Nat
    BY SetOfPushers
  <1>2. Cardinality(S \ {p}) = IF p \in S THEN Cardinality(S) - 1 ELSE Cardinality(S)
    BY <1>1, FS_RemoveElement
  <1>. QED  BY <1>1, <1>2

(* The entries as numbers.                                                 *)
EntriesOf(list) == {e \in Groups \X (1 .. MaxEntries) : e[2] <= list[e[1]]}

(* Entries can be counted.                                                 *)
LEMMA EntriesFinite ==
    ASSUME NEW list
    PROVE  IsFiniteSet(EntriesOf(list)) /\ Cardinality(EntriesOf(list)) \in Nat
  <1>1. IsFiniteSet(Groups) /\ IsFiniteSet(1 .. MaxEntries)
    BY PusherAssumption, FS_Interval
  <1>2. IsFiniteSet(Groups \X (1 .. MaxEntries))
    BY <1>1, FS_Product
  <1>3. EntriesOf(list) \in SUBSET (Groups \X (1 .. MaxEntries))
    BY DEF EntriesOf
  <1>. QED  BY <1>2, <1>3, FS_Subset, FS_CardinalityType

(* A push onto one group's list is one entry more.                         *)
LEMMA OneEntryMore ==
    ASSUME NEW list \in [Groups -> 0 .. MaxEntries], NEW g \in Groups, list[g] < MaxEntries,
           NEW more, more = [list EXCEPT ![g] = @ + 1]
    PROVE  Cardinality(EntriesOf(more)) = Cardinality(EntriesOf(list)) + 1
  <1>. DEFINE e == <<g, list[g] + 1>>
  <1>1. list[g] \in Nat /\ MaxEntries \in Nat
    BY PusherAssumption
  <1>2. e \in Groups \X (1 .. MaxEntries) /\ e \notin EntriesOf(list)
    BY <1>1 DEF EntriesOf
  <1>3. EntriesOf(more) = EntriesOf(list) \cup {e}
    <2>1. ASSUME NEW x \in Groups \X (1 .. MaxEntries)
          PROVE  x[2] <= more[x[1]] <=> x[2] <= list[x[1]] \/ x = e
      <3>1. x = <<x[1], x[2]>> /\ x[1] \in Groups /\ x[2] \in Nat
        BY <1>1
      <3>2. CASE x[1] = g
        BY <1>1, <3>1, <3>2
      <3>3. CASE x[1] # g
        BY <1>1, <3>1, <3>3
      <3>. QED  BY <3>2, <3>3
    <2>. QED  BY <1>2, <2>1 DEF EntriesOf
  <1>. HIDE DEF e
  <1>. QED  BY <1>2, <1>3, EntriesFinite, FS_AddElement

(* A pop from one group's list is one entry less.                          *)
LEMMA OneEntryLess ==
    ASSUME NEW list \in [Groups -> 0 .. MaxEntries], NEW g \in Groups, list[g] # 0,
           NEW less, less = [list EXCEPT ![g] = @ - 1]
    PROVE  Cardinality(EntriesOf(less)) + 1 = Cardinality(EntriesOf(list))
  <1>1. list[g] \in 1 .. MaxEntries /\ MaxEntries \in Nat
    BY PusherAssumption
  <1>2. less \in [Groups -> 0 .. MaxEntries] /\ less[g] = list[g] - 1
    BY <1>1
  <1>3. \A h \in Groups : list[h] = [less EXCEPT ![g] = @ + 1][h]
    BY <1>1, <1>2
  <1>4. list = [less EXCEPT ![g] = @ + 1]
    BY <1>2, <1>3
  <1>5. less[g] < MaxEntries
    BY <1>1, <1>2
  <1>. QED  BY <1>2, <1>4, <1>5, OneEntryMore

(* The entries of the groups' reconnect lists.                             *)
LEMMA EntriesAre == Entries = EntriesOf(m_list_reconnect)
  BY DEF Entries, EntriesOf

-----------------------------------------------------------------------------
(* A step of a thread.                                                     *)

Others(g) == worker' \in [Groups -> Worker] /\ \A h \in Groups \ {g} : worker'[h] = worker[h]

Fields(g, pc, todo, cur) ==
    worker'[g].pc = pc /\ worker'[g].todo = todo /\ worker'[g].cur = cur

(* The types of a thread's variables.                                      *)
LEMMA WorkerFields ==
    ASSUME PusherType, NEW g \in Groups
    PROVE  /\ worker[g].pc \in {"idle", "start", "connect", "uninit", "hash", "all", "table"}
           /\ worker[g].todo \in SUBSET Upstreams /\ worker[g].cur \in Pushers \cup {None}
           /\ worker[g].no_publisher \in BOOLEAN
           /\ worker[g].ret \in BOOLEAN /\ worker[g].all_ret \in BOOLEAN
  BY DEF PusherType, Worker

(* The next lemmas: what an assignment to one thread's variables makes of  *)
(* them.                                                                   *)
LEMMA SetReturn ==
    ASSUME PusherType, NEW g \in Groups, Return(g)
    PROVE  Others(g) /\ Fields(g, "idle", {}, None)
  BY DEF PusherType, Return, Worker, Others, Fields

(* The thread goes on somewhere else.                                      *)
LEMMA SetPc ==
    ASSUME PusherType, NEW g \in Groups,
           NEW pc \in {"idle", "start", "connect", "uninit", "hash", "all", "table"},
           worker' = [worker EXCEPT ![g].pc = pc]
    PROVE  Others(g) /\ Fields(g, pc, worker[g].todo, worker[g].cur)
  BY DEF PusherType, Worker, Others, Fields

(* It begins to connect.                                                   *)
LEMMA SetBegin ==
    ASSUME PusherType, NEW g \in Groups, NEW todo \in SUBSET Upstreams,
           worker' = [worker EXCEPT ![g].pc = "connect", ![g].todo = todo]
    PROVE  Others(g) /\ Fields(g, "connect", todo, worker[g].cur)
  BY DEF PusherType, Worker, Others, Fields

(* It is done with one url.                                                *)
LEMMA SetTodo ==
    ASSUME PusherType, NEW g \in Groups, NEW u,
           worker' = [worker EXCEPT ![g].todo = @ \ {u}]
    PROVE  Others(g) /\ Fields(g, worker[g].pc, worker[g].todo \ {u}, worker[g].cur)
  BY DEF PusherType, Worker, Others, Fields

(* It begins to uninit a pusher.                                           *)
LEMMA SetCur ==
    ASSUME PusherType, NEW g \in Groups, NEW p \in Pushers,
           worker' = [worker EXCEPT ![g].pc = "uninit", ![g].cur = p]
    PROVE  Others(g) /\ Fields(g, "uninit", worker[g].todo, p)
  BY DEF PusherType, Worker, Others, Fields

(* It begins to reconnect.                                                 *)
LEMMA SetReconnect ==
    ASSUME PusherType, NEW g \in Groups, NEW b \in BOOLEAN,
           worker' = [worker EXCEPT ![g].pc = m_mode, ![g].no_publisher = b]
    PROVE  Others(g) /\ Fields(g, m_mode, worker[g].todo, worker[g].cur)
  BY DEF PusherType, Worker, Others, Fields

(* It begins to walk through the table.                                    *)
LEMMA SetTable ==
    ASSUME PusherType, NEW g \in Groups, NEW todo \in SUBSET Upstreams,
           worker' = [worker EXCEPT ![g].pc = "table", ![g].todo = todo,
                                    ![g].ret = FALSE, ![g].all_ret = TRUE]
    PROVE  Others(g) /\ Fields(g, "table", todo, worker[g].cur)
  <1>1. \A h \in Groups \ {g} : worker'[h] = worker[h]
    BY DEF PusherType, Worker
  <1>2. worker'[g] \in Worker
    BY DEF PusherType, Worker
  <1>3. DOMAIN worker' = Groups
    BY DEF PusherType
  <1>4. worker' \in [Groups -> Worker]
    BY <1>1, <1>2, <1>3 DEF PusherType
  <1>5. Fields(g, "table", todo, worker[g].cur)
    BY DEF PusherType, Worker, Fields
  <1>. QED  BY <1>1, <1>4, <1>5 DEF Others

(* It has the result of a url.                                             *)
LEMMA SetResult ==
    ASSUME PusherType, NEW g \in Groups, NEW ok \in BOOLEAN, NEW ret \in BOOLEAN, Result(g, ok, ret)
    PROVE  Others(g) /\ Fields(g, worker[g].pc, worker[g].todo \ {Min(worker[g].todo)}, worker[g].cur)
  <1>. DEFINE all_ret == worker[g].all_ret /\ ok
              todo == worker[g].todo \ {Min(worker[g].todo)}
  <1>1. worker \in [Groups -> Worker] /\ all_ret \in BOOLEAN /\ todo \in SUBSET Upstreams
    BY WorkerFields DEF PusherType
  <1>2. worker' = [worker EXCEPT ![g].todo = todo, ![g].ret = ret, ![g].all_ret = all_ret]
    BY DEF Result
  <1>. HIDE DEF todo, all_ret
  <1>3. \A h \in Groups \ {g} : worker'[h] = worker[h]
    BY <1>1, <1>2 DEF Worker
  <1>5. worker'[g] \in Worker
    BY <1>1, <1>2 DEF Worker
  <1>6. DOMAIN worker' = Groups
    BY <1>1, <1>2
  <1>7. worker' \in [Groups -> Worker]
    BY <1>1, <1>2, <1>3, <1>5, <1>6
  <1>4. Fields(g, worker[g].pc, todo, worker[g].cur)
    BY <1>1, <1>2 DEF Worker, Fields
  <1>. QED  BY <1>3, <1>4, <1>7 DEF Others, todo

(* A step of a pusher.                                                     *)
OtherPushers(p) == pusher' \in [Pushers -> Pusher] /\ \A q \in Pushers \ {p} : pusher'[q] = pusher[q]

(* A connection that succeeds is a pusher in the queue, for that url.      *)
LEMMA Connected ==
    ASSUME PusherType, NEW u \in Upstreams, Connect(u)
    PROVE  \E p \in Pushers : ~Exists(p) /\ OtherPushers(p)
                              /\ pusher'[p].at = "queue" /\ pusher'[p].url = u
  <1>1. PICK p \in Free : pusher' = [pusher EXCEPT ![p] = [at |-> "queue", url |-> u]]
    BY DEF Connect
  <1>2. p \in Pushers /\ ~Exists(p)
    BY DEF Free
  <1>3. [at |-> "queue", url |-> u] \in Pusher
    BY DEF Pusher
  <1>. HIDE DEF Pusher
  <1>. QED  BY <1>1, <1>2, <1>3 DEF PusherType, OtherPushers

(* A pusher that was deleted is no more.                                   *)
LEMMA Removed ==
    ASSUME PusherType, NEW p \in Pushers, pusher' = [pusher EXCEPT ![p] = NoPusher]
    PROVE  OtherPushers(p) /\ pusher'[p].at = "none"
  <1>1. NoPusher \in Pusher /\ NoPusher.at = "none"
    BY DEF Pusher, NoPusher
  <1>. QED  BY <1>1 DEF PusherType, OtherPushers

(* A pusher that is taken keeps its url.                                   *)
LEMMA Moved ==
    ASSUME PusherType, NEW p \in Pushers, NEW g \in Groups, pusher' = [pusher EXCEPT ![p].at = g]
    PROVE  OtherPushers(p) /\ pusher'[p].at = g /\ pusher'[p].url = pusher[p].url
  BY DEF PusherType, Pusher, OtherPushers

(* One url's time of the last try is set.                                  *)
LEMMA Stamped ==
    ASSUME PusherType, NEW u \in Upstreams, NEW t \in {"no", "wait", "due"}, Stamp(u, t)
    PROVE  /\ m_map_reconnect_relay' \in [Upstreams -> {"no", "wait", "due"}]
           /\ m_map_reconnect_relay'[u] = t
           /\ \A v \in Upstreams \ {u} : m_map_reconnect_relay'[v] = m_map_reconnect_relay[v]
  BY DEF PusherType, Stamp

-----------------------------------------------------------------------------
(* What a step leaves as it was.                                           *)

(* Where the other threads are does not depend on this one's step.         *)
LEMMA PlaceStep ==
    ASSUME PusherType, PlaceInv, NEW g \in Groups, Others(g), m_mode' = m_mode, PlaceOf(g)',
           ASSUME NEW h \in Groups \ {g}
           PROVE  /\ m_rwclock' = h <=> m_rwclock = h
                  /\ m_list_reconnect'[h] = m_list_reconnect[h]
                  /\ \A p \in Pushers : pusher[p].at = h => pusher'[p].at = h
    PROVE  PlaceInv'
  <1>. SUFFICES ASSUME NEW h \in Groups PROVE PlaceOf(h)'
    BY DEF PlaceInv
  <1>1. CASE h = g
    BY <1>1
  <1>2. CASE h # g
    <2>1. /\ worker'[h] = worker[h]
          /\ m_rwclock' = h <=> m_rwclock = h
          /\ m_list_reconnect'[h] = m_list_reconnect[h]
          /\ \A p \in Pushers : pusher[p].at = h => pusher'[p].at = h
      BY <1>2 DEF Others
    <2>2. PlaceOf(h)
      BY DEF PlaceInv
    <2>. QED  BY <2>1, <2>2 DEF PlaceOf
  <1>. QED  BY <1>1, <1>2

(* A thread that does not connect leaves what is to be connected alone.    *)
LEMMA PendingStays ==
    ASSUME NEW g \in Groups, Others(g), worker[g].pc # "connect", worker'[g].pc # "connect", NEW u
    PROVE  Pending(u)' <=> Pending(u)
  BY PusherAssumption DEF Others, Pending

(* A thread that closes no pusher leaves the closing alone.                *)
LEMMA ClosingStays ==
    ASSUME NEW g \in Groups, Others(g), worker[g].pc # "uninit", worker'[g].pc # "uninit", NEW p
    PROVE  Closing(p)' <=> Closing(p)
  BY DEF Others, Closing, At

(* One counts 0 or 1.                                                      *)
LEMMA OneLeq ==
    ASSUME NEW a, NEW b, a => b
    PROVE  One(a) <= One(b) /\ One(a) \in 0 .. 1 /\ One(b) \in 0 .. 1
  BY DEF One

(* Nothing that counts in mode all is added.                               *)
LEMMA AllCountSame ==
    ASSUME NEW u, PushersTo(u)' \subseteq PushersTo(u),
           m_map_reconnect_relay'[u] # "no" => m_map_reconnect_relay[u] # "no",
           Pending(u)' => Pending(u)
    PROVE  AllCount(u)' <= AllCount(u) /\ AllCount(u) \in Nat /\ AllCount(u)' \in Nat
  <1>. DEFINE S == PushersTo(u)
              T == PushersTo(u)'
              a == m_map_reconnect_relay[u] # "no"
              b == m_map_reconnect_relay'[u] # "no"
              c == Pending(u)
              d == Pending(u)'
  <1>1. Cardinality(T) <= Cardinality(S) /\ Cardinality(T) \in Nat /\ Cardinality(S) \in Nat
    <2>1. S \in SUBSET Pushers /\ T \in SUBSET S
      BY DEF PushersTo
    <2>. HIDE DEF S, T
    <2>. QED  BY <2>1, FewerPushers
  <1>2. One(b) <= One(a) /\ One(a) \in 0 .. 1 /\ One(b) \in 0 .. 1
    BY OneLeq
  <1>3. One(d) <= One(c) /\ One(c) \in 0 .. 1 /\ One(d) \in 0 .. 1
    BY OneLeq
  <1>4. /\ AllCount(u) = Cardinality(S) + One(a) + One(c)
        /\ AllCount(u)' = Cardinality(T) + One(b) + One(d)
    BY DEF AllCount
  <1>. HIDE DEF S, T, a, b, c, d
  <1>. QED  BY <1>1, <1>2, <1>3, <1>4

(* Nothing that counts in mode hash is added.                              *)
LEMMA HashCountSame ==
    ASSUME Active' \subseteq Active, m_list_reconnect' = m_list_reconnect,
           Pending(HashUrl)' => Pending(HashUrl)
    PROVE  HashCount' <= HashCount /\ HashCount \in Nat /\ HashCount' \in Nat
  <1>. DEFINE S == Active
              T == Active'
              n == Cardinality(Entries)
              c == Pending(HashUrl)
              d == Pending(HashUrl)'
  <1>1. Cardinality(T) <= Cardinality(S) /\ Cardinality(T) \in Nat /\ Cardinality(S) \in Nat
    <2>1. S \in SUBSET Pushers /\ T \in SUBSET S
      BY DEF Active
    <2>. HIDE DEF S, T
    <2>. QED  BY <2>1, FewerPushers
  <1>2. Cardinality(Entries') = n /\ n \in Nat
    <2>1. Entries' = Entries
      BY DEF Entries
    <2>. QED  BY <2>1, EntriesAre, EntriesFinite
  <1>3. One(d) <= One(c) /\ One(c) \in 0 .. 1 /\ One(d) \in 0 .. 1
    BY OneLeq
  <1>4. /\ HashCount = Cardinality(S) + n + One(c)
        /\ HashCount' = Cardinality(T) + Cardinality(Entries') + One(d)
    BY DEF HashCount, HashUrl
  <1>. HIDE DEF S, T, n, c, d
  <1>. QED  BY <1>1, <1>2, <1>3, <1>4

-----------------------------------------------------------------------------
(* The steps.                                                              *)

(* The invariant holds at first.                                           *)
LEMMA InitInv == Init => IInv
  <1>. SUFFICES ASSUME Init PROVE IInv
    OBVIOUS
  <1>1. PusherType
    <2>1. NoPusher \in Pusher /\ NoPusher.at = "none"
      BY DEF NoPusher, Pusher
    <2>2. \A p \in Pushers : pusher[p] = NoPusher
      BY DEF Init
    <2>3. worker \in [Groups -> Worker]
      BY DEF Init, Worker
    <2>4. pusher \in [Pushers -> Pusher]
      BY <2>1 DEF Init
    <2>5. \A p \in Pushers : ~Exists(p)
      BY <2>1, <2>2 DEF Exists
    <2>6. m_list_reconnect \in [Groups -> 0 .. MaxEntries]
      BY PusherAssumption DEF Init
    <2>7. publisher \in BOOLEAN
      BY DEF Init
    <2>. QED  BY <2>3, <2>4, <2>5, <2>6, <2>7 DEF Init, PusherType
  <1>2. PlaceInv
    BY PusherAssumption DEF Init, PlaceInv, PlaceOf
  <1>3. KeptInv
    BY DEF Init, KeptInv
  <1>4. \A p \in Pushers : ~Exists(p)
    BY DEF Init, NoPusher, Exists
  <1>5. \A u \in Upstreams : ~Pending(u)
    BY PusherAssumption DEF Init, Pending
  <1>6. AllInv
    <2>. SUFFICES ASSUME NEW u \in Upstreams PROVE AllCount(u) <= starts
      BY DEF AllInv
    <2>1. PushersTo(u) = {}
      BY <1>4 DEF PushersTo
    <2>2. m_map_reconnect_relay[u] = "no" /\ starts = 0
      BY DEF Init
    <2>3. One(m_map_reconnect_relay[u] # "no") = 0 /\ One(Pending(u)) = 0
      BY <1>5, <2>2 DEF One
    <2>. QED  BY <2>1, <2>2, <2>3, FS_EmptySet DEF AllCount
  <1>7. HashInv
    <2>1. Active = {}
      BY <1>4 DEF Active
    <2>2. Entries = {}
      BY DEF Init, Entries
    <2>3. One(Pending(HashUrl)) = 0
      BY <1>5, HashIn DEF One
    <2>4. HashCount = 0
      BY <2>1, <2>2, <2>3, FS_EmptySet DEF HashCount
    <2>5. starts = 0
      BY DEF Init
    <2>. QED  BY <1>4, <1>5, <2>4, <2>5 DEF HashInv
  <1>. QED  BY <1>1, <1>2, <1>3, <1>6, <1>7 DEF IInv

(* A step that takes nothing away and adds no pusher.                      *)
LEMMA QuietStep ==
    ASSUME IInv, PusherType', PlaceInv', m_mode' = m_mode, starts' = starts, lost' = lost,
           ASSUME NEW p \in Pushers
           PROVE  /\ Exists(p)' <=> Exists(p)
                  /\ Exists(p) => pusher'[p].url = pusher[p].url
                  /\ Closing(p) => Closing(p)',
           ASSUME NEW u \in Upstreams
           PROVE  /\ m_map_reconnect_relay'[u] # "no" <=> m_map_reconnect_relay[u] # "no"
                  /\ Pending(u)' <=> Pending(u),
           m_mode = "hash" => m_list_reconnect' = m_list_reconnect
    PROVE  IInv'
  <1>1. KeptInv'
    <2>. SUFFICES ASSUME m_mode = "all", starts # 0, NEW u \in Upstreams \ lost PROVE Kept(u)'
      BY DEF KeptInv
    <2>1. Kept(u)
      BY DEF IInv, KeptInv
    <2>. QED  BY <2>1 DEF Kept, HasPusher
  <1>2. AllInv'
    <2>. SUFFICES ASSUME m_mode = "all", NEW u \in Upstreams PROVE AllCount(u)' <= starts
      BY DEF AllInv
    <2>1. PushersTo(u)' \subseteq PushersTo(u)
      BY DEF PushersTo
    <2>2. AllCount(u)' <= AllCount(u) /\ AllCount(u) \in Nat /\ AllCount(u)' \in Nat
      BY <2>1, AllCountSame
    <2>. QED  BY <2>2 DEF IInv, AllInv, PusherType
  <1>3. HashInv'
    <2>. SUFFICES ASSUME m_mode = "hash"
                  PROVE  /\ \A p \in Pushers : Exists(p)' => pusher'[p].url = HashUrl
                         /\ \A u \in Upstreams : Pending(u)' => u = HashUrl
                         /\ HashCount' <= starts
      BY DEF HashInv, HashUrl
    <2>1. Active' \subseteq Active
      BY DEF Active
    <2>2. HashCount' <= HashCount /\ HashCount \in Nat /\ HashCount' \in Nat
      BY <2>1, HashIn, HashCountSame
    <2>. QED  BY <2>2 DEF IInv, HashInv, PusherType
  <1>. QED  BY <1>1, <1>2, <1>3 DEF IInv

(* A publisher comes.                                                      *)
LEMMA PublisherComesInv ==
    ASSUME IInv, PublisherComes
    PROVE  IInv'
  <1>. DEFINE g == Listening
  <1>1. PusherType /\ PlaceInv /\ g \in Groups /\ worker[g].pc = "idle" /\ PlaceOf(g)
    BY PusherAssumption DEF IInv, PlaceInv, PublisherComes, Idle
  <1>2. Others(g) /\ Fields(g, "start", worker[g].todo, worker[g].cur)
    BY <1>1, SetPc DEF PublisherComes
  <1>3. PusherType'
    BY <1>1, <1>2 DEF PublisherComes, table, PusherType, Others, Exists
  <1>4. PlaceOf(g)'
    BY <1>1, <1>2 DEF PublisherComes, table, Fields, PlaceOf
  <1>5. PlaceInv'
    BY <1>1, <1>2, <1>4, PlaceStep DEF PublisherComes
  <1>6. worker[g].pc \notin {"connect", "uninit"} /\ worker'[g].pc \notin {"connect", "uninit"}
    BY <1>1, <1>2 DEF Fields
  <1>. QED  BY <1>1, <1>2, <1>3, <1>5, <1>6, PendingStays, ClosingStays, QuietStep
            DEF PublisherComes, table, Exists

(* A start has gone through its urls.                                      *)
LEMMA StartedInv ==
    ASSUME IInv, NEW g \in Groups, Started(g)
    PROVE  IInv'
  <1>1. PusherType /\ PlaceInv /\ worker[g].pc = "connect" /\ worker[g].todo = {} /\ PlaceOf(g)
    BY DEF IInv, PlaceInv, Started, At
  <1>2. Others(g) /\ Fields(g, "idle", {}, None)
    BY <1>1, SetReturn DEF Started
  <1>3. PusherType'
    BY <1>1, <1>2 DEF Started, table, PusherType, Others, Exists
  <1>4. PlaceOf(g)'
    BY <1>1, <1>2 DEF Started, table, Fields, PlaceOf
  <1>5. PlaceInv'
    BY <1>1, <1>2, <1>4, PlaceStep DEF Started
  <1>6. g = Listening
    BY <1>1 DEF PlaceOf
  <1>7. \A u \in Upstreams : Pending(u)' <=> Pending(u)
    BY <1>1, <1>2, <1>6 DEF Fields, Pending
  <1>8. worker[g].pc # "uninit" /\ worker'[g].pc # "uninit"
    BY <1>1, <1>2 DEF Fields
  <1>. QED  BY <1>2, <1>3, <1>5, <1>7, <1>8, ClosingStays, QuietStep DEF Started, table, Exists

(* A group begins to reconnect.                                            *)
LEMMA ReconnectInv ==
    ASSUME IInv, NEW g \in Groups, Reconnect(g)
    PROVE  IInv'
  <1>1. PusherType /\ PlaceInv /\ worker[g].pc = "idle" /\ PlaceOf(g)
    BY DEF IInv, PlaceInv, Reconnect, Idle
  <1>2. Others(g) /\ Fields(g, m_mode, worker[g].todo, worker[g].cur)
    <2>. DEFINE b == ~publisher
    <2>1. b \in BOOLEAN
      OBVIOUS
    <2>2. worker' = [worker EXCEPT ![g].pc = m_mode, ![g].no_publisher = b]
      BY DEF Reconnect
    <2>. HIDE DEF b
    <2>. QED  BY <1>1, <2>1, <2>2, SetReconnect
  <1>3. m_mode \in {"all", "hash"} /\ m_list_reconnect[g] # 0
    BY <1>1 DEF PusherType, Reconnect
  <1>4. PusherType'
    BY <1>1, <1>2 DEF Reconnect, table, PusherType, Others, Exists
  <1>5. PlaceOf(g)'
    BY <1>1, <1>2, <1>3 DEF Reconnect, table, Fields, PlaceOf
  <1>6. PlaceInv'
    BY <1>1, <1>2, <1>5, PlaceStep DEF Reconnect
  <1>7. worker[g].pc \notin {"connect", "uninit"} /\ worker'[g].pc \notin {"connect", "uninit"}
    BY <1>1, <1>2, <1>3 DEF Fields
  <1>. QED  BY <1>1, <1>2, <1>4, <1>6, <1>7, PendingStays, ClosingStays, QuietStep
            DEF Reconnect, table, Exists

(* A group takes the lock of the table.                                    *)
LEMMA ReconnectAllInv ==
    ASSUME IInv, NEW g \in Groups, ReconnectAll(g)
    PROVE  IInv'
  <1>1. PusherType /\ PlaceInv /\ worker[g].pc = "all" /\ PlaceOf(g) /\ m_rwclock = None
    BY DEF IInv, PlaceInv, ReconnectAll, At, CanLock
  <1>2. Others(g) /\ Fields(g, "table", InTable, worker[g].cur)
    <2>1. InTable \in SUBSET Upstreams
      BY DEF InTable
    <2>. QED  BY <1>1, <2>1, SetTable DEF ReconnectAll
  <1>3. m_rwclock' = g
    BY DEF ReconnectAll
  <1>4. PusherType'
    BY <1>1, <1>2 DEF ReconnectAll, table, PusherType, Others, Exists
  <1>5. PlaceOf(g)'
    BY <1>1, <1>2, <1>3 DEF ReconnectAll, table, Fields, PlaceOf
  <1>6. PlaceInv'
    BY <1>1, <1>2, <1>3, <1>5, PusherAssumption, PlaceStep DEF ReconnectAll
  <1>7. worker[g].pc \notin {"connect", "uninit"} /\ worker'[g].pc \notin {"connect", "uninit"}
    BY <1>1, <1>2 DEF Fields
  <1>. QED  BY <1>1, <1>2, <1>4, <1>6, <1>7, PendingStays, ClosingStays, QuietStep
            DEF ReconnectAll, table, Exists

(* A group is through with the table.                                      *)
LEMMA EndOfTableInv ==
    ASSUME IInv, NEW g \in Groups, EndOfTable(g)
    PROVE  IInv'
  <1>1. /\ PusherType /\ PlaceInv /\ worker[g].pc = "table" /\ PlaceOf(g)
        /\ m_rwclock = g /\ m_mode = "all" /\ m_list_reconnect[g] # 0
    BY DEF IInv, PlaceInv, PlaceOf, EndOfTable, At
  <1>2. Others(g) /\ Fields(g, "idle", {}, None) /\ m_rwclock' = None
    BY <1>1, SetReturn DEF EndOfTable
  <1>3. /\ m_list_reconnect' \in [Groups -> 0 .. MaxEntries]
        /\ \A h \in Groups \ {g} : m_list_reconnect'[h] = m_list_reconnect[h]
    <2>1. m_list_reconnect' \in {m_list_reconnect, [m_list_reconnect EXCEPT ![g] = @ - 1]}
      BY DEF EndOfTable, LeaveList
    <2>. QED  BY <1>1, <2>1, PusherAssumption DEF PusherType
  <1>4. PusherType'
    BY <1>1, <1>2, <1>3 DEF EndOfTable, table, PusherType, Others, Exists
  <1>5. PlaceOf(g)'
    BY <1>1, <1>2, PusherAssumption DEF EndOfTable, table, Fields, PlaceOf
  <1>6. PlaceInv'
    BY <1>1, <1>2, <1>3, <1>5, PusherAssumption, PlaceStep DEF EndOfTable
  <1>7. worker[g].pc \notin {"connect", "uninit"} /\ worker'[g].pc \notin {"connect", "uninit"}
    BY <1>1, <1>2 DEF Fields
  <1>. QED  BY <1>1, <1>2, <1>4, <1>6, <1>7, PendingStays, ClosingStays, QuietStep
            DEF EndOfTable, table, Exists

(* Time passes, or the publisher goes.                                     *)
LEMMA TimeInv ==
    ASSUME IInv, PublisherGoes \/ DueHash \/ \E u \in Upstreams : Due(u)
    PROVE  IInv'
  <1>1. /\ UNCHANGED <<m_mode, m_rwclock, m_list_reconnect, pusher, worker, starts, lost>>
        /\ publisher' \in BOOLEAN /\ m_reconnect_begin_tm' \in {"wait", "due"}
        /\ m_map_reconnect_relay' \in [Upstreams -> {"no", "wait", "due"}]
        /\ \A u \in Upstreams : m_map_reconnect_relay'[u] # "no" <=> m_map_reconnect_relay[u] # "no"
    <2>1. PusherType
      BY DEF IInv
    <2>2. CASE PublisherGoes
      BY <2>1, <2>2 DEF PublisherGoes, table, PusherType
    <2>3. CASE DueHash
      BY <2>1, <2>3 DEF DueHash, PusherType
    <2>4. ASSUME NEW u \in Upstreams, Due(u)
          PROVE  /\ m_map_reconnect_relay' \in [Upstreams -> {"no", "wait", "due"}]
                 /\ \A v \in Upstreams :
                        m_map_reconnect_relay'[v] # "no" <=> m_map_reconnect_relay[v] # "no"
      BY <2>1, <2>4, Stamped DEF Due
    <2>. QED  BY <2>1, <2>2, <2>3, <2>4 DEF Due, PusherType
  <1>2. PusherType'
    BY <1>1 DEF IInv, PusherType, Exists
  <1>3. PlaceInv'
    BY <1>1 DEF IInv, PlaceInv, PlaceOf
  <1>. QED  BY <1>1, <1>2, <1>3, QuietStep DEF Exists, Closing, At, Pending

(* Nothing changes.                                                        *)
LEMMA StutterInv ==
    ASSUME IInv, UNCHANGED vars
    PROVE  IInv'
  <1>1. PusherType' /\ PlaceInv'
    BY DEF IInv, vars, table, PusherType, PlaceInv, PlaceOf, Exists
  <1>. QED  BY <1>1, QuietStep DEF vars, table, Exists, Closing, At, Pending

(* How counts move.                                                        *)
LEMMA AllCountStep ==
    ASSUME NEW u, NEW k \in -1 .. 1,
           Cardinality(PushersTo(u))' <= Cardinality(PushersTo(u)) + k,
           k + One(m_map_reconnect_relay'[u] # "no") + One(Pending(u)')
               <= One(m_map_reconnect_relay[u] # "no") + One(Pending(u))
    PROVE  AllCount(u)' <= AllCount(u) /\ AllCount(u) \in Nat /\ AllCount(u)' \in Nat
  <1>. DEFINE s == Cardinality(PushersTo(u))
              t == Cardinality(PushersTo(u))'
              a == One(m_map_reconnect_relay[u] # "no")
              b == One(m_map_reconnect_relay'[u] # "no")
              c == One(Pending(u))
              d == One(Pending(u)')
  <1>1. s \in Nat /\ t \in Nat
    <2>1. PushersTo(u) \in SUBSET Pushers /\ PushersTo(u)' \in SUBSET Pushers
      BY DEF PushersTo
    <2>. QED  BY <2>1, SetOfPushers
  <1>2. a \in 0 .. 1 /\ b \in 0 .. 1 /\ c \in 0 .. 1 /\ d \in 0 .. 1
    BY OneLeq
  <1>3. t <= s + k /\ k + b + d <= a + c
    OBVIOUS
  <1>4. AllCount(u) = s + a + c /\ AllCount(u)' = t + b + d
    BY DEF AllCount
  <1>. HIDE DEF s, t, a, b, c, d
  <1>. QED  BY <1>1, <1>2, <1>3, <1>4

(* The same for mode hash, where a pusher may take an entry's place.       *)
LEMMA HashCountStep ==
    ASSUME NEW k \in -1 .. 1, NEW j \in -1 .. 1,
           Cardinality(Active') <= Cardinality(Active) + k,
           Cardinality(Entries') = Cardinality(Entries) + j,
           k + j + One(Pending(HashUrl)') <= One(Pending(HashUrl))
    PROVE  HashCount' <= HashCount /\ HashCount \in Nat /\ HashCount' \in Nat
  <1>. DEFINE s == Cardinality(Active)
              t == Cardinality(Active')
              n == Cardinality(Entries)
              m == Cardinality(Entries')
              c == One(Pending(HashUrl))
              d == One(Pending(HashUrl)')
  <1>1. s \in Nat /\ t \in Nat
    <2>1. Active \in SUBSET Pushers /\ Active' \in SUBSET Pushers
      BY DEF Active
    <2>. QED  BY <2>1, SetOfPushers
  <1>2. n \in Nat /\ m \in Nat
    <2>1. Entries' = EntriesOf(m_list_reconnect')
      BY DEF Entries, EntriesOf
    <2>. QED  BY <2>1, EntriesAre, EntriesFinite
  <1>3. c \in 0 .. 1 /\ d \in 0 .. 1
    BY OneLeq
  <1>4. t <= s + k /\ m = n + j /\ k + j + d <= c
    OBVIOUS
  <1>5. HashCount = s + n + c /\ HashCount' = t + m + d
    BY DEF HashCount, HashUrl
  <1>. HIDE DEF s, t, n, m, c, d
  <1>. QED  BY <1>1, <1>2, <1>3, <1>4, <1>5

(* What a new pusher changes.                                              *)
LEMMA NewPusher ==
    ASSUME PusherType, NEW v \in Upstreams, NEW p \in Pushers, ~Exists(p), OtherPushers(p),
           pusher'[p].at = "queue", pusher'[p].url = v
    PROVE  /\ \A q \in Pushers : Exists(q)' => pusher'[q].url \in Upstreams
           /\ \A q \in Pushers : Exists(q)' => \/ pusher'[q].url = v
                                               \/ Exists(q) /\ pusher'[q].url = pusher[q].url
           /\ \A h \in Groups : \A q \in Pushers : pusher[q].at = h => pusher'[q].at = h
           /\ \A u : u # v => PushersTo(u)' = PushersTo(u)
           /\ Cardinality(PushersTo(v))' <= Cardinality(PushersTo(v)) + 1
           /\ HasPusher(v)' /\ \A u : HasPusher(u) => HasPusher(u)'
           /\ (\A q \in Pushers : Closing(q)' <=> Closing(q)) =>
                  Cardinality(Active') <= Cardinality(Active) + 1
  <1>1. pusher[p].at = "none" /\ \A q \in Pushers \ {p} : pusher'[q] = pusher[q]
    BY DEF OtherPushers, Exists
  <1>2. \A q \in Pushers : Exists(q)' => \/ pusher'[q].url = v
                                         \/ Exists(q) /\ pusher'[q].url = pusher[q].url
    BY <1>1 DEF Exists
  <1>3. \A q \in Pushers : Exists(q)' => pusher'[q].url \in Upstreams
    BY <1>2 DEF PusherType
  <1>4. \A h \in Groups : \A q \in Pushers : pusher[q].at = h => pusher'[q].at = h
    BY <1>1, PusherAssumption
  <1>5. \A u : u # v => PushersTo(u)' = PushersTo(u)
    BY <1>1 DEF PushersTo, Exists
  <1>6. PushersTo(v)' \subseteq PushersTo(v) \cup {p}
    BY <1>1 DEF PushersTo, Exists
  <1>7. Cardinality(PushersTo(v))' <= Cardinality(PushersTo(v)) + 1
    <2>1. PushersTo(v) \in SUBSET Pushers /\ PushersTo(v)' \in SUBSET Pushers
      BY DEF PushersTo
    <2>. QED  BY <1>6, <2>1, MorePushers
  <1>8. HasPusher(v)' /\ \A u : HasPusher(u) => HasPusher(u)'
    BY <1>1 DEF HasPusher, Exists
  <1>9. ASSUME \A q \in Pushers : Closing(q)' <=> Closing(q)
        PROVE  Cardinality(Active') <= Cardinality(Active) + 1
    <2>1. Active' \subseteq Active \cup {p}
      BY <1>1, <1>9 DEF Active, Exists
    <2>2. Active \in SUBSET Pushers /\ Active' \in SUBSET Pushers
      BY DEF Active
    <2>. QED  BY <2>1, <2>2, MorePushers
  <1>. QED  BY <1>2, <1>3, <1>4, <1>5, <1>7, <1>8, <1>9

(* With a publisher, start has all it chose before it, and one more pusher *)
(* is allowed to each.                                                     *)
LEMMA StartInv ==
    ASSUME IInv, NEW g \in Groups, Start(g)
    PROVE  IInv'
  <1>1. PusherType /\ PlaceInv /\ worker[g].pc = "start" /\ PlaceOf(g) /\ g = Listening
    BY DEF IInv, PlaceInv, PlaceOf, Start, At
  <1>2. /\ UNCHANGED <<m_mode, publisher, m_map_reconnect_relay, m_reconnect_begin_tm, m_rwclock,
                       m_list_reconnect, pusher, lost>>
        /\ \A u : ~Pending(u)
    BY <1>1 DEF Start, table, Pending
  <1>3. CASE ~publisher
    <2>1. Others(g) /\ Fields(g, "idle", {}, None) /\ starts' = starts
      BY <1>1, <1>3, SetReturn DEF Start
    <2>2. PusherType'
      BY <1>1, <1>2, <2>1 DEF PusherType, Others, Exists
    <2>3. PlaceOf(g)'
      BY <1>1, <1>2, <2>1 DEF Fields, PlaceOf
    <2>4. PlaceInv'
      BY <1>1, <1>2, <2>1, <2>3, PlaceStep
    <2>5. worker[g].pc \notin {"connect", "uninit"} /\ worker'[g].pc \notin {"connect", "uninit"}
      BY <1>1, <2>1 DEF Fields
    <2>. QED  BY <1>2, <2>1, <2>2, <2>4, <2>5, PendingStays, ClosingStays, QuietStep DEF Exists
  <1>4. CASE publisher
    <2>1. Chosen \in SUBSET Upstreams
      BY HashIn DEF Chosen
    <2>2. Others(g) /\ Fields(g, "connect", Chosen, worker[g].cur) /\ starts' = starts + 1
      BY <1>1, <1>4, <2>1, SetBegin DEF Start
    <2>3. PusherType'
      BY <1>1, <1>2, <2>2 DEF PusherType, Others, Exists
    <2>4. PlaceOf(g)'
      BY <1>1, <1>2, <2>2 DEF Fields, PlaceOf
    <2>5. PlaceInv'
      BY <1>1, <1>2, <2>2, <2>4, PlaceStep
    <2>6. \A u : Pending(u)' <=> u \in Chosen
      BY <1>1, <2>2 DEF Fields, Pending
    <2>7. worker[g].pc # "uninit" /\ worker'[g].pc # "uninit" /\ starts \in Nat
      BY <1>1, <2>2 DEF Fields, PusherType
    <2>8. KeptInv'
      BY <1>2, <2>6 DEF KeptInv, Kept, Chosen
    <2>9. AllInv'
      <3>. SUFFICES ASSUME m_mode = "all", NEW u \in Upstreams PROVE AllCount(u)' <= starts + 1
        BY <1>2, <2>2 DEF AllInv
      <3>1. PushersTo(u)' = PushersTo(u)
        BY <1>2 DEF PushersTo, Exists
      <3>2. One(Pending(u)) = 0 /\ One(Pending(u)') \in 0 .. 1
        BY <1>2 DEF One
      <3>3. AllCount(u) <= starts
        BY DEF IInv, AllInv
      <3>4. Cardinality(PushersTo(u)) \in Nat /\ One(m_map_reconnect_relay[u] # "no") \in 0 .. 1
        BY SetOfPushers, OneLeq DEF PushersTo
      <3>5. AllCount(u)' =
                Cardinality(PushersTo(u)) + One(m_map_reconnect_relay[u] # "no") + One(Pending(u)')
        BY <1>2, <3>1 DEF AllCount
      <3>. HIDE DEF One
      <3>. QED  BY <2>7, <3>2, <3>3, <3>4, <3>5 DEF AllCount
    <2>10. HashInv'
      <3>. SUFFICES ASSUME m_mode = "hash"
                    PROVE  /\ \A p \in Pushers : Exists(p)' => pusher'[p].url = HashUrl
                           /\ \A u \in Upstreams : Pending(u)' => u = HashUrl
                           /\ HashCount' <= starts + 1
        BY <1>2, <2>2 DEF HashInv, HashUrl
      <3>1. \A p \in Pushers : Exists(p)' => pusher'[p].url = HashUrl
        BY <1>2 DEF IInv, HashInv, Exists
      <3>2. \A u \in Upstreams : Pending(u)' => u = HashUrl
        BY <2>6 DEF Chosen
      <3>3. Active' = Active /\ Entries' = Entries
        BY <1>2, <2>2, <2>7, ClosingStays DEF Active, Entries, Exists
      <3>4. One(Pending(HashUrl)) = 0 /\ One(Pending(HashUrl)') \in 0 .. 1
        BY <1>2 DEF One
      <3>5. HashCount <= starts
        BY DEF IInv, HashInv
      <3>6. Cardinality(Active) \in Nat /\ Cardinality(Entries) \in Nat
        BY SetOfPushers, EntriesAre, EntriesFinite DEF Active
      <3>7. HashCount' = Cardinality(Active) + Cardinality(Entries) + One(Pending(HashUrl)')
        BY <3>3 DEF HashCount, HashUrl
      <3>8. HashCount' <= starts + 1
        BY <2>7, <3>4, <3>5, <3>6, <3>7 DEF HashCount
      <3>. QED  BY <3>1, <3>2, <3>8
    <2>. QED  BY <2>3, <2>5, <2>8, <2>9, <2>10 DEF IInv
  <1>. QED  BY <1>3, <1>4

(* The next upstream gets its pusher or stands in the table.               *)
LEMMA ConnectNextInv ==
    ASSUME IInv, NEW g \in Groups, ConnectNext(g)
    PROVE  IInv'
  <1>1. PusherType /\ PlaceInv /\ worker[g].pc = "connect" /\ PlaceOf(g) /\ g = Listening
    BY DEF IInv, PlaceInv, PlaceOf, ConnectNext, At
  <1>2. PICK v \in Upstreams : v = Min(worker[g].todo) /\ v \in worker[g].todo
    BY <1>1, WorkerFields, LeastUpstream DEF ConnectNext
  <1>3. Others(g) /\ Fields(g, "connect", worker[g].todo \ {v}, worker[g].cur)
    <2>1. worker' = [worker EXCEPT ![g].todo = @ \ {v}]
      BY <1>2 DEF ConnectNext
    <2>. QED  BY <1>1, <2>1, SetTodo
  <1>4. /\ UNCHANGED <<m_mode, publisher, m_reconnect_begin_tm, m_rwclock, m_list_reconnect,
                       starts, lost>>
        /\ \/ Connect(v) /\ m_map_reconnect_relay' = m_map_reconnect_relay
           \/ m_mode = "all" /\ Stamp(v, "wait") /\ pusher' = pusher
           \/ m_mode = "hash" /\ m_map_reconnect_relay' = m_map_reconnect_relay /\ pusher' = pusher
    BY <1>1, <1>2 DEF ConnectNext, RecordUrl, PusherType
  <1>5. /\ \A u : Pending(u)' <=> Pending(u) /\ u # v
        /\ Pending(v)
    BY <1>1, <1>2, <1>3 DEF Fields, Pending
  <1>6. \A q \in Pushers : Closing(q)' <=> Closing(q)
    <2>1. worker[g].pc # "uninit" /\ worker'[g].pc # "uninit"
      BY <1>1, <1>3 DEF Fields
    <2>. QED  BY <1>3, <2>1, ClosingStays
  <1>7. PlaceOf(g)' /\ starts \in Nat
    BY <1>1, <1>3, <1>4 DEF Fields, PlaceOf, PusherType
  <1>8. One(Pending(v)) = 1 /\ One(Pending(v)') = 0
    BY <1>5 DEF One
  <1>9. ASSUME NEW u, u # v PROVE One(Pending(u)') = One(Pending(u))
    BY <1>5, <1>9 DEF One
  <1>10. CASE Connect(v) /\ m_map_reconnect_relay' = m_map_reconnect_relay
    <2>1. PICK p \in Pushers : /\ ~Exists(p) /\ OtherPushers(p)
                               /\ pusher'[p].at = "queue" /\ pusher'[p].url = v
      BY <1>1, <1>2, <1>10, Connected
    <2>2. /\ \A q \in Pushers : Exists(q)' => pusher'[q].url \in Upstreams
          /\ \A q \in Pushers : Exists(q)' => \/ pusher'[q].url = v
                                              \/ Exists(q) /\ pusher'[q].url = pusher[q].url
          /\ \A h \in Groups : \A q \in Pushers : pusher[q].at = h => pusher'[q].at = h
          /\ \A u : u # v => PushersTo(u)' = PushersTo(u)
          /\ Cardinality(PushersTo(v))' <= Cardinality(PushersTo(v)) + 1
          /\ HasPusher(v)' /\ \A u : HasPusher(u) => HasPusher(u)'
          /\ Cardinality(Active') <= Cardinality(Active) + 1
      BY <1>1, <1>2, <1>6, <2>1, NewPusher
    <2>3. PusherType'
      BY <1>1, <1>3, <1>4, <1>10, <2>1, <2>2 DEF PusherType, Others, OtherPushers
    <2>4. PlaceInv'
      BY <1>1, <1>3, <1>4, <1>7, <2>2, PlaceStep
    <2>5. KeptInv'
      BY <1>4, <1>5, <1>10, <2>2 DEF IInv, KeptInv, Kept
    <2>6. AllInv'
      <3>. SUFFICES ASSUME m_mode = "all", NEW u \in Upstreams PROVE AllCount(u)' <= starts
        BY <1>4 DEF AllInv
      <3>1. AllCount(u) <= starts
        BY DEF IInv, AllInv
      <3>2. CASE u = v
        <4>1. 1 + One(m_map_reconnect_relay'[v] # "no") + One(Pending(v)')
                  <= One(m_map_reconnect_relay[v] # "no") + One(Pending(v))
          BY <1>8, <1>10, OneLeq
        <4>. QED  BY <1>7, <2>2, <3>1, <3>2, <4>1, AllCountStep
      <3>3. CASE u # v
        BY <1>5, <1>7, <1>10, <2>2, <3>1, <3>3, AllCountSame
      <3>. QED  BY <3>2, <3>3
    <2>7. HashInv'
      <3>. SUFFICES ASSUME m_mode = "hash"
                    PROVE  /\ \A q \in Pushers : Exists(q)' => pusher'[q].url = HashUrl
                           /\ \A u \in Upstreams : Pending(u)' => u = HashUrl
                           /\ HashCount' <= starts
        BY <1>4 DEF HashInv, HashUrl
      <3>1. v = HashUrl /\ HashCount <= starts
        BY <1>2, <1>5 DEF IInv, HashInv
      <3>2. \A q \in Pushers : Exists(q)' => pusher'[q].url = HashUrl
        BY <2>2, <3>1 DEF IInv, HashInv
      <3>3. Cardinality(Entries') = Cardinality(Entries) + 0
        <4>1. Entries' = Entries
          BY <1>4 DEF Entries
        <4>. QED  BY <4>1, EntriesAre, EntriesFinite
      <3>4. 1 + 0 + One(Pending(HashUrl)') <= One(Pending(HashUrl))
        BY <1>8, <3>1
      <3>5. HashCount' <= HashCount /\ HashCount \in Nat /\ HashCount' \in Nat
        BY <2>2, <3>3, <3>4, HashCountStep
      <3>6. \A u \in Upstreams : Pending(u)' => u = HashUrl
        BY <1>5 DEF IInv, HashInv
      <3>. QED  BY <1>7, <3>1, <3>2, <3>5, <3>6
    <2>. QED  BY <2>3, <2>4, <2>5, <2>6, <2>7 DEF IInv
  <1>11. CASE m_mode = "all" /\ Stamp(v, "wait") /\ pusher' = pusher
    <2>1. /\ m_map_reconnect_relay' \in [Upstreams -> {"no", "wait", "due"}]
          /\ m_map_reconnect_relay'[v] # "no"
          /\ \A u \in Upstreams \ {v} : m_map_reconnect_relay'[u] = m_map_reconnect_relay[u]
      BY <1>1, <1>2, <1>11, Stamped
    <2>2. PusherType'
      BY <1>1, <1>3, <1>4, <1>11, <2>1 DEF PusherType, Others, Exists
    <2>3. PlaceInv'
      BY <1>1, <1>3, <1>4, <1>7, <1>11, PlaceStep
    <2>4. KeptInv'
      <3>. SUFFICES ASSUME starts # 0, NEW u \in Upstreams \ lost PROVE Kept(u)'
        BY <1>4 DEF KeptInv
      <3>1. Kept(u)
        BY <1>11 DEF IInv, KeptInv
      <3>. QED  BY <1>5, <1>11, <2>1, <3>1 DEF Kept, HasPusher, Exists
    <2>5. AllInv'
      <3>. SUFFICES ASSUME NEW u \in Upstreams PROVE AllCount(u)' <= starts
        BY <1>4 DEF AllInv
      <3>1. AllCount(u) <= starts
        BY <1>11 DEF IInv, AllInv
      <3>2. PushersTo(u)' = PushersTo(u)
        BY <1>11 DEF PushersTo, Exists
      <3>3. CASE u = v
        <4>1. 0 + One(m_map_reconnect_relay'[v] # "no") + One(Pending(v)')
                  <= One(m_map_reconnect_relay[v] # "no") + One(Pending(v))
          <5>1. /\ One(m_map_reconnect_relay'[v] # "no") \in 0 .. 1
                /\ One(m_map_reconnect_relay[v] # "no") \in 0 .. 1
            BY OneLeq
          <5>. QED  BY <1>8, <5>1
        <4>2. Cardinality(PushersTo(u))' <= Cardinality(PushersTo(u)) + 0
          BY <3>2, SetOfPushers DEF PushersTo
        <4>. QED  BY <1>7, <3>1, <3>3, <4>1, <4>2, AllCountStep
      <3>4. CASE u # v
        BY <1>5, <1>7, <2>1, <3>1, <3>2, <3>4, AllCountSame
      <3>. QED  BY <3>3, <3>4
    <2>6. HashInv'
      BY <1>4, <1>11 DEF HashInv
    <2>. QED  BY <2>2, <2>3, <2>4, <2>5, <2>6 DEF IInv
  <1>12. CASE m_mode = "hash" /\ m_map_reconnect_relay' = m_map_reconnect_relay /\ pusher' = pusher
    <2>1. PusherType'
      BY <1>1, <1>3, <1>4, <1>12 DEF PusherType, Others, Exists
    <2>2. PlaceInv'
      BY <1>1, <1>3, <1>4, <1>7, <1>12, PlaceStep
    <2>3. KeptInv' /\ AllInv'
      BY <1>4, <1>12 DEF KeptInv, AllInv
    <2>4. HashInv'
      <3>1. Active' \subseteq Active
        BY <1>6, <1>12 DEF Active, Exists
      <3>2. HashCount' <= HashCount /\ HashCount \in Nat /\ HashCount' \in Nat
        BY <1>4, <1>5, <3>1, HashCountSame
      <3>. QED  BY <1>4, <1>5, <1>7, <1>12, <3>2 DEF IInv, HashInv, HashUrl, Exists
    <2>. QED  BY <2>1, <2>2, <2>3, <2>4 DEF IInv
  <1>. QED  BY <1>4, <1>10, <1>11, <1>12

(* What a pusher's end changes.                                            *)
LEMMA LessPusher ==
    ASSUME PusherType, NEW p \in Pushers, Exists(p), OtherPushers(p), pusher'[p].at = "none",
           NEW v \in Upstreams, v = pusher[p].url
    PROVE  /\ \A q \in Pushers : Exists(q)' => q # p /\ Exists(q) /\ pusher'[q].url = pusher[q].url
           /\ \A u : PushersTo(u)' \subseteq PushersTo(u)
           /\ Cardinality(PushersTo(v))' <= Cardinality(PushersTo(v)) + -1
           /\ \A u : u # v /\ HasPusher(u) => HasPusher(u)'
  <1>1. ~Exists(p)' /\ \A q \in Pushers \ {p} : pusher'[q] = pusher[q]
    BY DEF OtherPushers, Exists
  <1>2. \A q \in Pushers : Exists(q)' => q # p /\ Exists(q) /\ pusher'[q].url = pusher[q].url
    BY <1>1 DEF Exists
  <1>3. \A u : PushersTo(u)' \subseteq PushersTo(u)
    BY <1>2 DEF PushersTo
  <1>. DEFINE s == PushersTo(v)
              t == PushersTo(v)'
  <1>5. t \subseteq s \ {p} /\ p \in s /\ s \in SUBSET Pushers
    BY <1>1, <1>2 DEF PushersTo
  <1>6. Cardinality(t) <= Cardinality(s) - 1
    <2>. HIDE DEF s, t
    <2>1. Cardinality(s \ {p}) + 1 = Cardinality(s)
      BY <1>5, OneLess
    <2>2. s \ {p} \in SUBSET Pushers
      BY <1>5
    <2>3. Cardinality(t) <= Cardinality(s \ {p})
      BY <1>5, <2>2, FewerPushers
    <2>4. Cardinality(s) \in Nat /\ Cardinality(t) \in Nat /\ Cardinality(s \ {p}) \in Nat
      BY <1>5, <2>2, SetOfPushers
    <2>. QED  BY <2>1, <2>3, <2>4
  <1>7. \A u : u # v /\ HasPusher(u) => HasPusher(u)'
    BY <1>1 DEF HasPusher, Exists
  <1>8. Cardinality(t) <= Cardinality(s) + -1
    <2>1. Cardinality(s) \in Nat
      BY <1>5, SetOfPushers
    <2>. HIDE DEF s, t
    <2>. QED  BY <1>6, <2>1
  <1>. QED  BY <1>2, <1>3, <1>7, <1>8

(* A group takes a pusher from the queue.                                  *)
LEMMA TakePusherInv ==
    ASSUME IInv, NEW g \in Groups, TakePusher(g)
    PROVE  IInv'
  <1>1. /\ PusherType /\ PlaceInv /\ worker[g].pc = "idle" /\ PlaceOf(g)
        /\ UNCHANGED <<m_mode, publisher, m_map_reconnect_relay, m_reconnect_begin_tm, m_rwclock,
                       m_list_reconnect, worker, starts>>
    BY DEF IInv, PlaceInv, TakePusher, Idle, table
  <1>2. PICK p \in Pushers :
            /\ pusher[p].at = "queue"
            /\ \/ pusher' = [pusher EXCEPT ![p].at = g] /\ lost' = lost
               \/ pusher' = [pusher EXCEPT ![p] = NoPusher] /\ lost' = lost \cup {pusher[p].url}
    BY DEF TakePusher
  <1>3. OtherPushers(p) /\ pusher'[p].at \in {"none"} \cup Groups
    BY <1>1, <1>2, Moved, Removed
  <1>4. \A h \in Groups : \A q \in Pushers : pusher[q].at = h => pusher'[q].at = h
    BY <1>2, <1>3, PusherAssumption DEF OtherPushers
  <1>5. PlaceInv'
    BY <1>1, <1>4 DEF PlaceInv, PlaceOf
  <1>6. /\ \A u : Pending(u)' <=> Pending(u)
        /\ \A q : Closing(q)' <=> Closing(q)
    BY <1>1 DEF Pending, Closing, At
  <1>7. CASE pusher' = [pusher EXCEPT ![p].at = g] /\ lost' = lost
    <2>1. pusher'[p].at = g /\ pusher'[p].url = pusher[p].url
      BY <1>1, <1>7, Moved
    <2>2. \A q \in Pushers : (Exists(q)' <=> Exists(q)) /\ pusher'[q].url = pusher[q].url
      BY <1>2, <1>3, <2>1, PusherAssumption DEF Exists, OtherPushers
    <2>3. PusherType'
      BY <1>1, <1>3, <1>7, <2>2 DEF PusherType, OtherPushers
    <2>. QED  BY <1>1, <1>5, <1>6, <1>7, <2>2, <2>3, QuietStep
  <1>8. CASE pusher' = [pusher EXCEPT ![p] = NoPusher] /\ lost' = lost \cup {pusher[p].url}
    <2>1. pusher'[p].at = "none" /\ Exists(p)
      BY <1>1, <1>2, <1>8, Removed DEF Exists
    <2>0. PICK v \in Upstreams : v = pusher[p].url
      BY <1>1, <2>1 DEF PusherType
    <2>2. /\ \A q \in Pushers : Exists(q)' => q # p /\ Exists(q) /\ pusher'[q].url = pusher[q].url
          /\ \A u : PushersTo(u)' \subseteq PushersTo(u)
          /\ \A u : u # v /\ HasPusher(u) => HasPusher(u)'
      BY <1>1, <1>3, <2>0, <2>1, LessPusher
    <2>3. PusherType'
      BY <1>1, <1>3, <1>8, <2>0, <2>1, <2>2 DEF PusherType, OtherPushers
    <2>4. KeptInv'
      BY <1>1, <1>6, <1>8, <2>0, <2>2 DEF IInv, KeptInv, Kept
    <2>5. AllInv'
      <3>. SUFFICES ASSUME m_mode = "all", NEW u \in Upstreams PROVE AllCount(u)' <= starts
        BY <1>1 DEF AllInv
      <3>1. AllCount(u) <= starts /\ starts \in Nat
        BY DEF IInv, AllInv, PusherType
      <3>. QED  BY <1>1, <1>6, <2>2, <3>1, AllCountSame
    <2>6. HashInv'
      <3>1. Active' \subseteq Active
        BY <1>6, <2>2 DEF Active
      <3>2. HashCount' <= HashCount /\ HashCount \in Nat /\ HashCount' \in Nat /\ starts \in Nat
        BY <1>1, <1>6, <3>1, HashCountSame DEF PusherType
      <3>. QED  BY <1>1, <1>6, <2>2, <3>2 DEF IInv, HashInv, HashUrl
    <2>. QED  BY <1>5, <2>3, <2>4, <2>5, <2>6 DEF IInv
  <1>. QED  BY <1>2, <1>7, <1>8

(* An entry takes the place of a pusher that begins to close ...           *)
LEMMA CloseRoleInv ==
    ASSUME IInv, NEW g \in Groups, CloseRole(g)
    PROVE  IInv'
  <1>1. /\ PusherType /\ PlaceInv /\ worker[g].pc = "idle" /\ PlaceOf(g)
        /\ UNCHANGED <<m_mode, publisher, m_map_reconnect_relay, m_reconnect_begin_tm, m_rwclock,
                       pusher, starts, lost>>
        /\ m_list_reconnect[g] < MaxEntries
        /\ m_list_reconnect' = [m_list_reconnect EXCEPT ![g] = @ + 1]
    BY DEF IInv, PlaceInv, CloseRole, Idle, table
  <1>2. PICK p \in Pushers : /\ pusher[p].at = g
                             /\ worker' = [worker EXCEPT ![g].pc = "uninit", ![g].cur = p]
    BY DEF CloseRole
  <1>3. Others(g) /\ Fields(g, "uninit", worker[g].todo, p)
    BY <1>1, <1>2, SetCur
  <1>4. /\ m_list_reconnect \in [Groups -> 0 .. MaxEntries]
        /\ m_list_reconnect' \in [Groups -> 0 .. MaxEntries]
        /\ \A h \in Groups \ {g} : m_list_reconnect'[h] = m_list_reconnect[h]
    BY <1>1, PusherAssumption DEF PusherType
  <1>5. PusherType'
    BY <1>1, <1>3, <1>4 DEF PusherType, Others, Exists
  <1>6. PlaceOf(g)'
    BY <1>1, <1>2, <1>3 DEF Fields, PlaceOf
  <1>7. PlaceInv'
    BY <1>1, <1>3, <1>4, <1>6, PlaceStep
  <1>8. \A u : Pending(u)' <=> Pending(u)
    BY <1>1, <1>3, PendingStays DEF Fields
  <1>9. KeptInv'
    BY <1>1, <1>8 DEF IInv, KeptInv, Kept, HasPusher, Exists
  <1>10. AllInv'
    <2>. SUFFICES ASSUME m_mode = "all", NEW u \in Upstreams PROVE AllCount(u)' <= starts
      BY <1>1 DEF AllInv
    <2>1. AllCount(u) <= starts /\ starts \in Nat
      BY DEF IInv, AllInv, PusherType
    <2>2. PushersTo(u)' = PushersTo(u)
      BY <1>1 DEF PushersTo, Exists
    <2>. QED  BY <1>1, <1>8, <2>1, <2>2, AllCountSame
  <1>11. HashInv'
    <2>. SUFFICES ASSUME m_mode = "hash" PROVE HashCount' <= starts
      BY <1>1, <1>8 DEF IInv, HashInv, HashUrl, Exists
    <2>1. Cardinality(Active') <= Cardinality(Active) + -1
      <3>1. p \in Active
        <4>1. Exists(p)
          BY <1>2, PusherAssumption DEF Exists
        <4>2. ASSUME NEW h \in Groups, At(h, "uninit"), worker[h].cur = p
              PROVE  FALSE
          <5>1. pusher[p].at = h
            BY <1>1, <4>2 DEF PlaceInv, PlaceOf, At
          <5>. QED  BY <1>1, <1>2, <4>2, <5>1 DEF At
        <4>. QED  BY <4>1, <4>2 DEF Active, Closing
      <3>2. Active' \subseteq Active \ {p}
        <4>1. Closing(p)'
          BY <1>3 DEF Fields, Closing, At
        <4>2. ASSUME NEW q \in Pushers, Closing(q) PROVE Closing(q)'
          <5>1. PICK h \in Groups : At(h, "uninit") /\ worker[h].cur = q
            BY <4>2 DEF Closing
          <5>2. h # g /\ worker'[h] = worker[h]
            BY <1>1, <1>3, <5>1 DEF At, Others
          <5>. QED  BY <5>1, <5>2 DEF Closing, At
        <4>. QED  BY <1>1, <4>1, <4>2 DEF Active, Exists
      <3>. DEFINE s == Active
                  t == Active'
      <3>3. s \in SUBSET Pushers /\ p \in s /\ t \subseteq s \ {p} /\ s \ {p} \in SUBSET Pushers
        BY <3>1, <3>2 DEF Active
      <3>. HIDE DEF s, t
      <3>4. Cardinality(s \ {p}) + 1 = Cardinality(s)
        BY <3>3, OneLess
      <3>5. Cardinality(t) <= Cardinality(s \ {p})
        BY <3>3, FewerPushers
      <3>6. Cardinality(s) \in Nat /\ Cardinality(t) \in Nat /\ Cardinality(s \ {p}) \in Nat
        BY <3>3, SetOfPushers
      <3>7. Cardinality(t) <= Cardinality(s) + -1
        BY <3>4, <3>5, <3>6
      <3>. QED  BY <3>7 DEF s, t
    <2>2. Cardinality(Entries') = Cardinality(Entries) + 1
      <3>1. Entries' = EntriesOf(m_list_reconnect')
        BY DEF Entries, EntriesOf
      <3>2. Cardinality(EntriesOf(m_list_reconnect')) = Cardinality(EntriesOf(m_list_reconnect)) + 1
        BY <1>1, <1>4, OneEntryMore
      <3>. QED  BY <3>1, <3>2, EntriesAre
    <2>3. -1 + 1 + One(Pending(HashUrl)') <= One(Pending(HashUrl))
      BY <1>8, OneLeq
    <2>4. HashCount' <= HashCount /\ HashCount \in Nat /\ HashCount' \in Nat
      BY <2>1, <2>2, <2>3, HashCountStep
    <2>5. HashCount <= starts /\ starts \in Nat
      BY DEF IInv, HashInv, PusherType
    <2>. QED  BY <2>4, <2>5
  <1>. QED  BY <1>5, <1>7, <1>9, <1>10, <1>11 DEF IInv

(* ... and the table takes it when it has.                                 *)
LEMMA UninitPusherInv ==
    ASSUME IInv, NEW g \in Groups, UninitPusher(g)
    PROVE  IInv'
  <1>1. /\ PusherType /\ PlaceInv /\ worker[g].pc = "uninit" /\ PlaceOf(g)
        /\ UNCHANGED <<m_mode, publisher, m_rwclock, m_list_reconnect, starts, lost>>
    BY DEF IInv, PlaceInv, UninitPusher, At
  <1>2. PICK p \in Pushers : p = worker[g].cur /\ pusher[p].at = g
    BY <1>1 DEF PlaceOf
  <1>3. OtherPushers(p) /\ pusher'[p].at = "none" /\ Exists(p)
    BY <1>1, <1>2, Removed, PusherAssumption DEF UninitPusher, Exists
  <1>4. PICK v \in Upstreams : v = pusher[p].url
    BY <1>1, <1>3 DEF PusherType
  <1>5. Others(g) /\ Fields(g, "idle", {}, None)
    BY <1>1, SetReturn DEF UninitPusher
  <1>6. /\ \A q \in Pushers : Exists(q)' => q # p /\ Exists(q) /\ pusher'[q].url = pusher[q].url
        /\ \A u : PushersTo(u)' \subseteq PushersTo(u)
        /\ Cardinality(PushersTo(v))' <= Cardinality(PushersTo(v)) + -1
        /\ \A u : u # v /\ HasPusher(u) => HasPusher(u)'
    BY <1>1, <1>3, <1>4, LessPusher
  <1>7. /\ m_map_reconnect_relay' \in [Upstreams -> {"no", "wait", "due"}]
        /\ \A u \in Upstreams \ {v} : m_map_reconnect_relay'[u] = m_map_reconnect_relay[u]
        /\ m_reconnect_begin_tm' \in {"wait", "due"}
        /\ m_mode = "all" => m_map_reconnect_relay'[v] # "no"
    <2>1. CASE m_mode = "all"
      <3>1. Stamp(v, "wait") /\ m_reconnect_begin_tm' = m_reconnect_begin_tm
        BY <1>2, <1>4, <2>1 DEF UninitPusher
      <3>. QED  BY <1>1, <3>1, Stamped DEF PusherType
    <2>2. CASE m_mode # "all"
      BY <1>1, <2>2 DEF UninitPusher, PusherType
    <2>. QED  BY <2>1, <2>2
  <1>8. PusherType'
    BY <1>1, <1>3, <1>5, <1>6, <1>7 DEF PusherType, Others, OtherPushers
  <1>9. PlaceInv'
    <2>1. PlaceOf(g)'
      BY <1>1, <1>5 DEF Fields, PlaceOf
    <2>2. ASSUME NEW h \in Groups \ {g}, NEW q \in Pushers, pusher[q].at = h
          PROVE  pusher'[q].at = h
      BY <1>2, <1>3, <2>2 DEF OtherPushers
    <2>. QED  BY <1>1, <1>5, <2>1, <2>2, PlaceStep
  <1>10. \A u : Pending(u)' <=> Pending(u)
    BY <1>1, <1>5, PendingStays DEF Fields
  <1>11. KeptInv'
    <2>. SUFFICES ASSUME m_mode = "all", starts # 0, NEW u \in Upstreams \ lost PROVE Kept(u)'
      BY <1>1 DEF KeptInv
    <2>1. Kept(u)
      BY DEF IInv, KeptInv
    <2>. QED  BY <1>6, <1>7, <1>10, <2>1 DEF Kept
  <1>12. AllInv'
    <2>. SUFFICES ASSUME m_mode = "all", NEW u \in Upstreams PROVE AllCount(u)' <= starts
      BY <1>1 DEF AllInv
    <2>1. AllCount(u) <= starts /\ starts \in Nat
      BY DEF IInv, AllInv, PusherType
    <2>2. CASE u = v
      <3>1. One(Pending(v)') = One(Pending(v)) /\ One(Pending(v)) \in 0 .. 1
        BY <1>10 DEF One
      <3>2. /\ One(m_map_reconnect_relay'[v] # "no") \in 0 .. 1
            /\ One(m_map_reconnect_relay[v] # "no") \in 0 .. 1
        BY OneLeq
      <3>3. -1 + One(m_map_reconnect_relay'[v] # "no") + One(Pending(v)')
                <= One(m_map_reconnect_relay[v] # "no") + One(Pending(v))
        BY <3>1, <3>2
      <3>. QED  BY <1>6, <2>1, <2>2, <3>3, AllCountStep
    <2>3. CASE u # v
      BY <1>6, <1>7, <1>10, <2>1, <2>3, AllCountSame
    <2>. QED  BY <2>2, <2>3
  <1>13. HashInv'
    <2>. SUFFICES ASSUME m_mode = "hash" PROVE HashCount' <= starts
      BY <1>1, <1>6, <1>10 DEF IInv, HashInv, HashUrl
    <2>1. ASSUME NEW q \in Pushers \ {p}, Closing(q) PROVE Closing(q)'
      <3>1. PICK h \in Groups : At(h, "uninit") /\ worker[h].cur = q
        BY <2>1 DEF Closing
      <3>2. h # g
        BY <1>2, <2>1, <3>1
      <3>. QED  BY <1>5, <3>1, <3>2 DEF Others, Closing, At
    <2>2. Active' \subseteq Active
      BY <1>6, <2>1 DEF Active
    <2>3. HashCount' <= HashCount /\ HashCount \in Nat /\ HashCount' \in Nat
      BY <1>1, <1>10, <2>2, HashCountSame
    <2>. QED  BY <2>3 DEF IInv, HashInv, PusherType
  <1>. QED  BY <1>8, <1>9, <1>11, <1>12, <1>13 DEF IInv

(* A new pusher takes an entry's place.                                    *)
LEMMA ReconnectHashInv ==
    ASSUME IInv, NEW g \in Groups, ReconnectHash(g)
    PROVE  IInv'
  <1>1. /\ PusherType /\ PlaceInv /\ worker[g].pc = "hash" /\ PlaceOf(g) /\ m_mode = "hash"
        /\ m_list_reconnect[g] # 0
        /\ UNCHANGED <<m_mode, publisher, m_map_reconnect_relay, m_rwclock, starts, lost>>
        /\ m_reconnect_begin_tm' \in {"wait", "due"}
    BY DEF IInv, PlaceInv, PlaceOf, PusherType, ReconnectHash, At
  <1>2. Others(g) /\ Fields(g, "idle", {}, None)
    BY <1>1, SetReturn DEF ReconnectHash
  <1>3. \/ pusher' = pusher /\ m_list_reconnect' = m_list_reconnect
        \/ Connect(HashUrl) /\ m_list_reconnect' = [m_list_reconnect EXCEPT ![g] = @ - 1]
    BY DEF ReconnectHash, LeaveList
  <1>4. PlaceOf(g)'
    BY <1>1, <1>2 DEF Fields, PlaceOf
  <1>5. worker[g].pc \notin {"connect", "uninit"} /\ worker'[g].pc \notin {"connect", "uninit"}
    BY <1>1, <1>2 DEF Fields
  <1>6. \A u : Pending(u)' <=> Pending(u)
    BY <1>2, <1>5, PendingStays
  <1>7. \A q : Closing(q)' <=> Closing(q)
    BY <1>2, <1>5, ClosingStays
  <1>8. CASE pusher' = pusher /\ m_list_reconnect' = m_list_reconnect
    <2>1. PusherType'
      BY <1>1, <1>2, <1>8 DEF PusherType, Others, Exists
    <2>2. PlaceInv'
      BY <1>1, <1>2, <1>4, <1>8, PlaceStep
    <2>. QED  BY <1>1, <1>6, <1>7, <1>8, <2>1, <2>2, QuietStep DEF Exists
  <1>9. CASE Connect(HashUrl) /\ m_list_reconnect' = [m_list_reconnect EXCEPT ![g] = @ - 1]
    <2>1. PICK p \in Pushers : /\ ~Exists(p) /\ OtherPushers(p)
                               /\ pusher'[p].at = "queue" /\ pusher'[p].url = HashUrl
      BY <1>1, <1>9, HashIn, Connected
    <2>2. /\ \A q \in Pushers : Exists(q)' => pusher'[q].url \in Upstreams
          /\ \A q \in Pushers : Exists(q)' => \/ pusher'[q].url = HashUrl
                                              \/ Exists(q) /\ pusher'[q].url = pusher[q].url
          /\ \A h \in Groups : \A q \in Pushers : pusher[q].at = h => pusher'[q].at = h
          /\ Cardinality(Active') <= Cardinality(Active) + 1
      BY <1>1, <1>7, <2>1, HashIn, NewPusher
    <2>3. /\ m_list_reconnect \in [Groups -> 0 .. MaxEntries]
          /\ m_list_reconnect' \in [Groups -> 0 .. MaxEntries]
          /\ \A h \in Groups \ {g} : m_list_reconnect'[h] = m_list_reconnect[h]
      BY <1>1, <1>9, PusherAssumption DEF PusherType
    <2>4. PusherType'
      BY <1>1, <1>2, <2>1, <2>2, <2>3 DEF PusherType, Others, OtherPushers
    <2>5. PlaceInv'
      BY <1>1, <1>2, <1>4, <2>2, <2>3, PlaceStep
    <2>6. Cardinality(Entries') = Cardinality(Entries) + -1
      <3>1. Entries' = EntriesOf(m_list_reconnect')
        BY DEF Entries, EntriesOf
      <3>2. Cardinality(EntriesOf(m_list_reconnect')) + 1 = Cardinality(EntriesOf(m_list_reconnect))
        BY <1>1, <1>9, <2>3, OneEntryLess
      <3>3. Cardinality(Entries') + 1 = Cardinality(Entries)
        BY <3>1, <3>2, EntriesAre
      <3>4. Cardinality(Entries') \in Nat /\ Cardinality(Entries) \in Nat
        BY <3>1, EntriesAre, EntriesFinite
      <3>. QED  BY <3>3, <3>4
    <2>7. 1 + -1 + One(Pending(HashUrl)') <= One(Pending(HashUrl))
      BY <1>6, OneLeq
    <2>8. HashCount' <= HashCount /\ HashCount \in Nat /\ HashCount' \in Nat
      BY <2>2, <2>6, <2>7, HashCountStep
    <2>9. HashInv'
      BY <1>1, <1>6, <2>2, <2>8 DEF IInv, HashInv, HashUrl, PusherType
    <2>. QED  BY <1>1, <2>4, <2>5, <2>9 DEF IInv, KeptInv, AllInv
  <1>. QED  BY <1>3, <1>8, <1>9

(* A new pusher takes the place of its url in the table.                   *)
LEMMA NextUrlInv ==
    ASSUME IInv, NEW g \in Groups, NextUrl(g)
    PROVE  IInv'
  <1>1. /\ PusherType /\ PlaceInv /\ worker[g].pc = "table" /\ PlaceOf(g) /\ m_mode = "all"
        /\ worker[g].todo # {}
        /\ UNCHANGED <<m_mode, publisher, m_reconnect_begin_tm, m_rwclock, m_list_reconnect,
                       starts, lost>>
    BY DEF IInv, PlaceInv, PlaceOf, NextUrl, At
  <1>2. PICK v \in Upstreams : v = Min(worker[g].todo)
    BY <1>1, WorkerFields, LeastUpstream
  <1>3. /\ \E ok, ret \in BOOLEAN : Result(g, ok, ret)
        /\ \/ pusher' = pusher /\ m_map_reconnect_relay' = m_map_reconnect_relay
           \/ pusher' = pusher /\ m_map_reconnect_relay[v] = "due" /\ Stamp(v, "wait")
           \/ Connect(v) /\ m_map_reconnect_relay[v] = "due" /\ Stamp(v, "no")
    <2>1. worker[g].ret \in BOOLEAN
      BY <1>1, WorkerFields
    <2>. QED  BY <1>2, <2>1 DEF NextUrl, PassOver, EraseUrl
  <1>4. Others(g) /\ Fields(g, "table", worker[g].todo \ {v}, worker[g].cur)
    BY <1>1, <1>2, <1>3, SetResult
  <1>5. PlaceOf(g)'
    BY <1>1, <1>4 DEF Fields, PlaceOf
  <1>6. worker[g].pc \notin {"connect", "uninit"} /\ worker'[g].pc \notin {"connect", "uninit"}
    BY <1>1, <1>4 DEF Fields
  <1>7. \A u : Pending(u)' <=> Pending(u)
    BY <1>4, <1>6, PendingStays
  <1>8. \A q : Closing(q)' <=> Closing(q)
    BY <1>4, <1>6, ClosingStays
  <1>9. CASE \/ pusher' = pusher /\ m_map_reconnect_relay' = m_map_reconnect_relay
             \/ pusher' = pusher /\ m_map_reconnect_relay[v] = "due" /\ Stamp(v, "wait")
    <2>1. /\ pusher' = pusher
          /\ m_map_reconnect_relay' \in [Upstreams -> {"no", "wait", "due"}]
          /\ \A u \in Upstreams : m_map_reconnect_relay'[u] # "no" <=> m_map_reconnect_relay[u] # "no"
      <3>1. CASE pusher' = pusher /\ m_map_reconnect_relay' = m_map_reconnect_relay
        BY <1>1, <3>1 DEF PusherType
      <3>2. CASE pusher' = pusher /\ m_map_reconnect_relay[v] = "due" /\ Stamp(v, "wait")
        BY <1>1, <3>2, Stamped
      <3>. QED  BY <1>9, <3>1, <3>2
    <2>2. PusherType'
      BY <1>1, <1>4, <2>1 DEF PusherType, Others, Exists
    <2>3. PlaceInv'
      BY <1>1, <1>4, <1>5, <2>1, PlaceStep
    <2>. QED  BY <1>1, <1>7, <1>8, <2>1, <2>2, <2>3, QuietStep DEF Exists
  <1>10. CASE Connect(v) /\ m_map_reconnect_relay[v] = "due" /\ Stamp(v, "no")
    <2>1. PICK p \in Pushers : /\ ~Exists(p) /\ OtherPushers(p)
                               /\ pusher'[p].at = "queue" /\ pusher'[p].url = v
      BY <1>1, <1>10, Connected
    <2>2. /\ \A q \in Pushers : Exists(q)' => pusher'[q].url \in Upstreams
          /\ \A h \in Groups : \A q \in Pushers : pusher[q].at = h => pusher'[q].at = h
          /\ \A u : u # v => PushersTo(u)' = PushersTo(u)
          /\ Cardinality(PushersTo(v))' <= Cardinality(PushersTo(v)) + 1
          /\ HasPusher(v)' /\ \A u : HasPusher(u) => HasPusher(u)'
      BY <1>1, <2>1, NewPusher
    <2>3. /\ m_map_reconnect_relay' \in [Upstreams -> {"no", "wait", "due"}]
          /\ m_map_reconnect_relay'[v] = "no"
          /\ \A u \in Upstreams \ {v} : m_map_reconnect_relay'[u] = m_map_reconnect_relay[u]
      BY <1>1, <1>10, Stamped
    <2>4. PusherType'
      BY <1>1, <1>4, <2>1, <2>2, <2>3 DEF PusherType, Others, OtherPushers
    <2>5. PlaceInv'
      BY <1>1, <1>4, <1>5, <2>2, PlaceStep
    <2>6. KeptInv'
      <3>. SUFFICES ASSUME starts # 0, NEW u \in Upstreams \ lost PROVE Kept(u)'
        BY <1>1 DEF KeptInv
      <3>1. Kept(u)
        BY <1>1 DEF IInv, KeptInv
      <3>. QED  BY <1>7, <2>2, <2>3, <3>1 DEF Kept
    <2>7. AllInv'
      <3>. SUFFICES ASSUME NEW u \in Upstreams PROVE AllCount(u)' <= starts
        BY <1>1 DEF AllInv
      <3>1. AllCount(u) <= starts /\ starts \in Nat
        BY <1>1 DEF IInv, AllInv, PusherType
      <3>2. CASE u = v
        <4>1. One(m_map_reconnect_relay'[v] # "no") = 0 /\ One(m_map_reconnect_relay[v] # "no") = 1
          BY <1>10, <2>3 DEF One
        <4>2. One(Pending(v)') = One(Pending(v)) /\ One(Pending(v)) \in 0 .. 1
          BY <1>7 DEF One
        <4>3. 1 + One(m_map_reconnect_relay'[v] # "no") + One(Pending(v)')
                  <= One(m_map_reconnect_relay[v] # "no") + One(Pending(v))
          BY <4>1, <4>2
        <4>. QED  BY <2>2, <3>1, <3>2, <4>3, AllCountStep
      <3>3. CASE u # v
        BY <1>7, <2>2, <2>3, <3>1, <3>3, AllCountSame
      <3>. QED  BY <3>2, <3>3
    <2>8. HashInv'
      BY <1>1 DEF HashInv
    <2>. QED  BY <2>4, <2>5, <2>6, <2>7, <2>8 DEF IInv
  <1>. QED  BY <1>3, <1>9, <1>10

-----------------------------------------------------------------------------
(* Every step keeps the invariant.                                         *)
LEMMA NextInv == IInv /\ [Next]_vars => IInv'
  <1>. SUFFICES ASSUME IInv, [Next]_vars PROVE IInv'
    OBVIOUS
  <1>1. ASSUME NEW g \in Groups, Proceed(g) PROVE IInv'
    BY <1>1, StartInv, ConnectNextInv, StartedInv, UninitPusherInv, ReconnectHashInv,
       ReconnectAllInv, NextUrlInv, EndOfTableInv DEF Proceed
  <1>2. ASSUME NEW g \in Groups, TakePusher(g) \/ CloseRole(g) \/ Reconnect(g) PROVE IInv'
    BY <1>2, TakePusherInv, CloseRoleInv, ReconnectInv
  <1>. QED  BY <1>1, <1>2, PublisherComesInv, TimeInv, StutterInv DEF Next

(* So it holds in every reachable state.                                   *)
LEMMA Invariance == Spec => []IInv
  BY InitInv, NextInv, PTL DEF Spec

(* Once a start of mode all has begun, every upstream has a pusher, stands *)
(* in the table of those to be connected again, or is still to be gone     *)
(* through, whatever the groups do meanwhile.                              *)
THEOREM UpstreamKeptCorrect == Spec => []UpstreamKept
  <1>1. IInv => UpstreamKept
    <2>. SUFFICES ASSUME IInv, m_mode = "all", starts > 0, NEW u \in Upstreams \ lost
                  PROVE  PushersTo(u) # {} \/ u \in InTable \/ u \in worker[Listening].todo
      BY DEF UpstreamKept
    <2>1. starts # 0
      BY DEF IInv, PusherType
    <2>2. Kept(u)
      BY <2>1 DEF IInv, KeptInv
    <2>. QED  BY <2>2 DEF Kept, HasPusher, PushersTo, InTable, Pending
  <1>. QED  BY <1>1, Invariance, PTL

(* No upstream ever has more pushers, with those it is still to get, than  *)
(* there were starts, however many groups reconnect it at a time.          *)
THEOREM OnePusherPerStartCorrect == Spec => []OnePusherPerStart
  <1>1. IInv => OnePusherPerStart
    <2>. SUFFICES ASSUME IInv, NEW u \in Upstreams
                  PROVE  LET missing == IF m_mode = "hash" THEN Cardinality(Entries)
                                        ELSE Cardinality({u} \cap InTable)
                         IN Cardinality({p \in PushersTo(u) : ~Closing(p)}) + missing <= starts
      BY DEF OnePusherPerStart
    <2>. DEFINE open == {p \in PushersTo(u) : ~Closing(p)}
    <2>1. starts \in Nat /\ m_mode \in {"all", "hash"}
      BY DEF IInv, PusherType
    <2>2. CASE m_mode = "all"
      <3>1. Cardinality(open) <= Cardinality(PushersTo(u)) /\ Cardinality(open) \in Nat
            /\ Cardinality(PushersTo(u)) \in Nat
        <4>1. PushersTo(u) \in SUBSET Pushers /\ open \in SUBSET PushersTo(u)
          BY DEF PushersTo
        <4>. HIDE DEF open
        <4>. QED  BY <4>1, FewerPushers
      <3>2. Cardinality({u} \cap InTable) = One(m_map_reconnect_relay[u] # "no")
        <4>1. CASE m_map_reconnect_relay[u] # "no"
          <5>1. {u} \cap InTable = {u}
            BY <4>1 DEF InTable
          <5>. QED  BY <4>1, <5>1, FS_Singleton DEF One
        <4>2. CASE m_map_reconnect_relay[u] = "no"
          <5>1. {u} \cap InTable = {}
            BY <4>2 DEF InTable
          <5>. QED  BY <4>2, <5>1, FS_EmptySet DEF One
        <4>. QED  BY <4>1, <4>2
      <3>3. AllCount(u) <= starts
        BY <2>2 DEF IInv, AllInv
      <3>4. One(m_map_reconnect_relay[u] # "no") \in 0 .. 1 /\ One(Pending(u)) \in 0 .. 1
        BY OneLeq
      <3>. HIDE DEF open
      <3>5. Cardinality(open) + One(m_map_reconnect_relay[u] # "no") <= starts
        BY <2>1, <3>1, <3>3, <3>4 DEF AllCount
      <3>. QED  BY <2>2, <3>2, <3>5 DEF open
    <2>3. CASE m_mode = "hash"
      <3>1. Cardinality(open) <= Cardinality(Active) /\ Cardinality(open) \in Nat
            /\ Cardinality(Active) \in Nat
        <4>1. Active \in SUBSET Pushers /\ open \in SUBSET Active
          BY DEF PushersTo, Active
        <4>. HIDE DEF open
        <4>. QED  BY <4>1, FewerPushers
      <3>2. HashCount <= starts
        BY <2>3 DEF IInv, HashInv
      <3>3. One(Pending(HashUrl)) \in 0 .. 1 /\ Cardinality(Entries) \in Nat
        BY OneLeq, EntriesAre, EntriesFinite
      <3>. HIDE DEF open
      <3>4. Cardinality(open) + Cardinality(Entries) <= starts
        BY <2>1, <3>1, <3>2, <3>3 DEF HashCount
      <3>. QED  BY <2>3, <3>4 DEF open
    <2>. QED  BY <2>1, <2>2, <2>3
  <1>. QED  BY <1>1, Invariance, PTL
=============================================================================
