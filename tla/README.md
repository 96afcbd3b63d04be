# A verification project for srt-server

srt-server is a live streaming server: publishers send MPEG-TS over SRT, players receive it, and relays pull streams from
or push them to other servers. This directory holds TLA+ models of its core, what TLC checks of
them on small instances, and what TLAPS proves of them for every instance. Paths like `SLSGroup.cc:278` are under
`src/src/`. The repository has no tests and a README of a few lines; the code is the reference.

## The system

| part | code | state | operations |
|---|---|---|---|
| stream ring | `SLSRecycleArray`, `SLSMapData` | per stream: memory, write position, byte count, parameter sets | `add`, `remove`, `put`, `get`, `is_exist` |
| reader | `CSLSRole::handler_write_data` | cursor (position, count, first), send buffer | fetch, send |
| role | `SLSRole`, `SLSPublisher`, `SLSPlayer`, `SLSPuller`, `SLSPusher` | state, socket, idle timer, http client, key | `init`, `handler`, `get_state`, `invalid_srt`, `uninit` |
| listener | `SLSListener` | its maps, its configuration | `handler`: accept one client, make a role |
| registry | `SLSMapPublisher` | stream -> publisher | `get_publisher`, `set_push_2_pushlisher`, `remove` |
| role queue | `SLSRoleList` | list of new roles | `push`, `pop`, `erase` |
| worker group | `SLSGroup`, `SLSEpollThread` | epoll, its roles, reconnect list | wait, handlers, `idle_check` |
| pull relay | `SLSPullerManager`, `SLSRelayManager`, `SLSMapRelay` | upstream index, time of last try | `start`, `connect`, `reconnect` |
| push relay | `SLSPusherManager` | urls to connect again | `start`, `connect_all`, `reconnect_all` |
| manager | `SLSManager`, `srt_server.cc` | listeners, groups, maps | `start`, `reload`, `check_invalid`, `stop` |
| http client | `HttpClient`, `TCPRole`, `SLSArray` | socket, request and response, timer | `open`, `handler`, `check_finished`, `check_timeout`, `reopen`, `close` |
| stream header | `CSLSMapData`, `common.cc` | per stream name: tables, parameter sets, the header made of them | `check_ts_info`, `sls_parse_ts_info`, `get_ts_info` |
| other parsers | `common.cc`, `conf.cc` | none | pure functions |

How they interact: the listener is a role in the epoll of whichever group takes it from the queue, so its handler runs on
a worker thread. It looks a stream up in the registry, adds a ring, registers the publisher and pushes the role onto
the queue. Every group pops the queue, at most one role per loop, and from then on owns the role: it calls its
handler, asks for its state, and deletes it. Publisher and players of a stream thus may be on different threads
and meet only in the ring and the registry, each call of which takes the map's lock and gives it back. A pull relay is started by the listener
when a player asks for a stream nobody publishes, and again by a group when its puller died.

What is hard: the ring tells full from empty by comparing counts and never waits for a reader; a sequence of
locked map calls is not one locked operation; roles are deleted by other threads than the ones that find them in
the registry; nothing but an idle timer tells a player that its stream has gone; the event server, when
configured, is asked before a role may work and told when it goes; queues and groups have limits; reload
and stop take down structures that queued roles still point to; TCP cuts, delays and loses what the http client sends and
waits for, and nobody waits for a piece that is missing; a player's header is put together from packets in whatever order they come.

What makes each part correct:

* ring and readers - a reader gets the stream in order, whole and without gaps while it is within a ring of the
  writer, and only bytes of the current lap when it was lapped; "no new data" is true; unsent bytes are never overwritten.
* registry, rings and roles - one publisher per stream; a registered name leads to a live object; a publisher at work has a
  ring; a ring does not outlive its stream; a role has one owner; a role whose peer has gone is deleted and its name
  becomes free; a player without a stream leaves.
* relays - every configured upstream is connected or will be tried again; one puller per stream.
* manager - reload drains the old groups, stop deletes nothing that is still used.
* http client - the server is sent the request, whole and in order; a role is admitted only by a 200 of the event server;
  a request is answered or times out; the statistics go on being posted.
* stream header - a player of an orderly stream gets its tables and parameter sets, cleanly cut; what it gets never changes.
* byte array - it is a queue.

## Modules

| module | models | composed with |
|---|---|---|
| `BroadcastLog` | abstract: the log a stream promises its players | |
| `SLSMapData` | one stream's ring, its readers' cursors and send buffers | instantiates `BroadcastLog` |
| `SLSMapDataProofs` | theorems about `SLSMapData` | extends it |
| `SLSServer` | a listener, roles, registry, queue, groups and pull relay of one server block | abstracts the data of `SLSMapData` to "has a ring" |
| `SLSServerProofs` | theorems about `SLSServer` | extends it |
| `SLSPusherManager` | one stream's push relay, its pushers and the groups that reconnect them | stands alone: its manager, table and pushers touch no state of `SLSServer` but the name of the publisher |
| `SLSPusherManagerProofs` | theorems about `SLSPusherManager` | extends it |
| `SLSManager` | main's loop, managers, reload, stop, and the threads of their groups | abstracts the roles of `SLSServer` to sockets |
| `SLSManagerProofs` | theorems about `SLSManager` | extends it |
| `SLSArray` | the byte queue under the http client | |
| `SLSArrayProofs` | theorem about `SLSArray` | extends it |
| `HttpClient` | the http client over TCP, with a role that asks for admission or main's statistics loop as its user | stands for the choices `SLSServer` makes of http; its `m_out_array` is the queue `SLSArray` is |
| `HttpClientProofs` | theorems about `HttpClient` | extends it |
| `SLSTsInfo` | the header of one stream name, from the packets of its publishers | refines the choice `SLSMapData` makes in `CheckTsInfo` |
| `SLSTsInfoProofs` | theorems about `SLSTsInfo` | extends it |
| `MCMapData`, `MCServer`, `MCPusher`, `MCManager`, `MCArray`, `MCHttp`, `MCTsInfo` | the instances TLC checks | extend the above |

### SLSMapData

A byte is represented by its position in the log of everything put into the ring since it was created, so "the right bytes" is an
arithmetic statement. `Add`, `Remove` and `Put` are the publisher's calls; `FirstGet`, `EmptyGet`, `Get` and
`SendRest` are the four ways through `handler_write_data`. Each runs under the map's lock, hence is one
step; the write loop that follows a fetch is folded into it because no other thread sees the send buffer. What `get`
returns is part of the state, which is why the copy of a wrapped run is modelled cell by cell. The byte count wraps at
`CountMod` (2^32 in the code, 8 in the model). A cursor survives its ring (`cursorGen`): the code hands such a reader whatever is
at the old position, and so does the model: `BroadcastLog` promises such a reader nothing, `StaleGetsNewStream` and the second half of
`CatchesUp` say what it gets and that it comes back to the new stream.

### SLSServer

A worker's loop is a program counter: `poll`, `events`, `reconnect`, `invalid`, `new`, and in between the steps of
the listener's handler, of the puller manager's `start` and of `uninit`, cut wherever the code takes and releases the
lock of the registry, the rings or the queue. A worker's local variables that live across such a point (`cur`, `key`)
are its state. The atomicity of a step is a claim about locks only: everything else a step touches belongs to one thread.

Choices stand for what comes from outside: which sockets are ready, what kind of client connects, whether an upstream
answers, what the event server says, whether the ten milliseconds of `HttpClient::open` are enough, when a peer
breaks (`Break`) and when `idle_streams_timeout` has passed (`Expire`).

`check_wait_http_role` has no action: `uninit` leaves no http client, so `check_http_client` fails and the list it
walks stays empty. `lost` is a history variable: the names of publishers `check_new_role` deleted without their class's `uninit`
because the epoll did not take their socket. Such a name stays in the registry and leads to a deleted object; the
properties say what holds for the others. A later object may get the address of the deleted one. Then `CSLSMapPublisher::remove`, which
looks for an address and takes the first name that has it (`SLSMapPublisher.cc:93`), may take out the stale name and leave the right
one: `UninitName` chooses, and the name left is added to `lost`.

### SLSPusherManager

The manager is an object without a thread: the group that serves the listener calls `start` (`SLSPusherManager.cc:46`), any
group calls `reconnect` (`:120`), and a dying pusher calls `add_reconnect_stream` from its group (`:95`). Each worker has a program
counter in this code. `m_rwclock` is a variable because `reconnect_all` keeps it over all its connections, while
`connect_all` and `uninit` wait for it. A time in the table is "wait" or "due"; an upstream that answers or not is a choice.
The local `ret` of `reconnect_all` is in the state, since it is carried from one url to the next and decides whether
the manager leaves the list. `Entries` counts the manager's entries on all groups' lists as a set of pairs. `Listening` names the group whose thread runs the listener: the code has one listener
per server block, in one group for its whole life. Each group's list is a count of the manager's entries. `starts` and `lost`
are history variables. `MaxStarts` bounds the starts in each mode: in mode hash, where a start makes one pusher, two are needed for two groups
to have the manager on their lists at once and to find the same try due.

### SLSManager

main is one program counter that walks through `srt_server.cc` and the manager's methods it calls; each group's thread is another.
A method is cut into the points where main waits for a thread (`StopGroup`, `JoinGroup`), where another thread can see half of what it has
done (`FlagGroup`, `StartGroup`) or where it can fail (`PutAside`, `StartListener`). A group's loop is two steps: all that
`handler` does before `check_new_role`, where it touches its own roles and the end of the queue, and `check_new_role`, where groups
compete. `clear` runs in the thread, after the loop. `WorkerThreads` maps each manager to its number of threads, because each reads
the configuration anew; 0 means that main runs the only group. The guard of `Hup` bounds the number of managers by `MaxManagers`.
A role is a socket in a queue or a group's map; a listener's is closed by main while a group may hold it. A group that holds
`WorkerConnections` roles takes no more (`FullGroup`).

`start` can fail at each of its steps, and the server then goes on from what there is by then. The port may be taken; `listen` may fail
after the socket was bound, which leaves an open socket no list knows (`SLSListener.cc:276-280`); a later listener may fail, with the earlier one in the
queue; `init_epoll` may fail with some of the groups running (`SLSManager.cc:107`, `:121`). All of these end the process through `Exit`, which has to
find what was made. Nobody looks at the result of `p->start()` (`SLSManager.cc:125`): a group whose `pthread_create` failed stays on the list of
workers without a thread (`StartGroup` leaves it "idle", `HasThread`), and `stop` passes over it.

What main does with the listener's objects while a worker uses them is a data race of the code (`SLSManager.cc:219`) that the model does not enter: it
closes the socket in one step.

### SLSArray

Every method is one action; bytes are numbered in the order of puts, and a plain sequence beside the array says what a queue would hold.

### HttpClient

A client is used by one thread, so `open`, `handler` and the checks are functions from a client and its connection to the set of what they may
become, and an action is what the user does between two waits: `StatLoop` is the part of main's loop that serves the statistics
client, `Reload` its second `open`, `OnConnect`, `CheckHttpPassed`, `InvalidSrt` and `Uninit` are a role's. `Connect`, `Answer`, `Arrive`,
`Disconnect` and `Tick` are the network, the server and the clock.

A request is two pieces and an answer up to five (start of the status line, status, length field, end of the header, content). TCP may
deliver and `send` may accept any number of pieces, so a cut is possible between any two; a cut inside one has the effect of one beside
it, except that a number can be read short, which is left out. `m_out_data` with its position and length is the sequence `data`. `age` is the
time since `m_begin_tm_ms`, up to the longest interval. `m_end_tm_ms` is left out: whoever finds it set closes
the client in the same step. A socket that could not be configured stays in `m_fd` until it is closed (link "unconnected"); if
`socket()` itself failed `m_fd` is -1 (link "bad"): the test for 0 (`TCPRole.cc:144`) misses it, `close` does not reset it (`:221`), the checks take it for an
open client, and the next `open` replaces it (`NoSocket`, `LinkLeft`). `StillValid` is the test of `errno` in `TCPRole.cc:54`: after an orderly close `recv` returns 0 and `errno` is
whatever an earlier call left, so the connection may be taken for valid or not. The signal SIGPIPE, for which the program has no handler, is
left out. `split` and the tags "old" and "new" are history, for the properties; `Older` turns what `m_out_data` still holds into an earlier
request's when the next one is made. `Intervals` is finite, so that the clock has a last value to stop at.

### SLSTsInfo

Every call is under the map's lock, hence one action; a `put` of several packets is as many `Put`s. A packet is what the parser
tells apart (`Packets`), an elementary stream a sequence of NAL units with a long or a short start code. A layout gives each kind of packet
its pid; two layouts may share pids, so that a publisher's video may come on the pid the PMT of an earlier one had, and is then stored as the
PMT (`SavePmt`). A PAT is copied whatever is in it, and its PMT's pid taken if it has a program (`SavePat`). A table or a unit carries the
number of the publisher it came from, so that a header made of two publishers' data can be told. Units are whole: a parameter set that the end of
the packet cuts, and the code stores as it is (`common.cc:507`), is left out.
`order` is a history variable: how far the first packets of the present publisher have come in the order in which the parser can use them.

## Runs

| run | instance | properties | result |
|---|---|---|---|
| `map_data` | 1 reader, ring of 5, puts up to 2, packets of 2, buffer of 4, count mod 8, 13 bytes per ring, 2 rings | `IInv`, `HandedIsRunOfLog`, `NothingNewIsTrue`, `NoFetchOverUnsent`, `ImplementsLog`, `CatchesUp`, `StaleGetsNewStream` | pass |
| `server_one` | 1 worker, 2 publishers, 1 player, 1 puller, 1 stream, event url, idle timeout | `TypeOK`, `FoundIsLive`, `PublisherHasRing`, `OrphanLeaves`, `NameIsFreed` | pass |
| `server_pool` | 2 workers, 2 publishers, 1 player, no pull relay, no idle timeout | `PublisherHasRing`, `BrokenIsDeleted` | pass |
| `server_relay` | 2 workers, 2 publishers, 1 player, 1 puller, no event url | `OwnedOnce`, `NameIsLive`, `OnePublisher`, `RingHasOwner` | pass |
| `server_robbed` | 2 workers, 1 publisher, 1 player, 1 puller | `PublisherHasRing` | violated |
| `array` | buffer of 3, puts and gets up to 4, 7 bytes in all | `FifoUntilExpanded` | pass |
| `http` | a role's client and the statistics client, time-out 2, intervals 1 and 3, 1 reload | `TypeOK`, `WireInOrder`, `EndsForCause`, `AdmittedByServer`, `RoleIsDecided`, `StatRepeats` | pass |
| `ts_info` | 2 publishers, 2 layouts that swap the pids of PMT and video, 9 contents of a PES packet, room for 3 units | `TypeOK`, `SetsAreCut`, `OrderlyIsServed`, `HeaderIsFinal` | pass |
| `pusher` | 2 groups, 2 upstreams, 2 pushers, 1 start in mode all and 2 in mode hash, 2 list entries | `UpstreamKept`, `OnePusherPerStart`, `DueIsTried` | pass |
| `pusher_retry` | the same | `DueIsRetried` | violated |
| `manager` | 2 managers, the old with 2 threads, the new with none; 2 connections per group; 2 clients | `TypeOK`, `GroupOutlived`, `MapsOutliveRoles`, `OneListener`, `NothingLeft`, `DrainKeepsTaken`, `DrainEnds`, `ExitEnds` | pass |
| `manager_single` | 2 managers without threads | `DrainEnds` | violated |

Why these bounds: readers do not see each other (no action of one reads or writes what belongs to another), so one is
enough for the ring; five cells and packets of two leave every remainder at the end of the buffer, thirteen
bytes lap a reader twice and wrap the count, and two rings give a stale cursor. All contention in the server is
over one stream name; two publishers, because one has to replace the other; three connections per group, so that a
full group is reached (the listener takes one place). Three cells and puts of four make the array wrap, fill and
expand at every position. Two upstreams let one be due while the other is not, and two groups reconnect at the same time.
Two connections are the listener and one client, so that a group is full with a client in the queue. One reload has an old and a new manager; the old one's second group can end while the first holds a client, and two clients let one be
in the queue while the other is held. The time-out of the http client lies between the intervals, so that a post may be due before the
last one timed out, and after; a second reload finds nothing the first did not, since the first may already come at any point of a post. The nine
contents are the cases the scan tells apart: no sets, both, one, in the wrong order, with data behind a short start code that fits or does
not. Two publishers give a header of the first's or of both. `SLSServer`'s type invariant stands in one run only: the runs differ in their constants, not in types.

Violations the runs exhibit:

* `server_robbed`: `CSLSPuller::uninit` frees the name, then deletes the ring by its key. A publisher accepted in between takes the
  name, finds the ring still there, and loses it. `CSLSPublisher::uninit` deletes the ring first; `server_pool` shows that this order is right,
  and with one worker (`server_one`) the two calls cannot be separated.
* `pusher_retry`: upstreams that fail in `start` are in the table, but no group's list has the manager, so nobody looks. The same
  happens when `reconnect_all` passes over a url that is not due after it connected another: it then counts the other's success
  and the manager leaves the list with a url still in the table. `pusher` shows what does hold: nothing is
  forgotten in the table, nothing is connected twice, and while the manager is on a list every due url is tried.
* `manager_single`: with `worker_threads 0` main runs the current manager's group only. After a reload the old manager's group is never run
  again, so the manager never ends and its clients are neither served nor closed.

What the models show of the code without a run of its own, because no line of the repository says it should be otherwise or the
program cannot get there:

* A group whose `pthread_create` failed never sets its `m_exit`: after a reload its manager is never deleted before the process ends. `DrainEnds` speaks
  of managers with all their threads (`AllThreads`).
* A header that TCP cuts is parsed from its first piece: the branch for "not found, continue" (`HttpClient.cc:240`) is never taken, since
  `sls_split_string` always returns a part. If the status line is cut the role is refused though the server said 200, which is why
  `AdmittedByServer` speaks of a header in one piece; if the length is missed, or the answer has none, only the time-out ends the request.
* `close` and `open` clear the output array but not what `send` has taken from it (`HttpClient.cc:319`): the next connection first gets
  the rest of the last request, or all of it if that connection was refused. `WireInOrder` says how much at most.
* The `on_close` request is opened by `invalid_srt` and its client destroyed by the `uninit` that follows (`SLSRole.cc:80`); what
  ten milliseconds were not enough to send is never sent. `Uninit` may follow in the phase "reporting".
* After a reload the statistics url and interval are read from memory that was released (`srt_server.cc:216`); `Reload` takes any.
* The test for the PMT tests the PAT twice (`common.cc:602`): a header may be built with a `pmt` nobody initialised. A header
  once begun is finished with the next publisher's packets, so it may mix two streams' tables and sets, and audio that comes first locks
  the parser to its pid, so that players get no header at all. `OrderlyIsServed` says what order of packets avoids all this.
* Growing the array sets the write position to 0, where a non-empty array is taken for full, and hands out bytes nobody put
  (`SLSArray.cc:78`). The program clears the array before each request, and a request is far below 4096 bytes.

`FoundIsLive` holds with one worker, the shipped `worker_threads 1`, and is checked there; with more, the
player's handler may use a publisher another worker has deleted (`SLSListener.cc:449`).

## Fairness

`SLSMapData.FairSpec`: a worker polls every player's socket for ever, so a reader that can fetch or send does; a socket that
stops accepting data is closed by SRT and its reader removed, so a write is assumed to make progress. Nothing is assumed
of publishers. `SLSServer.FairSpec`: each worker thread keeps running its loop (weak fairness of the whole loop, no
fairness between its sockets) and time passes (`Expire`). Nothing is assumed of peers, upstreams or the event server.
`BrokenIsDeleted` is checked without the idle timer, so that it cannot be what removes the role.

`SLSPusherManager.FairSpec`: strong fairness of each group's steps in this code, because the code's
loop visits the reconnect list in every round however often a pusher dies in between, and a thread waiting for the table's lock gets it in
the end (pthread does not promise it, but a holder releases the lock between two rounds of epoll waits); `Due` is
time passing. Nothing is assumed of upstreams or publishers.

`SLSManager.FairSpec`: main and every worker thread keep running. `DrainEnds` assumes of the peers, in its premise, that those
of the reloaded manager all leave in the end; no signal is assumed.

`HttpClient.Spec`: main's loop and time go on, and a worker handles a waiting role again and again, as long as its peer sends or can be sent
to; a peer that is neither is left to the idle timer (`OrphanLeaves`). Nothing is assumed of the network or the server: a connection may stay
half open and an answer away for ever.

`map_data`, `manager` and the `pusher` runs switch the deadlock check off because the bounds on bytes, rings, starts and pushers, or main's end, stop them;
the other runs check deadlock.

## Proofs

`SLSMapDataProofs` proves, for any number of readers and any sizes that satisfy `SizesAssumption` (a packet fits the
send buffer, the buffer is smaller than the ring, the ring is smaller than the range of the count: in the code 1316, 131600,
1347584 and 2^32):

* `TypeCorrect`, `Inductive`: `Spec => []IInv`;
* `HandedCorrect`, `NothingNewCorrect`, `NoFetchOverUnsentCorrect`, `StaleGetsNewStreamCorrect`: the properties of the run, from `IInv`;
* `ImplementsLogCorrect`: `Spec => ImplementsLog`, every step maps to a step of `BroadcastLog` or to a stutter.

What a reader was handed is not inductive by itself. The invariant adds where every byte of the log lies in memory
(`RingHoldsNewest`), what a cursor says of its reader's lag, and how the count it carries relates to the writer's
(`CursorInv`: the cursor's count is the writer's at the last get, modulo `CountMod`, unless more than `CountMod` bytes went by
since), and that a buffer is empty or holds at least a packet (`BufferInv`).
The cursor's conjunct speaks only of readers no further behind than a ring: beyond that the position modulo the size
says nothing, and `HandedIsRunOfLog` then follows from the memory alone. The lag is strictly less than the ring at the
time of a get, because a get that finds data copies some of it or leaves less than a packet; this is what makes equal
positions and equal counts mean "nothing new".

`SLSManagerProofs` proves, for any number of managers (reloads), of worker threads of each, none included, and any set of
clients, with any limit of connections, under `ManagerAssumption` (a manager is made at all, a client is not a manager's number):

* `TypeCorrect`: `Spec => []TypeOK`;
* `GroupOutlivedCorrect`, `MapsOutliveRolesCorrect`, `OneListenerCorrect`: three of the safety properties of the `manager` run.

They follow from one inductive invariant, `IInv`. What main deletes depends on where it is in `reload`, `check_invalid` or `stop`,
so the invariant says at each of these places what main knows: that the manager being stopped was put aside, unless
the process ends (`ListInv`); that `stop` still has before it exactly the groups the manager has, and `start` made exactly those it has
behind it (`WorkersInv`); that a thread
between its first step and its last is in a group that exists, and holds no role when it has ended (`ThreadInv`: this is why the join
matters); that the group of a manager without threads runs only while main serves it; and that the current
manager's listener is the only open one, and that it is not open yet when `start` begins (`ListenerInv`), for which no group may hold it yet
(`NewInv`). `ThreadInv` needs that a manager without threads has one group
(`SingleGroup`), and the types need that a reload is only asked for when there is a number left (`MadeInv`), which is the bound of the model
and no claim about the code.

`SLSTsInfoProofs` proves, for any contents of the packets, any layouts of pids, any room in a packet and any number of
publishers (`TsAssumption`: a content is a sequence of units, and there may be a publisher; `NoneIsNoInfo`):

* `TypeCorrect`: `Spec => []TypeOK`;
* `SetsAreCutCorrect`, `HeaderIsFinalCorrect`, `OrderlyIsServedCorrect`: the other properties of the `ts_info` run, which has only a
  handful of contents.

The invariant has to speak of the entry and not only of the header made from it (`Sound`): its sets are cut where they
should be even before there is a PAT, and a header is there only if the entry is done, which is why no later packet, of whichever
publisher, touches it. The lemma that carries it, `CutIsCut`, is about the scan in `sls_parse_spspps`: what lies from one
start code to the next starts with its unit and has no other start code of full length in it. The library has no fact on the smallest member of a set
of naturals that can be used without an operator as a parameter, so `SmallestExists` gets it from the well-foundedness of strict
inclusion on finite sets. For `OrderlyIsServed` a second invariant (`OrderInv`) says what the entry of a first publisher holds when it
has come so far in the order (`Follows`): until its sets come there are none, and no pid but the video's is listened to. `KeyPes` is then
the packet that has them: the scan does not stop before both are found (`BothSetsThere`), and what they are followed by still fits.

`SLSServerProofs` proves, for any set of worker threads and of streams, any finite sets of publisher, player and puller objects,
any limit of connections, with or without event server and idle timeout (`ServerAssumption`):

* `TypeCorrect`, `OwnedOnceCorrect`, `NameIsLiveCorrect`, `OnePublisherCorrect`, `RingHasOwnerCorrect`, without a condition;
* `PublisherHasRingCorrect`, if there is no pull relay or only one worker thread (`Undivided`); the run `server_robbed` violates it when
  there is neither;
* `FoundIsLiveCorrect`, with one worker thread, for the reason given under Runs.

Both conditions are configurations the code is run in, and `server_one` and `server_pool` are instances of them. The invariant says what each thread
has in its hands at each step of its loop (`PlaceInv`, `TodoInv`), that a role's owners are exclusive, owner by owner (`OwnerInv`; `OwnedOnce` counts
them), and, for the sources of streams, that one has its name from the step that makes it to the step of `uninit` that takes the name
out (`NameInv`). `OnePublisher` follows: two at work would both have the one name. `RingInv` and `PulledInv` are where the two orders of `uninit`
differ: a publisher still has the name when its ring goes, so nobody has taken the name; a puller has not, and only with one thread, or
without pullers, can nobody have come in between. Most steps of a thread are local, and two lemmas (`QuietMove`, `QuietStep`) say once what such
a step has to satisfy.

`SLSPusherManagerProofs` proves, for any finite sets of threads, upstreams and pushers, any number of starts and in both modes (`PusherAssumption`):

* `UpstreamKeptCorrect`: no upstream of mode all is forgotten;
* `OnePusherPerStartCorrect`: none is connected twice by a start.

The second is a count, and the invariant makes it a balance of three: in mode all, for each upstream, its pushers, its place in the
table and its place in a start that is under way (`AllCount`); in mode hash the pushers that are not closing, the entries on the lists and the
start (`HashCount`). Every step moves from one of them to another. The two differ in when a closing pusher stops to count, because mode all
replaces it in the table at the end of its `uninit` and mode hash on the list before it begins.

`SLSArrayProofs` proves `FifoUntilExpandedCorrect` for every size of the buffer and length of puts and gets (`ArrayAssumption`): until it grows, the count tells
where the write position is and the cells from the read position on hold the queue (`Fifo`). It needs four lemmas about going around
the buffer, the last of which says which cells a put overwrites. What happens once the array has grown is under Runs.

`HttpClientProofs` proves, for either user, any time-out, any finite set of intervals and any number of reloads (`HttpAssumption`):

* `TypeCorrect` and `WireInOrderCorrect`;
* the action properties `EndsForCauseCorrect` and `AdmittedByServerCorrect`.

The actions are compositions of functions from a client and its link to what they may become, so the invariant is a predicate of such a pair
(`Good`), and each function has a lemma that it keeps it. Its parts: when a client is valid, what its link may then be, and that a link which carries
nothing yet, or never will, is empty (`Attached`);
`m_out_data` is the end of one request and never the ends of two (`OneRest`), without which an earlier request's rest could grow from connection to
connection; what was sent and what is to be sent make up the request (`InOrder`); and, unless bytes of an earlier request made the server answer
twice, some position p of the one answer divides what the client has parsed from what is still to come, and header, length and content are
those of its first p pieces (`AnswerRead`). `AskedOnce` says more of a role's client, which is made for one request: nothing old is on the wire, and the status it
has is the server's. The two action properties follow: a request that is found to be complete has p at the answer's end. `Answer` counts requests, and
a lemma (`OneAsked`) bounds them by one; the longest interval bounds the clock, for which a finite set's greatest element has to be found
without an induction theorem (`FiniteIsBounded`, from the well-foundedness of strict inclusion).

`SLSManagerProofs` also proves `NothingLeftCorrect` and `DrainKeepsTakenCorrect`. For these the invariant has three more parts: main knows every manager that
still has a group or a queued role, and knows none at its end (`KnownInv`); every open socket is in a queue or in a group,
but for that of a listener that could not listen (`OpenInv`); and a thread that leaves its loop is in a group without roles, or the process ends (`DrainInv`).

Only model-checked: the liveness properties (`CatchesUp`, `OrphanLeaves`, `NameIsFreed`, `BrokenIsDeleted`, `RoleIsDecided`, `StatRepeats`, `DueIsTried`, `DrainEnds`,
`ExitEnds`): liveness and `ENABLED` are beyond the prover. No theorem
needed an induction over data: what the models compute with sequences is done by their indices.

## Plan

In this order:

1. *(done)* `SLSMapData`, `BroadcastLog`, proofs.
2. *(done)* `SLSServer`: registration, ownership, uninit, pull relay, liveness.
3. *(done)* `SLSArray`.
4. *(done)* `SLSPusherManager`: the table of urls to connect again, the groups' reconnect lists.
5. *(done)* `SLSManager`: reload, drain, stop, with worker threads or none.
6. *(done)* `HttpClient`: what reaches the server is the request; an open request ends; a role's admission; the statistics loop.
7. *(done)* `SLSTsInfo`: the header a player gets, from the transport stream parser.
8. A directory of streams as the abstract specification of `SLSServer`'s registry and rings, and the refinement.
9. Proofs: *(done)* every invariant and action property the passing runs check, for `SLSMapData`, `SLSServer`, `SLSManager`, `SLSPusherManager`, `SLSArray`,
   `HttpClient` and `SLSTsInfo`; left: the refinement of 8 once it is stated.

## Not modelled

HLS recording (files nobody reads back); logging; the configuration parser and the listener's reading of it (they run before any
thread does, and what they yield are the constants); `SLSSrt` (calls into libsrt, whose effects are in the models where they are
used); the sid and url parsers (text, whose outcome is a choice of stream, host and success); the statistics text groups collect (no
part of the program reads it: the callback that would post it is never set); `HttpRoleList`, `TCPRole`'s listening side,
`SLSRecycleArray::setSize` and `SLSArray::setSize` (no caller); the command line client with its file reader and clock (a test tool).
