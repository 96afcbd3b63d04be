----------------------------- MODULE HttpClient -----------------------------
(***************************************************************************)
(* The http client (HttpClient.cc on TCPRole.cc) and its two users: a role *)
(* that asks the event server whether it may go on and tells it when it    *)
(* closes (SLSRole.cc), and the main loop, which posts to the statistics   *)
(* server again and again (srt_server.cc).  A client belongs to one        *)
(* thread, so each call is one step; connections, the server and the clock *)
(* move between the calls.                                                 *)
(*                                                                         *)
(* A request is two pieces, an answer the pieces its parser tells apart;   *)
(* TCP may cut either between any two pieces.                              *)
(***************************************************************************)
EXTENDS Integers, Sequences, SequencesExt

CONSTANTS
    Users,          \* who has the client: "role", "stat"
    Timeout,        \* m_timeout
    Intervals,      \* values of stat_post_interval
    MaxReloads      \* bound: reloads of the server

ASSUME HttpAssumption ==
    /\ Users \subseteq {"role", "stat"}
    /\ Timeout \in Nat \ {0}
    /\ Intervals \subseteq Nat \ {0} /\ Intervals # {} /\ IsFiniteSet(Intervals)
    /\ MaxReloads \in Nat

VARIABLES
    m_http_client,  \* the client object
    link,           \* its TCP connection, with the server's end
    phase,          \* where the user is
    reloads         \* reloads so far

vars == <<m_http_client, link, phase, reloads>>

MaxAge == Max(Intervals \cup {Timeout})

(* The pieces of a request: of the client's current one, or of an earlier. *)
Request(of) == << <<of, 1>>, <<of, 2>> >>

(* The answers: the status line's start and rest, the Content-Length       *)
(* field, what is left of the header up to the empty line, and the content.*)
Answers == { <<"HTTP/1.1", "200", "length 1", "blank", "body">>,
             <<"HTTP/1.1", "200", "blank">>,
             <<"HTTP/1.1", "403", "length 0", "blank">> }

NoLink == [st |-> "none", rcvd |-> << >>, sent |-> << >>, arrived |-> << >>,
           verdicts |-> << >>, split |-> FALSE]

(* age: the time since m_begin_tm_ms.  data: the m_out_data_len bytes from *)
(* m_out_pos on.  m_end_tm_ms is left out: whoever sets it has the caller  *)
(* close the client in the same step.                                      *)
NewClient == [fd |-> FALSE, valid |-> FALSE, age |-> 0, interval |-> 0,
              array |-> << >>, data |-> << >>,
              header |-> FALSE, code |-> "", length |-> -1, content |-> 0]

(* The functions below take the client and its link as one record, and     *)
(* yield the set of what they may become.                                  *)
Fresh == [c |-> NewClient, l |-> NoLink]
Now   == [c |-> m_http_client, l |-> link]

Become(x) == m_http_client' = x.c /\ link' = x.l

-----------------------------------------------------------------------------
(* recv and parse_http_response.                                           *)

Blank(s) == SelectInSeq(s, LAMBDA p : p = "blank")

(* The first data there is makes the header, whether the empty line is in  *)
(* it or not: sls_split_string never returns nothing.  What it lacks, code *)
(* or length, is not set.                                                  *)
ParsedHeader(c, data) ==
    LET end  == IF Blank(data) = 0 THEN Len(data) ELSE Blank(data)
        head == ToSet(SubSeq(data, 1, end))
    IN  [c EXCEPT !.header  = TRUE,
                  !.code    = IF "200" \in head THEN "200" ELSE IF "403" \in head THEN "403" ELSE @,
                  !.length  = IF "length 1" \in head THEN 1 ELSE IF "length 0" \in head THEN 0 ELSE @,
                  !.content = Len(data) - end]

ParsedContent(c, data) == [c EXCEPT !.content = @ + Len(data)]

Parsed(c, data) ==
    IF data = << >> THEN c
    ELSE IF c.header THEN ParsedContent(c, data) ELSE ParsedHeader(c, data)

(* read fails in the end: with EAGAIN while the connection is up, with     *)
(* another error when it failed; when the peer closed it with whatever     *)
(* errno there was before.                                                 *)
StillValid(st) == CASE st = "up" -> {TRUE} [] st = "failed" -> {FALSE} [] st = "closed" -> BOOLEAN

Received(x) ==
    {[c |-> [Parsed(x.c, x.l.arrived) EXCEPT !.valid = v],
      l |-> [x.l EXCEPT !.arrived = << >>,
                        !.split = @ \/ (~x.c.header /\ x.l.arrived # << >>
                                        /\ Blank(x.l.arrived) = 0)]]
        : v \in StillValid(x.l.st)}

(* send: the rest of the last chunk first, then the queue, of which a get  *)
(* takes all.  write accepts n pieces in all; what a get took and write    *)
(* did not stays in m_out_data.                                            *)
StickyRest(data, array, n) == <<data, array>>
Rest(data, array, n) ==
    IF n < Len(data)
    THEN <<SubSeq(data, n + 1, Len(data)), array>>
    ELSE <<SubSeq(data \o array, n + 1, Len(data \o array)), << >>>>

Writable(x) == IF x.l.st = "failed" THEN {0} ELSE 0 .. Len(x.c.data \o x.c.array)

Sent(x) ==
    {[c |-> [x.c EXCEPT !.data = Rest(x.c.data, x.c.array, n)[1],
                        !.array = Rest(x.c.data, x.c.array, n)[2]],
      l |-> IF x.l.st # "up" THEN x.l
            ELSE [x.l EXCEPT !.rcvd = @ \o SubSeq(x.c.data \o x.c.array, 1, n)]]
        : n \in Writable(x)}

(* handler: select finds a connection attempt neither readable nor         *)
(* writable, and one that failed or was closed both.                       *)
Handler(x) ==
    IF ~x.c.valid \/ x.l.st = "connecting" THEN {x}
    ELSE LET readable == x.l.st # "up" \/ x.l.arrived # << >> IN
         UNION {IF readable THEN Received(y) ELSE {y} : y \in Sent(x)}

-----------------------------------------------------------------------------
(* open, close and the checks.                                             *)

(* What open and close clear; not the code, and not m_out_data.            *)
Cleared(c) ==
    [c EXCEPT !.header = FALSE, !.content = 0, !.length = -1, !.array = << >>]

(* An m_fd of -1, where socket() failed ("bad"), is no socket for open and *)
(* close, which leaves it, but one for the checks, which look for 0.       *)
NoSocket(l) == l.st \in {"none", "bad"}
LinkLeft(l) == IF l.st = "bad" THEN l ELSE NoLink

OpenClosed(x) == [c |-> [Cleared(x.c) EXCEPT !.fd = (x.l.st = "bad")], l |-> LinkLeft(x.l)]
Closed(x) == [c |-> [Cleared(x.c) EXCEPT !.fd = (x.l.st = "bad"), !.valid = FALSE],
              l |-> LinkLeft(x.l)]

(* setup and set_nonblock: a socket that cannot be made or configured is   *)
(* not valid and without a connection, but m_fd keeps it.                  *)
Unconnected(x) == {[x EXCEPT !.c.fd = TRUE, !.l.st = st] : st \in {"unconnected", "bad"}}

(* CTCPRole::open and connect, which does not wait.                        *)
Connecting(x) ==
    {[x EXCEPT !.c.fd = TRUE, !.c.valid = TRUE, !.l.st = st] : st \in {"connecting", "up"}}

(* generate_http_request into the cleared array; what m_out_data holds is  *)
(* an earlier request's from now on.                                       *)
Older(data) == [i \in DOMAIN data |-> <<"old", data[i][2]>>]

Requested(x) ==
    LET c == Cleared(x.c)
    IN  [x EXCEPT !.c = [c EXCEPT !.array = Request("new"), !.data = Older(c.data)]]

(* A url or host that does not resolve, a client that is open already, a   *)
(* connection refused at once, and a socket that cannot be set up leave    *)
(* open where they happen; else the handler has a first try at sending.    *)
Opened(x, interval) ==
    LET begun == [x EXCEPT !.c.age = 0, !.c.interval = interval]
        off   == [begun EXCEPT !.c.fd = FALSE, !.l = NoLink]
    IN  {begun} \cup
        (IF NoSocket(x.l)
         THEN {off} \cup Unconnected(off) \cup
              (UNION {Handler(Requested(y)) : y \in Connecting(off)})
         ELSE {})

(* check_finished, check_timeout and check_repeat.  Faulty variants, named *)
(* for the fault, stand before what they would replace.                    *)
AnyLength(c)  == c.header \/ ~c.fd
DeafTimedOut(c) == ~c.fd

Finished(c) == c.length = c.content \/ ~c.fd
TimedOut(c) == ~c.fd \/ c.age >= Timeout
HeldRepeats(c) == c.interval > 0 /\ c.age >= c.interval /\ c.fd
Repeats(c)  == c.interval > 0 /\ c.age >= c.interval

Ended(c) == Finished(c) \/ TimedOut(c)

-----------------------------------------------------------------------------
(* The main loop and its statistics client.                                *)

StatLoop ==
    /\ phase = "stat"
    /\ \E y \in IF ~Now.c.valid /\ Repeats(Now.c)
                THEN Opened(Closed(Now), Now.c.interval) ELSE {Now} :
       \E z \in Handler(y) :
            Become(IF Ended(z.c) THEN Closed(z) ELSE z)
    /\ UNCHANGED <<phase, reloads>>

(* After a reload the url and the interval come from the configuration     *)
(* that was released: the url may be empty or no url, the interval any.    *)
Reload ==
    /\ phase = "stat" /\ reloads < MaxReloads
    /\ reloads' = reloads + 1
    /\ \E y \in {Now} \cup UNION {Opened(Now, i) : i \in Intervals \cup {0}} : Become(y)
    /\ UNCHANGED phase

-----------------------------------------------------------------------------
(* A role with an on_event_url.                                            *)

(* The listener has made the role: set_http_url and on_connect.            *)
OnConnect ==
    /\ phase = "gone"
    /\ \E x \in Opened(Fresh, 0) : Become(x)
    /\ phase' = "asking"
    /\ UNCHANGED reloads

Trusting(c) == IF c.code = "403" THEN "refused" ELSE "admitted"
Verdict(c)  == IF c.code = "200" THEN "admitted" ELSE "refused"

(* check_http_passed, from the role's handlers.                            *)
CheckHttpPassed ==
    /\ phase = "asking"
    /\ \E y \in Handler(Now) :
        IF Ended(y.c)
        THEN Become(Fresh) /\ phase' = Verdict(y.c)
        ELSE Become(y) /\ UNCHANGED phase
    /\ UNCHANGED reloads

(* invalid_srt, when the peer has gone or sent nothing for too long: only  *)
(* a role that was admitted opens an on_close request.                     *)
InvalidSrt ==
    \/ /\ phase = "asking" /\ phase' = "lost"
       /\ UNCHANGED <<m_http_client, link, reloads>>
    \/ /\ phase = "admitted" /\ phase' = "reporting"
       /\ \E x \in Opened(Fresh, 0) : Become(x)
       /\ UNCHANGED reloads

(* uninit and the destructor take the client with them.                    *)
Uninit ==
    /\ phase \notin {"stat", "gone"}
    /\ Become(Fresh) /\ phase' = "gone"
    /\ UNCHANGED reloads

-----------------------------------------------------------------------------
(* The network, the server and the clock.                                  *)

Environment == UNCHANGED <<m_http_client, phase, reloads>>

Connect ==
    /\ link.st = "connecting"
    /\ \E st \in {"up", "failed"} : link' = [link EXCEPT !.st = st]
    /\ Environment

(* The server answers a request it has in full.  Nobody asks for the code  *)
(* of a post, so there it is always the same.                              *)
Requests == {i \in DOMAIN link.rcvd : link.rcvd[i][2] = 2}

Answer ==
    /\ link.st = "up" /\ Cardinality(Requests) > Len(link.verdicts)
    /\ \E a \in Answers :
        /\ phase = "stat" => a[2] = "200"
        /\ link' = [link EXCEPT !.sent = @ \o a, !.verdicts = Append(@, a[2])]
    /\ Environment

Arrive ==
    /\ link.st = "up" /\ link.sent # << >>
    /\ \E n \in DOMAIN link.sent :
        link' = [link EXCEPT !.arrived = @ \o SubSeq(link.sent, 1, n),
                             !.sent = SubSeq(@, n + 1, Len(@))]
    /\ Environment

(* The server closes the connection, or resets it with what is not read.   *)
Disconnect ==
    /\ link.st = "up"
    /\ \/ link' = [link EXCEPT !.st = "closed", !.sent = << >>]
       \/ \E kept \in {link.arrived, << >>} :
            link' = [link EXCEPT !.st = "failed", !.sent = << >>, !.arrived = kept]
    /\ Environment

Tick ==
    /\ m_http_client.age < MaxAge
    /\ m_http_client' = [m_http_client EXCEPT !.age = @ + 1]
    /\ UNCHANGED <<link, phase, reloads>>

-----------------------------------------------------------------------------
Init ==
    /\ reloads = 0
    /\ \/ /\ phase = "gone" /\ "role" \in Users
          /\ m_http_client = NewClient /\ link = NoLink
       \/ /\ phase = "stat" /\ "stat" \in Users
          /\ \E i \in Intervals : \E x \in Opened(Fresh, i) :
                m_http_client = x.c /\ link = x.l

Next ==
    \/ StatLoop \/ Reload
    \/ OnConnect \/ CheckHttpPassed \/ InvalidSrt \/ Uninit
    \/ Connect \/ Answer \/ Arrive \/ Disconnect \/ Tick

(* The main loop and time go on, and a worker handles a waiting role again *)
(* and again: its socket is ready while the peer sends or can be sent to   *)
(* (a peer that is neither is left to the idle timer, see SLSServer).      *)
Spec ==
    /\ Init /\ [][Next]_vars
    /\ WF_vars(StatLoop) /\ WF_vars(Tick)
    /\ WF_vars(CheckHttpPassed)

-----------------------------------------------------------------------------
Pieces == {"HTTP/1.1", "200", "403", "length 0", "length 1", "blank", "body"}

TypeOK ==
    /\ m_http_client \in
        [fd : BOOLEAN, valid : BOOLEAN, age : 0 .. MaxAge, interval : Intervals \cup {0},
         array : {<< >>, Request("new")}, data : Seq({"new", "old"} \X {1, 2}),
         header : BOOLEAN, code : {"", "200", "403"}, length : {-1, 0, 1}, content : Nat]
    /\ link.st \in {"none", "bad", "unconnected", "connecting", "up", "failed", "closed"}
    /\ link.arrived \in Seq(Pieces) /\ link.sent \in Seq(Pieces)
    /\ m_http_client.fd <=> link.st # "none"
    /\ m_http_client.valid => link.st \notin {"none", "bad", "unconnected"}
    /\ phase \in {"stat", "gone", "asking", "admitted", "refused", "lost", "reporting"}
    /\ reloads \in 0 .. MaxReloads

(* What goes out on a connection is the client's own request, once, whole  *)
(* and in order, or still waits to; before it at most the rest of one      *)
(* earlier request, which m_out_data carries over from connection to       *)
(* connection (HttpClient.cc:320).                                         *)
WireInOrder ==
    m_http_client.valid /\ link.st \in {"connecting", "up"} =>
        \E n \in 1 .. 3 :
            link.rcvd \o m_http_client.data \o m_http_client.array =
                SubSeq(Request("old"), n, 2) \o Request("new")

(* The client has read the answer's header, or will at its next read, and  *)
(* not in pieces.                                                          *)
Heard == IF m_http_client.header THEN ~link.split ELSE Blank(link.arrived) # 0

(* An open request whose answer's header came in one piece is given up     *)
(* before its time only when the answer is there to the last byte or the   *)
(* connection is lost, but for the answer to an earlier request's bytes.   *)
EndsForCause ==
    [][/\ phase \in {"stat", "asking"} /\ phase' \in {"stat", "admitted", "refused"}
       /\ link.st \in {"connecting", "up"} /\ link'.st = "none"
       /\ m_http_client.age < Timeout /\ m_http_client.valid
       /\ Heard /\ <<"old", 2>> \notin ToSet(link.rcvd)
       => link.verdicts # << >> /\ link.sent = << >>]_vars

(* A role is admitted only if the server said 200 to it, and not refused   *)
(* when it did and its answer came in time with the header in one piece.   *)
AdmittedByServer ==
    [][/\ phase = "asking"
       => /\ phase' = "admitted" => link.verdicts = <<"200">>
          /\ phase' = "refused"  => ~(link.verdicts = <<"200">> /\ Heard)]_vars

(* Whatever the event server and the network do, the role it was asked     *)
(* about does not wait for ever: it is admitted or refused, or goes.       *)
RoleIsDecided == phase = "asking" ~> phase \in {"admitted", "refused", "lost", "gone"}

(* The statistics are posted again and again, whatever became of the last  *)
(* post, while there is an interval.                                       *)
StatRepeats ==
    phase = "stat" /\ m_http_client.age > 0 ~> m_http_client.age = 0 \/ m_http_client.interval = 0
=============================================================================
