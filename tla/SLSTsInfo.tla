----------------------------- MODULE SLSTsInfo ------------------------------
(***************************************************************************)
(* The header a new player gets before the stream: one stream name's       *)
(* ts_info, which CSLSMapData::put fills from the transport stream packets *)
(* going by (check_ts_info, and sls_parse_ts_info in common.cc) and        *)
(* get_ts_info hands out.  It has the stream's PAT and PMT and a packet    *)
(* made of its H.264 parameter sets.                                       *)
(*                                                                         *)
(* Every call is made under the lock of the map, hence is one step.  The   *)
(* elementary stream is a sequence of NAL units; the parser knows a unit   *)
(* by a start code of four bytes or more, and takes one of three bytes     *)
(* for data of the unit before it.                                         *)
(***************************************************************************)
EXTENDS Naturals, Sequences, FiniteSetsExt

CONSTANTS
    Contents,       \* what the start of a PES packet may hold: units, each
                    \* [type |-> "sps", "pps" or "other", long |-> BOOLEAN]
    Pids,           \* pids of elementary streams and of PMTs
    Layouts,        \* assignments of them encoders choose
    Room,           \* units of parameter sets a packet has room for
    MaxStreams,     \* bound: publishers of this name, one after the other
    None            \* model value

Kinds == {"pmt", "video", "audio"}

ASSUME TsAssumption ==
    /\ Contents \subseteq Seq([type : {"sps", "pps", "other"}, long : BOOLEAN])
    /\ Room \in Nat /\ MaxStreams \in Nat \ {0}
    /\ \A l \in Layouts : /\ l \in [Kinds -> Pids]
                         /\ \A a, b \in Kinds : l[a] = l[b] => a = b
    /\ None \notin Nat \cup Pids

VARIABLES
    ring,       \* the name is in m_map_array
    ti,         \* its m_map_ts_info entry, or None
    stream,     \* the number of the publisher, and
    layout,     \* the pids it uses
    order       \* history: how far the publisher has come in the order a
                \* player needs, or "odd" when it has left it

vars == <<ring, ti, stream, layout, order>>

Pid(kind) == layout[kind]

(* A packet with a payload unit start; every other one is "other".  Of a   *)
(* PAT it matters whether it has a payload with a program in it, of a PES  *)
(* whether it has a time stamp, not which.                                 *)
Packets ==
    [kind : {"pat"}, program : BOOLEAN] \cup
    [kind : {"pmt", "other"}] \cup
    [kind : {"video"}, pts : BOOLEAN, es : Contents] \cup
    [kind : {"audio"}, pts : BOOLEAN, es : {<< >>}]

-----------------------------------------------------------------------------
(* sls_init_ts_info.  pmt is not initialised there, and data is a header   *)
(* of null packets.  A table is known by the stream it came from, and None *)
(* is no table.                                                            *)
NoHeader == [pat |-> None, pmt |-> None, sps |-> << >>, pps |-> << >>]
NewInfo == [es_pid |-> None, dts |-> FALSE, sps |-> << >>, pps |-> << >>,
            pat |-> None, pmt |-> None, pmt_pid |-> None, data |-> NoHeader]

HasSets(i) == i.sps # << >> /\ i.pps # << >>

(* Faulty variants, named for the fault, stand before what they replace.   *)
GreedyCut(es, b) == SubSeq(es, b, Len(es))

(* A unit with all that follows it up to the next start code the parser    *)
(* knows.                                                                  *)
Cut(es, b) ==
    LET ends == {e \in b + 1 .. Len(es) : es[e].long} IN
    SubSeq(es, b, IF ends = {} THEN Len(es) ELSE Min(ends) - 1)

(* sls_parse_spspps: from start code to start code until there is a set of *)
(* each kind, found now or before; a later set replaces an earlier one.    *)
ParseSpsPps(i, es) ==
    LET units == {b \in DOMAIN es : es[b].long /\ es[b].type \in {"sps", "pps"}}
        Found(type, bs) == {b \in bs : es[b].type = type}
        Enough(c) == LET bs == {b \in units : b <= c} IN
            /\ i.sps # << >> \/ Found("sps", bs) # {}
            /\ i.pps # << >> \/ Found("pps", bs) # {}
        seen == {b \in units : \A c \in units : c < b => ~Enough(c)}
        Owned(b) == [u \in DOMAIN Cut(es, b) |-> <<stream, Cut(es, b)[u].type, Cut(es, b)[u].long>>]
        Latest(type, before) ==
            IF Found(type, seen) = {} THEN before ELSE Owned(Max(Found(type, seen)))
    IN [i EXCEPT !.sps = Latest("sps", @), !.pps = Latest("pps", @)]

(* The header, once the sets and a PAT are there; pat_len is tested twice  *)
(* and pmt_len not at all.  Sets that do not fit leave the two tables.     *)
PatlessMay(i) == HasSets(i)
MayBuild(i) == HasSets(i) /\ i.pat # None

HeaderOf(i, sps, pps) == [pat |-> i.pat, pmt |-> i.pmt, sps |-> sps, pps |-> pps]

Built(i, pid) ==
    IF Len(i.sps \o i.pps) > Room
    THEN [i EXCEPT !.data = HeaderOf(i, << >>, << >>)]
    ELSE [i EXCEPT !.data = HeaderOf(i, i.sps, i.pps), !.es_pid = pid]

(* sls_pes2es.                                                             *)
Pes2es(i, p) ==
    LET j == ParseSpsPps([i EXCEPT !.dts = p.pts], p.es) IN
    IF MayBuild(j) THEN Built(j, Pid(p.kind)) ELSE j

PidlessPat(i, p) == [i EXCEPT !.pat = stream]

(* The PAT is copied whatever is in it; sls_parse_pat looks for a program. *)
SavePat(i, p) ==
    [i EXCEPT !.pat = stream, !.pmt_pid = IF p.program THEN Pid("pmt") ELSE @]

(* What comes on the pid of the PMT is copied, even when it is the PES of  *)
(* a publisher that uses the pid of an earlier one's PMT.                  *)
SavePmt(i, p) == [i EXCEPT !.pmt = IF p.kind = "pmt" THEN stream ELSE None]

(* sls_parse_ts_info: the first PES with a time stamp or with the sets     *)
(* decides which pid is listened to.                                       *)
ParseTsInfo(i, p) ==
    IF p.kind = "other" THEN i
    ELSE IF p.kind = "pat" THEN SavePat(i, p)
    ELSE IF i.pmt_pid = Pid(p.kind) THEN SavePmt(i, p)
    ELSE IF p.kind = "pmt" \/ i.es_pid \notin {None, Pid(p.kind)} THEN i
    ELSE LET j == Pes2es(i, p) IN
         [j EXCEPT !.es_pid = IF j.dts \/ HasSets(j) THEN Pid(p.kind) ELSE @]

(* check_ts_info, for one packet: "only get the first".                    *)
NeverDone(i) == FALSE
Done(i) == HasSets(i) /\ i.pat # None

CheckTsInfo(i, p) == IF Done(i) THEN i ELSE ParseTsInfo(i, p)

-----------------------------------------------------------------------------
(* The publishers' side of the map.                                        *)

(* A publisher registers, CSLSMapData::add.                                *)
Add ==
    /\ ~ring
    /\ ring' = TRUE /\ stream' = stream + 1
    /\ layout' \in Layouts
    /\ order' = "start"
    /\ UNCHANGED ti

(* remove takes the ring and leaves the ts_info.  The last publisher stays.*)
Remove ==
    /\ ring /\ stream < MaxStreams
    /\ ring' = FALSE
    /\ UNCHANGED <<ti, stream, layout, order>>

(* What a publisher's packets have to come in for a player to get a header *)
(* out of them: PAT, PMT, the video with its sets in the first packet of   *)
(* an access unit, and no audio before the video.                          *)
Sets(es) == {b \in DOMAIN es : es[b].type # "other"}

Keyed(es) ==
    \E b \in DOMAIN es :
        /\ Sets(es) = {b, b + 1}
        /\ es[b].type = "sps" /\ es[b].long /\ es[b + 1].type = "pps" /\ es[b + 1].long
        /\ Len(Cut(es, b) \o Cut(es, b + 1)) <= Room

Follow(p) ==
    IF order \in {"key", "odd"} THEN order ELSE
    CASE p.kind = "pat" -> IF order = "start" /\ p.program THEN "pat" ELSE order
      [] p.kind = "pmt" -> IF order = "pat" THEN "pmt" ELSE order
      [] p.kind = "audio" /\ p.pts -> IF order = "video" THEN order ELSE "odd"
      [] p.kind = "video" /\ Sets(p.es) # {} ->
            IF order \in {"pmt", "video"} /\ Keyed(p.es) THEN "key" ELSE "odd"
      [] p.kind = "video" /\ Sets(p.es) = {} /\ p.pts -> IF order = "pmt" THEN "video" ELSE order
      [] OTHER -> order

(* put, for one packet of the data; the ring is in SLSMapData.             *)
Put(p) ==
    /\ ring
    /\ ti' = CheckTsInfo(IF ti = None THEN NewInfo ELSE ti, p)
    /\ order' = Follow(p)
    /\ UNCHANGED <<ring, stream, layout>>

Init ==
    /\ ring = FALSE /\ ti = None
    /\ stream = 0 /\ layout \in Layouts /\ order = "start"

Next == Add \/ Remove \/ \E p \in Packets : Put(p)

Spec == Init /\ [][Next]_vars

-----------------------------------------------------------------------------
Known == ti # None

(* What a player that joins now is handed: get_ts_info.                    *)
Header == IF Known THEN ti.data ELSE NoHeader

Owner == 1 .. MaxStreams
Units == Seq(Owner \X {"sps", "pps", "other"} \X BOOLEAN)
PidOrNone == Pids \cup {None}
Table == Owner \cup {None}
Info == [es_pid : PidOrNone, dts : BOOLEAN, sps : Units, pps : Units,
         pat : Table, pmt : Table, pmt_pid : PidOrNone,
         data : [pat : Table, pmt : Table, sps : Units, pps : Units]]

ASSUME NoneIsNoInfo == None \notin Info

(* A header that was made has a PAT, and its parameter sets fit a packet.  *)
TypeOK ==
    /\ ring \in BOOLEAN /\ stream \in 0 .. MaxStreams /\ layout \in Layouts
    /\ order \in {"start", "pat", "pmt", "video", "key", "odd"}
    /\ ti \in Info \cup {None}
    /\ Header # NoHeader => Header.pat \in Owner /\ Len(Header.sps \o Header.pps) <= Room

(* What the header calls a parameter set is one: it starts with the unit   *)
(* and ends before the next start code of full length.                     *)
IsCut(type, units) ==
    units # << >> => Head(units)[2] = type /\ \A n \in 2 .. Len(units) : ~units[n][3]

SetsAreCut == IsCut("sps", Header.sps) /\ IsCut("pps", Header.pps)

(* The first publisher of a name, when it sends its packets in order, has  *)
(* given its players its own tables and sets as soon as the packet with    *)
(* the sets is put.                                                        *)
OrderlyIsServed ==
    stream = 1 /\ order = "key" =>
        /\ Header.pat = 1 /\ Header.pmt = 1
        /\ Head(Header.sps) = <<1, "sps", TRUE>>
        /\ Head(Header.pps) = <<1, "pps", TRUE>>

(* A header once made is never touched, so all players of the name get the *)
(* same, also those of later publishers: "suppose the sps and pps are not  *)
(* changed always" (SLSMapData.cc:211).                                    *)
HeaderIsFinal == [][Header # NoHeader => Header' = Header]_vars

=============================================================================
