----------------------------- MODULE SLSMapData -----------------------------
(***************************************************************************)
(* One stream's entry of CSLSMapData (SLSMapData.cc): its ring buffer, a   *)
(* CSLSRecycleArray (SLSRecycleArray.cc), the parameter sets kept beside   *)
(* it, and the players that copy from the ring into their own send buffer  *)
(* (CSLSRole::handler_write_data).                                         *)
(*                                                                         *)
(* The ring has one writer and no knowledge of its readers: a reader's     *)
(* cursor (SLSRecycleArrayID) lives in the reader's role, so the writer    *)
(* never waits, a reader may be lapped, and a cursor survives the ring it  *)
(* was taken from when the stream gets a new publisher.                    *)
(*                                                                         *)
(* A byte of the stream is represented by its position in the log of       *)
(* everything put since the ring was created.  Every action runs under the *)
(* map's read-write lock in the code, hence is one step here.              *)
(***************************************************************************)
EXTENDS Integers, Sequences

CONSTANTS
    Readers,    \* the players (and pushers) attached to this stream
    Size,       \* m_nDataSize
    MaxPut,     \* TS_UDP_LEN as the longest read from a publisher's socket
    Aligned,    \* TS_UDP_LEN as the unit in which a reader takes data
    BufLen,     \* DATA_BUFF_SIZE, a reader's send buffer
    CountMod,   \* 2^32: m_nDataCount is an int ("no consider int wrapround")
    MaxTotal,   \* bound: bytes put in the life of one ring
    MaxGen      \* bound: rings created for the key

ASSUME SizesAssumption ==
    /\ Size \in Nat \ {0} /\ MaxPut \in Nat \ {0}
    /\ Aligned \in Nat \ {0} /\ BufLen \in Nat \ {0} /\ CountMod \in Nat \ {0}
    /\ MaxPut <= Size
    /\ Aligned <= BufLen
    /\ BufLen < Size
    /\ Size < CountMod

ASSUME BoundsAssumption == MaxTotal \in Nat /\ MaxGen \in Nat

VARIABLES
    exist,          \* the key is in m_map_array
    m_arrayData,    \* the ring's memory: log positions, or NoData
    m_nWritePos,
    m_nDataCount,
    tsInfo,         \* m_map_ts_info: the generation its SPS/PPS come from,
                    \* NotParsed while it holds null packets, or NoEntry
    m_map_data_id,  \* each reader's cursor
    m_data,         \* each reader's send buffer, m_data[0 .. m_data_len)
    m_data_pos,
    \* history, read by no action's guard
    gen,            \* number of rings created for this key
    total,          \* bytes put into the current ring
    cursorGen,      \* the ring a reader's cursor was taken from
    next,           \* the log position a reader must be given next
    seen,           \* the value of total at a reader's last get
    handed          \* what a reader's last fruitful get copied out

ringVars   == <<exist, m_arrayData, m_nWritePos, m_nDataCount, tsInfo, gen, total>>
readerVars == <<m_map_data_id, m_data, m_data_pos, cursorGen, next, seen, handed>>
vars       == <<ringVars, readerVars>>

NoData == -1                    \* memory of "new char[]" nobody wrote

Cells  == 0 .. Size - 1
Cursor == [nReadPos : Cells, nDataCount : 0 .. CountMod - 1, bFirst : BOOLEAN]

NoEntry   == -1
NotParsed == 0

(* The TS packets made from the parameter sets of generation g, or the null *)
(* packets sls_init_ts_info fills in before any are known.                  *)
HeaderUnit(g) == -2 - g

(* Faulty variants, named WrongX for the X each would replace, stand before *)
(* the definitions whose properties they are used to test.                 *)
WrongWrapped(p)      == IF p >= Size THEN 0 ELSE p
WrongCountWrapped(c) == IF c > CountMod THEN c - CountMod ELSE c

Wrapped(p)      == IF p >= Size THEN p - Size ELSE p
CountWrapped(c) == IF c >= CountMod THEN c - CountMod ELSE c
Least(a, b)     == IF a <= b THEN a ELSE b
AlignedDown(n)  == (n \div Aligned) * Aligned

-----------------------------------------------------------------------------
(* The writer's side.                                                      *)

(* CSLSMapData::add: a ring that exists is kept as it is.                  *)
Add ==
    /\ ~exist
    /\ gen < MaxGen
    /\ exist' = TRUE
    /\ m_arrayData' = [c \in Cells |-> NoData]
    /\ m_nWritePos' = 0
    /\ m_nDataCount' = 0
    /\ gen' = gen + 1
    /\ total' = 0
    /\ UNCHANGED <<tsInfo, readerVars>>

(* CSLSMapData::remove: deletes the ring, and keeps m_map_ts_info.         *)
Remove ==
    /\ exist
    /\ exist' = FALSE
    /\ UNCHANGED <<m_arrayData, m_nWritePos, m_nDataCount, tsInfo, gen, total, readerVars>>

(* The end of put and check_ts_info: the first put makes the entry; data   *)
(* is parsed until the parameter sets are complete, then never again.      *)
CheckTsInfo ==
    \/ tsInfo' = IF tsInfo = NoEntry THEN NotParsed ELSE tsInfo
    \/ tsInfo \in {NoEntry, NotParsed} /\ tsInfo' = gen

(* CSLSMapData::put and CSLSRecycleArray::put of len bytes.                *)
Put(len) ==
    /\ exist
    /\ total + len <= MaxTotal
    /\ m_arrayData' = [c \in Cells |->
            IF c >= m_nWritePos /\ c < m_nWritePos + len
            THEN total + (c - m_nWritePos)
            ELSE IF c + Size < m_nWritePos + len
            THEN total + (c + Size - m_nWritePos)
            ELSE m_arrayData[c]]
    /\ m_nWritePos' = Wrapped(m_nWritePos + len)
    /\ m_nDataCount' = CountWrapped(m_nDataCount + len)
    /\ CheckTsInfo
    /\ total' = total + len
    /\ UNCHANGED <<exist, gen, readerVars>>

-----------------------------------------------------------------------------
(* The readers' side: CSLSRole::handler_write_data of reader r.            *)

(* The write loop: whole packets go out until the socket takes no more;    *)
(* what is left of buffer d stays for the next call.                       *)
Send(r, d, pos) ==
    \E packets \in 0 .. (Len(d) - pos) \div Aligned :
        LET sent == pos + packets * Aligned IN
        /\ m_data'     = [m_data EXCEPT ![r] = IF sent < Len(d) THEN d ELSE << >>]
        /\ m_data_pos' = [m_data_pos EXCEPT ![r] = IF sent < Len(d) THEN sent ELSE 0]

WrongMayFetch(r) == TRUE
MayFetch(r) == Len(m_data[r]) < Aligned

WrongNothingNew(r) == m_map_data_id[r].nReadPos = m_nWritePos

NothingNew(r) ==
    /\ m_map_data_id[r].nReadPos = m_nWritePos
    /\ m_map_data_id[r].nDataCount = m_nDataCount

WrongReady(r) ==
    LET pos == m_map_data_id[r].nReadPos IN
    IF pos <= m_nWritePos THEN m_nWritePos - pos ELSE Size - pos + m_nWritePos

(* ready_data_len of CSLSRecycleArray::get.                                *)
Ready(r) ==
    LET pos == m_map_data_id[r].nReadPos IN
    IF pos < m_nWritePos THEN m_nWritePos - pos ELSE Size - pos + m_nWritePos

CopyLen(r) == AlignedDown(Least(Ready(r), BufLen))

WrongCopied(r) ==
    [i \in 1 .. CopyLen(r) |->
        LET c == m_map_data_id[r].nReadPos + (i - 1) IN m_arrayData[IF c < Size THEN c ELSE i - 1]]

Copied(r) ==
    [i \in 1 .. CopyLen(r) |-> m_arrayData[Wrapped(m_map_data_id[r].nReadPos + (i - 1))]]

Header == IF tsInfo = NoEntry THEN << >> ELSE [i \in 1 .. Aligned |-> HeaderUnit(tsInfo)]

(* The first get: the cursor starts at the write position and the reader   *)
(* is handed the parameter sets, if there are any.                         *)
FirstGet(r) ==
    /\ exist
    /\ MayFetch(r)
    /\ m_map_data_id[r].bFirst
    /\ m_map_data_id' = [m_map_data_id EXCEPT ![r] =
            [nReadPos |-> m_nWritePos, nDataCount |-> m_nDataCount, bFirst |-> FALSE]]
    /\ Send(r, Header, 0)
    /\ handed' = [handed EXCEPT ![r] = Header]
    /\ cursorGen' = [cursorGen EXCEPT ![r] = gen]
    /\ next' = [next EXCEPT ![r] = total]
    /\ seen' = [seen EXCEPT ![r] = total]
    /\ UNCHANGED ringVars

EmptyGet(r) ==
    /\ exist
    /\ MayFetch(r)
    /\ ~m_map_data_id[r].bFirst
    /\ NothingNew(r)
    /\ m_data' = [m_data EXCEPT ![r] = << >>]
    /\ m_data_pos' = [m_data_pos EXCEPT ![r] = 0]
    /\ seen' = [seen EXCEPT ![r] = total]
    /\ UNCHANGED <<ringVars, m_map_data_id, cursorGen, next, handed>>

(* A reader no more than Size bytes behind is owed the byte at next; one   *)
(* further behind has lost data and goes on from whatever it is given.     *)
Owed(r) ==
    IF total - next[r] <= Size \/ CopyLen(r) = 0 THEN next[r] ELSE total - Ready(r)

Get(r) ==
    /\ exist
    /\ MayFetch(r)
    /\ ~m_map_data_id[r].bFirst
    /\ ~NothingNew(r)
    /\ m_map_data_id' = [m_map_data_id EXCEPT
            ![r].nReadPos   = Wrapped(@ + CopyLen(r)),
            ![r].nDataCount = m_nDataCount]
    /\ Send(r, Copied(r), 0)
    /\ handed' = [handed EXCEPT ![r] = Copied(r)]
    /\ next' = [next EXCEPT ![r] = Owed(r) + CopyLen(r)]
    /\ seen' = [seen EXCEPT ![r] = total]
    /\ UNCHANGED <<ringVars, cursorGen>>

(* The buffer still holds packets an earlier write did not take.           *)
SendRest(r) ==
    /\ ~MayFetch(r)
    /\ Send(r, m_data[r], m_data_pos[r])
    /\ UNCHANGED <<ringVars, m_map_data_id, cursorGen, next, seen, handed>>

-----------------------------------------------------------------------------
Init ==
    /\ exist = FALSE
    /\ m_arrayData = [c \in Cells |-> NoData]
    /\ m_nWritePos = 0
    /\ m_nDataCount = 0
    /\ tsInfo = NoEntry
    /\ gen = 0
    /\ total = 0
    /\ m_map_data_id = [r \in Readers |-> [nReadPos |-> 0, nDataCount |-> 0, bFirst |-> TRUE]]
    /\ m_data = [r \in Readers |-> << >>]
    /\ m_data_pos = [r \in Readers |-> 0]
    /\ cursorGen = [r \in Readers |-> 0]
    /\ next = [r \in Readers |-> 0]
    /\ seen = [r \in Readers |-> 0]
    /\ handed = [r \in Readers |-> << >>]

Next ==
    \/ Add
    \/ Remove
    \/ \E len \in 1 .. MaxPut : Put(len)
    \/ \E r \in Readers : FirstGet(r)
    \/ \E r \in Readers : EmptyGet(r)
    \/ \E r \in Readers : Get(r)
    \/ \E r \in Readers : SendRest(r)

Spec == Init /\ [][Next]_vars

(* A worker polls every player's socket for ever; a peer that stops        *)
(* accepting data is no longer a reader (CSLSRole::get_state drops it), so *)
(* a write is assumed to make progress.  Nothing is assumed of publishers. *)
ReaderFairness(r) ==
    /\ WF_vars(FirstGet(r))
    /\ WF_vars(Get(r))
    /\ WF_vars(SendRest(r))

FairSpec == Spec /\ \A r \in Readers : ReaderFairness(r)

-----------------------------------------------------------------------------
TypeOK ==
    /\ exist \in BOOLEAN
    /\ m_arrayData \in [Cells -> Int]
    /\ m_nWritePos \in Cells
    /\ m_nDataCount \in 0 .. CountMod - 1
    /\ gen \in Nat /\ tsInfo \in NoEntry .. gen
    /\ total \in Nat
    /\ m_map_data_id \in [Readers -> Cursor]
    /\ m_data \in [Readers -> Seq(Int)]
    /\ m_data_pos \in [Readers -> Nat]
    /\ cursorGen \in [Readers -> 0 .. gen]
    /\ next \in [Readers -> Nat]
    /\ seen \in [Readers -> Nat]
    /\ handed \in [Readers -> Seq(Int)]

(* The reader's cursor was taken from the ring the key has now.            *)
Attached(r) == ~m_map_data_id[r].bFirst /\ cursorGen[r] = gen

Lag(r) == total - next[r]

Run(from, n) == [i \in 1 .. n |-> from + (i - 1)]

IsHeader(r) == handed[r] # << >> /\ handed[r][1] < NoData

(* What an attached reader was last handed is a run of the log, in order   *)
(* and whole, that ends just before the position it is owed next: a reader *)
(* at most Size behind loses, repeats and tears nothing, and one that was  *)
(* lapped goes on with bytes of the current lap, never with unwritten or   *)
(* overwritten ones (CSLSRecycleArray::get, whose wrap-round is in three   *)
(* places).                                                                *)
HandedIsRunOfLog ==
    \A r \in Readers : Attached(r) /\ ~IsHeader(r) =>
        LET n == Len(handed[r]) IN
        /\ n <= next[r] /\ next[r] <= total
        /\ handed[r] = Run(next[r] - n, n)

(* get says "no new data" only to a reader that has it all: the test       *)
(* compares a position modulo Size and a count modulo 2^32, and neither    *)
(* alone tells a full ring from an empty one.                              *)
NothingNewIsTrue ==
    \A r \in Readers : Attached(r) /\ Lag(r) <= Size /\ NothingNew(r) => Lag(r) = 0

(* A reader fetches only when everything it was handed is on the socket:   *)
(* handler_write_data tells an empty buffer by m_data_len < TS_UDP_LEN,    *)
(* which holds because every get returns whole packets.                    *)
NoFetchOverUnsent ==
    [][\A r \in Readers : handed'[r] # handed[r] => m_data[r] = << >>]_vars

(* A player that stays while its stream's ring is deleted and made again   *)
(* keeps its cursor (CSLSRole::handler_write_data).  It is handed bytes    *)
(* nobody wrote only where its position is ahead of all the new publisher  *)
(* has put; from a position behind it gets a run of the new stream.        *)
Stale(r) == ~m_map_data_id[r].bFirst /\ cursorGen[r] # gen

StaleGetsNewStream ==
    [][\A r \in Readers : Stale(r) /\ Ready(r) <= total /\ handed'[r] # handed[r] =>
            handed'[r] = Run(total - Ready(r), Len(handed'[r]))]_vars

(* A reader of a stream that has gone quiet gets all of it but a last      *)
(* incomplete packet, unless it is lapped or the ring goes away first; one *)
(* that stayed over a change of the publisher comes as near to the end.    *)
CatchesUp ==
    \A r \in Readers :
        /\ Attached(r) /\ exist ~>
               ~exist \/ ~Attached(r) \/ Lag(r) < Aligned \/ Lag(r) > Size
        /\ Stale(r) /\ exist ~>
               ~exist \/ (m_nWritePos - m_map_data_id[r].nReadPos) % Size < Aligned

-----------------------------------------------------------------------------
(* The inductive invariant behind these properties.                        *)

(* The memory holds the newest Size bytes of the log, each at the cell its *)
(* distance from the write position says; before the first wrap the cells  *)
(* from the write position on are unwritten.                               *)
RingHoldsNewest ==
    /\ total = m_nWritePos \/ total >= m_nWritePos + Size
    /\ \A c \in Cells :
        m_arrayData[c] =
            IF c < m_nWritePos THEN total - m_nWritePos + c
            ELSE IF total = m_nWritePos THEN NoData
            ELSE total - m_nWritePos - Size + c

CursorInv(r) ==
    LET pos == m_map_data_id[r].nReadPos
        cnt == m_map_data_id[r].nDataCount
    IN
    /\ next[r] <= seen[r] /\ seen[r] <= total
    /\ Lag(r) <= Size =>
        /\ pos = m_nWritePos - Lag(r) \/ pos = m_nWritePos - Lag(r) + Size
        /\ seen[r] - next[r] < Size
    /\ total - seen[r] < CountMod => m_nDataCount = CountWrapped(cnt + (total - seen[r]))

BufferInv(r) == m_data[r] = << >> \/ Len(m_data[r]) >= Aligned

IInv ==
    /\ TypeOK
    /\ RingHoldsNewest
    /\ \A r \in Readers : Attached(r) => CursorInv(r)
    /\ \A r \in Readers : BufferInv(r)
    /\ HandedIsRunOfLog

-----------------------------------------------------------------------------
(* The ring and its cursors implement the broadcast log: a reader whose    *)
(* cursor outlived its ring is one the log has lost.                       *)
LogPosition(r) ==
    IF m_map_data_id[r].bFirst THEN -1
    ELSE IF cursorGen[r] # gen THEN -2 ELSE next[r]

LogPositions == [r \in Readers |-> LogPosition(r)]

Abstract == INSTANCE BroadcastLog WITH
    Window <- Size,
    open   <- exist,
    next   <- LogPositions

(* Every step of the ring, its cursors and its readers' buffers is a step  *)
(* of the log each player is promised, or none.                            *)
ImplementsLog == Abstract!Spec
=============================================================================
