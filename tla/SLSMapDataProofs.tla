-------------------------- MODULE SLSMapDataProofs --------------------------
(* Proofs about SLSMapData: for every ring, packet and buffer size, any    *)
(* number of readers and of bytes.                                         *)
EXTENDS SLSMapData, TLAPS

(* Rounding down to whole packets: a multiple that is zero or a packet.    *)
LEMMA AlignedDownBounds ==
    ASSUME NEW n \in Nat
    PROVE  /\ AlignedDown(n) \in 0 .. n
           /\ n >= Aligned => AlignedDown(n) >= Aligned
           /\ AlignedDown(n) = 0 \/ AlignedDown(n) >= Aligned
  <1>1. n \div Aligned \in Nat
    BY SizesAssumption
  <1>2. (n \div Aligned) * Aligned <= n /\ n < (n \div Aligned) * Aligned + Aligned
    BY SizesAssumption
  <1>3. n >= Aligned => n \div Aligned >= 1
    BY <1>2, <1>1, SizesAssumption
  <1>4. n \div Aligned = 0 \/ n \div Aligned >= 1
    BY <1>1
  <1>5. n \div Aligned = 0 => AlignedDown(n) = 0
    BY SizesAssumption DEF AlignedDown
  <1>6. n \div Aligned >= 1 => AlignedDown(n) >= Aligned
    BY <1>1, SizesAssumption DEF AlignedDown
  <1>7. AlignedDown(n) \in Nat
    BY <1>1, SizesAssumption DEF AlignedDown
  <1>. QED
    BY <1>2, <1>3, <1>4, <1>5, <1>6, <1>7 DEF AlignedDown

(* What a get copies fits the ring, is whole packets, and is not empty     *)
(* when the ring is full of unread bytes.                                  *)
LEMMA CopyLenBounds ==
    ASSUME TypeOK, NEW r \in Readers
    PROVE  /\ Ready(r) \in 1 .. Size
           /\ CopyLen(r) \in 0 .. Ready(r)
           /\ CopyLen(r) = 0 \/ CopyLen(r) >= Aligned
           /\ Ready(r) = Size => CopyLen(r) >= 1
           /\ CopyLen(r) < Size
  <1>1. Ready(r) \in 1 .. Size
    <2>1. m_map_data_id[r] \in Cursor
      BY DEF TypeOK
    <2>2. m_map_data_id[r].nReadPos \in 0 .. Size - 1
      BY <2>1 DEF Cursor, Cells
    <2>3. m_nWritePos \in 0 .. Size - 1
      BY DEF TypeOK, Cells
    <2>. QED
      BY <2>2, <2>3, SizesAssumption DEF Ready
  <1>2. Least(Ready(r), BufLen) \in Nat /\ Least(Ready(r), BufLen) <= Ready(r)
        /\ Least(Ready(r), BufLen) < Size
    BY <1>1, SizesAssumption DEF Least
  <1>3. Ready(r) = Size => Least(Ready(r), BufLen) >= Aligned
    BY <1>1, SizesAssumption DEF Least
  <1>. QED
    BY <1>1, <1>2, <1>3, AlignedDownBounds, SizesAssumption DEF CopyLen

-----------------------------------------------------------------------------
(* Type correctness.                                                       *)

(* Whatever the socket accepts, the buffer afterwards is the one sent from *)
(* or empty.                                                               *)
LEMMA SendType ==
    ASSUME TypeOK, NEW r \in Readers, NEW d \in Seq(Int), NEW pos \in Nat, Send(r, d, pos)
    PROVE  /\ m_data' \in [Readers -> Seq(Int)]
           /\ m_data_pos' \in [Readers -> Nat]
           /\ m_data'[r] = d \/ m_data'[r] = << >>
           /\ \A q \in Readers \ {r} : m_data'[q] = m_data[q]
  <1>1. PICK packets \in 0 .. (Len(d) - pos) \div Aligned :
            LET sent == pos + packets * Aligned IN
            /\ m_data'     = [m_data EXCEPT ![r] = IF sent < Len(d) THEN d ELSE << >>]
            /\ m_data_pos' = [m_data_pos EXCEPT ![r] = IF sent < Len(d) THEN sent ELSE 0]
    BY DEF Send
  <1>2. pos + packets * Aligned \in Nat
    BY <1>1, SizesAssumption
  <1>. QED
    BY <1>1, <1>2 DEF TypeOK

(* A run of the log is a sequence of byte numbers.                         *)
LEMMA RunType ==
    ASSUME NEW n \in Nat, NEW from \in Int
    PROVE  Run(from, n) \in Seq(Int) /\ Len(Run(from, n)) = n
  BY DEF Run

(* What is copied out of the memory is bytes.                              *)
LEMMA CopiedType ==
    ASSUME TypeOK, NEW r \in Readers
    PROVE  Copied(r) \in Seq(Int) /\ Len(Copied(r)) = CopyLen(r)
  <1>1. CopyLen(r) \in Nat /\ CopyLen(r) < Size
    BY CopyLenBounds, SizesAssumption
  <1>2. m_map_data_id[r].nReadPos \in Cells
    BY DEF TypeOK, Cursor
  <1>3. \A i \in 1 .. CopyLen(r) : Wrapped(m_map_data_id[r].nReadPos + (i - 1)) \in Cells
    BY <1>1, <1>2, SizesAssumption DEF Wrapped, Cells
  <1>4. \A i \in 1 .. CopyLen(r) :
            m_arrayData[Wrapped(m_map_data_id[r].nReadPos + (i - 1))] \in Int
    BY <1>3 DEF TypeOK
  <1>. QED
    BY <1>1, <1>4 DEF Copied

(* And so is the header.                                                   *)
LEMMA HeaderType ==
    ASSUME TypeOK
    PROVE  /\ Header \in Seq(Int)
           /\ Header = << >> \/ (Len(Header) = Aligned /\ Header[1] < NoData)
  <1>1. tsInfo = NoEntry \/ tsInfo \in Nat
    BY DEF TypeOK, NoEntry
  <1>. QED
    BY <1>1, SizesAssumption DEF Header, HeaderUnit, NoData

(* The types hold at first.                                                *)
LEMMA InitType == Init => TypeOK
  <1>. SUFFICES ASSUME Init PROVE TypeOK
    OBVIOUS
  <1>1. 0 \in Cells /\ 0 \in 0 .. CountMod - 1
    BY SizesAssumption DEF Cells
  <1>2. [nReadPos |-> 0, nDataCount |-> 0, bFirst |-> TRUE] \in Cursor
    BY <1>1 DEF Cursor
  <1>3. m_map_data_id \in [Readers -> Cursor]
    BY <1>2 DEF Init
  <1>4. m_arrayData \in [Cells -> Int]
    BY DEF Init, NoData
  <1>5. /\ m_data \in [Readers -> Seq(Int)] /\ handed \in [Readers -> Seq(Int)]
        /\ m_data_pos \in [Readers -> Nat] /\ next \in [Readers -> Nat]
        /\ seen \in [Readers -> Nat] /\ cursorGen \in [Readers -> 0 .. gen]
    BY DEF Init
  <1>. QED
    BY <1>1, <1>3, <1>4, <1>5 DEF Init, TypeOK

(* Every step keeps them.                                                  *)
LEMMA NextType == TypeOK /\ [Next]_vars => TypeOK'
  <1>. SUFFICES ASSUME TypeOK, [Next]_vars PROVE TypeOK'
    OBVIOUS
  <1>1. CASE Add
    <2>1. /\ m_arrayData' \in [Cells -> Int] /\ m_nWritePos' \in Cells
          /\ m_nDataCount' \in 0 .. CountMod - 1
      BY <1>1, SizesAssumption DEF Add, Cells, NoData
    <2>2. gen' \in Nat /\ tsInfo' \in NoEntry .. gen' /\ cursorGen' \in [Readers -> 0 .. gen']
      BY <1>1 DEF Add, readerVars, TypeOK
    <2>. QED
      BY <1>1, <2>1, <2>2 DEF Add, readerVars, TypeOK
  <1>2. CASE Remove
    BY <1>2 DEF Remove, readerVars, TypeOK
  <1>3. ASSUME NEW len \in 1 .. MaxPut, Put(len) PROVE TypeOK'
    <2>1. m_nWritePos' \in Cells
      BY <1>3, SizesAssumption DEF Put, Wrapped, Cells, TypeOK
    <2>2. m_nDataCount' \in 0 .. CountMod - 1
      BY <1>3, SizesAssumption DEF Put, CountWrapped, TypeOK
    <2>3. m_arrayData' \in [Cells -> Int]
      <3>1. \A c \in Cells : m_arrayData[c] \in Int /\ c \in Int
        BY SizesAssumption DEF TypeOK, Cells
      <3>2. total \in Int /\ m_nWritePos \in Int
        BY SizesAssumption DEF TypeOK, Cells
      <3>. QED
        BY <1>3, <3>1, <3>2, SizesAssumption DEF Put
    <2>4. tsInfo' \in NoEntry .. gen'
      BY <1>3 DEF Put, CheckTsInfo, TypeOK, NoEntry, NotParsed
    <2>5. total' \in Nat
      BY <1>3, SizesAssumption DEF Put, TypeOK
    <2>. QED
      BY <1>3, <2>1, <2>2, <2>3, <2>4, <2>5 DEF Put, readerVars, TypeOK
  <1>4. ASSUME NEW r \in Readers, FirstGet(r) PROVE TypeOK'
    <2>1. m_data' \in [Readers -> Seq(Int)] /\ m_data_pos' \in [Readers -> Nat]
      BY <1>4, HeaderType, SendType DEF FirstGet
    <2>2. m_map_data_id' \in [Readers -> Cursor]
      BY <1>4 DEF FirstGet, TypeOK, Cursor
    <2>3. handed' \in [Readers -> Seq(Int)]
      BY <1>4, HeaderType DEF FirstGet, TypeOK
    <2>4. gen \in 0 .. gen
      BY DEF TypeOK
    <2>. QED
      BY <1>4, <2>1, <2>2, <2>3, <2>4 DEF FirstGet, ringVars, TypeOK
  <1>5. ASSUME NEW r \in Readers, EmptyGet(r) PROVE TypeOK'
    BY <1>5 DEF EmptyGet, ringVars, TypeOK
  <1>6. ASSUME NEW r \in Readers, Get(r) PROVE TypeOK'
    <2>1. m_data' \in [Readers -> Seq(Int)] /\ m_data_pos' \in [Readers -> Nat]
      BY <1>6, CopiedType, SendType DEF Get
    <2>2. m_map_data_id' \in [Readers -> Cursor]
      <3>1. m_map_data_id[r] \in Cursor
        BY DEF TypeOK
      <3>2. Wrapped(m_map_data_id[r].nReadPos + CopyLen(r)) \in Cells
        BY <3>1, CopyLenBounds, SizesAssumption DEF Cursor, Cells, Wrapped
      <3>. QED
        BY <1>6, <3>1, <3>2 DEF Get, TypeOK, Cursor
    <2>3. handed' \in [Readers -> Seq(Int)]
      BY <1>6, CopiedType DEF Get, TypeOK
    <2>4. Owed(r) + CopyLen(r) \in Nat
      <3>1. CopyLen(r) \in Nat /\ next[r] \in Nat /\ total \in Nat
        BY CopyLenBounds, SizesAssumption DEF TypeOK
      <3>2. Ready(r) \in 1 .. Size
        BY CopyLenBounds
      <3>. QED
        BY <3>1, <3>2, SizesAssumption DEF Owed
    <2>. QED
      BY <1>6, <2>1, <2>2, <2>3, <2>4 DEF Get, ringVars, TypeOK
  <1>7. ASSUME NEW r \in Readers, SendRest(r) PROVE TypeOK'
    <2>1. m_data' \in [Readers -> Seq(Int)] /\ m_data_pos' \in [Readers -> Nat]
      <3>1. m_data[r] \in Seq(Int) /\ m_data_pos[r] \in Nat
        BY DEF TypeOK
      <3>. QED
        BY <1>7, <3>1, SendType DEF SendRest
    <2>. QED
      BY <1>7, <2>1 DEF SendRest, ringVars, TypeOK
  <1>8. CASE UNCHANGED vars
    BY <1>8 DEF vars, ringVars, readerVars, TypeOK
  <1>. QED
    BY <1>1, <1>2, <1>3, <1>4, <1>5, <1>6, <1>7, <1>8 DEF Next

(* Every variable keeps its type; in particular no cursor and no write     *)
(* position ever leaves the ring.                                          *)
THEOREM TypeCorrect == Spec => []TypeOK
  BY InitType, NextType, PTL DEF Spec

-----------------------------------------------------------------------------
(* The ring.                                                               *)

(* A put keeps the newest Size bytes in place, wrapping or not.            *)
LEMMA PutRing ==
    ASSUME TypeOK, RingHoldsNewest, NEW len \in 1 .. MaxPut, Put(len)
    PROVE  RingHoldsNewest'
  <1>1. /\ m_nWritePos \in 0 .. Size - 1 /\ total \in Nat
        /\ len \in 1 .. Size /\ Size \in Nat \ {0}
    BY SizesAssumption DEF TypeOK, Cells
  <1>2. /\ m_nWritePos' = Wrapped(m_nWritePos + len)
        /\ total' = total + len
    BY DEF Put
  <1>3. total' = m_nWritePos' \/ total' >= m_nWritePos' + Size
    BY <1>1, <1>2 DEF RingHoldsNewest, Wrapped
  <1>4. ASSUME NEW c \in Cells
        PROVE  m_arrayData'[c] =
                 IF c < m_nWritePos' THEN total' - m_nWritePos' + c
                 ELSE IF total' = m_nWritePos' THEN NoData
                 ELSE total' - m_nWritePos' - Size + c
    <2>1. c \in 0 .. Size - 1
      BY DEF Cells
    <2>2. m_arrayData'[c] =
            IF c >= m_nWritePos /\ c < m_nWritePos + len
            THEN total + (c - m_nWritePos)
            ELSE IF c + Size < m_nWritePos + len
            THEN total + (c + Size - m_nWritePos)
            ELSE m_arrayData[c]
      BY DEF Put
    <2>3. m_arrayData[c] =
            IF c < m_nWritePos THEN total - m_nWritePos + c
            ELSE IF total = m_nWritePos THEN NoData
            ELSE total - m_nWritePos - Size + c
      BY DEF RingHoldsNewest
    <2>4. total = m_nWritePos \/ total >= m_nWritePos + Size
      BY DEF RingHoldsNewest
    <2>5. CASE m_nWritePos + len < Size
      <3>1. m_nWritePos' = m_nWritePos + len
        BY <1>1, <1>2, <2>5 DEF Wrapped
      <3>2. CASE c >= m_nWritePos
        BY <1>1, <1>2, <2>1, <2>2, <2>3, <2>4, <2>5, <3>1, <3>2
      <3>3. CASE c < m_nWritePos
        BY <1>1, <1>2, <2>1, <2>2, <2>3, <2>4, <2>5, <3>1, <3>3
      <3>. QED
        BY <3>2, <3>3, <1>1, <2>1
    <2>6. CASE m_nWritePos + len >= Size
      <3>1. m_nWritePos' = m_nWritePos + len - Size
        BY <1>1, <1>2, <2>6 DEF Wrapped
      <3>2. total' >= m_nWritePos' + Size
        BY <1>1, <1>2, <2>4, <3>1
      <3>3. CASE c >= m_nWritePos
        BY <1>1, <1>2, <2>1, <2>2, <2>4, <2>6, <3>1, <3>2, <3>3
      <3>4. CASE c < m_nWritePos
        BY <1>1, <1>2, <2>1, <2>2, <2>3, <2>4, <2>6, <3>1, <3>2, <3>4
      <3>. QED
        BY <3>3, <3>4, <1>1, <2>1
    <2>. QED
      BY <2>5, <2>6, <1>1
  <1>. QED
    BY <1>3, <1>4 DEF RingHoldsNewest

(* Only Add and Put change what the ring holds.                            *)
LEMMA RingStep == TypeOK /\ RingHoldsNewest /\ [Next]_vars => RingHoldsNewest'
  <1>. SUFFICES ASSUME TypeOK, RingHoldsNewest, [Next]_vars PROVE RingHoldsNewest'
    OBVIOUS
  <1>1. CASE Add
    BY <1>1, SizesAssumption DEF Add, RingHoldsNewest, Cells
  <1>2. ASSUME NEW len \in 1 .. MaxPut, Put(len) PROVE RingHoldsNewest'
    BY <1>2, PutRing
  <1>3. CASE UNCHANGED <<m_arrayData, m_nWritePos, total>>
    BY <1>3 DEF RingHoldsNewest
  <1>. QED
    BY <1>1, <1>2, <1>3 DEF Next, Remove, FirstGet, EmptyGet, Get, SendRest,
                            ringVars, vars

(* A reader whose position lies in what has been put copies a run of the   *)
(* log, Ready bytes before the end: wherever it has its cursor from.       *)
LEMMA CopiedFromRing ==
    ASSUME IInv, NEW r \in Readers, Ready(r) <= total
    PROVE  Copied(r) = Run(total - Ready(r), CopyLen(r))
  <1>. DEFINE pos == m_map_data_id[r].nReadPos
  <1>1. /\ pos \in 0 .. Size - 1 /\ m_nWritePos \in 0 .. Size - 1
        /\ total \in Nat
    BY DEF IInv, TypeOK, Cells, Cursor
  <1>2. Ready(r) = IF pos < m_nWritePos THEN m_nWritePos - pos ELSE Size - pos + m_nWritePos
    BY DEF Ready
  <1>3. total = m_nWritePos \/ total >= m_nWritePos + Size
    BY DEF IInv, RingHoldsNewest
  <1>4. ASSUME NEW i \in 1 .. CopyLen(r)
        PROVE  m_arrayData[Wrapped(pos + (i - 1))] = total - Ready(r) + (i - 1)
    <2>1. i \in Nat /\ i >= 1 /\ i <= Ready(r)
      BY CopyLenBounds, SizesAssumption DEF IInv
    <2>2. Wrapped(pos + (i - 1)) \in Cells
      BY <1>1, <1>2, <2>1, SizesAssumption DEF Wrapped, Cells
    <2>3. m_arrayData[Wrapped(pos + (i - 1))] =
            LET c == Wrapped(pos + (i - 1)) IN
            IF c < m_nWritePos THEN total - m_nWritePos + c
            ELSE IF total = m_nWritePos THEN NoData
            ELSE total - m_nWritePos - Size + c
      BY <2>2 DEF IInv, RingHoldsNewest
    <2>. QED
      BY <1>1, <1>2, <1>3, <2>1, <2>3, SizesAssumption DEF Wrapped
  <1>. QED
    BY <1>4 DEF Copied, Run

(* What an attached reader copies is a run of the log: from the byte it is *)
(* owed, Ready bytes before the end.                                       *)
LEMMA CopiedIsRun ==
    ASSUME IInv, NEW r \in Readers, Attached(r), ~NothingNew(r)
    PROVE  /\ total - Ready(r) >= next[r]
           /\ Lag(r) <= Size => total - Ready(r) = next[r]
           /\ Copied(r) = Run(total - Ready(r), CopyLen(r))
  <1>. DEFINE pos == m_map_data_id[r].nReadPos
  <1>1. /\ pos \in 0 .. Size - 1 /\ m_nWritePos \in 0 .. Size - 1
        /\ m_map_data_id[r].nDataCount \in 0 .. CountMod - 1
        /\ m_nDataCount \in 0 .. CountMod - 1
        /\ total \in Nat /\ next[r] \in Nat /\ seen[r] \in Nat
    BY DEF IInv, TypeOK, Cells, Cursor
  <1>2. Ready(r) = IF pos < m_nWritePos THEN m_nWritePos - pos ELSE Size - pos + m_nWritePos
    BY DEF Ready
  <1>3. /\ next[r] <= seen[r] /\ seen[r] <= total
        /\ Lag(r) <= Size =>
            /\ pos = m_nWritePos - Lag(r) \/ pos = m_nWritePos - Lag(r) + Size
            /\ seen[r] - next[r] < Size
        /\ total - seen[r] < CountMod =>
            m_nDataCount = CountWrapped(m_map_data_id[r].nDataCount + (total - seen[r]))
    BY DEF IInv, CursorInv
  <1>4. total = m_nWritePos \/ total >= m_nWritePos + Size
    BY DEF IInv, RingHoldsNewest
  <1>5. Lag(r) = 0 => NothingNew(r)
    <2>. HIDE DEF pos
    <2>1. Lag(r) = 0 => seen[r] = total /\ pos = m_nWritePos
      <3>1. Lag(r) \in Int /\ (Lag(r) = 0 => seen[r] = total)
        BY <1>1, <1>3 DEF Lag
      <3>. QED
        BY <1>1, <1>3, <3>1, SizesAssumption
    <2>2. seen[r] = total => m_nDataCount = CountWrapped(m_map_data_id[r].nDataCount)
      BY <1>1, <1>3, SizesAssumption
    <2>. QED
      BY <2>1, <2>2, <1>1, SizesAssumption DEF NothingNew, CountWrapped, pos
  <1>6. Lag(r) <= Size => total - Ready(r) = next[r]
    BY <1>1, <1>2, <1>3, <1>5, SizesAssumption DEF Lag, NothingNew
  <1>7. total - Ready(r) >= next[r]
    BY <1>1, <1>2, <1>6, SizesAssumption DEF Lag
  <1>8. Copied(r) = Run(total - Ready(r), CopyLen(r))
    <2>1. Ready(r) <= total
      BY <1>1, <1>7, CopyLenBounds DEF IInv
    <2>. QED
      BY <2>1, CopiedFromRing
  <1>. QED
    BY <1>6, <1>7, <1>8

-----------------------------------------------------------------------------
(* The cursors.                                                            *)

(* A put moves the end of the log away from every cursor by its length.    *)
LEMMA PutCursor ==
    ASSUME IInv, NEW r \in Readers, CursorInv(r), NEW len \in 1 .. MaxPut, Put(len)
    PROVE  CursorInv(r)'
  <1>. DEFINE pos == m_map_data_id[r].nReadPos
              cnt == m_map_data_id[r].nDataCount
  <1>1. /\ pos \in 0 .. Size - 1 /\ m_nWritePos \in 0 .. Size - 1
        /\ cnt \in 0 .. CountMod - 1 /\ m_nDataCount \in 0 .. CountMod - 1
        /\ total \in Nat /\ next[r] \in Nat /\ seen[r] \in Nat
        /\ len \in 1 .. Size
    BY SizesAssumption DEF IInv, TypeOK, Cells, Cursor
  <1>2. /\ m_nWritePos' = Wrapped(m_nWritePos + len)
        /\ m_nDataCount' = CountWrapped(m_nDataCount + len)
        /\ total' = total + len
        /\ m_map_data_id' = m_map_data_id /\ next' = next /\ seen' = seen
    BY DEF Put, readerVars
  <1>3. /\ next[r] <= seen[r] /\ seen[r] <= total
        /\ total - next[r] <= Size =>
            /\ pos = m_nWritePos - (total - next[r]) \/ pos = m_nWritePos - (total - next[r]) + Size
            /\ seen[r] - next[r] < Size
        /\ total - seen[r] < CountMod =>
            m_nDataCount = CountWrapped(cnt + (total - seen[r]))
    BY DEF CursorInv, Lag
  <1>. HIDE DEF pos, cnt
  <1>4. total' - next[r] <= Size =>
            /\ pos = m_nWritePos' - (total' - next[r]) \/ pos = m_nWritePos' - (total' - next[r]) + Size
            /\ seen[r] - next[r] < Size
    BY <1>1, <1>2, <1>3, SizesAssumption DEF Wrapped
  <1>5. total' - seen[r] < CountMod =>
            m_nDataCount' = CountWrapped(cnt + (total' - seen[r]))
    BY <1>1, <1>2, <1>3, SizesAssumption DEF CountWrapped
  <1>. QED
    BY <1>1, <1>2, <1>3, <1>4, <1>5 DEF CursorInv, Lag, pos, cnt

(* A get leaves the cursor Lag bytes behind the write position.            *)
LEMMA GetCursor ==
    ASSUME IInv, NEW r \in Readers, Attached(r), Get(r)
    PROVE  CursorInv(r)'
  <1>. DEFINE pos == m_map_data_id[r].nReadPos
              n   == CopyLen(r)
  <1>1. /\ pos \in 0 .. Size - 1 /\ m_nWritePos \in 0 .. Size - 1
        /\ m_nDataCount \in 0 .. CountMod - 1
        /\ total \in Nat /\ next[r] \in Nat /\ seen[r] \in Nat
        /\ m_map_data_id[r] \in Cursor
    BY DEF IInv, TypeOK, Cells, Cursor
  <1>2. /\ Ready(r) \in 1 .. Size /\ n \in 0 .. Ready(r)
        /\ Ready(r) = Size => n >= 1
    BY CopyLenBounds DEF IInv
  <1>3. /\ total - Ready(r) >= next[r]
        /\ total - next[r] <= Size => total - Ready(r) = next[r]
    BY CopiedIsRun DEF Get, Lag
  <1>4. Ready(r) = IF pos < m_nWritePos THEN m_nWritePos - pos ELSE Size - pos + m_nWritePos
    BY DEF Ready
  <1>5. /\ m_map_data_id'[r].nReadPos = Wrapped(pos + n)
        /\ m_map_data_id'[r].nDataCount = m_nDataCount
        /\ m_nWritePos' = m_nWritePos /\ m_nDataCount' = m_nDataCount /\ total' = total
        /\ next'[r] = IF total - next[r] <= Size \/ n = 0 THEN next[r] + n
                      ELSE total - Ready(r) + n
        /\ seen'[r] = total
    BY <1>1 DEF Get, ringVars, IInv, TypeOK, Owed
  <1>6. next[r] <= seen[r] /\ seen[r] <= total
    BY DEF IInv, CursorInv
  <1>. HIDE DEF pos, n
  <1>7. next'[r] <= seen'[r] /\ seen'[r] <= total'
    BY <1>1, <1>2, <1>3, <1>5, <1>6, SizesAssumption
  <1>8. total' - next'[r] <= Size =>
            /\ total' - next'[r] = Ready(r) - n
            /\ total' - next'[r] < Size
    <2>1. CASE total - next[r] <= Size
      <3>1. next'[r] = total - Ready(r) + n
        BY <1>1, <1>3, <1>5, <2>1
      <3>. QED
        BY <1>1, <1>2, <1>5, <3>1, SizesAssumption
    <2>2. CASE total - next[r] > Size /\ n = 0
      <3>1. total' - next'[r] > Size
        BY <1>1, <1>5, <2>2
      <3>. QED
        BY <1>1, <1>5, <3>1, <2>2, SizesAssumption
    <2>3. CASE total - next[r] > Size /\ n # 0
      <3>1. next'[r] = total - Ready(r) + n
        BY <1>1, <1>5, <2>3, SizesAssumption
      <3>. QED
        BY <1>1, <1>2, <1>5, <2>3, <3>1, SizesAssumption
    <2>. QED
      BY <1>1, <2>1, <2>2, <2>3, SizesAssumption
  <1>9. \/ Wrapped(pos + n) = m_nWritePos - (Ready(r) - n)
        \/ Wrapped(pos + n) = m_nWritePos - (Ready(r) - n) + Size
    BY <1>1, <1>2, <1>4, SizesAssumption DEF Wrapped
  <1>10. total' - seen'[r] = 0 /\ m_nDataCount' = CountWrapped(m_nDataCount + 0)
    BY <1>1, <1>5, SizesAssumption DEF CountWrapped
  <1>. QED
    BY <1>5, <1>7, <1>8, <1>9, <1>10 DEF CursorInv, Lag

(* A get moves the cursor to where its reader's lag says.                  *)
LEMMA CursorStep ==
    ASSUME IInv, TypeOK', [Next]_vars, NEW r \in Readers, Attached(r)'
    PROVE  CursorInv(r)'
  <1>1. ASSUME m_map_data_id'[r] = m_map_data_id[r], cursorGen'[r] = cursorGen[r],
               gen' = gen, next'[r] = next[r], seen'[r] = seen[r],
               UNCHANGED <<total, m_nWritePos, m_nDataCount>>
        PROVE  CursorInv(r)'
    <2>1. CursorInv(r)
      BY <1>1 DEF IInv, Attached
    <2>. QED
      BY <1>1, <2>1 DEF CursorInv, Lag
  <1>2. CASE Add
    BY <1>2 DEF Add, readerVars, Attached, IInv, TypeOK
  <1>3. ASSUME NEW len \in 1 .. MaxPut, Put(len) PROVE CursorInv(r)'
    <2>1. Attached(r)
      BY <1>3 DEF Put, readerVars, Attached
    <2>. QED
      BY <1>3, <2>1, PutCursor DEF IInv
  <1>4. ASSUME NEW q \in Readers, FirstGet(q) PROVE CursorInv(r)'
    <2>1. CASE q = r
      <3>1. /\ m_map_data_id'[r].nReadPos = m_nWritePos
            /\ m_map_data_id'[r].nDataCount = m_nDataCount
            /\ next'[r] = total /\ seen'[r] = total /\ total' = total
            /\ m_nWritePos' = m_nWritePos /\ m_nDataCount' = m_nDataCount
        BY <1>4, <2>1 DEF FirstGet, ringVars, IInv, TypeOK
      <3>2. /\ total \in Nat /\ m_nWritePos \in 0 .. Size - 1
            /\ m_nDataCount \in 0 .. CountMod - 1
        BY DEF IInv, TypeOK, Cells
      <3>. QED
        BY <3>1, <3>2, SizesAssumption DEF CursorInv, Lag, CountWrapped
    <2>2. CASE q # r
      BY <1>1, <1>4, <2>2 DEF FirstGet, ringVars, IInv, TypeOK
    <2>. QED
      BY <2>1, <2>2
  <1>5. ASSUME NEW q \in Readers, EmptyGet(q) PROVE CursorInv(r)'
    <2>1. CASE q = r
      <3>1. Attached(r) /\ CursorInv(r)
        BY <1>5 DEF EmptyGet, ringVars, Attached, IInv
      <3>2. /\ m_map_data_id'[r] = m_map_data_id[r] /\ next'[r] = next[r]
            /\ seen'[r] = total /\ total' = total
            /\ m_nWritePos' = m_nWritePos /\ m_nDataCount' = m_nDataCount
            /\ m_map_data_id[r].nDataCount = m_nDataCount
            /\ m_map_data_id[r].nReadPos = m_nWritePos
        BY <1>5, <2>1 DEF EmptyGet, ringVars, IInv, TypeOK, NothingNew
      <3>3. /\ total \in Nat /\ m_nWritePos \in 0 .. Size - 1
            /\ m_nDataCount \in 0 .. CountMod - 1
            /\ next[r] \in Nat /\ seen[r] \in Nat
        BY DEF IInv, TypeOK, Cells
      <3>4. total - next[r] <= Size => total - next[r] = 0
        <4>. SUFFICES ASSUME total - next[r] <= Size, total - next[r] # 0
                      PROVE  FALSE
          OBVIOUS
        <4>1. /\ seen[r] - next[r] < Size /\ next[r] <= seen[r] /\ seen[r] <= total
              /\ \/ m_nWritePos = m_nWritePos - (total - next[r])
                 \/ m_nWritePos = m_nWritePos - (total - next[r]) + Size
              /\ total - seen[r] < CountMod =>
                    m_nDataCount = CountWrapped(m_nDataCount + (total - seen[r]))
          BY <3>1, <3>2 DEF CursorInv, Lag
        <4>2. total - next[r] = Size
          BY <3>3, <4>1, SizesAssumption
        <4>. QED
          BY <3>3, <4>1, <4>2, SizesAssumption DEF CountWrapped
      <3>5. next[r] <= total
        BY <3>1, <3>3 DEF CursorInv
      <3>. QED
        BY <3>2, <3>3, <3>4, <3>5, SizesAssumption DEF CursorInv, Lag, CountWrapped
    <2>2. CASE q # r
      BY <1>1, <1>5, <2>2 DEF EmptyGet, ringVars, IInv, TypeOK
    <2>. QED
      BY <2>1, <2>2
  <1>6. ASSUME NEW q \in Readers, Get(q) PROVE CursorInv(r)'
    <2>1. CASE q = r
      <3>1. Attached(r)
        BY <1>6, <2>1 DEF Get, ringVars, Attached
      <3>. QED
        BY <1>6, <2>1, <3>1, GetCursor
    <2>2. CASE q # r
      BY <1>1, <1>6, <2>2 DEF Get, ringVars, IInv, TypeOK
    <2>. QED
      BY <2>1, <2>2
  <1>7. CASE Remove
    BY <1>1, <1>7 DEF Remove, readerVars
  <1>8. ASSUME NEW q \in Readers, SendRest(q) PROVE CursorInv(r)'
    BY <1>1, <1>8 DEF SendRest, ringVars
  <1>9. CASE UNCHANGED vars
    BY <1>1, <1>9 DEF vars, ringVars, readerVars
  <1>. QED
    BY <1>2, <1>3, <1>4, <1>5, <1>6, <1>7, <1>8, <1>9 DEF Next

-----------------------------------------------------------------------------
(* The send buffers and what the readers are handed.                       *)

(* A reader that may fetch has nothing left to send.                       *)
LEMMA MayFetchEmpty ==
    ASSUME TypeOK, NEW r \in Readers, BufferInv(r), MayFetch(r)
    PROVE  m_data[r] = << >>
  <1>1. m_data[r] \in Seq(Int)
    BY DEF TypeOK
  <1>. QED
    BY <1>1, SizesAssumption DEF BufferInv, MayFetch

(* A send buffer stays empty or keeps a packet.                            *)
LEMMA BufferStep ==
    ASSUME IInv, [Next]_vars, NEW r \in Readers
    PROVE  BufferInv(r)'
  <1>1. BufferInv(r)
    BY DEF IInv
  <1>2. ASSUME m_data'[r] = m_data[r] \/ m_data'[r] = << >>
        PROVE  BufferInv(r)'
    BY <1>1, <1>2 DEF BufferInv
  <1>3. ASSUME NEW q \in Readers, FirstGet(q) PROVE BufferInv(r)'
    <2>1. Header \in Seq(Int) /\ (Header = << >> \/ Len(Header) = Aligned)
      BY HeaderType DEF IInv
    <2>2. /\ m_data'[q] = Header \/ m_data'[q] = << >>
          /\ q # r => m_data'[r] = m_data[r]
      BY <1>3, <2>1, SendType DEF FirstGet, IInv
    <2>. QED
      BY <1>2, <2>1, <2>2, SizesAssumption DEF BufferInv
  <1>4. ASSUME NEW q \in Readers, Get(q) PROVE BufferInv(r)'
    <2>1. /\ Copied(q) \in Seq(Int)
          /\ Len(Copied(q)) = CopyLen(q)
          /\ CopyLen(q) = 0 \/ CopyLen(q) >= Aligned
      BY CopiedType, CopyLenBounds DEF IInv
    <2>2. Copied(q) = << >> \/ Len(Copied(q)) >= Aligned
      BY <2>1
    <2>3. /\ m_data'[q] = Copied(q) \/ m_data'[q] = << >>
          /\ q # r => m_data'[r] = m_data[r]
      BY <1>4, <2>1, SendType DEF Get, IInv
    <2>. QED
      BY <1>2, <2>2, <2>3 DEF BufferInv
  <1>5. ASSUME NEW q \in Readers, SendRest(q) PROVE BufferInv(r)'
    <2>1. m_data[q] \in Seq(Int) /\ m_data_pos[q] \in Nat
      BY DEF IInv, TypeOK
    <2>. QED
      BY <1>2, <1>5, <2>1, SendType DEF SendRest, IInv
  <1>6. ASSUME NEW q \in Readers, EmptyGet(q) PROVE BufferInv(r)'
    BY <1>2, <1>6 DEF EmptyGet, IInv, TypeOK
  <1>7. CASE UNCHANGED m_data
    BY <1>2, <1>7
  <1>. QED
    BY <1>3, <1>4, <1>5, <1>6, <1>7
       DEF Next, Add, Remove, Put, readerVars, vars

(* One reader's part of HandedIsRunOfLog.                                  *)
HandedInv(r) ==
    ~IsHeader(r) =>
        /\ Len(handed[r]) <= next[r] /\ next[r] <= total
        /\ handed[r] = Run(next[r] - Len(handed[r]), Len(handed[r]))

(* What a get hands out lies in the ring.                                  *)
LEMMA HandedStep ==
    ASSUME IInv, TypeOK', [Next]_vars, NEW r \in Readers, Attached(r)'
    PROVE  HandedInv(r)'
  <1>1. ASSUME Attached(r), handed'[r] = handed[r], next'[r] = next[r], total' >= total
        PROVE  HandedInv(r)'
    <2>1. HandedInv(r)
      BY <1>1 DEF IInv, HandedIsRunOfLog, HandedInv
    <2>2. total \in Nat /\ total' \in Nat /\ next[r] \in Nat
      BY DEF IInv, TypeOK
    <2>. QED
      BY <1>1, <2>1, <2>2 DEF HandedInv, IsHeader
  <1>2. CASE Add
    BY <1>2 DEF Add, readerVars, Attached, IInv, TypeOK
  <1>3. ASSUME NEW len \in 1 .. MaxPut, Put(len) PROVE HandedInv(r)'
    BY <1>1, <1>3, SizesAssumption DEF Put, readerVars, Attached, IInv, TypeOK
  <1>4. ASSUME NEW q \in Readers, FirstGet(q) PROVE HandedInv(r)'
    <2>1. CASE q = r
      <3>1. handed'[r] = Header /\ next'[r] = total /\ total' = total
        BY <1>4, <2>1 DEF FirstGet, ringVars, IInv, TypeOK
      <3>2. Header = << >> \/ (Len(Header) = Aligned /\ Header[1] < NoData)
        BY HeaderType DEF IInv
      <3>3. CASE Header = << >>
        BY <3>1, <3>3 DEF HandedInv, Run, IInv, TypeOK
      <3>4. CASE Len(Header) = Aligned /\ Header[1] < NoData
        <4>1. Header # << >>
          BY <3>4, SizesAssumption
        <4>. QED
          BY <3>1, <3>4, <4>1 DEF HandedInv, IsHeader
      <3>. QED
        BY <3>2, <3>3, <3>4
    <2>2. CASE q # r
      BY <1>1, <1>4, <2>2 DEF FirstGet, ringVars, Attached, IInv, TypeOK
    <2>. QED
      BY <2>1, <2>2
  <1>5. ASSUME NEW q \in Readers, Get(q) PROVE HandedInv(r)'
    <2>1. CASE q = r
      <3>1. Attached(r) /\ ~NothingNew(r)
        BY <1>5, <2>1 DEF Get, ringVars, Attached
      <3>2. /\ total - Ready(r) >= next[r]
            /\ total - next[r] <= Size => total - Ready(r) = next[r]
            /\ Copied(r) = Run(total - Ready(r), CopyLen(r))
        BY <3>1, CopiedIsRun DEF Lag
      <3>3. /\ Ready(r) \in 1 .. Size /\ CopyLen(r) \in 0 .. Ready(r)
            /\ Len(Copied(r)) = CopyLen(r)
            /\ total \in Nat /\ next[r] \in Nat
        BY CopyLenBounds, CopiedType DEF IInv, TypeOK
      <3>4. handed'[r] = Copied(r) /\ next'[r] = Owed(r) + CopyLen(r) /\ total' = total
        BY <1>5, <2>1 DEF Get, ringVars, IInv, TypeOK
      <3>5. CASE CopyLen(r) = 0
        <4>1. next'[r] = next[r] /\ Len(handed'[r]) = 0
          BY <3>3, <3>4, <3>5 DEF Owed
        <4>2. \A k \in Int : Run(k, 0) = << >>
          BY DEF Run
        <4>3. handed'[r] = << >>
          BY <3>2, <3>3, <3>4, <3>5, <4>2, SizesAssumption
        <4>4. next[r] <= total
          BY <3>2, <3>3, SizesAssumption
        <4>. QED
          BY <3>3, <3>4, <4>1, <4>2, <4>3, <4>4 DEF HandedInv
      <3>6. CASE CopyLen(r) # 0
        <4>1. next'[r] = total - Ready(r) + CopyLen(r)
          BY <3>2, <3>3, <3>4, <3>6 DEF Owed
        <4>2. next'[r] - Len(handed'[r]) = total - Ready(r)
          BY <3>3, <3>4, <4>1, SizesAssumption
        <4>3. Len(handed'[r]) <= next'[r] /\ next'[r] <= total'
          BY <3>2, <3>3, <3>4, <4>1, SizesAssumption
        <4>. QED
          BY <3>2, <3>3, <3>4, <4>2, <4>3 DEF HandedInv, Run
      <3>. QED
        BY <3>5, <3>6
    <2>2. CASE q # r
      <3>1. /\ m_map_data_id'[r] = m_map_data_id[r] /\ cursorGen'[r] = cursorGen[r]
            /\ handed'[r] = handed[r] /\ next'[r] = next[r]
            /\ gen' = gen /\ total' = total
        BY <1>5, <2>2 DEF Get, ringVars, IInv, TypeOK
      <3>2. Attached(r)
        BY <3>1 DEF Attached
      <3>3. total \in Int
        BY DEF IInv, TypeOK
      <3>. QED
        BY <1>1, <3>1, <3>2, <3>3
    <2>. QED
      BY <2>1, <2>2
  <1>6. ASSUME NEW q \in Readers, EmptyGet(q) PROVE HandedInv(r)'
    BY <1>1, <1>6 DEF EmptyGet, ringVars, Attached, IInv, TypeOK
  <1>7. ASSUME NEW q \in Readers, SendRest(q) PROVE HandedInv(r)'
    BY <1>1, <1>7 DEF SendRest, ringVars, Attached, IInv, TypeOK
  <1>8. CASE Remove \/ UNCHANGED vars
    BY <1>1, <1>8 DEF Remove, vars, ringVars, readerVars, Attached, IInv, TypeOK
  <1>. QED
    BY <1>2, <1>3, <1>4, <1>5, <1>6, <1>7, <1>8 DEF Next

-----------------------------------------------------------------------------
(* The theorems.                                                           *)

(* The invariant holds at first.                                           *)
LEMMA InitIInv == Init => IInv
  <1>. SUFFICES ASSUME Init PROVE IInv
    OBVIOUS
  <1>1. TypeOK
    BY InitType
  <1>2. RingHoldsNewest
    BY SizesAssumption DEF Init, RingHoldsNewest, Cells
  <1>3. \A r \in Readers : ~Attached(r) /\ BufferInv(r)
    BY DEF Init, Attached, BufferInv
  <1>. QED
    BY <1>1, <1>2, <1>3 DEF IInv, HandedIsRunOfLog

(* Every step keeps it.                                                    *)
LEMMA NextIInv == IInv /\ [Next]_vars => IInv'
  <1>. SUFFICES ASSUME IInv, [Next]_vars PROVE IInv'
    OBVIOUS
  <1>1. TypeOK'
    BY NextType DEF IInv
  <1>2. RingHoldsNewest'
    BY RingStep DEF IInv
  <1>3. \A r \in Readers : Attached(r)' => CursorInv(r)'
    BY <1>1, CursorStep
  <1>4. \A r \in Readers : BufferInv(r)'
    BY BufferStep
  <1>5. \A r \in Readers : Attached(r)' => HandedInv(r)'
    BY <1>1, HandedStep
  <1>6. HandedIsRunOfLog'
    BY <1>5 DEF HandedIsRunOfLog, HandedInv
  <1>. QED
    BY <1>1, <1>2, <1>3, <1>4, <1>6 DEF IInv

(* In every reachable state the memory holds the newest bytes of the log,  *)
(* and cursors and buffers are where they should be                        *)
(* (CSLSRecycleArray::put, CSLSRecycleArray::get).                         *)
THEOREM Inductive == Spec => []IInv
  BY InitIInv, NextIInv, PTL DEF Spec

(* Every reader with a cursor into the current ring is handed a gapless,   *)
(* untorn run of the log: for every ring size, put size and schedule.      *)
THEOREM HandedCorrect == Spec => []HandedIsRunOfLog
  <1>1. IInv => HandedIsRunOfLog
    BY DEF IInv
  <1>. QED
    BY <1>1, Inductive, PTL

(* get never reports "no new data" to a reader that has not been lapped    *)
(* and still has bytes to come.                                            *)
THEOREM NothingNewCorrect == Spec => []NothingNewIsTrue
  <1>1. IInv => NothingNewIsTrue
    <2>. SUFFICES ASSUME IInv, NEW r \in Readers, Attached(r), Lag(r) <= Size, NothingNew(r)
                  PROVE  Lag(r) = 0
      BY DEF NothingNewIsTrue
    <2>1. /\ seen[r] - next[r] < Size /\ next[r] <= seen[r] /\ seen[r] <= total
          /\ \/ m_nWritePos = m_nWritePos - (total - next[r])
             \/ m_nWritePos = m_nWritePos - (total - next[r]) + Size
          /\ total - seen[r] < CountMod =>
                m_nDataCount = CountWrapped(m_nDataCount + (total - seen[r]))
      BY DEF IInv, CursorInv, Lag, NothingNew
    <2>2. /\ total \in Nat /\ m_nWritePos \in 0 .. Size - 1
          /\ m_nDataCount \in 0 .. CountMod - 1
          /\ next[r] \in Nat /\ seen[r] \in Nat
      BY DEF IInv, TypeOK, Cells
    <2>3. total - next[r] = 0 \/ total - next[r] = Size
      BY <2>1, <2>2, SizesAssumption
    <2>4. ASSUME total - next[r] = Size PROVE FALSE
      BY <2>1, <2>2, <2>4, SizesAssumption DEF CountWrapped
    <2>. QED
      BY <2>3, <2>4 DEF Lag
  <1>. QED
    BY <1>1, Inductive, PTL

(* A fetch never overwrites packets that are still to be sent.             *)
THEOREM NoFetchOverUnsentCorrect == Spec => NoFetchOverUnsent
  <1>1. IInv /\ [Next]_vars =>
            [\A r \in Readers : handed'[r] # handed[r] => m_data[r] = << >>]_vars
    <2>. SUFFICES ASSUME IInv, [Next]_vars, NEW r \in Readers, handed'[r] # handed[r]
                  PROVE  m_data[r] = << >>
      OBVIOUS
    <2>1. handed \in [Readers -> Seq(Int)]
      BY DEF IInv, TypeOK
    <2>2. MayFetch(r)
      BY <2>1 DEF Next, Add, Remove, Put, FirstGet, EmptyGet, Get, SendRest,
                  readerVars, ringVars, vars
    <2>. QED
      BY <2>2, MayFetchEmpty DEF IInv
  <1>. QED
    BY <1>1, Inductive, PTL DEF Spec, NoFetchOverUnsent

(* A player that stays over a change of the publisher gets a run of the    *)
(* new stream from any position the new publisher has written.             *)
THEOREM StaleGetsNewStreamCorrect == Spec => StaleGetsNewStream
  <1>1. IInv /\ [Next]_vars =>
            [\A r \in Readers : Stale(r) /\ Ready(r) <= total /\ handed'[r] # handed[r] =>
                handed'[r] = Run(total - Ready(r), Len(handed'[r]))]_vars
    <2>. SUFFICES ASSUME IInv, [Next]_vars, NEW r \in Readers,
                         Stale(r), Ready(r) <= total, handed'[r] # handed[r]
                  PROVE  handed'[r] = Run(total - Ready(r), Len(handed'[r]))
      OBVIOUS
    <2>1. handed \in [Readers -> Seq(Int)]
      BY DEF IInv, TypeOK
    <2>2. Get(r)
      BY <2>1 DEF Next, Add, Remove, Put, FirstGet, EmptyGet, Get, SendRest,
                  readerVars, ringVars, vars, Stale
    <2>3. handed'[r] = Copied(r)
      BY <2>1, <2>2 DEF Get
    <2>. QED
      BY <2>3, CopiedFromRing, CopiedType DEF IInv
  <1>. QED
    BY <1>1, Inductive, PTL DEF Spec, StaleGetsNewStream

-----------------------------------------------------------------------------
(* The ring implements the broadcast log.                                  *)

(* A new ring is a new log.                                                *)
LEMMA AddMaps == ASSUME IInv, Add PROVE Abstract!Begin
  <1>1. \A r \in Readers : cursorGen[r] # gen'
    BY DEF Add, IInv, TypeOK
  <1>2. \A r \in Readers : LogPosition(r)' =
            IF LogPosition(r) = -1 THEN -1 ELSE -2
    BY <1>1 DEF LogPosition, Add, readerVars, IInv, TypeOK
  <1>3. LogPositions' = [r \in Readers |-> IF LogPositions[r] = -1 THEN -1 ELSE -2]
    BY <1>2 DEF LogPositions
  <1>. QED
    BY <1>3 DEF Add, readerVars, Abstract!Begin, Abstract!Unattached, Abstract!Lost

(* A step that readers do not see is a stutter.                            *)
LEMMA RingOnlyMaps ==
    ASSUME UNCHANGED <<gen, readerVars>>
    PROVE  UNCHANGED <<LogPositions, handed>>
  BY DEF LogPositions, LogPosition, readerVars

(* A reader's step leaves the positions of the others alone.               *)
LEMMA ReaderMaps ==
    ASSUME IInv, NEW r \in Readers, gen' = gen,
           NEW c, m_map_data_id' = [m_map_data_id EXCEPT ![r] = c],
           \A q \in Readers \ {r} : cursorGen'[q] = cursorGen[q] /\ next'[q] = next[q]
    PROVE  LogPositions' = [LogPositions EXCEPT ![r] = LogPosition(r)']
  <1>1. \A q \in Readers \ {r} : LogPosition(q)' = LogPosition(q)
    BY DEF LogPosition, IInv, TypeOK
  <1>. QED
    BY <1>1 DEF LogPositions

(* A first get joins the log.                                              *)
LEMMA FirstGetMaps ==
    ASSUME IInv, NEW r \in Readers, FirstGet(r)
    PROVE  Abstract!Attach(r)
  <1>1. LogPosition(r) = -1 /\ LogPosition(r)' = total
    BY DEF FirstGet, ringVars, LogPosition, IInv, TypeOK
  <1>2. LogPositions' = [LogPositions EXCEPT ![r] = total]
    <2>1. \A q \in Readers \ {r} : cursorGen'[q] = cursorGen[q] /\ next'[q] = next[q]
      BY DEF FirstGet, IInv, TypeOK
    <2>. QED
      BY <1>1, <2>1, ReaderMaps DEF FirstGet, ringVars
  <1>3. handed' = [handed EXCEPT ![r] = handed'[r]]
    BY DEF FirstGet, IInv, TypeOK
  <1>. QED
    BY <1>1, <1>2, <1>3
       DEF FirstGet, ringVars, LogPositions, Abstract!Attach, Abstract!Unattached

(* A get that finds data reads from it, or was too far behind.             *)
LEMMA GetMaps ==
    ASSUME IInv, NEW r \in Readers, Get(r)
    PROVE  Abstract!Deliver(r) \/ Abstract!DeliverNothing(r) \/ Abstract!Orphaned(r)
  <1>1. /\ exist /\ exist' = exist /\ total' = total /\ gen' = gen
        /\ ~m_map_data_id[r].bFirst /\ ~m_map_data_id'[r].bFirst
        /\ cursorGen' = cursorGen /\ ~NothingNew(r)
        /\ handed' = [handed EXCEPT ![r] = Copied(r)] /\ handed'[r] = Copied(r)
        /\ next'[r] = Owed(r) + CopyLen(r)
    BY DEF Get, ringVars, IInv, TypeOK, Cursor
  <1>2. LogPositions' = [LogPositions EXCEPT ![r] = LogPosition(r)']
    <2>1. \A q \in Readers \ {r} : cursorGen'[q] = cursorGen[q] /\ next'[q] = next[q]
      BY <1>1 DEF Get, IInv, TypeOK
    <2>. QED
      BY <1>1, <2>1, ReaderMaps DEF Get
  <1>3. LogPositions[r] = LogPosition(r)
    BY DEF LogPositions
  <1>4. CASE cursorGen[r] # gen
    <2>1. LogPosition(r) = -2 /\ LogPosition(r)' = -2
      BY <1>1, <1>4 DEF LogPosition
    <2>2. LogPositions' = LogPositions
      BY <1>2, <2>1 DEF LogPositions
    <2>. QED
      BY <1>1, <1>3, <2>1, <2>2 DEF Abstract!Orphaned, Abstract!Lost
  <1>5. CASE cursorGen[r] = gen
    <2>1. Attached(r) /\ LogPosition(r) = next[r] /\ LogPosition(r)' = next'[r]
      BY <1>1, <1>5 DEF Attached, LogPosition
    <2>2. /\ total - Ready(r) >= next[r]
          /\ total - next[r] <= Size => total - Ready(r) = next[r]
          /\ Copied(r) = Run(total - Ready(r), CopyLen(r))
      BY <1>1, <2>1, CopiedIsRun DEF Lag
    <2>3. /\ Ready(r) \in 1 .. Size /\ CopyLen(r) \in 0 .. Ready(r)
          /\ total \in Nat /\ next[r] \in Nat
      BY CopyLenBounds DEF IInv, TypeOK
    <2>4. CASE CopyLen(r) = 0
      <3>1. next'[r] = next[r]
        BY <1>1, <2>3, <2>4 DEF Owed
      <3>2. LogPositions' = LogPositions
        BY <1>2, <2>1, <3>1 DEF LogPositions
      <3>3. Copied(r) = << >>
        BY <2>2, <2>3, <2>4, SizesAssumption DEF Run
      <3>. QED
        BY <1>1, <1>3, <2>1, <2>3, <3>2, <3>3 DEF Abstract!DeliverNothing
    <2>5. CASE CopyLen(r) # 0
      <3>1. next'[r] = total - Ready(r) + CopyLen(r)
        BY <1>1, <2>2, <2>3, <2>5 DEF Owed
      <3>2. CopyLen(r) \in 1 .. Ready(r)
        BY <2>3, <2>5, SizesAssumption
      <3>3. handed' = [handed EXCEPT ![r] = Abstract!Segment(total - Ready(r), CopyLen(r))]
        BY <1>1, <2>2 DEF Run, Abstract!Segment
      <3>4. LogPositions' = [LogPositions EXCEPT ![r] = total - Ready(r) + CopyLen(r)]
        BY <1>2, <2>1, <3>1
      <3>5. /\ LogPositions[r] >= 0 /\ total - Ready(r) >= LogPositions[r]
            /\ total - LogPositions[r] <= Size => Ready(r) = total - LogPositions[r]
        BY <1>3, <2>1, <2>2, <2>3, SizesAssumption
      <3>. QED
        BY <1>1, <2>3, <3>2, <3>3, <3>4, <3>5 DEF Abstract!Deliver
    <2>. QED
      BY <2>4, <2>5
  <1>. QED
    BY <1>4, <1>5

(* Every step is one of the log's or a stutter.                            *)
LEMMA StepMaps == IInv /\ [Next]_vars => [Abstract!Next]_(Abstract!vars)
  <1>. SUFFICES ASSUME IInv, [Next]_vars PROVE [Abstract!Next]_(Abstract!vars)
    OBVIOUS
  <1>1. CASE Add
    BY <1>1, AddMaps DEF Abstract!Next
  <1>2. CASE Remove
    BY <1>2, RingOnlyMaps DEF Remove, Abstract!Next, Abstract!End
  <1>3. ASSUME NEW len \in 1 .. MaxPut, Put(len) PROVE Abstract!Next
    <2>1. total' > total
      BY <1>3, SizesAssumption DEF Put, IInv, TypeOK
    <2>. QED
      BY <1>3, <2>1, RingOnlyMaps DEF Put, Abstract!Next, Abstract!Publish
  <1>4. ASSUME NEW r \in Readers, FirstGet(r) PROVE Abstract!Next
    BY <1>4, FirstGetMaps DEF Abstract!Next
  <1>5. ASSUME NEW r \in Readers, Get(r) PROVE Abstract!Next
    BY <1>5, GetMaps DEF Abstract!Next
  <1>6. ASSUME NEW r \in Readers, EmptyGet(r) \/ SendRest(r)
        PROVE  UNCHANGED Abstract!vars
    BY <1>6 DEF EmptyGet, SendRest, ringVars, LogPositions, LogPosition, Abstract!vars
  <1>7. CASE UNCHANGED vars
    BY <1>7, RingOnlyMaps DEF vars, ringVars, readerVars, Abstract!vars
  <1>. QED
    BY <1>1, <1>2, <1>3, <1>4, <1>5, <1>6, <1>7 DEF Next

(* Whatever the sizes and the schedule, ring, cursors and send buffers     *)
(* together behave as the log each player is promised.                     *)
THEOREM ImplementsLogCorrect == Spec => ImplementsLog
  <1>1. Init => Abstract!Init
    BY DEF Init, LogPositions, LogPosition, Abstract!Init, Abstract!Unattached
  <1>. QED
    BY <1>1, StepMaps, Inductive, PTL DEF Spec, ImplementsLog, Abstract!Spec
=============================================================================
