--------------------------- MODULE SLSArrayProofs ----------------------------
(* Proofs about SLSArray: for every initial size of the buffer, and any    *)
(* lengths and number of puts and gets.                                    *)
EXTENDS SLSArray, SequenceTheorems, TLAPS

(* A position some way on round a buffer of N bytes, and the way back to   *)
(* w.                                                                      *)
Around(pos, n, N) == (pos + n) % N
Back(c, w, N)     == (c - w) % N

(* Going on by no more than a round is one subtraction at most.            *)
LEMMA AroundIs ==
    ASSUME NEW N \in Nat \ {0}, NEW pos \in 0 .. N - 1, NEW n \in 0 .. N
    PROVE  Around(pos, n, N) = IF pos + n < N THEN pos + n ELSE pos + n - N
  <1>1. CASE pos + n < N
    BY <1>1 DEF Around
  <1>2. CASE pos + n >= N
    <2>1. pos + n - N \in 0 .. N - 1 /\ pos + n = (pos + n - N) + N * 1
      BY <1>2
    <2>. QED  BY <1>2, <2>1 DEF Around
  <1>. QED  BY <1>1, <1>2

(* And so is going back.                                                   *)
LEMMA BackIs ==
    ASSUME NEW N \in Nat \ {0}, NEW c \in 0 .. N - 1, NEW w \in 0 .. N - 1
    PROVE  Back(c, w, N) \in Nat /\ Back(c, w, N) = IF c >= w THEN c - w ELSE c - w + N
  <1>1. CASE c >= w
    BY <1>1 DEF Back
  <1>2. CASE c < w
    BY <1>2 DEF Back
  <1>. QED  BY <1>1, <1>2

(* One never leaves the round.                                             *)
LEMMA AroundType ==
    ASSUME NEW N \in Nat \ {0}, NEW pos \in 0 .. N - 1, NEW n \in Int
    PROVE  Around(pos, n, N) \in 0 .. N - 1
  BY DEF Around

(* Going on in two parts is going on once.                                 *)
LEMMA AroundTwice ==
    ASSUME NEW N \in Nat \ {0}, NEW pos \in 0 .. N - 1,
           NEW a \in 0 .. N, NEW b \in 0 .. N, NEW sum \in 0 .. N, sum = a + b
    PROVE  Around(Around(pos, a, N), b, N) = Around(pos, sum, N)
  <1>. DEFINE q == Around(pos, a, N)
  <1>1. q \in 0 .. N - 1 /\ q = IF pos + a < N THEN pos + a ELSE pos + a - N
    BY AroundIs, AroundType
  <1>. HIDE DEF q
  <1>2. Around(q, b, N) = IF q + b < N THEN q + b ELSE q + b - N
    BY <1>1, AroundIs
  <1>3. Around(pos, sum, N) = IF pos + sum < N THEN pos + sum ELSE pos + sum - N
    BY AroundIs
  <1>4. Around(q, b, N) = Around(pos, sum, N)
    BY <1>1, <1>2, <1>3
  <1>. QED  BY <1>4 DEF q

(* Which of the len cells from the write position on a cell is, n bytes    *)
(* being before it.                                                        *)
LEMMA CellOf ==
    ASSUME NEW N \in Nat \ {0}, NEW pos \in 0 .. N - 1, NEW n \in 0 .. N, NEW len \in Nat, n + len <= N,
           NEW j \in 0 .. N - 1, j < n + len
    PROVE  LET c == Around(pos, j, N)
               w == Around(pos, n, N) IN
           /\ c \in 0 .. N - 1 /\ w \in 0 .. N - 1
           /\ Back(c, w, N) \in Nat
           /\ j < n => ~(Back(c, w, N) < len)
           /\ j >= n => Back(c, w, N) = j - n
  <1>. DEFINE c == Around(pos, j, N)
              w == Around(pos, n, N)
  <1>1. /\ c \in 0 .. N - 1 /\ c = IF pos + j < N THEN pos + j ELSE pos + j - N
        /\ w \in 0 .. N - 1 /\ w = IF pos + n < N THEN pos + n ELSE pos + n - N
    <2>1. j \in 0 .. N /\ j \in Int /\ n \in Int
      OBVIOUS
    <2>2. c = IF pos + j < N THEN pos + j ELSE pos + j - N
      BY <2>1, AroundIs
    <2>3. w = IF pos + n < N THEN pos + n ELSE pos + n - N
      BY AroundIs
    <2>4. c \in 0 .. N - 1 /\ w \in 0 .. N - 1
      BY <2>1, AroundType
    <2>. QED  BY <2>2, <2>3, <2>4
  <1>. HIDE DEF c, w
  <1>2. Back(c, w, N) = IF c >= w THEN c - w ELSE c - w + N
    BY <1>1, BackIs
  <1>3. CASE j < n
    BY <1>1, <1>2, <1>3 DEF c, w
  <1>4. CASE j >= n
    BY <1>1, <1>2, <1>4 DEF c, w
  <1>. QED  BY <1>3, <1>4

ArrayType ==
    /\ m_nDataSize \in Nat \ {0}
    /\ m_arrayData \in [0 .. m_nDataSize - 1 -> Nat]
    /\ m_nDataCount \in Int
    /\ m_nWritePos \in 0 .. m_nDataSize - 1
    /\ m_nReadPos \in 0 .. m_nDataSize - 1
    /\ put \in Nat
    /\ queue \in Seq(Nat) /\ got \in Seq(Nat) /\ due \in Seq(Nat)
    /\ expanded \in BOOLEAN

(* The count says where the write position is, and how much of the queue   *)
(* is in the buffer.                                                       *)
Fifo ==
    ~expanded =>
        /\ got = due
        /\ m_nDataCount = Len(queue)
        /\ m_nDataCount <= m_nDataSize
        /\ m_nWritePos = After(m_nReadPos, m_nDataCount)
        /\ \A i \in 1 .. m_nDataCount : m_arrayData[After(m_nReadPos, i - 1)] = queue[i]

IInv == ArrayType /\ Fifo

(* FromRead is as many bytes as it is asked for, from the read position    *)
(* on, around the end.                                                     *)
LEMMA FromReadType ==
    ASSUME ArrayType, NEW n \in Int
    PROVE  /\ FromRead(n) \in Seq(Nat)
           /\ Len(FromRead(n)) = IF n >= 0 THEN n ELSE 0
           /\ \A i \in 1 .. n : FromRead(n)[i] = m_arrayData[After(m_nReadPos, i - 1)]
  <1>1. \A i \in 1 .. n : m_arrayData[After(m_nReadPos, i - 1)] \in Nat
    <2>1. \A i \in 1 .. n : After(m_nReadPos, i - 1) \in 0 .. m_nDataSize - 1
      BY AroundType DEF ArrayType, After, Around
    <2>. QED  BY <2>1 DEF ArrayType
  <1>2. CASE n >= 0
    BY <1>1, <1>2 DEF FromRead
  <1>3. CASE n < 0
    <2>1. 1 .. n = 1 .. 0
      BY <1>3
    <2>2. FromRead(n) = FromRead(0)
      BY <2>1 DEF FromRead
    <2>3. FromRead(0) \in Seq(Nat) /\ Len(FromRead(0)) = 0
      BY <1>1 DEF FromRead
    <2>. QED  BY <1>3, <2>1, <2>2, <2>3
  <1>. QED  BY <1>2, <1>3

(* What is ready is a number.                                              *)
LEMMA ReadyType ==
    ASSUME ArrayType
    PROVE  Ready \in Nat
  BY DEF ArrayType, Ready

(* The bytes of a put, in order.                                           *)
LEMMA BytesType ==
    ASSUME put \in Nat, NEW len \in Nat
    PROVE  Bytes(len) \in Seq(Nat) /\ Len(Bytes(len)) = len /\ \A i \in 1 .. len : Bytes(len)[i] = put + i
  BY DEF Bytes

(* Before an expansion get_inline finds all there is.                      *)
LEMMA ReadyIsCount ==
    ASSUME IInv, ~expanded
    PROVE  Ready = m_nDataCount /\ m_nDataCount \in 0 .. m_nDataSize
  <1>. DEFINE N == m_nDataSize  R == m_nReadPos  W == m_nWritePos  n == m_nDataCount
  <1>1. N \in Nat \ {0} /\ R \in 0 .. N - 1 /\ n \in 0 .. N /\ W = Around(R, n, N)
    BY DEF IInv, ArrayType, Fifo, After, Around
  <1>2. W = IF R + n < N THEN R + n ELSE R + n - N
    BY <1>1, AroundIs
  <1>. QED  BY <1>1, <1>2 DEF Ready

-----------------------------------------------------------------------------
(* The steps.                                                              *)

(* An array as it is made is an empty queue.                               *)
LEMMA InitInv == Init => IInv
  <1>. SUFFICES ASSUME Init PROVE IInv
    OBVIOUS
  <1>1. ArrayType
    BY ArrayAssumption, EmptySeq DEF Init, ArrayType, NewBuffer, Unwritten
  <1>2. Fifo
    BY ArrayAssumption DEF Init, Fifo, After, Around
  <1>. QED  BY <1>1, <1>2 DEF IInv

(* A put that fits leaves the bytes before the write position alone.       *)
LEMMA PutInv ==
    ASSUME IInv, NEW len \in 1 .. MaxLen, Put(len),
           put' = put + len, queue' = queue \o Bytes(len), UNCHANGED <<got, due>>
    PROVE  IInv'
  <1>. DEFINE N == m_nDataSize  R == m_nReadPos  W == m_nWritePos  n == m_nDataCount
  <1>1. /\ ArrayType /\ Fifo /\ len \in Nat /\ len \in Int /\ n + len <= N
        /\ N \in Nat \ {0} /\ R \in 0 .. N - 1 /\ W \in 0 .. N - 1 /\ n \in Int /\ put \in Nat
    BY ArrayAssumption DEF IInv, ArrayType, Put
  <1>2. Bytes(len) \in Seq(Nat) /\ Len(Bytes(len)) = len /\ \A i \in 1 .. len : Bytes(len)[i] = put + i
    BY <1>1, BytesType
  <1>3. queue \in Seq(Nat) /\ Len(queue) \in Nat
    BY <1>1 DEF ArrayType
  <1>4. /\ queue' \in Seq(Nat) /\ Len(queue') = Len(queue) + len
        /\ \A i \in 1 .. Len(queue) : queue'[i] = queue[i]
        /\ \A i \in 1 .. len : queue'[Len(queue) + i] = put + i
    <2>. DEFINE q == queue
                b == Bytes(len)
    <2>1. /\ q \o b \in Seq(Nat) /\ Len(q \o b) = Len(q) + Len(b)
          /\ \A i \in 1 .. Len(q) + Len(b) : (q \o b)[i] = IF i <= Len(q) THEN q[i] ELSE b[i - Len(q)]
      BY <1>2, <1>3, ConcatProperties
    <2>. HIDE DEF b
    <2>2. ASSUME NEW i \in 1 .. Len(q)
          PROVE  (q \o b)[i] = q[i]
      BY <1>1, <1>2, <1>3, <2>1 DEF b
    <2>3. ASSUME NEW i \in 1 .. len
          PROVE  (q \o b)[Len(q) + i] = put + i
      <3>1. /\ Len(q) + i \in 1 .. Len(q) + Len(b) /\ ~(Len(q) + i <= Len(q))
            /\ (Len(q) + i) - Len(q) = i
        BY <1>1, <1>2, <1>3 DEF b
      <3>2. (q \o b)[Len(q) + i] = b[(Len(q) + i) - Len(q)]
        BY <2>1, <3>1
      <3>. QED  BY <1>2, <3>1, <3>2 DEF b
    <2>4. queue' = q \o b
      BY DEF b
    <2>. QED  BY <1>2, <2>1, <2>2, <2>3, <2>4 DEF b
  <1>5. /\ N' = N /\ R' = R /\ expanded' = expanded /\ n' = n + len /\ W' = Around(W, len, N)
        /\ m_arrayData' = [c \in 0 .. N - 1 |->
               IF Back(c, W, N) < len THEN put + Back(c, W, N) + 1 ELSE m_arrayData[c]]
    BY <1>1 DEF Put, After, Around, Back, ArrayType
  <1>6. ArrayType'
    <2>1. W' \in 0 .. N - 1
      BY <1>1, <1>5, AroundType
    <2>2. m_arrayData' \in [0 .. N - 1 -> Nat]
      <3>1. \A c \in 0 .. N - 1 : Back(c, W, N) \in Nat
        BY <1>1, BackIs
      <3>2. \A c \in 0 .. N - 1 : m_arrayData[c] \in Nat
        BY <1>1 DEF ArrayType
      <3>. QED  BY <1>1, <1>5, <3>1, <3>2
    <2>. QED  BY <1>1, <1>4, <1>5, <2>1, <2>2 DEF ArrayType
  <1>7. ASSUME ~expanded PROVE Fifo'
    <2>1. /\ n = Len(queue) /\ n \in 0 .. N /\ len \in 0 .. N /\ W = Around(R, n, N) /\ got = due
          /\ \A i \in 1 .. n : m_arrayData[Around(R, i - 1, N)] = queue[i]
      BY <1>1, <1>3, <1>7 DEF Fifo, After, Around
    <2>2. W' = Around(R, n', N)
      <3>1. n' \in 0 .. N /\ n' = n + len
        BY <1>1, <1>5, <2>1
      <3>2. Around(Around(R, n, N), len, N) = Around(R, n', N)
        <4>1. N \in Nat \ {0} /\ R \in 0 .. N - 1 /\ n \in 0 .. N /\ len \in 0 .. N
          BY <1>1, <2>1
        <4>. QED  BY <3>1, <4>1, AroundTwice
      <3>. QED  BY <1>5, <2>1, <3>2
    <2>3. ASSUME NEW j \in 0 .. N - 1, j < n + len
          PROVE  m_arrayData'[Around(R, j, N)] = queue'[j + 1]
      <3>. DEFINE c == Around(R, j, N)
      <3>1. /\ c \in 0 .. N - 1 /\ Back(c, W, N) \in Nat
            /\ j < n => ~(Back(c, W, N) < len)
            /\ j >= n => Back(c, W, N) = j - n
        <4>1. /\ N \in Nat \ {0} /\ R \in 0 .. N - 1 /\ n \in 0 .. N /\ len \in Nat /\ n + len <= N
              /\ j \in 0 .. N - 1 /\ j < n + len
          BY <1>1, <2>1, <2>3
        <4>2. W = Around(R, n, N)
          BY <2>1
        <4>3. LET w == Around(R, n, N) IN
              /\ c \in 0 .. N - 1 /\ Back(c, w, N) \in Nat
              /\ j < n => ~(Back(c, w, N) < len)
              /\ j >= n => Back(c, w, N) = j - n
          BY <4>1, CellOf
        <4>. QED  BY <4>2, <4>3
      <3>2. CASE j < n
        <4>1. j + 1 \in 1 .. n /\ (j + 1) - 1 = j
          BY <1>1, <3>2
        <4>2. m_arrayData'[c] = m_arrayData[c]
          BY <1>5, <3>1, <3>2
        <4>3. m_arrayData[c] = queue[j + 1]
          BY <2>1, <4>1
        <4>. QED  BY <1>4, <2>1, <4>1, <4>2, <4>3
      <3>3. CASE j >= n
        <4>1. (j - n) + 1 \in 1 .. len /\ n + ((j - n) + 1) = j + 1 /\ j - n < len /\ j - n \in Nat
          BY <1>1, <2>1, <2>3, <3>3
        <4>2. m_arrayData'[c] = put + (j - n) + 1
          BY <1>5, <3>1, <3>3, <4>1
        <4>3. queue'[j + 1] = put + ((j - n) + 1)
          BY <1>4, <2>1, <4>1
        <4>4. put + ((j - n) + 1) = put + (j - n) + 1
          BY <1>1, <2>1
        <4>5. m_arrayData'[c] = queue'[j + 1]
          BY <4>2, <4>3, <4>4
        <4>. QED  BY <4>5
      <3>4. j < n \/ j >= n
        BY <1>1
      <3>. QED  BY <3>2, <3>3, <3>4
    <2>4. ASSUME NEW i \in 1 .. n'
          PROVE  m_arrayData'[Around(R', i - 1, N')] = queue'[i]
      <3>1. i - 1 \in 0 .. N - 1 /\ i - 1 < n + len /\ (i - 1) + 1 = i
        BY <1>1, <1>5
      <3>. QED  BY <1>5, <2>3, <3>1
    <2>5. n' = Len(queue') /\ n' <= N'
      BY <1>1, <1>4, <1>5, <2>1
    <2>6. W' = Around(R', n', N') /\ got' = due'
      BY <1>5, <2>1, <2>2
    <2>. QED  BY <2>4, <2>5, <2>6 DEF Fifo, After, Around
  <1>8. Fifo'
    BY <1>5, <1>7 DEF Fifo
  <1>. QED  BY <1>6, <1>8 DEF IInv

(* A put that expands leaves the queue to the next clear.                  *)
LEMMA ExpandInv ==
    ASSUME IInv, NEW len \in 1 .. MaxLen, Expand(len),
           put' = put + len, queue' = queue \o Bytes(len), UNCHANGED <<got, due>>
    PROVE  IInv'
  <1>. DEFINE kept == Taken(m_nDataCount)
              all == kept \o Bytes(len)
              N2 == ExpandedSize(len)
  <1>1. ArrayType /\ len \in Nat
    BY ArrayAssumption DEF IInv
  <1>2. kept \in Seq(Nat)
    <2>1. Smaller(Ready, m_nDataCount) \in Int
      BY <1>1, ReadyType DEF Smaller, ArrayType
    <2>. QED  BY <1>1, <2>1, FromReadType DEF Taken
  <1>3. Bytes(len) \in Seq(Nat)
    BY <1>1, BytesType DEF ArrayType
  <1>4. all \in Seq(Nat) /\ Len(all) \in Nat /\ queue' \in Seq(Nat)
    BY <1>1, <1>2, <1>3, ConcatProperties, LenProperties DEF ArrayType
  <1>5. N2 \in Nat \ {0}
    BY <1>1, ArrayAssumption DEF ExpandedSize, ArrayType
  <1>6. /\ m_arrayData' = [c \in 0 .. N2 - 1 |-> IF c < Len(all) THEN all[c + 1] ELSE Unwritten]
        /\ m_nDataCount' = Len(all) /\ m_nDataSize' = N2 /\ m_nWritePos' = 0 /\ m_nReadPos' = 0
        /\ expanded'
    BY DEF Expand, ExpandedWritePos
  <1>7. m_arrayData' \in [0 .. N2 - 1 -> Nat]
    <2>. HIDE DEF all, N2
    <2>1. \A c \in 0 .. N2 - 1 : c < Len(all) => all[c + 1] \in Nat
      BY <1>4, <1>5
    <2>. QED  BY <1>6, <2>1 DEF Unwritten
  <1>. HIDE DEF all, N2
  <1>8. ArrayType'
    BY <1>1, <1>4, <1>5, <1>6, <1>7 DEF ArrayType
  <1>. QED  BY <1>6, <1>8 DEF IInv, Fifo

(* A get takes the queue's first bytes.                                    *)
LEMMA GetInv ==
    ASSUME IInv, NEW size \in 1 .. MaxLen, Get(size)
    PROVE  IInv'
  <1>. DEFINE N == m_nDataSize  R == m_nReadPos  W == m_nWritePos  n == m_nDataCount
              k == Smaller(Ready, size)
              m == Smaller(size, Len(queue))
  <1>1. ArrayType /\ Fifo /\ size \in Nat \ {0} /\ Len(queue) \in Nat
    BY ArrayAssumption DEF IInv, ArrayType
  <1>2. k \in Nat /\ m \in 0 .. Len(queue)
    BY <1>1, ReadyType DEF Smaller
  <1>3. /\ got' \in Seq(Nat) /\ Len(got') = k
        /\ \A i \in 1 .. k : got'[i] = m_arrayData[After(R, i - 1)]
    BY <1>1, <1>2, FromReadType DEF Get, Taken
  <1>4. /\ R' = Around(R, k, N) /\ n' = n - k
        /\ UNCHANGED <<m_arrayData, m_nDataSize, m_nWritePos, put, expanded>>
    BY <1>3 DEF Get, After, Around
  <1>. HIDE DEF k
  <1>5. /\ due' \in Seq(Nat) /\ Len(due') = m /\ \A i \in 1 .. m : due'[i] = queue[i]
    <2>1. due' = SubSeq(queue, 1, m)
      BY DEF Get
    <2>2. \A i \in 1 .. m : queue[i] \in Nat
      BY <1>1, <1>2 DEF ArrayType
    <2>. HIDE DEF m
    <2>. QED  BY <1>1, <1>2, <2>1, <2>2, SubSeqProperties
  <1>6. /\ queue' \in Seq(Nat) /\ Len(queue') = Len(queue) - m
        /\ \A i \in 1 .. Len(queue) - m : queue'[i] = queue[m + i]
    <2>1. queue' = SubSeq(queue, m + 1, Len(queue))
      BY <1>5 DEF Get
    <2>0. \A i \in 1 .. Len(queue) : queue[i] \in Nat
      BY <1>1 DEF ArrayType
    <2>. HIDE DEF m
    <2>2. \A i \in m + 1 .. Len(queue) : queue[i] \in Nat
      BY <1>1, <1>2, <2>0
    <2>3. /\ SubSeq(queue, m + 1, Len(queue)) \in Seq(Nat)
          /\ Len(SubSeq(queue, m + 1, Len(queue))) =
                 IF m + 1 <= Len(queue) THEN Len(queue) - (m + 1) + 1 ELSE 0
          /\ \A i \in 1 .. Len(queue) - (m + 1) + 1 :
                 SubSeq(queue, m + 1, Len(queue))[i] = queue[(m + 1) + i - 1]
      BY <1>1, <1>2, <2>2, SubSeqProperties
    <2>. QED  BY <1>1, <1>2, <2>1, <2>3
  <1>. HIDE DEF m
  <1>7. ArrayType'
    <2>1. R' \in 0 .. N - 1
      BY <1>1, <1>2, <1>4, AroundType DEF ArrayType
    <2>. QED  BY <1>1, <1>2, <1>3, <1>4, <1>5, <1>6, <2>1 DEF ArrayType
  <1>8. Fifo'
    <2>1. SUFFICES ASSUME ~expanded
                   PROVE  /\ got' = due' /\ n' = Len(queue') /\ n' <= N
                          /\ W = Around(R', n', N)
                          /\ \A i \in 1 .. n' : m_arrayData[Around(R', i - 1, N)] = queue'[i]
      BY <1>4 DEF Fifo, After, Around
    <2>2. /\ N \in Nat \ {0} /\ R \in 0 .. N - 1 /\ W \in 0 .. N - 1
          /\ n = Len(queue) /\ n \in 0 .. N /\ W = Around(R, n, N)
          /\ \A i \in 1 .. n : m_arrayData[Around(R, i - 1, N)] = queue[i]
      BY <1>1, <2>1 DEF ArrayType, Fifo, After, Around
    <2>3. k = m
      BY <1>1, <2>1, <2>2, ReadyIsCount DEF k, m, Smaller, IInv
    <2>4. got' = due'
      <3>1. \A i \in 1 .. k : m_arrayData[After(R, i - 1)] = queue[i]
        BY <1>2, <2>2, <2>3 DEF After, Around
      <3>2. \A i \in 1 .. Len(got') : got'[i] = due'[i]
        BY <1>3, <1>5, <2>3, <3>1
      <3>. QED  BY <1>3, <1>5, <2>3, <3>2, SeqEqual
    <2>5. N \in Nat \ {0} /\ R \in 0 .. N - 1 /\ k \in 0 .. N /\ k \in 0 .. n /\ k \in Int /\ n \in 0 .. N
      BY <1>2, <2>2, <2>3
    <2>6. R' = Around(R, k, N) /\ R' \in 0 .. N - 1
      BY <1>4, <2>5, AroundType
    <2>7. ASSUME NEW j \in 0 .. n - k
          PROVE  Around(R', j, N) = Around(R, k + j, N)
      <3>1. j \in 0 .. N /\ k + j \in 0 .. N
        BY <2>5
      <3>. QED  BY <2>5, <2>6, <3>1, AroundTwice
    <2>8. W = Around(R', n', N)
      <3>1. n - k \in 0 .. n - k /\ k + (n - k) = n
        BY <2>5
      <3>2. Around(R', n - k, N) = Around(R, k + (n - k), N)
        BY <2>7, <3>1
      <3>. QED  BY <1>4, <2>2, <3>1, <3>2
    <2>9. ASSUME NEW i \in 1 .. n - k
          PROVE  m_arrayData[Around(R', i - 1, N)] = queue'[i]
      <3>1. Around(R', i - 1, N) = Around(R, (k + i) - 1, N)
        <4>1. i - 1 \in 0 .. n - k /\ k + (i - 1) = (k + i) - 1
          BY <2>5
        <4>. QED  BY <2>7, <4>1
      <3>2. m_arrayData[Around(R, (k + i) - 1, N)] = queue[k + i]
        BY <2>2, <2>5
      <3>. QED  BY <1>6, <2>2, <2>3, <3>1, <3>2
    <2>. QED  BY <1>4, <1>6, <2>2, <2>3, <2>4, <2>5, <2>8, <2>9
  <1>. QED  BY <1>7, <1>8 DEF IInv

(* After a clear both are empty.                                           *)
LEMMA ClearInv ==
    ASSUME IInv, Clear
    PROVE  IInv'
  <1>1. ArrayType'
    <2>1. /\ m_arrayData' = m_arrayData /\ m_nDataSize' = m_nDataSize /\ put' = put
          /\ m_nWritePos' = 0 /\ m_nReadPos' = 0 /\ m_nDataCount' = 0
          /\ queue' = << >> /\ got' = << >> /\ due' = << >>
      BY DEF Clear
    <2>2. m_nDataSize \in Nat \ {0} /\ m_arrayData \in [0 .. m_nDataSize - 1 -> Nat] /\ put \in Nat
      BY DEF IInv, ArrayType
    <2>3. << >> \in Seq(Nat)
      OBVIOUS
    <2>4. queue' \in Seq(Nat) /\ got' \in Seq(Nat) /\ due' \in Seq(Nat)
      BY <2>1, <2>3
    <2>5. m_nWritePos' \in 0 .. m_nDataSize' - 1 /\ m_nReadPos' \in 0 .. m_nDataSize' - 1
      BY <2>1, <2>2
    <2>6. m_nDataCount' \in Int
      BY <2>1
    <2>8. expanded' \in BOOLEAN
      BY DEF Clear
    <2>7. m_nDataSize' \in Nat \ {0} /\ m_arrayData' \in [0 .. m_nDataSize' - 1 -> Nat] /\ put' \in Nat
      BY <2>1, <2>2
    <2>. QED  BY <2>4, <2>5, <2>6, <2>7, <2>8 DEF ArrayType
  <1>2. Fifo'
    BY <1>1 DEF Clear, Fifo, After, Around, ArrayType
  <1>. QED  BY <1>1, <1>2 DEF IInv

(* Every step keeps the invariant.                                         *)
LEMMA NextInv == IInv /\ [Next]_vars => IInv'
  <1>. SUFFICES ASSUME IInv, [Next]_vars PROVE IInv'
    OBVIOUS
  <1>1. ASSUME NEW len \in 1 .. MaxLen, PutBytes(len) PROVE IInv'
    BY <1>1, PutInv, ExpandInv DEF PutBytes
  <1>2. CASE UNCHANGED vars
    BY <1>2 DEF vars, IInv, ArrayType, Fifo, After, Around
  <1>. QED  BY <1>1, <1>2, GetInv, ClearInv DEF Next

(* What the invariant says of the next get.                                *)
LEMMA FifoHolds ==
    ASSUME IInv
    PROVE  FifoUntilExpanded
  <1>1. SUFFICES ASSUME ~expanded
                 PROVE  got = due /\ m_nDataCount = Len(queue) /\ FromRead(m_nDataCount) = queue
    BY DEF FifoUntilExpanded
  <1>2. /\ got = due /\ m_nDataCount = Len(queue) /\ m_nDataCount \in Nat /\ queue \in Seq(Nat)
        /\ \A i \in 1 .. m_nDataCount : m_arrayData[After(m_nReadPos, i - 1)] = queue[i]
    BY <1>1 DEF IInv, Fifo, ArrayType
  <1>3. /\ FromRead(m_nDataCount) \in Seq(Nat) /\ Len(FromRead(m_nDataCount)) = m_nDataCount
        /\ \A i \in 1 .. m_nDataCount : FromRead(m_nDataCount)[i] = queue[i]
    BY <1>2, FromReadType DEF IInv
  <1>. QED  BY <1>2, <1>3, SeqEqual

(* Until it has to grow, and again from the next clear on, the array is a  *)
(* queue, whatever its size: across the end of the buffer, when full, and  *)
(* for puts and gets of any length.                                        *)
THEOREM FifoUntilExpandedCorrect == Spec => []FifoUntilExpanded
  <1>1. Spec => []IInv
    BY InitInv, NextInv, PTL DEF Spec
  <1>. QED  BY <1>1, FifoHolds, PTL
=============================================================================
