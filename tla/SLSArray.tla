------------------------------ MODULE SLSArray ------------------------------
(***************************************************************************)
(* CSLSArray (SLSArray.cc), the growable byte queue the http client keeps  *)
(* its request in.  A byte is represented by its number in the order of    *)
(* puts.  Every method locks the queue, hence is one step; clear takes no  *)
(* lock, but only the thread that owns the client calls it.                *)
(***************************************************************************)
EXTENDS Integers, Sequences

CONSTANTS
    Size,       \* DEFAULT_MAX_DATA_SIZE
    MaxLen,     \* bound: bytes in one put or get
    MaxPuts     \* bound: bytes put in all, and how far below zero the count
                \* may run, which it does after an expansion

ASSUME ArrayAssumption == Size \in Nat \ {0} /\ MaxLen \in Nat \ {0} /\ MaxPuts \in Nat

VARIABLES
    m_arrayData, m_nDataSize, m_nDataCount, m_nWritePos, m_nReadPos,
    \* history
    put,        \* bytes put so far
    queue,      \* what a queue would hold
    got,        \* what the last get returned, and what a queue would have
    due,
    expanded    \* the buffer was expanded since it was last empty by clear

vars == <<m_arrayData, m_nDataSize, m_nDataCount, m_nWritePos, m_nReadPos,
          put, queue, got, due, expanded>>

Unwritten == 0      \* bytes of "new uint8_t[]" nobody wrote

NewBuffer(n) == [c \in 0 .. n - 1 |-> Unwritten]
Bytes(len)   == [i \in 1 .. len |-> put + i]
Smaller(a, b) == IF a <= b THEN a ELSE b

After(pos, n) == (pos + n) % m_nDataSize

(* The n bytes from the read position on.                                  *)
FromRead(n) == [i \in 1 .. n |-> m_arrayData[After(m_nReadPos, i - 1)]]

(* A faulty variant, for testing the property.                             *)
WrongReady ==
    IF m_nReadPos <= m_nWritePos THEN m_nWritePos - m_nReadPos
    ELSE m_nDataSize - m_nReadPos + m_nWritePos

(* get_inline: ready_data_len, and what it hands out of at most size bytes *)
Ready ==
    IF m_nDataCount = 0 THEN 0
    ELSE IF m_nReadPos < m_nWritePos THEN m_nWritePos - m_nReadPos
    ELSE m_nDataSize - m_nReadPos + m_nWritePos
Taken(size) == FromRead(Smaller(Ready, size))

(* put into the room there is.                                             *)
Put(len) ==
    /\ len <= m_nDataSize - m_nDataCount
    /\ m_arrayData' = [c \in DOMAIN m_arrayData |->
            LET i == (c - m_nWritePos) % m_nDataSize IN
            IF i < len THEN put + i + 1 ELSE m_arrayData[c]]
    /\ m_nWritePos' = After(m_nWritePos, len)
    /\ m_nDataCount' = m_nDataCount + len
    /\ UNCHANGED <<m_nDataSize, m_nReadPos, expanded>>

(* put of more: what get_inline returns of the old bytes and the new bytes *)
(* go to the start of a larger buffer, and both positions with them.       *)
ExpandedSize(len) == m_nDataSize + (IF Size >= len THEN Size ELSE len)
ExpandedWritePos(len) == 0

Expand(len) ==
    /\ len > m_nDataSize - m_nDataCount
    /\ LET kept == Taken(m_nDataCount)
           all  == kept \o Bytes(len)
       IN
       /\ m_arrayData' = [c \in 0 .. ExpandedSize(len) - 1 |->
                IF c < Len(all) THEN all[c + 1] ELSE Unwritten]
       /\ m_nDataCount' = Len(all)
    /\ m_nDataSize' = ExpandedSize(len)
    /\ m_nWritePos' = ExpandedWritePos(len)
    /\ m_nReadPos' = 0
    /\ expanded' = TRUE

PutBytes(len) ==
    /\ put + len <= MaxPuts
    /\ Put(len) \/ Expand(len)
    /\ put' = put + len
    /\ queue' = queue \o Bytes(len)
    /\ UNCHANGED <<got, due>>

Get(size) ==
    /\ m_nDataCount >= -MaxPuts
    /\ got' = Taken(size)
    /\ m_nReadPos' = After(m_nReadPos, Len(got'))
    /\ m_nDataCount' = m_nDataCount - Len(got')
    /\ due' = SubSeq(queue, 1, Smaller(size, Len(queue)))
    /\ queue' = SubSeq(queue, Len(due') + 1, Len(queue))
    /\ UNCHANGED <<m_arrayData, m_nDataSize, m_nWritePos, put, expanded>>

Clear ==
    /\ m_nWritePos' = 0 /\ m_nReadPos' = 0 /\ m_nDataCount' = 0
    /\ queue' = << >> /\ got' = << >> /\ due' = << >>
    /\ expanded' = FALSE
    /\ UNCHANGED <<m_arrayData, m_nDataSize, put>>

Init ==
    /\ m_arrayData = NewBuffer(Size)
    /\ m_nDataSize = Size /\ m_nDataCount = 0 /\ m_nWritePos = 0 /\ m_nReadPos = 0
    /\ put = 0 /\ queue = << >> /\ got = << >> /\ due = << >>
    /\ expanded = FALSE

Next ==
    \/ \E len \in 1 .. MaxLen : PutBytes(len)
    \/ \E size \in 1 .. MaxLen : Get(size)
    \/ Clear

Spec == Init /\ [][Next]_vars

-----------------------------------------------------------------------------
(* Until it has to grow, and again from the next clear on, the array is a  *)
(* queue: it holds what was put and not got, across the end of the buffer  *)
(* and when full, and a get returns the oldest bytes in order.             *)
FifoUntilExpanded ==
    ~expanded =>
        /\ got = due
        /\ m_nDataCount = Len(queue)
        /\ FromRead(m_nDataCount) = queue
=============================================================================
