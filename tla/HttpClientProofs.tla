-------------------------- MODULE HttpClientProofs ---------------------------
(* Proofs about HttpClient: for either user, any time-out and intervals,   *)
(* and any number of reloads.                                              *)
(*                                                                         *)
(* An action composes functions of a client x.c and its link x.l, so each  *)
(* of these functions has a lemma (RestIs, SentIs, ReceivedIs, HandlerIs,  *)
(* ClosedIs, OpenedIs ...) that says it keeps Good, what a client and its  *)
(* link always are, and AskedOnce, what they are as well while a role      *)
(* waits for its admission.  An action then only has to put them together. *)
EXTENDS HttpClient, FiniteSetTheorems, SequenceTheorems, WellFoundedInduction, TLAPS

(* A client and its link, as the model's functions take them.              *)
Client == [fd : BOOLEAN, valid : BOOLEAN, age : 0 .. MaxAge, interval : Intervals \cup {0},
           array : {<< >>, Request("new")}, data : Seq({"new", "old"} \X {1, 2}),
           header : BOOLEAN, code : {"", "200", "403"}, length : {-1, 0, 1}, content : Nat]
Link   == [st : {"none", "bad", "unconnected", "connecting", "up", "failed", "closed"},
           rcvd : Seq({"new", "old"} \X {1, 2}), sent : Seq(Pieces), arrived : Seq(Pieces),
           verdicts : Seq({"200", "403"}), split : BOOLEAN]

Trying(l) == l.st \in {"connecting", "up"}

(* A client is valid from its connect to its close or its loss, and then   *)
(* has read all there is; a connection begins with nothing on it.          *)
Attached(x) ==
    /\ x.c.fd <=> x.l.st # "none"
    /\ x.c.valid => x.l.st \notin {"none", "bad", "unconnected"}
    /\ Trying(x.l) => x.c.valid
    /\ ~x.c.valid => x.l.arrived = << >>
    /\ ~x.c.header => x.c.length = -1
    /\ x.l.split => x.c.header
    /\ x.l.st \in {"none", "bad", "unconnected", "connecting"} => x.l = [NoLink EXCEPT !.st = x.l.st]

Pair(x) == /\ x = [c |-> x.c, l |-> x.l] /\ x.c \in Client /\ x.l \in Link
           /\ Attached(x)

(* m_out_data is the end of one request, never the ends of two.            *)
OneRest(x) ==
    \E of \in {"new", "old"} : \E n \in 1 .. 3 : x.c.data = SubSeq(Request(of), n, 2)

InOrder(x) ==
    Trying(x.l) =>
        \E n \in 1 .. 3 :
            x.l.rcvd \o x.c.data \o x.c.array = SubSeq(Request("old"), n, 2) \o Request("new")

(* Of the pieces of an answer the client has parsed the first p; no header *)
(* is parsed before the whole of it is there, unless it came split.        *)
FieldOf(a)  == IF "length 1" \in ToSet(a) THEN 1 ELSE IF "length 0" \in ToSet(a) THEN 0 ELSE -1
Parsing(x, a, p) ==
    /\ (x.c.header <=> p # 0)
    /\ x.c.header => /\ Blank(a) <= p
                     /\ x.c.length = FieldOf(a) /\ x.c.content = p - Blank(a)
After(a, p, m) == SubSeq(a, p + 1, m)
ReadUpTo(x, a, p) ==
    /\ \E m \in p .. Len(a) :
          /\ x.l.arrived \o x.l.sent = After(a, p, m)
          /\ x.l.st = "up" => m = Len(a)
    /\ ~x.l.split => Parsing(x, a, p)

(* The server has answered at most once, unless bytes of an earlier        *)
(* request made it take them for one.                                      *)
Unspoilt(l) == <<"old", 2>> \notin ToSet(l.rcvd)
Unanswered(x) ==
    /\ x.l.verdicts = << >> /\ x.l.arrived = << >> /\ x.l.sent = << >>
    /\ ~x.c.header /\ ~x.l.split
Answered(x) ==
    \E a \in Answers : x.l.verdicts = <<a[2]>> /\ \E p \in 0 .. Len(a) : ReadUpTo(x, a, p)
Reading(x)    == Unanswered(x) \/ Answered(x)
AnswerRead(x) == Unspoilt(x.l) => Reading(x)

(* A client with its link, as they always are.                            *)
Good(x) == Pair(x) /\ OneRest(x) /\ InOrder(x) /\ AnswerRead(x)

(* The client a role asks with has no earlier request, and no earlier code.*)
AskedOnce(x) ==
    /\ Unspoilt(x.l)
    /\ Trying(x.l) => x.l.rcvd \o x.c.data \o x.c.array = Request("new")
    /\ x.c.code # "" => x.c.header /\ x.l.verdicts = <<x.c.code>>
    /\ x.c.header /\ ~x.l.split => x.c.code # ""

Phases == {"stat", "gone", "asking", "admitted", "refused", "lost", "reporting"}

IInv ==
    /\ Good(Now)
    /\ phase = "asking" => AskedOnce(Now)
    /\ phase \in Phases /\ reloads \in 0 .. MaxReloads
-----------------------------------------------------------------------------
(* Least and greatest elements of sets of numbers.                         *)

(* Every set of naturals that is not empty has its least element in it.    *)
LEMMA LeastIn ==
    ASSUME NEW T \in SUBSET Nat, T # {}
    PROVE  Min(T) \in T /\ \A y \in T : Min(T) <= y
  <1>. DEFINE rel == OpToRel(<, Nat)
  <1>0. \A x, y \in Nat : y < x => <<y, x>> \in rel
    BY DEF OpToRel
  <1>3. IsWellFoundedOn(rel, Nat)
    BY NatLessThanWellFounded
  <1>. HIDE DEF rel
  <1>1. PICK x \in T : \A y \in T : ~(<<y, x>> \in rel)
    BY <1>3, WFMin
  <1>2. \A y \in T : x <= y
    <2>. SUFFICES ASSUME NEW y \in T PROVE x <= y
      OBVIOUS
    <2>1. x \in Nat /\ y \in Nat
      OBVIOUS
    <2>2. ~(y < x)
      BY <1>0, <1>1, <2>1
    <2>. QED  BY <2>1, <2>2
  <1>. QED  BY <1>2 DEF Min

(* A finite set of numbers is bounded: else take the smallest that is not, *)
(* and leave out one of its numbers.                                       *)
LEMMA FiniteIsBounded ==
    ASSUME NEW T \in SUBSET Nat, IsFiniteSet(T)
    PROVE  \E b \in Nat : \A y \in T : y <= b
  <1>. DEFINE Bounded(U) == \E b \in Nat : \A y \in U : y <= b
              Bad == {n \in Nat : \E U \in SUBSET Nat :
                        IsFiniteSet(U) /\ Cardinality(U) = n /\ ~Bounded(U)}
  <1>1. SUFFICES ASSUME ~Bounded(T) PROVE FALSE
    OBVIOUS
  <1>2. Bad \in SUBSET Nat /\ Bad # {}
    BY <1>1, FS_CardinalityType
  <1>. DEFINE n == Min(Bad)
  <1>3. n \in Bad /\ \A m \in Bad : n <= m
    BY <1>2, LeastIn
  <1>. HIDE DEF n
  <1>4. PICK U \in SUBSET Nat : IsFiniteSet(U) /\ Cardinality(U) = n /\ ~Bounded(U)
    BY <1>3
  <1>5. PICK u \in U : TRUE
    BY <1>4
  <1>6. IsFiniteSet(U \ {u}) /\ Cardinality(U \ {u}) = n - 1
    BY <1>4, <1>5, FS_RemoveElement
  <1>7. Cardinality(U \ {u}) \in Nat /\ n \in Nat
    BY <1>3, <1>6, FS_CardinalityType
  <1>8. Bounded(U \ {u})
    <2>1. ~(n - 1 \in Bad)
      BY <1>3, <1>7
    <2>. QED  BY <2>1, <1>6, <1>7
  <1>9. PICK b \in Nat : \A y \in U \ {u} : y <= b
    BY <1>8
  <1>10. u \in Nat /\ \A y \in U : y <= b + u /\ b + u \in Nat
    <2>. SUFFICES ASSUME NEW y \in U PROVE u \in Nat /\ y <= b + u /\ b + u \in Nat
      BY <1>5
    <2>1. u \in Nat /\ y \in Nat
      BY <1>5
    <2>. QED  BY <2>1, <1>9
  <1>. QED  BY <1>4, <1>5, <1>10

(* A finite one has its greatest in it.                                    *)
LEMMA GreatestIn ==
    ASSUME NEW T \in SUBSET Nat, T # {}, IsFiniteSet(T)
    PROVE  Max(T) \in T /\ \A y \in T : y <= Max(T)
  <1>. DEFINE B == {b \in Nat : \A y \in T : y <= b}
              b == Min(B)
  <1>1. B \in SUBSET Nat /\ B # {}
    BY FiniteIsBounded
  <1>2. b \in B /\ \A d \in B : b <= d
    BY <1>1, LeastIn
  <1>. HIDE DEF b
  <1>3. b \in T
    <2>. SUFFICES ASSUME b \notin T PROVE FALSE
      OBVIOUS
    <2>1. \A y \in T : y \in Nat /\ y <= b /\ y # b
      BY <1>2
    <2>2. b \in Nat /\ b # 0
      <3>1. PICK y \in T : y \in Nat /\ y <= b /\ y # b
        BY <2>1
      <3>. QED  BY <1>2, <3>1
    <2>3. b - 1 \in B
      BY <2>1, <2>2
    <2>. QED  BY <1>2, <2>2, <2>3
  <1>4. \A y \in T : b >= y
    BY <1>2
  <1>. QED  BY <1>3, <1>4 DEF Max

(* The clock's last value is a number no shorter than the time-out.        *)
LEMMA AgeBound == MaxAge \in Nat /\ Timeout <= MaxAge
  <1>1. Intervals \cup {Timeout} \in SUBSET Nat /\ IsFiniteSet(Intervals \cup {Timeout})
    BY HttpAssumption, FS_AddElement
  <1>. QED  BY <1>1, GreatestIn DEF MaxAge

-----------------------------------------------------------------------------
(* Sequences.                                                              *)

(* What is cut in two and put together again.                              *)
LEMMA CutInTwo ==
    ASSUME NEW S, NEW s \in Seq(S), NEW n \in 0 .. Len(s)
    PROVE  /\ SubSeq(s, 1, n) \in Seq(S) /\ SubSeq(s, n + 1, Len(s)) \in Seq(S)
           /\ SubSeq(s, 1, n) \o SubSeq(s, n + 1, Len(s)) = s
  <1>1. Len(s) \in Nat /\ \A i \in 1 .. Len(s) : s[i] \in S
    OBVIOUS
  <1>2. SubSeq(s, 1, n) \in Seq(S) /\ SubSeq(s, n + 1, Len(s)) \in Seq(S)
    <2>1. \A i \in 1 .. n : s[i] \in S
      BY <1>1
    <2>2. \A i \in n + 1 .. Len(s) : s[i] \in S
      BY <1>1
    <2>. QED  BY <1>1, <2>1, <2>2, SubSeqProperties
  <1>3. SubSeq(s, 1, n) \o SubSeq(s, n + 1, Len(s)) = SubSeq(s, 1, Len(s))
    <2>1. 1 \in 1 .. Len(s) + 1 /\ n \in 1 - 1 .. Len(s) /\ Len(s) \in n .. Len(s)
      BY <1>1
    <2>. QED  BY <2>1, ConcatAdjacentSubSeq
  <1>. QED  BY <1>2, <1>3, SubSeqFull

(* The end of a concatenation.                                             *)
LEMMA EndOfConcat ==
    ASSUME NEW S, NEW s \in Seq(S), NEW t \in Seq(S), NEW n \in 0 .. Len(s \o t), n >= Len(s)
    PROVE  SubSeq(s \o t, n + 1, Len(s \o t)) = SubSeq(t, n - Len(s) + 1, Len(t))
  <1>. DEFINE u == SubSeq(s \o t, n + 1, Len(s \o t))
              v == SubSeq(t, n - Len(s) + 1, Len(t))
  <1>1. /\ s \o t \in Seq(S) /\ Len(s \o t) = Len(s) + Len(t) /\ Len(s) \in Nat /\ Len(t) \in Nat
        /\ \A i \in 1 .. Len(s) + Len(t) :
                (s \o t)[i] = IF i <= Len(s) THEN s[i] ELSE t[i - Len(s)]
    BY ConcatProperties
  <1>2. /\ u \in Seq(S) /\ Len(u) = Len(s) + Len(t) - n
        /\ \A i \in 1 .. Len(s) + Len(t) - n : u[i] = (s \o t)[n + i]
    <2>1. \A i \in n + 1 .. Len(s \o t) : (s \o t)[i] \in S
      BY <1>1, ElementOfSeq
    <2>. QED  BY <1>1, <2>1, SubSeqProperties
  <1>3. /\ v \in Seq(S) /\ Len(v) = Len(s) + Len(t) - n
        /\ \A i \in 1 .. Len(s) + Len(t) - n : v[i] = t[n - Len(s) + i]
    <2>1. \A i \in n - Len(s) + 1 .. Len(t) : t[i] \in S
      BY <1>1, ElementOfSeq
    <2>. QED  BY <1>1, <2>1, SubSeqProperties
  <1>. HIDE DEF u, v
  <1>4. ASSUME NEW i \in 1 .. Len(u) PROVE u[i] = v[i]
    <2>1. /\ i \in 1 .. Len(s) + Len(t) - n /\ n + i \in 1 .. Len(s) + Len(t)
          /\ ~(n + i <= Len(s)) /\ n + i - Len(s) = n - Len(s) + i
      BY <1>1, <1>2
    <2>2. (s \o t)[n + i] = t[n + i - Len(s)]
      BY <1>1, <2>1
    <2>. QED  BY <1>2, <1>3, <2>1, <2>2
  <1>5. u = v
    BY <1>2, <1>3, <1>4, SeqEqual
  <1>. QED  BY <1>5 DEF u, v

(* The end of an end.                                                      *)
LEMMA EndOfEnd ==
    ASSUME NEW S, NEW s \in Seq(S), NEW k \in 1 .. Len(s) + 1,
           NEW n \in 0 .. Len(s) - k + 1
    PROVE  /\ Len(SubSeq(s, k, Len(s))) = Len(s) - k + 1
           /\ SubSeq(SubSeq(s, k, Len(s)), n + 1, Len(SubSeq(s, k, Len(s))))
                = SubSeq(s, k + n, Len(s))
  <1>. DEFINE e == SubSeq(s, k, Len(s))
              u == SubSeq(e, n + 1, Len(e))
              v == SubSeq(s, k + n, Len(s))
  <1>1. Len(s) \in Nat /\ \A i \in 1 .. Len(s) : s[i] \in S
    OBVIOUS
  <1>2. /\ e \in Seq(S) /\ Len(e) = Len(s) - k + 1
        /\ \A i \in 1 .. Len(s) - k + 1 : e[i] = s[k + i - 1]
    <2>1. \A i \in k .. Len(s) : s[i] \in S
      BY <1>1
    <2>. QED  BY <1>1, <2>1, SubSeqProperties
  <1>. HIDE DEF e
  <1>3. /\ u \in Seq(S) /\ Len(u) = Len(e) - n
        /\ \A i \in 1 .. Len(e) - n : u[i] = e[n + i]
    <2>1. \A i \in n + 1 .. Len(e) : e[i] \in S
      BY <1>2, ElementOfSeq
    <2>. QED  BY <1>1, <1>2, <2>1, SubSeqProperties
  <1>4. /\ v \in Seq(S) /\ Len(v) = Len(s) - k - n + 1
        /\ \A i \in 1 .. Len(s) - k - n + 1 : v[i] = s[k + n + i - 1]
    <2>1. \A i \in k + n .. Len(s) : s[i] \in S
      BY <1>1
    <2>. QED  BY <1>1, <2>1, SubSeqProperties
  <1>. HIDE DEF u, v
  <1>5. Len(u) = Len(v) /\ \A i \in 1 .. Len(u) : u[i] = v[i]
    BY <1>1, <1>2, <1>3, <1>4
  <1>6. u = v
    BY <1>3, <1>4, <1>5, SeqEqual
  <1>. QED  BY <1>2, <1>6 DEF e, u, v

-----------------------------------------------------------------------------
(* Requests, answers, and what a client makes of one.                      *)

Req == {"new", "old"} \X {1, 2}

(* A request is two pieces, its start and its end.                         *)
LEMMA RequestIs ==
    ASSUME NEW of \in {"new", "old"}
    PROVE  /\ Request(of) \in Seq(Req) /\ Len(Request(of)) = 2
           /\ Request(of)[1] = <<of, 1>> /\ Request(of)[2] = <<of, 2>>
  BY DEF Request, Req

(* Blank is where the first end of a header is, 0 if there is none.        *)
LEMMA BlankIs ==
    ASSUME NEW s \in Seq(Pieces)
    PROVE  \/ Blank(s) = 0 /\ \A i \in 1 .. Len(s) : s[i] # "blank"
           \/ /\ Blank(s) \in 1 .. Len(s) /\ s[Blank(s)] = "blank"
              /\ \A i \in 1 .. Len(s) : s[i] = "blank" => Blank(s) <= i
  <1>. DEFINE I == {i \in 1 .. Len(s) : s[i] = "blank"}
  <1>1. Blank(s) = IF I # {} THEN Min(I) ELSE 0
    BY DEF Blank, SelectInSeq
  <1>2. I \in SUBSET Nat
    OBVIOUS
  <1>3. CASE I = {}
    BY <1>1, <1>3
  <1>4. CASE I # {}
    <2>1. Min(I) \in I /\ \A i \in I : Min(I) <= i
      BY <1>2, <1>4, LeastIn
    <2>. QED  BY <1>1, <1>4, <2>1
  <1>. QED  BY <1>3, <1>4

(* What parsing leaves alone, and what it sets.                            *)
LEMMA ParsedKeeps ==
    ASSUME NEW c \in Client, NEW data
    PROVE  /\ Parsed(c, data).fd = c.fd /\ Parsed(c, data).valid = c.valid
           /\ Parsed(c, data).age = c.age /\ Parsed(c, data).interval = c.interval
           /\ Parsed(c, data).array = c.array /\ Parsed(c, data).data = c.data
  BY DEF Parsed, ParsedHeader, ParsedContent, Client

(* There is a header as soon as anything was parsed.                       *)
LEMMA ParsedMakesHeader ==
    ASSUME NEW c \in Client, NEW data
    PROVE  Parsed(c, data).header <=> c.header \/ data # << >>
  <1>1. CASE data = << >> \/ ~c.header
    BY <1>1 DEF Parsed, ParsedHeader, Client
  <1>2. CASE data # << >> /\ c.header
    BY <1>2 DEF Parsed, ParsedContent, Client
  <1>. QED  BY <1>1, <1>2

HeadOf(data) == ToSet(SubSeq(data, 1, IF Blank(data) = 0 THEN Len(data) ELSE Blank(data)))

(* What parsing takes from an answer's first piece, and what it counts of  *)
(* the others.                                                             *)
LEMMA ParsedIs ==
    ASSUME NEW c \in Client, NEW data \in Seq(Pieces)
    PROVE  \E d \in Client :
           /\ d = Parsed(c, data)
           /\ c.header \/ data = << >> =>
                d.code = c.code /\ d.length = c.length /\ d.content = c.content + Len(data)
           /\ ~c.header /\ data # << >> =>
                /\ d.code = IF "200" \in HeadOf(data) THEN "200"
                            ELSE IF "403" \in HeadOf(data) THEN "403" ELSE c.code
                /\ d.length = IF "length 1" \in HeadOf(data) THEN 1
                              ELSE IF "length 0" \in HeadOf(data) THEN 0 ELSE c.length
                /\ d.content = Len(data) - (IF Blank(data) = 0 THEN Len(data) ELSE Blank(data))
  <1>d. PICK d : d = Parsed(c, data)
    OBVIOUS
  <1>a. Len(data) \in Nat
    OBVIOUS
  <1>b. c.content \in Nat /\ c.header \in BOOLEAN
    BY DEF Client
  <1>1. c.content + Len(data) \in Nat
    BY <1>a, <1>b
  <1>2. CASE data = << >>
    <2>1. d = c /\ Len(data) = 0
      BY <1>2, <1>d DEF Parsed
    <2>2. d.content = c.content + Len(data)
      BY <1>b, <2>1
    <2>. QED  BY <1>2, <1>d, <2>1, <2>2
  <1>3. CASE data # << >> /\ c.header
    <2>1. d = [c EXCEPT !.content = c.content + Len(data)]
      BY <1>3, <1>d DEF Parsed, ParsedContent
    <2>2. d \in Client /\ d.content = c.content + Len(data)
      BY <1>1, <2>1 DEF Client
    <2>3. /\ d.header = c.header /\ d.code = c.code /\ d.length = c.length
      BY <2>1 DEF Client
    <2>. QED  BY <1>3, <1>d, <2>2, <2>3
  <1>4. CASE data # << >> /\ ~c.header
    <2>. DEFINE end  == IF Blank(data) = 0 THEN Len(data) ELSE Blank(data)
                code == IF "200" \in HeadOf(data) THEN "200"
                        ELSE IF "403" \in HeadOf(data) THEN "403" ELSE c.code
                length == IF "length 1" \in HeadOf(data) THEN 1
                          ELSE IF "length 0" \in HeadOf(data) THEN 0 ELSE c.length
                content == Len(data) - end
    <2>1. content \in Nat
      BY <1>a, BlankIs
    <2>2. code \in {"", "200", "403"} /\ length \in {-1, 0, 1}
      BY DEF Client
    <2>3. d = [c EXCEPT !.header = TRUE, !.code = code, !.length = length, !.content = content]
      BY <1>4, <1>d DEF Parsed, ParsedHeader, HeadOf
    <2>. HIDE DEF code, length, content
    <2>4. d \in Client
      BY <2>1, <2>2, <2>3 DEF Client
    <2>5. /\ d.header = TRUE /\ d.code = code /\ d.length = length /\ d.content = content
      BY <2>3 DEF Client
    <2>. QED  BY <1>4, <1>d, <2>4, <2>5 DEF code, length, content
  <1>. QED  BY <1>2, <1>3, <1>4

(* Parsing gives a client.                                                 *)
LEMMA ParsedType ==
    ASSUME NEW c \in Client, NEW data \in Seq(Pieces)
    PROVE  Parsed(c, data) \in Client
  <1>1. PICK d \in Client : d = Parsed(c, data)
    BY ParsedIs
  <1>. QED  BY <1>1

(* What a read makes of a client and its link.                             *)
LEMMA ReceivedIs ==
    ASSUME NEW x, Pair(x), x.c.valid, x.l.st # "connecting", NEW y \in Received(x)
    PROVE  /\ Pair(y)
           /\ y.c = [Parsed(x.c, x.l.arrived) EXCEPT !.valid = y.c.valid]
           /\ y.c.age = x.c.age /\ y.c.interval = x.c.interval /\ y.c.fd = x.c.fd
           /\ y.c.array = x.c.array /\ y.c.data = x.c.data
           /\ y.l.st = x.l.st /\ y.l.rcvd = x.l.rcvd /\ y.l.sent = x.l.sent
           /\ y.l.verdicts = x.l.verdicts /\ y.l.arrived = << >>
           /\ y.l.split <=> \/ x.l.split
                            \/ ~x.c.header /\ x.l.arrived # << >> /\ Blank(x.l.arrived) = 0
           /\ y.c.header <=> x.c.header \/ x.l.arrived # << >>
  <1>. DEFINE split == x.l.split \/ (~x.c.header /\ x.l.arrived # << >>
                                          /\ Blank(x.l.arrived) = 0)
  <1>0. x.c \in Client /\ x.l \in Link /\ Attached(x) /\ x.l.arrived \in Seq(Pieces)
    BY DEF Pair, Link
  <1>d. PICK d \in Client : d = Parsed(x.c, x.l.arrived)
    BY <1>0, ParsedType
  <1>1. PICK v \in StillValid(x.l.st) :
            y = [c |-> [d EXCEPT !.valid = v],
                 l |-> [x.l EXCEPT !.arrived = << >>, !.split = split]]
    BY <1>d DEF Received
  <1>2. x.l.st \in {"up", "failed", "closed"}
    BY <1>0 DEF Attached, Link
  <1>3. v \in BOOLEAN /\ (x.l.st = "up" => v = TRUE)
    BY <1>2 DEF StillValid
  <1>12. d.header <=> x.c.header \/ x.l.arrived # << >>
    BY <1>0, <1>d, ParsedMakesHeader
  <1>4. /\ d.fd = x.c.fd /\ d.valid = x.c.valid /\ d.age = x.c.age /\ d.interval = x.c.interval
        /\ d.array = x.c.array /\ d.data = x.c.data
    BY <1>0, <1>d, ParsedKeeps
  <1>10. ~d.header => d.length = x.c.length
    <2>1. x.l.arrived = << >> => d = x.c
      BY <1>d DEF Parsed
    <2>. QED  BY <1>12, <2>1
  <1>5. /\ y.c \in Client /\ y.c.valid = v
        /\ y.c.age = x.c.age /\ y.c.interval = x.c.interval /\ y.c.fd = x.c.fd
        /\ y.c.array = x.c.array /\ y.c.data = x.c.data
        /\ y.c.header = d.header /\ y.c.length = d.length
    BY <1>1, <1>3, <1>4 DEF Client
  <1>6. split \in BOOLEAN
    BY <1>0 DEF Link, Client
  <1>7. /\ y.l.st = x.l.st /\ y.l.rcvd = x.l.rcvd /\ y.l.sent = x.l.sent
        /\ y.l.verdicts = x.l.verdicts /\ y.l.arrived = << >> /\ y.l.split = split
        /\ y.l \in Link
    <2>1. << >> \in Seq(Pieces)
      OBVIOUS
    <2>. QED  BY <1>0, <1>1, <1>6, <2>1 DEF Link
  <1>8. Attached(y)
    BY <1>0, <1>2, <1>3, <1>4, <1>5, <1>7, <1>10, <1>12 DEF Attached, Trying
  <1>9. y = [c |-> y.c, l |-> y.l] /\ y.c = [d EXCEPT !.valid = y.c.valid]
    BY <1>1, <1>5
  <1>13. y.c.header <=> x.c.header \/ x.l.arrived # << >>
    BY <1>5, <1>12
  <1>. QED  BY <1>5, <1>7, <1>8, <1>9, <1>13, <1>d DEF Pair

-----------------------------------------------------------------------------
(* Sending.                                                                *)

Arrays    == {<< >>, Request("new")}
IsRest(d) == \E of \in {"new", "old"} : \E k \in 1 .. 3 : d = SubSeq(Request(of), k, 2)

(* Request bytes may be put together in either order.                      *)
LEMMA Regroup ==
    ASSUME NEW s \in Seq(Req), NEW t \in Seq(Req), NEW u \in Seq(Req)
    PROVE  (s \o t) \o u = s \o (t \o u)
  BY ConcatAssociative

(* What is put together of request bytes is request bytes.                 *)
LEMMA Joined ==
    ASSUME NEW s \in Seq(Req), NEW t \in Seq(Req)
    PROVE  s \o t \in Seq(Req)
  BY ConcatProperties

(* What was there first stays where it is.                                 *)
LEMMA FrontOf ==
    ASSUME NEW s \in Seq(Req), NEW t \in Seq(Req)
    PROVE  \A i \in DOMAIN s : i \in DOMAIN (s \o t) /\ (s \o t)[i] = s[i]
  <1>1. PICK m \in Nat, n \in Nat : m = Len(s) /\ n = Len(t)
    BY LenProperties
  <1>2. PICK g \in Seq(Req) : g = s \o t
    BY Joined
  <1>3. /\ Len(g) = m + n
        /\ \A i \in 1 .. m + n : g[i] = IF i <= m THEN s[i] ELSE t[i - m]
    BY <1>1, <1>2, ConcatProperties
  <1>4. DOMAIN s = 1 .. m /\ DOMAIN g = 1 .. m + n
    BY <1>1, <1>3, LenProperties
  <1>5. ASSUME NEW i \in DOMAIN s PROVE i \in DOMAIN g /\ g[i] = s[i]
    <2>1. i \in 1 .. m + n /\ i <= m
      BY <1>4
    <2>. QED  BY <1>3, <1>4, <2>1
  <1>. QED  BY <1>2, <1>5

(* m_out_array holds request bytes.                                        *)
LEMMA ArrayIs == Arrays \subseteq Seq(Req)
  BY RequestIs, EmptySeq DEF Arrays

(* Nothing is the end of a request.                                        *)
LEMMA NoRest == IsRest(<< >>)
  <1>1. SubSeq(Request("old"), 3, 2) = << >>
    BY SubSeqEmpty
  <1>. QED  BY <1>1 DEF IsRest

(* What a write leaves is again the end of one request and all of another  *)
(* or nothing, and the bytes it took come before it: nothing is lost,      *)
(* doubled or swapped (CHttpClient::send).                                 *)
LEMMA RestIs ==
    ASSUME NEW d \in Seq(Req), IsRest(d), NEW a \in Arrays,
           NEW n \in 0 .. Len(d \o a), NEW r, r = Rest(d, a, n)
    PROVE  /\ r[1] \in Seq(Req) /\ IsRest(r[1]) /\ r[2] \in Arrays
           /\ SubSeq(d \o a, 1, n) \in Seq(Req)
           /\ SubSeq(d \o a, 1, n) \o (r[1] \o r[2]) = d \o a
  <1>1. PICK of \in {"new", "old"}, k \in 1 .. 3 : d = SubSeq(Request(of), k, 2)
    BY DEF IsRest
  <1>2. /\ Request(of) \in Seq(Req) /\ Len(Request(of)) = 2
        /\ Request("new") \in Seq(Req) /\ Len(Request("new")) = 2
    BY RequestIs
  <1>3. << >> \in Seq(Req) /\ a \in Seq(Req) /\ d \o a \in Seq(Req)
    BY <1>2, EmptySeq, ArrayIs, Joined
  <1>4. IsRest(<< >>)
    BY NoRest
  <1>5. /\ Len(d) \in Nat /\ Len(d \o a) = Len(d) + Len(a) /\ Len(a) \in Nat
    BY <1>3, ConcatProperties
  <1>6. /\ SubSeq(d \o a, 1, n) \in Seq(Req) /\ SubSeq(d \o a, n + 1, Len(d \o a)) \in Seq(Req)
        /\ SubSeq(d \o a, 1, n) \o SubSeq(d \o a, n + 1, Len(d \o a)) = d \o a
    BY <1>3, CutInTwo
  <1>7. CASE n < Len(d)
    <2>1. n \in 0 .. Len(d)
      BY <1>5, <1>7
    <2>2. r[1] = SubSeq(d, n + 1, Len(d)) /\ r[2] = a
      BY <1>7 DEF Rest
    <2>3. /\ SubSeq(d, 1, n) \in Seq(Req) /\ SubSeq(d, n + 1, Len(d)) \in Seq(Req)
          /\ SubSeq(d, 1, n) \o SubSeq(d, n + 1, Len(d)) = d
      BY <2>1, CutInTwo
    <2>4. IsRest(r[1])
      <3>1. Len(SubSeq(Request(of), k, Len(Request(of)))) = Len(Request(of)) - k + 1
        <4>1. k \in 1 .. Len(Request(of)) + 1 /\ 0 \in 0 .. Len(Request(of)) - k + 1
          BY <1>2
        <4>. QED  BY <4>1, <1>2, EndOfEnd
      <3>2. Len(d) = 2 - k + 1
        BY <1>1, <1>2, <3>1
      <3>3. n \in 0 .. Len(Request(of)) - k + 1 /\ k \in 1 .. Len(Request(of)) + 1
        BY <1>2, <2>1, <3>2
      <3>4. r[1] = SubSeq(Request(of), k + n, 2)
        BY <1>1, <1>2, <2>2, <3>3, EndOfEnd
      <3>5. k + n \in 1 .. 3
        BY <1>7, <3>2
      <3>. QED  BY <3>4, <3>5 DEF IsRest
    <2>5. SubSeq(d \o a, 1, n) = SubSeq(d, 1, n)
      <3>1. CASE n = 0
        <4>1. SubSeq(d \o a, 1, n) = << >> /\ SubSeq(d, 1, n) = << >>
          BY <3>1, SubSeqEmpty
        <4>. QED  BY <4>1
      <3>2. CASE n # 0
        <4>1. 1 \in 1 .. Len(d) /\ n \in 1 .. Len(d)
          BY <1>5, <1>7, <3>2
        <4>. QED  BY <4>1, <1>3, SubSeqOfConcat1
      <3>. QED  BY <3>1, <3>2
    <2>6. SubSeq(d, 1, n) \o (r[1] \o r[2]) = (SubSeq(d, 1, n) \o r[1]) \o r[2]
      <3>1. PICK u \in Seq(Req), v \in Seq(Req), w \in Seq(Req) :
                u = r[1] /\ v = r[2] /\ w = SubSeq(d, 1, n)
        BY <1>3, <2>2, <2>3
      <3>2. (w \o u) \o v = w \o (u \o v)
        BY Regroup
      <3>. QED  BY <3>1, <3>2
    <2>. QED  BY <1>6, <2>2, <2>3, <2>4, <2>5, <2>6
  <1>8. CASE ~(n < Len(d))
    <2>1. r[1] = SubSeq(d \o a, n + 1, Len(d \o a)) /\ r[2] = << >>
      BY <1>8 DEF Rest
    <2>2. r[1] = SubSeq(a, n - Len(d) + 1, Len(a))
      <3>1. n >= Len(d)
        BY <1>5, <1>8
      <3>. QED  BY <1>3, <2>1, <3>1, EndOfConcat
    <2>3. IsRest(r[1])
      <3>1. CASE a = << >>
        <4>1. Len(a) = 0
          BY <3>1
        <4>2. r[1] = << >>
          <5>1. n - Len(d) + 1 \in Int /\ Len(a) \in Int /\ Len(a) < n - Len(d) + 1
            BY <1>5, <1>8, <4>1
          <5>. QED  BY <2>2, <5>1, SubSeqEmpty
        <4>. QED  BY <1>4, <4>2
      <3>2. CASE a = Request("new")
        <4>0. Len(a) = 2
          BY <1>2, <3>2
        <4>1. n - Len(d) + 1 \in 1 .. 3
          BY <1>5, <1>8, <4>0
        <4>. QED  BY <2>2, <3>2, <4>0, <4>1 DEF IsRest
      <3>. QED  BY <3>1, <3>2 DEF Arrays
    <2>4. r[1] \o r[2] = r[1]
      BY <1>6, <2>1, ConcatEmptySeq
    <2>. QED  BY <1>6, <2>1, <2>3, <2>4 DEF Arrays
  <1>. QED  BY <1>7, <1>8

(* What a send makes of a client and its link: it moves bytes to the link  *)
(* and does no more.                                                       *)
LEMMA SentIs ==
    ASSUME NEW x, Pair(x), x.c.valid, x.l.st # "connecting", OneRest(x), NEW y \in Sent(x)
    PROVE  /\ Pair(y) /\ OneRest(y)
           /\ y.c = [x.c EXCEPT !.data = y.c.data, !.array = y.c.array]
           /\ y.l = [x.l EXCEPT !.rcvd = y.l.rcvd]
           /\ Trying(x.l) =>
                y.l.rcvd \o y.c.data \o y.c.array = x.l.rcvd \o x.c.data \o x.c.array
           /\ \A p \in ToSet(x.l.rcvd) : p \in ToSet(y.l.rcvd)
           /\ x.l.st # "up" => y.l = x.l
           /\ y.c.fd = x.c.fd /\ y.c.valid = x.c.valid /\ y.c.header = x.c.header
  <1>0. x.c \in Client /\ x.l \in Link /\ Attached(x)
    BY DEF Pair
  <1>1. PICK d \in Seq(Req), a \in Arrays, h \in Seq(Req) :
            d = x.c.data /\ a = x.c.array /\ h = x.l.rcvd
    BY <1>0 DEF Client, Link, Req, Arrays
  <1>2. PICK n \in Writable(x) :
            y = [c |-> [x.c EXCEPT !.data = Rest(d, a, n)[1], !.array = Rest(d, a, n)[2]],
                 l |-> IF x.l.st # "up" THEN x.l
                       ELSE [x.l EXCEPT !.rcvd = h \o SubSeq(d \o a, 1, n)]]
    BY <1>1 DEF Sent
  <1>3. n \in 0 .. Len(d \o a)
    <2>1. d \o a \in Seq(Req)
      BY ArrayIs, Joined
    <2>2. Len(d \o a) \in Nat
      BY <2>1
    <2>3. Writable(x) = IF x.l.st = "failed" THEN {0} ELSE 0 .. Len(d \o a)
      BY <1>1 DEF Writable
    <2>. QED  BY <2>2, <2>3
  <1>4. PICK r : r = Rest(d, a, n)
    OBVIOUS
  <1>5. IsRest(d)
    BY <1>1 DEF OneRest, IsRest
  <1>6. /\ r[1] \in Seq(Req) /\ IsRest(r[1]) /\ r[2] \in Arrays
        /\ SubSeq(d \o a, 1, n) \in Seq(Req)
        /\ SubSeq(d \o a, 1, n) \o (r[1] \o r[2]) = d \o a
    BY <1>3, <1>4, <1>5, RestIs
  <1>7. PICK g : g = h \o SubSeq(d \o a, 1, n)
    OBVIOUS
  <1>8. g \in Seq(Req) /\ \A p \in ToSet(h) : p \in ToSet(g)
    <2>1. g \in Seq(Req)
      BY <1>6, <1>7, Joined
    <2>2. \A i \in DOMAIN h : i \in DOMAIN g /\ g[i] = h[i]
      BY <1>6, <1>7, FrontOf
    <2>. QED  BY <2>1, <2>2 DEF ToSet
  <1>9. /\ y.c.data = r[1] /\ y.c.array = r[2] /\ y.c \in Client
        /\ y.c = [x.c EXCEPT !.data = y.c.data, !.array = y.c.array]
    BY <1>0, <1>2, <1>4, <1>6 DEF Client, Req, Arrays
  <1>10. /\ y.l.rcvd = IF x.l.st # "up" THEN h ELSE g
         /\ y.l \in Link /\ y.l = [x.l EXCEPT !.rcvd = y.l.rcvd]
    BY <1>0, <1>1, <1>2, <1>7, <1>8 DEF Link, Req
  <1>16. y.c.fd = x.c.fd /\ y.c.valid = x.c.valid /\ y.c.header = x.c.header
    BY <1>0, <1>9 DEF Client
  <1>11. Pair(y)
    <2>1. y = [c |-> y.c, l |-> y.l]
      BY <1>2
    <2>2. y.c.length = x.c.length
      BY <1>0, <1>9 DEF Client
    <2>3. y.l.st = x.l.st /\ y.l.arrived = x.l.arrived /\ y.l.split = x.l.split
      BY <1>0, <1>10 DEF Link
    <2>4. x.l.st \notin {"none", "bad", "unconnected", "connecting"}
      BY <1>0 DEF Attached
    <2>5. Attached(y)
      BY <1>0, <1>16, <2>2, <2>3, <2>4 DEF Attached, Trying
    <2>. QED  BY <1>9, <1>10, <2>1, <2>5 DEF Pair
  <1>12. OneRest(y)
    BY <1>6, <1>9 DEF OneRest, IsRest
  <1>13. Trying(x.l) => y.l.rcvd \o y.c.data \o y.c.array = x.l.rcvd \o x.c.data \o x.c.array
    <2>. SUFFICES ASSUME x.l.st = "up"
                  PROVE  (g \o r[1]) \o r[2] = (h \o d) \o a
      BY <1>1, <1>9, <1>10 DEF Trying
    <2>1. PICK s \in Seq(Req) : s = SubSeq(d \o a, 1, n)
      BY <1>6
    <2>2. r[2] \in Seq(Req) /\ a \in Seq(Req) /\ r[1] \in Seq(Req)
      BY <1>6, ArrayIs
    <2>3. h \o s \in Seq(Req) /\ r[1] \o r[2] \in Seq(Req)
      BY <2>2, Joined
    <2>4. (g \o r[1]) \o r[2] = (h \o s) \o (r[1] \o r[2])
      <3>1. PICK u \in Seq(Req), v \in Seq(Req) : u = r[1] /\ v = r[2]
        BY <2>2
      <3>2. PICK w \in Seq(Req) : w = h \o s
        BY <2>3
      <3>3. (w \o u) \o v = w \o (u \o v)
        BY Regroup
      <3>. QED  BY <1>7, <2>1, <3>1, <3>2, <3>3
    <2>5. (h \o s) \o (r[1] \o r[2]) = h \o (s \o (r[1] \o r[2]))
      BY <2>1, <2>3, Regroup
    <2>6. h \o (d \o a) = (h \o d) \o a
      BY <2>2, Regroup
    <2>. QED  BY <1>6, <2>1, <2>4, <2>5, <2>6
  <1>14. \A p \in ToSet(x.l.rcvd) : p \in ToSet(y.l.rcvd)
    BY <1>1, <1>8, <1>10
  <1>15. x.l.st # "up" => y.l = x.l
    BY <1>2
  <1>. QED  BY <1>9, <1>10, <1>11, <1>12, <1>13, <1>14, <1>15, <1>16


(* Where only the client's own request went, no earlier one did.           *)
LEMMA NewIsUnspoilt ==
    ASSUME NEW l \in Link, NEW d \in Seq(Req), NEW a \in Seq(Req),
           (l.rcvd \o d) \o a = Request("new")
    PROVE  Unspoilt(l)
  <1>1. PICK g \in Seq(Req) : g = l.rcvd
    BY DEF Link, Req
  <1>2. PICK e \in Seq(Req) : e = g \o d
    BY Joined
  <1>3. \A i \in DOMAIN g : i \in DOMAIN e /\ e[i] = g[i]
    BY <1>2, FrontOf
  <1>4. \A i \in DOMAIN e : i \in DOMAIN (e \o a) /\ (e \o a)[i] = e[i]
    BY FrontOf
  <1>5. e \o a = Request("new")
    BY <1>1, <1>2
  <1>6. \A i \in DOMAIN Request("new") : Request("new")[i] # <<"old", 2>>
    BY DEF Request
  <1>7. \A i \in DOMAIN g : g[i] # <<"old", 2>>
    BY <1>3, <1>4, <1>5, <1>6
  <1>. QED  BY <1>1, <1>7 DEF Unspoilt, ToSet
-----------------------------------------------------------------------------
(* Reading an answer.                                                      *)

Fields == {"length 0", "length 1"}

(* Three, four or five pieces are a sequence.                              *)
LEMMA Tuples ==
    ASSUME NEW S, NEW a \in S, NEW b \in S, NEW c \in S, NEW d \in S, NEW e \in S
    PROVE  /\ <<a, b, c>> \in Seq(S) /\ Len(<<a, b, c>>) = 3
           /\ <<a, b, c, d>> \in Seq(S) /\ Len(<<a, b, c, d>>) = 4
           /\ <<a, b, c, d, e>> \in Seq(S) /\ Len(<<a, b, c, d, e>>) = 5
  <1>1. <<a, b, c>> \in Seq(S) /\ Len(<<a, b, c>>) = 3
    OBVIOUS
  <1>2. <<a, b, c, d>> \in Seq(S) /\ Len(<<a, b, c, d>>) = 4
    OBVIOUS
  <1>3. <<a, b, c, d, e>> \in Seq(S) /\ Len(<<a, b, c, d, e>>) = 5
    OBVIOUS
  <1>. QED  BY <1>1, <1>2, <1>3

(* An answer has one end of its header, its status second, its length      *)
(* field in the header, and as much content as the field says.             *)
LEMMA AnswerIs ==
    ASSUME NEW a \in Answers
    PROVE  /\ a \in Seq(Pieces) /\ Len(a) \in 3 .. 5
           /\ Blank(a) \in 3 .. Len(a) /\ a[Blank(a)] = "blank"
           /\ \A i \in 1 .. Len(a) : a[i] = "blank" => i = Blank(a)
           /\ a[2] \in {"200", "403"}
           /\ \A i \in 1 .. Len(a) : a[i] \in {"200", "403"} => i = 2
           /\ \A i \in 1 .. Len(a) : a[i] \in Fields => i <= Blank(a)
           /\ FieldOf(a) \in {-1, Len(a) - Blank(a)}
  <1>0. /\ "HTTP/1.1" \in Pieces /\ "200" \in Pieces /\ "403" \in Pieces
        /\ "length 0" \in Pieces /\ "length 1" \in Pieces
        /\ "blank" \in Pieces /\ "body" \in Pieces
    BY DEF Pieces
  <1>1. CASE a = <<"HTTP/1.1", "200", "length 1", "blank", "body">>
    <2>1. a[1] = "HTTP/1.1" /\ a[2] = "200" /\ a[3] = "length 1" /\ a[4] = "blank"
          /\ a[5] = "body"
      BY <1>1
    <2>2. a \in Seq(Pieces) /\ Len(a) = 5
      BY <1>0, <1>1, Tuples
    <2>3. \A i \in 1 .. 5 : i = 1 \/ i = 2 \/ i = 3 \/ i = 4 \/ i = 5
      OBVIOUS
    <2>4. DOMAIN a = 1 .. 5
      BY <2>2, LenProperties
    <2>5. \A i \in 1 .. 5 : a[i] = "blank" <=> i = 4
      BY <2>1, <2>3
    <2>6. Blank(a) = 4
      BY <2>2, <2>5, BlankIs
    <2>7. FieldOf(a) = 1
      <3>0. 3 \in DOMAIN a
        BY <2>4
      <3>1. \E i \in DOMAIN a : a[i] = "length 1"
        BY <2>1, <3>0
      <3>2. "length 1" \in ToSet(a)
        BY <3>1 DEF ToSet
      <3>. QED  BY <3>2 DEF FieldOf
    <2>8. \A i \in 1 .. 5 : a[i] \in {"200", "403"} => i = 2
      BY <2>1, <2>3
    <2>9. \A i \in 1 .. 5 : a[i] \in Fields => i <= 4
      <3>1. a[5] \notin Fields
        BY <2>1 DEF Fields
      <3>. QED  BY <2>3, <3>1
    <2>10. /\ Len(a) \in 3 .. 5 /\ Blank(a) \in 3 .. Len(a)
           /\ FieldOf(a) \in {-1, Len(a) - Blank(a)}
      BY <2>2, <2>6, <2>7
    <2>11. a[2] \in {"200", "403"} /\ a[Blank(a)] = "blank"
      BY <2>1, <2>6
    <2>. QED  BY <2>2, <2>5, <2>6, <2>8, <2>9, <2>10, <2>11
  <1>2. CASE a = <<"HTTP/1.1", "200", "blank">>
    <2>1. a[1] = "HTTP/1.1" /\ a[2] = "200" /\ a[3] = "blank"
      BY <1>2
    <2>2. a \in Seq(Pieces) /\ Len(a) = 3
      BY <1>0, <1>2, Tuples
    <2>3. \A i \in 1 .. 3 : i = 1 \/ i = 2 \/ i = 3
      OBVIOUS
    <2>4. DOMAIN a = 1 .. 3
      BY <2>2, LenProperties
    <2>5. \A i \in 1 .. 3 : a[i] = "blank" <=> i = 3
      BY <2>1, <2>3
    <2>6. Blank(a) = 3
      BY <2>2, <2>5, BlankIs
    <2>7. FieldOf(a) = -1
      <3>1. \A i \in DOMAIN a : a[i] # "length 1" /\ a[i] # "length 0"
        BY <2>1, <2>3, <2>4
      <3>2. "length 1" \notin ToSet(a) /\ "length 0" \notin ToSet(a)
        BY <3>1 DEF ToSet
      <3>. QED  BY <3>2 DEF FieldOf
    <2>8. \A i \in 1 .. 3 : a[i] \in {"200", "403"} => i = 2
      BY <2>1, <2>3
    <2>9. \A i \in 1 .. 3 : a[i] \in Fields => i <= 3
      OBVIOUS
    <2>10. /\ Len(a) \in 3 .. 5 /\ Blank(a) \in 3 .. Len(a)
           /\ FieldOf(a) \in {-1, Len(a) - Blank(a)}
      BY <2>2, <2>6, <2>7
    <2>11. a[2] \in {"200", "403"} /\ a[Blank(a)] = "blank"
      BY <2>1, <2>6
    <2>. QED  BY <2>2, <2>5, <2>6, <2>8, <2>9, <2>10, <2>11
  <1>3. CASE a = <<"HTTP/1.1", "403", "length 0", "blank">>
    <2>1. a[1] = "HTTP/1.1" /\ a[2] = "403" /\ a[3] = "length 0" /\ a[4] = "blank"
      BY <1>3
    <2>2. a \in Seq(Pieces) /\ Len(a) = 4
      BY <1>0, <1>3, Tuples
    <2>3. \A i \in 1 .. 4 : i = 1 \/ i = 2 \/ i = 3 \/ i = 4
      OBVIOUS
    <2>4. DOMAIN a = 1 .. 4
      BY <2>2, LenProperties
    <2>5. \A i \in 1 .. 4 : a[i] = "blank" <=> i = 4
      BY <2>1, <2>3
    <2>6. Blank(a) = 4
      BY <2>2, <2>5, BlankIs
    <2>7. FieldOf(a) = 0
      <3>0. 3 \in DOMAIN a
        BY <2>4
      <3>1. \E i \in DOMAIN a : a[i] = "length 0"
        BY <2>1, <3>0
      <3>2. "length 0" \in ToSet(a)
        BY <3>1 DEF ToSet
      <3>3. \A i \in DOMAIN a : a[i] # "length 1"
        BY <2>1, <2>3, <2>4
      <3>4. "length 1" \notin ToSet(a)
        BY <3>3 DEF ToSet
      <3>. QED  BY <3>2, <3>4 DEF FieldOf
    <2>8. \A i \in 1 .. 4 : a[i] \in {"200", "403"} => i = 2
      BY <2>1, <2>3
    <2>9. \A i \in 1 .. 4 : a[i] \in Fields => i <= 4
      OBVIOUS
    <2>10. /\ Len(a) \in 3 .. 5 /\ Blank(a) \in 3 .. Len(a)
           /\ FieldOf(a) \in {-1, Len(a) - Blank(a)}
      BY <2>2, <2>6, <2>7
    <2>11. a[2] \in {"200", "403"} /\ a[Blank(a)] = "blank"
      BY <2>1, <2>6
    <2>. QED  BY <2>2, <2>5, <2>6, <2>8, <2>9, <2>10, <2>11
  <1>. QED  BY <1>1, <1>2, <1>3 DEF Answers

(* What has arrived is the answer's next pieces, and what is sent follows. *)
CutAt(a, p, m, u, v) ==
    \E k \in Nat :
        /\ k = Len(u) /\ p + k \in p .. m
        /\ u = After(a, p, p + k) /\ v = After(a, p + k, m)

(* What is cut in two of an answer's pieces p + 1 to m is cut at one       *)
(* place.                                                                  *)
LEMMA Arrived ==
    ASSUME NEW a \in Seq(Pieces), NEW p \in 0 .. Len(a), NEW m \in p .. Len(a),
           NEW u \in Seq(Pieces), NEW v \in Seq(Pieces), u \o v = After(a, p, m)
    PROVE  CutAt(a, p, m, u, v)
  <1>0. PICK k \in Nat, h \in Nat : k = Len(u) /\ h = Len(v)
    BY LenProperties
  <1>a. u \o v = SubSeq(a, p + 1, m)
    BY DEF After
  <1>1. /\ Len(u \o v) = Len(u) + Len(v)
        /\ \A i \in 1 .. Len(u) + Len(v) :
                (u \o v)[i] = IF i <= Len(u) THEN u[i] ELSE v[i - Len(u)]
    BY ConcatProperties
  <1>2. \A i \in 1 .. Len(a) : a[i] \in Pieces
    BY ElementOfSeq
  <1>3. /\ Len(SubSeq(a, p + 1, m)) = m - p
        /\ \A i \in 1 .. m - p : SubSeq(a, p + 1, m)[i] = a[p + i]
    <2>1. \A i \in p + 1 .. m : a[i] \in Pieces
      BY <1>2
    <2>. QED  BY <2>1, SubSeqProperties
  <1>4. k + h = m - p
    BY <1>0, <1>a, <1>1, <1>3
  <1>5. \A i \in 1 .. m - p : a[p + i] = IF i <= k THEN u[i] ELSE v[i - k]
    BY <1>0, <1>a, <1>1, <1>3, <1>4
  <1>6. u = SubSeq(a, p + 1, p + k)
    <2>1. \A i \in p + 1 .. p + k : a[i] \in Pieces
      BY <1>2, <1>4
    <2>2. /\ SubSeq(a, p + 1, p + k) \in Seq(Pieces) /\ Len(SubSeq(a, p + 1, p + k)) = k
          /\ \A i \in 1 .. k : SubSeq(a, p + 1, p + k)[i] = a[p + i]
      BY <1>4, <2>1, SubSeqProperties
    <2>3. ASSUME NEW i \in 1 .. k PROVE SubSeq(a, p + 1, p + k)[i] = u[i]
      <3>1. i \in 1 .. m - p
        BY <1>4
      <3>. QED  BY <1>5, <2>2, <3>1
    <2>. QED  BY <1>0, <2>2, <2>3, SeqEqual
  <1>7. v = SubSeq(a, p + k + 1, m)
    <2>1. \A i \in p + k + 1 .. m : a[i] \in Pieces
      BY <1>2, <1>4
    <2>2. /\ SubSeq(a, p + k + 1, m) \in Seq(Pieces) /\ Len(SubSeq(a, p + k + 1, m)) = h
          /\ \A i \in 1 .. h : SubSeq(a, p + k + 1, m)[i] = a[p + k + i]
      BY <1>4, <2>1, SubSeqProperties
    <2>3. ASSUME NEW i \in 1 .. h PROVE a[p + k + i] = v[i]
      <3>1. PICK j : j = k + i
        OBVIOUS
      <3>2. j \in 1 .. m - p /\ ~(j <= k) /\ j - k = i /\ p + j = p + k + i
        BY <1>4, <3>1
      <3>3. a[p + j] = v[j - k]
        BY <1>5, <3>2
      <3>. QED  BY <3>2, <3>3
    <2>. QED  BY <1>0, <2>2, <2>3, SeqEqual
  <1>8. p + k \in p .. m
    BY <1>0, <1>4
  <1>. QED  BY <1>0, <1>6, <1>7, <1>8 DEF CutAt, After

(* The head that is made of an answer's first k pieces.                    *)
LEMMA HeadIs ==
    ASSUME NEW a \in Answers, NEW k \in 1 .. Len(a), NEW s, s = SubSeq(a, 1, k)
    PROVE  /\ s \in Seq(Pieces) /\ Len(s) = k
           /\ "200" \in HeadOf(s) => a[2] = "200"
           /\ "403" \in HeadOf(s) => a[2] = "403"
           /\ Blank(s) # 0 =>
                /\ Blank(s) = Blank(a) /\ Blank(a) <= k /\ a[2] \in HeadOf(s)
                /\ \A f \in Fields : f \in HeadOf(s) <=> f \in ToSet(a)
  <1>1. /\ a \in Seq(Pieces) /\ Len(a) \in 3 .. 5
        /\ Blank(a) \in 3 .. Len(a) /\ a[Blank(a)] = "blank"
        /\ \A i \in 1 .. Len(a) : a[i] = "blank" => i = Blank(a)
        /\ \A i \in 1 .. Len(a) : a[i] \in {"200", "403"} => i = 2
        /\ \A i \in 1 .. Len(a) : a[i] \in Fields => i <= Blank(a)
    BY AnswerIs
  <1>2. \A i \in 1 .. Len(a) : a[i] \in Pieces
    BY <1>1, ElementOfSeq
  <1>3. s \in Seq(Pieces) /\ Len(s) = k /\ \A i \in 1 .. k : s[i] = a[i]
    <2>1. \A i \in 1 .. k : a[i] \in Pieces
      BY <1>1, <1>2
    <2>. QED  BY <1>1, <2>1, SubSeqProperties
  <1>. DEFINE end == IF Blank(s) = 0 THEN Len(s) ELSE Blank(s)
  <1>4. end \in 1 .. k
    <2>1. Blank(s) = 0 \/ Blank(s) \in 1 .. Len(s)
      BY <1>3, BlankIs
    <2>. QED  BY <1>1, <1>3, <2>1
  <1>. HIDE DEF end
  <1>5. HeadOf(s) = {a[i] : i \in 1 .. end}
    <2>1. \A i \in 1 .. end : s[i] \in Pieces
      BY <1>1, <1>2, <1>3, <1>4
    <2>2. /\ SubSeq(s, 1, end) \in Seq(Pieces) /\ Len(SubSeq(s, 1, end)) = end
          /\ \A i \in 1 .. end : SubSeq(s, 1, end)[i] = s[i]
      BY <1>1, <1>4, <2>1, SubSeqProperties
    <2>3. DOMAIN SubSeq(s, 1, end) = 1 .. end
      BY <2>2, LenProperties
    <2>4. \A i \in 1 .. end : SubSeq(s, 1, end)[i] = a[i]
      BY <1>1, <1>3, <1>4, <2>2
    <2>. QED  BY <2>3, <2>4 DEF HeadOf, ToSet, end
  <1>6. ASSUME NEW v \in {"200", "403"}, v \in HeadOf(s) PROVE a[2] = v
    <2>1. PICK i \in 1 .. end : v = a[i]
      BY <1>5, <1>6
    <2>2. i \in 1 .. Len(a)
      BY <1>1, <1>4
    <2>. QED  BY <1>1, <2>1, <2>2
  <1>7. ASSUME Blank(s) # 0
        PROVE  /\ Blank(s) = Blank(a) /\ Blank(a) <= k /\ a[2] \in HeadOf(s)
               /\ \A f \in Fields : f \in HeadOf(s) <=> f \in ToSet(a)
    <2>1. Blank(s) \in 1 .. k /\ s[Blank(s)] = "blank"
      BY <1>3, <1>7, BlankIs
    <2>2. Blank(s) = Blank(a) /\ end = Blank(a) /\ Blank(a) <= k
      <3>1. PICK b \in 1 .. k : b = Blank(s)
        BY <2>1
      <3>2. a[b] = "blank" /\ b \in 1 .. Len(a)
        BY <1>1, <1>3, <2>1, <3>1
      <3>. QED  BY <1>1, <1>7, <3>1, <3>2 DEF end
    <2>3. a[2] \in HeadOf(s)
      BY <1>1, <1>5, <2>2
    <2>4. \A f \in Fields : f \in HeadOf(s) <=> f \in ToSet(a)
      <3>1. DOMAIN a = 1 .. Len(a)
        BY <1>1, LenProperties
      <3>. QED  BY <1>1, <1>5, <2>2, <3>1 DEF ToSet
    <2>. QED  BY <2>2, <2>3, <2>4
  <1>. QED  BY <1>3, <1>6, <1>7

-----------------------------------------------------------------------------
(* What is read stays read.                                                *)

LEMMA ReadingKept ==
    ASSUME NEW x, NEW y, Reading(x),
           y.l.st = "up" => x.l.st = "up",
           y.l.verdicts = x.l.verdicts, y.l.arrived = x.l.arrived, y.l.sent = x.l.sent,
           y.l.split <=> x.l.split, y.c.header <=> x.c.header,
           y.c.length = x.c.length, y.c.content = x.c.content
    PROVE  Reading(y)
  <1>1. CASE Unanswered(x)
    BY <1>1 DEF Unanswered, Reading
  <1>2. CASE Answered(x)
    <2>0. PICK a \in Answers :
            x.l.verdicts = <<a[2]>> /\ \E p \in 0 .. Len(a) : ReadUpTo(x, a, p)
      BY <1>2 DEF Answered
    <2>1. PICK p \in 0 .. Len(a) : x.l.verdicts = <<a[2]>> /\ ReadUpTo(x, a, p)
      BY <2>0
    <2>2. PICK m \in p .. Len(a) :
            x.l.arrived \o x.l.sent = After(a, p, m) /\ (x.l.st = "up" => m = Len(a))
      BY <2>1 DEF ReadUpTo
    <2>3. y.l.arrived \o y.l.sent = After(a, p, m) /\ (y.l.st = "up" => m = Len(a))
      BY <2>2
    <2>4. ~y.l.split => Parsing(y, a, p)
      BY <2>1 DEF ReadUpTo, Parsing
    <2>5. ReadUpTo(y, a, p)
      BY <2>3, <2>4 DEF ReadUpTo
    <2>. QED  BY <2>1, <2>5 DEF Answered, Reading
  <1>. QED  BY <1>1, <1>2 DEF Reading

(* What a read takes is the answer's next pieces.                          *)
LEMMA NextPieces ==
    ASSUME NEW x, Pair(x), NEW a \in Answers, NEW p \in 0 .. Len(a), ReadUpTo(x, a, p)
    PROVE  \E k \in Nat : \E m \in p + k .. Len(a) :
            /\ k = Len(x.l.arrived) /\ p + k \in 0 .. Len(a)
            /\ x.l.arrived = After(a, p, p + k)
            /\ x.l.sent = After(a, p + k, m) /\ (x.l.st = "up" => m = Len(a))
  <1>1. a \in Seq(Pieces) /\ Len(a) \in Nat
    BY AnswerIs
  <1>2. PICK s \in Seq(Pieces), t \in Seq(Pieces) : s = x.l.arrived /\ t = x.l.sent
    BY DEF Pair, Link
  <1>3. PICK m \in p .. Len(a) : s \o t = After(a, p, m) /\ (x.l.st = "up" => m = Len(a))
    BY <1>2 DEF ReadUpTo
  <1>5. PICK k \in Nat :
            /\ k = Len(s) /\ p + k \in p .. m
            /\ s = After(a, p, p + k) /\ t = After(a, p + k, m)
    <2>1. CutAt(a, p, m, s, t)
      BY <1>1, <1>3, Arrived
    <2>. QED  BY <2>1 DEF CutAt
  <1>6. m \in p + k .. Len(a) /\ p + k \in 0 .. Len(a)
    BY <1>1, <1>5
  <1>. QED  BY <1>2, <1>3, <1>5, <1>6

(* A read goes on from where the last one ended (CHttpClient::recv).       *)
LEMMA ReceivedReads ==
    ASSUME NEW x, Pair(x), x.c.valid, x.l.st # "connecting", Reading(x), NEW y \in Received(x)
    PROVE  Reading(y)
  <1>1. /\ Pair(y) /\ y.c = [Parsed(x.c, x.l.arrived) EXCEPT !.valid = y.c.valid]
        /\ y.l.st = x.l.st /\ y.l.sent = x.l.sent
        /\ y.l.verdicts = x.l.verdicts /\ y.l.arrived = << >>
        /\ y.l.split <=> \/ x.l.split
                         \/ ~x.c.header /\ x.l.arrived # << >> /\ Blank(x.l.arrived) = 0
    BY ReceivedIs
  <1>2. x.c \in Client /\ x.l \in Link /\ Attached(x)
    BY DEF Pair
  <1>3. PICK s \in Seq(Pieces), k \in Nat : s = x.l.arrived /\ k = Len(s)
    BY <1>2, LenProperties DEF Link
  <1>4. k \in Nat /\ s \in Seq(Pieces) /\ (k = 0 <=> s = << >>)
    BY <1>3, EmptySeq
  <1>6. PICK d \in Client :
        /\ d = Parsed(x.c, s)
        /\ x.c.header \/ s = << >> => d.length = x.c.length /\ d.content = x.c.content + k
        /\ ~x.c.header /\ s # << >> =>
             /\ d.length = IF "length 1" \in HeadOf(s) THEN 1
                           ELSE IF "length 0" \in HeadOf(s) THEN 0 ELSE x.c.length
             /\ d.content = k - (IF Blank(s) = 0 THEN k ELSE Blank(s))
    <2>1. PICK d \in Client :
            /\ d = Parsed(x.c, s)
            /\ x.c.header \/ s = << >> =>
                 d.code = x.c.code /\ d.length = x.c.length /\ d.content = x.c.content + Len(s)
            /\ ~x.c.header /\ s # << >> =>
                /\ d.code = IF "200" \in HeadOf(s) THEN "200"
                            ELSE IF "403" \in HeadOf(s) THEN "403" ELSE x.c.code
                /\ d.length = IF "length 1" \in HeadOf(s) THEN 1
                              ELSE IF "length 0" \in HeadOf(s) THEN 0 ELSE x.c.length
                /\ d.content = Len(s) - (IF Blank(s) = 0 THEN Len(s) ELSE Blank(s))
      BY <1>2, ParsedIs
    <2>. QED  BY <1>3, <2>1
  <1>5. d.header <=> x.c.header \/ s # << >>
    BY <1>2, <1>6, ParsedMakesHeader
  <1>7. y.c.header = d.header /\ y.c.length = d.length /\ y.c.content = d.content
    BY <1>1, <1>3, <1>6 DEF Client
  <1>8. CASE Unanswered(x)
    <2>1. ~d.header /\ ~y.l.split
      BY <1>1, <1>3, <1>5, <1>8 DEF Unanswered
    <2>2. ~y.c.header
      BY <1>7, <2>1
    <2>. QED  BY <1>1, <1>8, <2>1, <2>2 DEF Unanswered, Reading
  <1>9. CASE Answered(x)
    <2>0. PICK a \in Answers :
            x.l.verdicts = <<a[2]>> /\ \E p \in 0 .. Len(a) : ReadUpTo(x, a, p)
      BY <1>9 DEF Answered
    <2>1. PICK p \in 0 .. Len(a) : x.l.verdicts = <<a[2]>> /\ ReadUpTo(x, a, p)
      BY <2>0
    <2>2. /\ s = After(a, p, p + k) /\ p + k \in 0 .. Len(a)
          /\ \E m \in p + k .. Len(a) :
                x.l.sent = After(a, p + k, m) /\ (x.l.st = "up" => m = Len(a))
      <3>1. PICK h \in Nat : \E m \in p + h .. Len(a) :
                /\ h = Len(x.l.arrived) /\ p + h \in 0 .. Len(a)
                /\ x.l.arrived = After(a, p, p + h)
                /\ x.l.sent = After(a, p + h, m) /\ (x.l.st = "up" => m = Len(a))
        BY <2>1, NextPieces
      <3>2. h = k
        BY <1>3, <3>1
      <3>. QED  BY <1>3, <3>1, <3>2
    <2>3. PICK q \in 0 .. Len(a) : q = p + k
      BY <2>2
    <2>4. PICK m \in q .. Len(a) :
            y.l.sent = After(a, q, m) /\ (y.l.st = "up" => m = Len(a))
      BY <1>1, <2>2, <2>3
    <2>5. y.l.arrived \o y.l.sent = After(a, q, m)
      <3>1. y.l.sent \in Seq(Pieces)
        BY <1>1 DEF Pair, Link
      <3>2. << >> \o y.l.sent = y.l.sent
        BY <3>1, ConcatEmptySeq
      <3>. QED  BY <1>1, <2>4, <3>2
    <2>6. ASSUME ~y.l.split PROVE Parsing(y, a, q)
      <3>1. ~x.l.split /\ (~x.c.header /\ s # << >> => Blank(s) # 0)
        BY <1>1, <1>3, <2>6
      <3>2. /\ (x.c.header <=> p # 0)
            /\ x.c.header => /\ Blank(a) <= p
                             /\ x.c.length = FieldOf(a) /\ x.c.content = p - Blank(a)
        BY <2>1, <3>1 DEF ReadUpTo, Parsing
      <3>3. p \in Nat /\ Len(a) \in Nat /\ Blank(a) \in Nat
        BY AnswerIs
      <3>4. y.c.header <=> q # 0
        <4>1. y.c.header <=> x.c.header \/ s # << >>
          BY <1>5, <1>7
        <4>2. q # 0 <=> p # 0 \/ k # 0
          BY <1>4, <2>3, <3>3
        <4>. QED  BY <1>4, <3>2, <4>1, <4>2
      <3>5. CASE x.c.header
        <4>1. y.c.length = FieldOf(a) /\ y.c.content = p - Blank(a) + k
          BY <1>6, <1>7, <3>2, <3>5
        <4>2. Blank(a) <= q /\ y.c.content = q - Blank(a)
          BY <1>4, <2>3, <3>2, <3>3, <3>5, <4>1
        <4>. QED  BY <3>4, <4>1, <4>2 DEF Parsing
      <3>6. CASE ~x.c.header /\ s = << >>
        <4>1. ~y.c.header
          BY <1>5, <1>7, <3>6
        <4>. QED  BY <3>4, <4>1 DEF Parsing
      <3>7. CASE ~x.c.header /\ s # << >>
        <4>1. p = 0 /\ q = k /\ k \in 1 .. Len(a) /\ s = SubSeq(a, 1, k)
          <5>1. p = 0 /\ k # 0
            BY <1>4, <3>2, <3>7
          <5>2. q = k /\ k \in 1 .. Len(a)
            BY <1>4, <2>3, <3>3, <5>1
          <5>3. s = SubSeq(a, 1, k)
            BY <2>2, <2>3, <5>1, <5>2 DEF After
          <5>. QED  BY <5>1, <5>2, <5>3
        <4>2. /\ Blank(s) = Blank(a) /\ Blank(a) <= k
              /\ \A f \in Fields : f \in HeadOf(s) <=> f \in ToSet(a)
          BY <3>1, <3>7, <4>1, HeadIs
        <4>3. ("length 1" \in HeadOf(s) <=> "length 1" \in ToSet(a))
              /\ ("length 0" \in HeadOf(s) <=> "length 0" \in ToSet(a))
          BY <4>2 DEF Fields
        <4>4. x.c.length = -1
          BY <1>2, <3>7 DEF Attached
        <4>5. y.c.length = FieldOf(a)
          BY <1>6, <1>7, <3>7, <4>3, <4>4 DEF FieldOf
        <4>6. y.c.content = q - Blank(a)
          BY <1>6, <1>7, <3>1, <3>7, <4>1, <4>2
        <4>. QED  BY <3>4, <4>1, <4>2, <4>5, <4>6 DEF Parsing
      <3>. QED  BY <3>5, <3>6, <3>7
    <2>7. ReadUpTo(y, a, q)
      BY <2>4, <2>5, <2>6 DEF ReadUpTo
    <2>. QED  BY <1>1, <2>1, <2>7 DEF Answered, Reading
  <1>. QED  BY <1>8, <1>9 DEF Reading

(* The status a role's client reads is the one the server gave.            *)
LEMMA ReceivedAsks ==
    ASSUME NEW x, Pair(x), x.c.valid, x.l.st # "connecting", Reading(x), AskedOnce(x),
           NEW y \in Received(x)
    PROVE  AskedOnce(y)
  <1>1. /\ Pair(y) /\ y.c = [Parsed(x.c, x.l.arrived) EXCEPT !.valid = y.c.valid]
        /\ y.c.array = x.c.array /\ y.c.data = x.c.data
        /\ y.l.st = x.l.st /\ y.l.rcvd = x.l.rcvd /\ y.l.verdicts = x.l.verdicts
        /\ y.l.split <=> \/ x.l.split
                         \/ ~x.c.header /\ x.l.arrived # << >> /\ Blank(x.l.arrived) = 0
    BY ReceivedIs
  <1>2. x.c \in Client /\ x.l \in Link /\ Attached(x)
    BY DEF Pair
  <1>3. PICK s \in Seq(Pieces) : s = x.l.arrived
    BY <1>2 DEF Link
  <1>4. PICK d \in Client :
        /\ d = Parsed(x.c, s)
        /\ x.c.header \/ s = << >> => d.code = x.c.code
        /\ ~x.c.header /\ s # << >> =>
             d.code = IF "200" \in HeadOf(s) THEN "200"
                      ELSE IF "403" \in HeadOf(s) THEN "403" ELSE x.c.code
    <2>1. PICK d \in Client :
            /\ d = Parsed(x.c, s)
            /\ x.c.header \/ s = << >> =>
                 d.code = x.c.code /\ d.length = x.c.length /\ d.content = x.c.content + Len(s)
            /\ ~x.c.header /\ s # << >> =>
                /\ d.code = IF "200" \in HeadOf(s) THEN "200"
                            ELSE IF "403" \in HeadOf(s) THEN "403" ELSE x.c.code
                /\ d.length = IF "length 1" \in HeadOf(s) THEN 1
                              ELSE IF "length 0" \in HeadOf(s) THEN 0 ELSE x.c.length
                /\ d.content = Len(s) - (IF Blank(s) = 0 THEN Len(s) ELSE Blank(s))
      BY <1>2, ParsedIs
    <2>. QED  BY <2>1
  <1>5. d.header <=> x.c.header \/ s # << >>
    BY <1>2, <1>4, ParsedMakesHeader
  <1>6. y.c.header = d.header /\ y.c.code = d.code
    BY <1>1, <1>3, <1>4 DEF Client
  <1>7. Unspoilt(y.l) /\ (Trying(y.l) => y.l.rcvd \o y.c.data \o y.c.array = Request("new"))
    BY <1>1 DEF AskedOnce, Unspoilt, Trying
  <1>8. /\ x.c.code # "" => x.c.header /\ x.l.verdicts = <<x.c.code>>
        /\ x.c.header /\ ~x.l.split => x.c.code # ""
    BY DEF AskedOnce
  <1>9. CASE x.c.header \/ s = << >>
    <2>1. /\ y.c.code = x.c.code /\ (y.c.header <=> x.c.header) /\ (y.l.split <=> x.l.split)
      BY <1>1, <1>3, <1>4, <1>5, <1>6, <1>9
    <2>2. /\ y.c.code # "" => y.c.header /\ y.l.verdicts = <<y.c.code>>
          /\ y.c.header /\ ~y.l.split => y.c.code # ""
      BY <1>1, <1>8, <2>1
    <2>. QED  BY <1>7, <2>2 DEF AskedOnce
  <1>10. CASE ~x.c.header /\ s # << >>
    <2>1. Answered(x)
      BY <1>3, <1>10 DEF Reading, Unanswered
    <2>2. PICK a \in Answers :
            x.l.verdicts = <<a[2]>> /\ \E p \in 0 .. Len(a) : ReadUpTo(x, a, p)
      BY <2>1 DEF Answered
    <2>3. PICK p \in 0 .. Len(a) : ReadUpTo(x, a, p)
      BY <2>2
    <2>4. ~x.l.split
      BY <1>2, <1>10 DEF Attached
    <2>5. p = 0
      BY <1>10, <2>3, <2>4 DEF ReadUpTo, Parsing
    <2>6. PICK k \in 1 .. Len(a) : s = SubSeq(a, 1, k)
      <3>1. PICK k \in Nat : \E m \in p + k .. Len(a) :
                /\ k = Len(x.l.arrived) /\ p + k \in 0 .. Len(a)
                /\ x.l.arrived = After(a, p, p + k)
                /\ x.l.sent = After(a, p + k, m) /\ (x.l.st = "up" => m = Len(a))
        BY <2>3, NextPieces
      <3>2. k # 0
        BY <1>3, <1>10, <3>1, EmptySeq
      <3>3. p + k = k /\ Len(a) \in Nat
        BY <2>5, AnswerIs
      <3>4. s = SubSeq(a, 1, k) /\ k \in 1 .. Len(a)
        BY <1>3, <2>5, <3>1, <3>2, <3>3 DEF After
      <3>. QED  BY <3>4
    <2>7. /\ "200" \in HeadOf(s) => a[2] = "200"
          /\ "403" \in HeadOf(s) => a[2] = "403"
          /\ Blank(s) # 0 => a[2] \in HeadOf(s)
      BY <2>6, HeadIs
    <2>8. a[2] \in {"200", "403"} /\ x.c.code = ""
      BY <1>8, <1>10, AnswerIs
    <2>9. d.code # "" => d.code = a[2]
      BY <1>4, <1>10, <2>7, <2>8
    <2>10. Blank(s) # 0 => d.code # ""
      BY <1>4, <1>10, <2>7, <2>8
    <2>11. y.c.code # "" => y.c.header /\ y.l.verdicts = <<y.c.code>>
      BY <1>1, <1>5, <1>6, <1>10, <2>2, <2>9
    <2>12. ~y.l.split => y.c.code # ""
      BY <1>1, <1>3, <1>6, <1>10, <2>10
    <2>. QED  BY <1>7, <2>11, <2>12 DEF AskedOnce
  <1>. QED  BY <1>9, <1>10

-----------------------------------------------------------------------------
(* One call of the handler.                                                *)

(* A send leaves what was read alone.                                      *)
LEMMA SentReads ==
    ASSUME NEW x, Pair(x), x.c.valid, x.l.st # "connecting", OneRest(x), NEW y \in Sent(x)
    PROVE  /\ Pair(y) /\ OneRest(y)
           /\ y.c.valid = x.c.valid /\ y.c.age = x.c.age /\ y.c.interval = x.c.interval
           /\ y.c.fd = x.c.fd /\ y.c.header = x.c.header /\ y.c.code = x.c.code
           /\ y.l.st = x.l.st /\ y.l.sent = x.l.sent /\ y.l.verdicts = x.l.verdicts
           /\ y.l.arrived = x.l.arrived /\ y.l.split = x.l.split
           /\ Unspoilt(y.l) => Unspoilt(x.l)
           /\ Reading(x) => Reading(y)
           /\ InOrder(x) => InOrder(y)
           /\ AskedOnce(x) => AskedOnce(y)
  <1>1. /\ Pair(y) /\ OneRest(y)
        /\ y.c = [x.c EXCEPT !.data = y.c.data, !.array = y.c.array]
        /\ y.l = [x.l EXCEPT !.rcvd = y.l.rcvd]
        /\ Trying(x.l) =>
             y.l.rcvd \o y.c.data \o y.c.array = x.l.rcvd \o x.c.data \o x.c.array
        /\ \A p \in ToSet(x.l.rcvd) : p \in ToSet(y.l.rcvd)
        /\ x.l.st # "up" => y.l = x.l
        /\ y.c.fd = x.c.fd /\ y.c.valid = x.c.valid /\ y.c.header = x.c.header
    BY SentIs
  <1>2. x.c \in Client /\ x.l \in Link
    BY DEF Pair
  <1>3. /\ y.c.valid = x.c.valid /\ y.c.age = x.c.age /\ y.c.interval = x.c.interval
        /\ y.c.fd = x.c.fd /\ y.c.header = x.c.header /\ y.c.code = x.c.code
        /\ y.c.length = x.c.length /\ y.c.content = x.c.content
    <2>3. /\ y.c.age = x.c.age /\ y.c.interval = x.c.interval /\ y.c.code = x.c.code
          /\ y.c.length = x.c.length /\ y.c.content = x.c.content
      BY <1>1, <1>2 DEF Client
    <2>. QED  BY <1>1, <2>3
  <1>4. /\ y.l.st = x.l.st /\ y.l.sent = x.l.sent /\ y.l.verdicts = x.l.verdicts
        /\ y.l.arrived = x.l.arrived /\ y.l.split = x.l.split
    BY <1>1, <1>2 DEF Link
  <1>5. Reading(x) => Reading(y)
    BY <1>3, <1>4, ReadingKept
  <1>6. InOrder(x) => InOrder(y)
    BY <1>1, <1>4 DEF InOrder, Trying
  <1>7. Unspoilt(y.l) => Unspoilt(x.l)
    BY <1>1 DEF Unspoilt
  <1>8. ASSUME AskedOnce(x) PROVE AskedOnce(y)
    <2>1. Trying(y.l) => y.l.rcvd \o y.c.data \o y.c.array = Request("new")
      BY <1>1, <1>4, <1>8 DEF AskedOnce, Trying
    <2>2. Unspoilt(y.l)
      <3>1. CASE Trying(y.l)
        <4>1. y.l \in Link /\ y.c.data \in Seq(Req) /\ y.c.array \in Seq(Req)
          <5>1. y.c.data \in Seq(Req) /\ y.c.array \in Arrays
            BY <1>1 DEF Pair, Client, Req, Arrays
          <5>. QED  BY <1>1, <5>1, ArrayIs DEF Pair
        <4>2. PICK d \in Seq(Req), a \in Seq(Req) : d = y.c.data /\ a = y.c.array
          BY <4>1
        <4>. QED  BY <2>1, <3>1, <4>1, <4>2, NewIsUnspoilt
      <3>2. CASE ~Trying(y.l)
        BY <1>1, <1>4, <1>8, <3>2 DEF AskedOnce, Unspoilt, Trying
      <3>. QED  BY <3>1, <3>2
    <2>. QED  BY <1>3, <1>4, <1>8, <2>1, <2>2 DEF AskedOnce
  <1>. QED  BY <1>1, <1>3, <1>4, <1>5, <1>6, <1>7, <1>8

(* Of a header that is there, or will be at the next read, in one piece.   *)
Hears(x) == IF x.c.header THEN ~x.l.split ELSE Blank(x.l.arrived) # 0

(* A call of CHttpClient::handler keeps each part of the invariant; it     *)
(* empties the socket, and has the header if that came in one piece.       *)
LEMMA HandlerIs ==
    ASSUME NEW x, Pair(x), OneRest(x), NEW y \in Handler(x)
    PROVE  /\ Pair(y) /\ OneRest(y)
           /\ y.c.age = x.c.age /\ y.c.interval = x.c.interval /\ y.c.fd = x.c.fd
           /\ y.l.st = x.l.st /\ y.l.sent = x.l.sent /\ y.l.verdicts = x.l.verdicts
           /\ Reading(x) => Reading(y)
           /\ InOrder(x) => InOrder(y)
           /\ AnswerRead(x) => AnswerRead(y)
           /\ AnswerRead(x) /\ AskedOnce(x) => AskedOnce(y)
           /\ x.c.valid => y.l.arrived = << >>
           /\ Hears(x) => y.c.header /\ ~y.l.split
  <1>0. x.c \in Client /\ x.l \in Link /\ Attached(x)
    BY DEF Pair
  <1>e. Blank(<< >>) = 0
    <2>. DEFINE I == {i \in 1 .. Len(<< >>) : << >>[i] = "blank"}
    <2>1. I = {}
      OBVIOUS
    <2>2. Blank(<< >>) = IF I # {} THEN Min(I) ELSE 0
      BY DEF Blank, SelectInSeq
    <2>. QED  BY <2>1, <2>2
  <1>1. CASE ~x.c.valid \/ x.l.st = "connecting"
    <2>1. y = x
      BY <1>1 DEF Handler
    <2>2. x.l.arrived = << >>
      <3>1. CASE ~x.c.valid
        BY <1>0, <3>1 DEF Attached
      <3>2. CASE x.l.st = "connecting"
        <4>1. x.l = [NoLink EXCEPT !.st = "connecting"]
          BY <1>0, <3>2 DEF Attached
        <4>. QED  BY <4>1 DEF NoLink
      <3>. QED  BY <1>1, <3>1, <3>2
    <2>3. Hears(x) => x.c.header /\ ~x.l.split
      BY <1>e, <2>2 DEF Hears
    <2>. QED  BY <2>1, <2>2, <2>3
  <1>2. CASE x.c.valid /\ x.l.st # "connecting"
    <2>. DEFINE readable == x.l.st # "up" \/ x.l.arrived # << >>
    <2>1. PICK z \in Sent(x) : y \in IF readable THEN Received(z) ELSE {z}
      BY <1>2 DEF Handler
    <2>2. /\ Pair(z) /\ OneRest(z)
          /\ z.c.valid = x.c.valid /\ z.c.age = x.c.age /\ z.c.interval = x.c.interval
          /\ z.c.fd = x.c.fd /\ z.c.header = x.c.header
          /\ z.l.st = x.l.st /\ z.l.sent = x.l.sent /\ z.l.verdicts = x.l.verdicts
          /\ z.l.arrived = x.l.arrived /\ z.l.split = x.l.split
          /\ Unspoilt(z.l) => Unspoilt(x.l)
          /\ Reading(x) => Reading(z)
          /\ InOrder(x) => InOrder(z)
          /\ AskedOnce(x) => AskedOnce(z)
      BY <1>2, SentReads
    <2>3. AnswerRead(x) => AnswerRead(z)
      BY <2>2 DEF AnswerRead
    <2>4. CASE ~readable
      <3>1. y = z /\ x.l.arrived = << >>
        BY <2>1, <2>4
      <3>2. Hears(x) => x.c.header /\ ~x.l.split
        BY <1>e, <3>1 DEF Hears
      <3>. QED  BY <2>2, <2>3, <3>1, <3>2
    <2>5. CASE readable
      <3>1. y \in Received(z) /\ z.c.valid /\ z.l.st # "connecting"
        BY <1>2, <2>1, <2>2, <2>5
      <3>2. /\ Pair(y) /\ y.c = [Parsed(z.c, z.l.arrived) EXCEPT !.valid = y.c.valid]
            /\ y.c.age = z.c.age /\ y.c.interval = z.c.interval /\ y.c.fd = z.c.fd
            /\ y.c.array = z.c.array /\ y.c.data = z.c.data
            /\ y.l.st = z.l.st /\ y.l.rcvd = z.l.rcvd /\ y.l.sent = z.l.sent
            /\ y.l.verdicts = z.l.verdicts /\ y.l.arrived = << >>
            /\ y.l.split <=> \/ z.l.split
                             \/ ~z.c.header /\ z.l.arrived # << >> /\ Blank(z.l.arrived) = 0
        BY <2>2, <3>1, ReceivedIs
      <3>3. OneRest(y) /\ (InOrder(z) => InOrder(y)) /\ (Unspoilt(y.l) <=> Unspoilt(z.l))
        <4>1. OneRest(y)
          BY <2>2, <3>2 DEF OneRest
        <4>2. InOrder(z) => InOrder(y)
          BY <3>2 DEF InOrder, Trying
        <4>3. Unspoilt(y.l) <=> Unspoilt(z.l)
          BY <3>2 DEF Unspoilt
        <4>. QED  BY <4>1, <4>2, <4>3
      <3>4. Reading(z) => Reading(y)
        BY <2>2, <3>1, ReceivedReads
      <3>5. AnswerRead(z) => AnswerRead(y)
        BY <3>3, <3>4 DEF AnswerRead
      <3>6. AnswerRead(z) /\ AskedOnce(z) => AskedOnce(y)
        <4>1. AnswerRead(z) /\ AskedOnce(z) => Reading(z)
          BY DEF AnswerRead, AskedOnce
        <4>. QED  BY <2>2, <3>1, <4>1, ReceivedAsks
      <3>7. y.c.header <=> z.c.header \/ z.l.arrived # << >>
        BY <2>2, <3>1, ReceivedIs
      <3>8. Hears(x) => y.c.header /\ ~y.l.split
        BY <1>0, <1>e, <2>2, <3>2, <3>7 DEF Hears, Attached
      <3>. QED  BY <2>2, <2>3, <3>2, <3>3, <3>4, <3>5, <3>6, <3>8
    <2>. QED  BY <2>4, <2>5
  <1>. QED  BY <1>1, <1>2

-----------------------------------------------------------------------------
(* Open and close.                                                         *)

Aged(x, a, i) == [x EXCEPT !.c.age = a, !.c.interval = i]

(* Neither the clock nor the interval matters to what was sent or read.    *)
LEMMA AgedIs ==
    ASSUME NEW x, Pair(x), NEW a \in 0 .. MaxAge, NEW i \in Intervals \cup {0}
    PROVE  /\ Pair(Aged(x, a, i)) /\ Aged(x, a, i).l = x.l
           /\ Aged(x, a, i).c.fd = x.c.fd /\ Aged(x, a, i).c.code = x.c.code
           /\ Aged(x, a, i).c.data = x.c.data
           /\ OneRest(x) => OneRest(Aged(x, a, i))
           /\ InOrder(x) => InOrder(Aged(x, a, i))
           /\ AnswerRead(x) => AnswerRead(Aged(x, a, i))
           /\ AskedOnce(x) => AskedOnce(Aged(x, a, i))
  <1>1. PICK y : y = Aged(x, a, i)
    OBVIOUS
  <1>2. y = [c |-> y.c, l |-> y.l] /\ y.c = [x.c EXCEPT !.age = a, !.interval = i] /\ y.l = x.l
    <2>1. x = [c |-> x.c, l |-> x.l]
      BY DEF Pair
    <2>2. PICK c, l : y = [c |-> c, l |-> l] /\ l = x.l /\ c = [x.c EXCEPT !.age = a, !.interval = i]
      BY <1>1, <2>1 DEF Aged
    <2>. QED  BY <2>2
  <1>3. x.c \in Client /\ x.l \in Link /\ Attached(x)
    BY DEF Pair
  <1>4. y.c \in Client
    BY <1>2, <1>3 DEF Client
  <1>5. y.c.fd = x.c.fd /\ y.c.valid = x.c.valid /\ y.c.header = x.c.header
    BY <1>2, <1>3, <1>4 DEF Client
  <1>6. /\ y.c.code = x.c.code /\ y.c.length = x.c.length /\ y.c.content = x.c.content
        /\ y.c.data = x.c.data /\ y.c.array = x.c.array
    BY <1>2, <1>3 DEF Client
  <1>7. Pair(y)
    <2>1. Attached(y)
      BY <1>2, <1>3, <1>5, <1>6 DEF Attached
    <2>. QED  BY <1>2, <1>3, <1>4, <2>1 DEF Pair
  <1>8. OneRest(x) => OneRest(y)
    BY <1>6 DEF OneRest
  <1>9. InOrder(x) => InOrder(y)
    BY <1>2, <1>6 DEF InOrder
  <1>10. Reading(x) => Reading(y)
    BY <1>2, <1>5, <1>6, ReadingKept
  <1>11. AnswerRead(x) => AnswerRead(y)
    BY <1>2, <1>10 DEF AnswerRead
  <1>12. AskedOnce(x) => AskedOnce(y)
    BY <1>2, <1>5, <1>6 DEF AskedOnce
  <1>. QED  BY <1>1, <1>2, <1>5, <1>6, <1>7, <1>8, <1>9, <1>11, <1>12

(* The ends of a request, piece by piece.                                  *)
LEMMA RestShape ==
    ASSUME NEW of \in {"new", "old"}, NEW n \in 1 .. 3
    PROVE  /\ SubSeq(Request(of), n, 2) = [i \in 1 .. 3 - n |-> <<of, n + i - 1>>]
           /\ SubSeq(Request(of), n, 2) \in Seq(Req) /\ Len(SubSeq(Request(of), n, 2)) = 3 - n
  <1>1. /\ Request(of) \in Seq(Req) /\ Len(Request(of)) = 2
        /\ Request(of)[1] = <<of, 1>> /\ Request(of)[2] = <<of, 2>>
    BY RequestIs
  <1>2. \A j \in 1 .. 2 : Request(of)[j] = <<of, j>>
    BY <1>1
  <1>3. PICK e : e = SubSeq(Request(of), n, 2)
    OBVIOUS
  <1>4. /\ e \in Seq(Req) /\ Len(e) = 3 - n
        /\ \A i \in 1 .. 3 - n : e[i] = Request(of)[n + i - 1]
    <2>1. \A j \in n .. 2 : Request(of)[j] \in Req
      BY <1>1, ElementOfSeq
    <2>. QED  BY <1>3, <2>1, SubSeqProperties
  <1>5. \A i \in 1 .. 3 - n : e[i] = <<of, n + i - 1>>
    <2>. SUFFICES ASSUME NEW i \in 1 .. 3 - n PROVE e[i] = <<of, n + i - 1>>
      OBVIOUS
    <2>1. PICK j \in 1 .. 2 : j = n + i - 1
      OBVIOUS
    <2>. QED  BY <1>2, <1>4, <2>1
  <1>6. DOMAIN e = 1 .. 3 - n /\ e = [i \in DOMAIN e |-> e[i]]
    BY <1>4, LenProperties
  <1>7. e = [i \in 1 .. 3 - n |-> <<of, n + i - 1>>]
    BY <1>5, <1>6
  <1>. QED  BY <1>3, <1>4, <1>7

(* With a new request the end of the last one becomes the end of an old    *)
(* one.                                                                    *)
LEMMA OlderRest ==
    ASSUME NEW of \in {"new", "old"}, NEW n \in 1 .. 3
    PROVE  Older(SubSeq(Request(of), n, 2)) = SubSeq(Request("old"), n, 2)
  <1>1. PICK d : d = SubSeq(Request(of), n, 2)
    OBVIOUS
  <1>2. d = [i \in 1 .. 3 - n |-> <<of, n + i - 1>>]
    BY <1>1, RestShape
  <1>3. DOMAIN d = 1 .. 3 - n /\ \A i \in 1 .. 3 - n : d[i][2] = n + i - 1
    BY <1>2
  <1>4. Older(d) = [i \in 1 .. 3 - n |-> <<"old", n + i - 1>>]
    BY <1>3 DEF Older
  <1>. QED  BY <1>1, <1>4, RestShape

(* Without a connection there is nothing to be out of order.               *)
LEMMA Idle ==
    ASSUME NEW x, x = [c |-> x.c, l |-> x.l], x.c \in Client, OneRest(x),
           ~x.c.fd, ~x.c.valid, ~x.c.header, x.c.length = -1, x.l = NoLink
    PROVE  Good(x) /\ Reading(x)
  <1>1. /\ x.l.st = "none" /\ x.l.rcvd = << >> /\ x.l.arrived = << >> /\ x.l.sent = << >>
        /\ x.l.verdicts = << >> /\ x.l.split = FALSE
    BY DEF NoLink
  <1>2. x.l \in Link
    <2>1. << >> \in Seq({"new", "old"} \X {1, 2}) /\ << >> \in Seq(Pieces)
          /\ << >> \in Seq({"200", "403"})
      OBVIOUS
    <2>. QED  BY <2>1 DEF NoLink, Link
  <1>3. Attached(x)
    <2>1. x.l = [NoLink EXCEPT !.st = x.l.st]
      BY DEF NoLink
    <2>. QED  BY <1>1, <2>1 DEF Attached, Trying
  <1>4. InOrder(x)
    BY <1>1 DEF InOrder, Trying
  <1>5. Reading(x)
    BY <1>1 DEF Reading, Unanswered
  <1>. QED  BY <1>2, <1>3, <1>4, <1>5 DEF Good, Pair, AnswerRead

(* A client as it is made.                                                 *)
LEMMA FreshIs == Good(Fresh) /\ ~Fresh.c.fd /\ Fresh.c.data = << >> /\ Fresh.c.code = ""
  <1>1. PICK x : x = Fresh
    OBVIOUS
  <1>2. x = [c |-> x.c, l |-> x.l] /\ x.c = NewClient /\ x.l = NoLink
    BY <1>1 DEF Fresh
  <1>a. /\ NewClient.fd = FALSE /\ NewClient.valid = FALSE /\ NewClient.header = FALSE
        /\ NewClient.length = -1 /\ NewClient.data = << >> /\ NewClient.code = ""
    BY DEF NewClient
  <1>b. NewClient \in Client
    <2>1. << >> \in Seq(Req) /\ << >> \in {<< >>, Request("new")} /\ 0 \in 0 .. MaxAge
          /\ FALSE \in BOOLEAN /\ -1 \in {-1, 0, 1} /\ 0 \in Nat
          /\ "" \in {"", "200", "403"} /\ 0 \in Intervals \cup {0}
      BY AgeBound
    <2>. QED  BY <2>1 DEF NewClient, Client, Req
  <1>3. x.c \in Client
    BY <1>2, <1>b
  <1>4. ~x.c.fd /\ ~x.c.valid /\ ~x.c.header
    BY <1>2, <1>a
  <1>5. x.c.length = -1 /\ x.c.data = << >> /\ x.c.code = ""
    BY <1>2, <1>a
  <1>6. OneRest(x)
    BY <1>5, NoRest DEF OneRest, IsRest
  <1>. QED  BY <1>1, <1>2, <1>3, <1>4, <1>5, <1>6, Idle

(* Nor is there without one that can be used.                              *)
LEMMA BareIs ==
    ASSUME NEW y, y = [c |-> y.c, l |-> y.l], y.c \in Client, OneRest(y), y.l \in Link,
           y.c.fd, ~y.c.valid, ~y.c.header, y.c.length = -1,
           NEW st \in {"unconnected", "bad"}, y.l = [NoLink EXCEPT !.st = st]
    PROVE  Good(y) /\ (y.c.code = "" => AskedOnce(y))
  <1>1. /\ y.l.st = st
        /\ y.l.rcvd = << >> /\ y.l.arrived = << >> /\ y.l.sent = << >>
        /\ y.l.verdicts = << >> /\ y.l.split = FALSE
    BY DEF NoLink
  <1>2. Attached(y)
    BY <1>1 DEF Attached, Trying
  <1>3. InOrder(y) /\ Reading(y)
    BY <1>1 DEF InOrder, Trying, Reading, Unanswered
  <1>4. Unspoilt(y.l)
    BY <1>1 DEF Unspoilt, ToSet
  <1>5. y.c.code = "" => AskedOnce(y)
    BY <1>1, <1>4 DEF AskedOnce, Trying
  <1>. QED  BY <1>2, <1>3, <1>5 DEF Good, Pair, AnswerRead

(* CHttpClient::close leaves a good client, whose m_out_data may still     *)
(* hold the end of a request; an m_fd of -1 stays what it is.              *)
LEMMA ClosedIs ==
    ASSUME NEW x, Pair(x), OneRest(x)
    PROVE  Good(Closed(x)) /\ ~Trying(Closed(x).l)
  <1>1. PICK y : y = Closed(x)
    OBVIOUS
  <1>2. /\ y = [c |-> y.c, l |-> y.l] /\ y.l = LinkLeft(x.l)
        /\ y.c = [Cleared(x.c) EXCEPT !.fd = (x.l.st = "bad"), !.valid = FALSE]
    BY <1>1 DEF Closed
  <1>3. x.c \in Client
    BY DEF Pair
  <1>4. y.c = [x.c EXCEPT !.header = FALSE, !.content = 0, !.length = -1, !.array = << >>,
                          !.fd = (x.l.st = "bad"), !.valid = FALSE]
    BY <1>2, <1>3 DEF Cleared, Client
  <1>5. y.c \in Client
    <2>1. << >> \in {<< >>, Request("new")} /\ -1 \in {-1, 0, 1} /\ 0 \in Nat
      OBVIOUS
    <2>. QED  BY <1>3, <1>4, <2>1 DEF Client
  <1>6. ~y.c.valid /\ ~y.c.header /\ y.c.length = -1 /\ y.c.data = x.c.data
    BY <1>3, <1>4 DEF Client
  <1>7. OneRest(y)
    BY <1>6 DEF OneRest
  <1>8. CASE x.l.st # "bad"
    <2>1. ~y.c.fd /\ y.l = NoLink
      BY <1>2, <1>3, <1>4, <1>8 DEF Client, LinkLeft
    <2>2. Good(y)
      BY <1>2, <1>5, <1>6, <1>7, <2>1, Idle
    <2>. QED  BY <1>1, <2>1, <2>2 DEF NoLink, Trying
  <1>9. CASE x.l.st = "bad"
    <2>1. y.c.fd /\ y.l = x.l
      BY <1>2, <1>3, <1>4, <1>9 DEF Client, LinkLeft
    <2>2. x.l \in Link /\ x.l = [NoLink EXCEPT !.st = "bad"]
      BY <1>9 DEF Pair, Attached
    <2>3. "bad" \in {"unconnected", "bad"} /\ y.l \in Link /\ y.l = [NoLink EXCEPT !.st = "bad"]
      BY <2>1, <2>2
    <2>4. Good(y)
      BY <1>2, <1>5, <1>6, <1>7, <2>1, <2>3, BareIs
    <2>. QED  BY <1>1, <1>9, <2>1, <2>4 DEF Trying
  <1>. QED  BY <1>8, <1>9

(* A client without a connection has read nothing.                         *)
LEMMA OffIs ==
    ASSUME NEW x, Good(x), ~x.c.fd
    PROVE  /\ x.l = NoLink /\ ~x.c.valid /\ ~x.c.header /\ x.c.length = -1 /\ Reading(x)
           /\ x.c.code = "" => AskedOnce(x)
  <1>1. Attached(x) /\ x.c \in Client /\ x.l \in Link
    BY DEF Good, Pair
  <1>2. x.l.st = "none"
    BY <1>1 DEF Attached
  <1>3. x.l = NoLink
    <2>1. x.l = [NoLink EXCEPT !.st = "none"]
      BY <1>1, <1>2 DEF Attached
    <2>. QED  BY <2>1 DEF NoLink
  <1>4. Unspoilt(x.l) /\ x.l.verdicts = << >>
    BY <1>3 DEF NoLink, Unspoilt, ToSet
  <1>5. Reading(x)
    BY <1>4 DEF Good, AnswerRead
  <1>6. ~Answered(x)
    BY <1>4 DEF Answered
  <1>7. ~x.c.header
    BY <1>5, <1>6 DEF Reading, Unanswered
  <1>8. x.c.code = "" => AskedOnce(x)
    BY <1>2, <1>4, <1>7 DEF AskedOnce, Trying
  <1>. QED  BY <1>1, <1>2, <1>3, <1>5, <1>7, <1>8 DEF Attached

(* A socket that could not be made or set up carries nothing.              *)
LEMMA UnconnectedIs ==
    ASSUME NEW x, Good(x), ~x.c.fd, NEW y \in Unconnected(x)
    PROVE  Good(y) /\ (x.c.code = "" => AskedOnce(y))
  <1>1. PICK st \in {"unconnected", "bad"} : y = [x EXCEPT !.c.fd = TRUE, !.l.st = st]
    BY DEF Unconnected
  <1>2. /\ x.c \in Client /\ x.l = NoLink /\ x.l \in Link /\ x = [c |-> x.c, l |-> x.l]
        /\ OneRest(x)
    BY OffIs DEF Good, Pair
  <1>3. /\ y = [c |-> y.c, l |-> y.l] /\ y.c = [x.c EXCEPT !.fd = TRUE]
        /\ y.l = [x.l EXCEPT !.st = st]
    BY <1>1, <1>2
  <1>4. ~x.c.valid /\ ~x.c.header /\ x.c.length = -1
    BY OffIs
  <1>5. y.c \in Client
    BY <1>2, <1>3 DEF Client
  <1>6. /\ y.c.fd /\ ~y.c.valid /\ ~y.c.header
    BY <1>2, <1>3, <1>4 DEF Client
  <1>7. y.c.length = -1 /\ y.c.data = x.c.data /\ y.c.code = x.c.code
    BY <1>2, <1>3, <1>4 DEF Client
  <1>8. y.l \in Link
    BY <1>2, <1>3 DEF Link
  <1>9. y.l = [NoLink EXCEPT !.st = st]
    BY <1>2, <1>3
  <1>10. OneRest(y)
    BY <1>2, <1>7 DEF OneRest
  <1>. QED  BY <1>3, <1>5, <1>6, <1>7, <1>8, <1>9, <1>10, BareIs

(* After CHttpClient::generate_http_request the end of the last request,   *)
(* if there is one, and the new request are to be sent.                    *)
LEMMA RequestedIs ==
    ASSUME NEW x, Good(x), ~x.c.fd, NEW z \in Connecting(x)
    PROVE  /\ Good(Requested(z))
           /\ x.c.data = << >> /\ x.c.code = "" => AskedOnce(Requested(z))
  <1>1. PICK y : y = Requested(z)
    OBVIOUS
  <1>2. /\ x.c \in Client /\ x.l = NoLink /\ x.l \in Link /\ x = [c |-> x.c, l |-> x.l]
    BY OffIs DEF Good, Pair
  <1>3. PICK st \in {"connecting", "up"} :
            z = [x EXCEPT !.c.fd = TRUE, !.c.valid = TRUE, !.l.st = st]
    BY DEF Connecting
  <1>4. PICK cz, lz : z = [c |-> cz, l |-> lz] /\ lz = [x.l EXCEPT !.st = st]
                      /\ cz = [x.c EXCEPT !.fd = TRUE, !.valid = TRUE]
    BY <1>2, <1>3
  <1>5. PICK of \in {"new", "old"}, n \in 1 .. 3 : x.c.data = SubSeq(Request(of), n, 2)
    BY DEF Good, OneRest
  <1>6. PICK e : e = SubSeq(Request("old"), n, 2) /\ e \in Seq(Req)
    BY RestShape
  <1>7. Older(x.c.data) = e
    BY <1>5, <1>6, OlderRest
  <1>8. cz \in Client /\ cz.data = x.c.data /\ cz.code = x.c.code
    BY <1>2, <1>4 DEF Client
  <1>9. cz.fd /\ cz.valid
    BY <1>2, <1>4 DEF Client
  <1>10. /\ y = [c |-> y.c, l |-> y.l] /\ y.l = lz
         /\ y.c = [Cleared(cz) EXCEPT !.array = Request("new"), !.data = Older(Cleared(cz).data)]
    <2>1. y = [z EXCEPT !.c = [Cleared(z.c) EXCEPT !.array = Request("new"),
                                                   !.data = Older(Cleared(z.c).data)]]
      BY <1>1 DEF Requested
    <2>. QED  BY <1>4, <2>1
  <1>11. y.c = [cz EXCEPT !.header = FALSE, !.content = 0, !.length = -1,
                          !.array = Request("new"), !.data = e]
    <2>1. Cleared(cz).data = x.c.data
      BY <1>8 DEF Cleared, Client
    <2>2. y.c = [Cleared(cz) EXCEPT !.array = Request("new"), !.data = e]
      BY <1>7, <1>10, <2>1
    <2>. QED  BY <1>8, <2>2 DEF Cleared, Client
  <1>12. y.c \in Client
    <2>1. Request("new") \in {<< >>, Request("new")} /\ -1 \in {-1, 0, 1} /\ 0 \in Nat
      OBVIOUS
    <2>2. e \in Seq({"new", "old"} \X {1, 2})
      BY <1>6 DEF Req
    <2>. QED  BY <1>8, <1>11, <2>1, <2>2 DEF Client
  <1>13. y.c.fd /\ y.c.valid /\ ~y.c.header
    BY <1>8, <1>9, <1>11 DEF Client
  <1>14. y.c.length = -1 /\ y.c.data = e /\ y.c.array = Request("new") /\ y.c.code = x.c.code
    BY <1>8, <1>11 DEF Client
  <1>15. y.l \in Link
    BY <1>2, <1>4, <1>10 DEF Link
  <1>16. /\ y.l = [NoLink EXCEPT !.st = st] /\ y.l.st = st
         /\ y.l.rcvd = << >> /\ y.l.arrived = << >> /\ y.l.sent = << >>
         /\ y.l.verdicts = << >> /\ y.l.split = FALSE
    BY <1>2, <1>4, <1>10 DEF NoLink
  <1>17. Attached(y)
    BY <1>13, <1>14, <1>16 DEF Attached, Trying
  <1>18. OneRest(y)
    BY <1>6, <1>14 DEF OneRest
  <1>19. y.l.rcvd \o y.c.data \o y.c.array = e \o Request("new")
    <2>1. << >> \o e = e
      BY <1>6, ConcatEmptySeq
    <2>. QED  BY <1>14, <1>16, <2>1
  <1>20. InOrder(y)
    BY <1>6, <1>19 DEF InOrder
  <1>21. Reading(y)
    BY <1>13, <1>16 DEF Reading, Unanswered
  <1>22. ASSUME x.c.data = << >>, x.c.code = "" PROVE AskedOnce(y)
    <2>1. e = << >>
      <3>1. DOMAIN Older(x.c.data) = DOMAIN x.c.data
        BY DEF Older
      <3>2. DOMAIN e = {}
        <4>1. DOMAIN << >> = {}
          OBVIOUS
        <4>2. DOMAIN x.c.data = {}
          BY <1>22, <4>1
        <4>. QED  BY <1>7, <3>1, <4>2
      <3>. QED  BY <1>6, <3>2, LenProperties, EmptySeq
    <2>2. Request("new") \in Seq(Req)
      BY RequestIs
    <2>3. y.l.rcvd \o y.c.data \o y.c.array = Request("new")
      BY <1>19, <2>1, <2>2, ConcatEmptySeq
    <2>4. Unspoilt(y.l)
      BY <1>16 DEF Unspoilt, ToSet
    <2>. QED  BY <1>13, <1>14, <1>16, <1>22, <2>3, <2>4 DEF AskedOnce
  <1>. QED  BY <1>1, <1>10, <1>12, <1>15, <1>17, <1>18, <1>20, <1>21, <1>22
            DEF Good, Pair, AnswerRead

(* Taking an m_fd of -1 for none leaves a good client.                     *)
LEMMA OffMade ==
    ASSUME NEW x, Good(x), NoSocket(x.l), NEW o, o = [x EXCEPT !.c.fd = FALSE, !.l = NoLink]
    PROVE  Good(o) /\ ~o.c.fd /\ o.c.code = x.c.code /\ o.c.data = x.c.data
  <1>1. x = [c |-> x.c, l |-> x.l] /\ x.c \in Client /\ Attached(x) /\ OneRest(x)
    BY DEF Good, Pair
  <1>2. x.l = [NoLink EXCEPT !.st = x.l.st]
    BY <1>1 DEF NoSocket, Attached
  <1>3. Unspoilt(x.l) /\ x.l.verdicts = << >>
    BY <1>2 DEF NoLink, Unspoilt, ToSet
  <1>4. Reading(x) /\ ~Answered(x)
    BY <1>3 DEF Good, AnswerRead, Answered
  <1>5. ~x.c.valid /\ ~x.c.header /\ x.c.length = -1
    BY <1>1, <1>4 DEF NoSocket, Attached, Reading, Unanswered
  <1>6. o = [c |-> o.c, l |-> o.l] /\ o.l = NoLink /\ o.c = [x.c EXCEPT !.fd = FALSE]
    BY <1>1
  <1>7. o.c \in Client /\ ~o.c.fd /\ ~o.c.valid /\ ~o.c.header
    BY <1>1, <1>5, <1>6 DEF Client
  <1>8. o.c.length = -1 /\ o.c.data = x.c.data /\ o.c.code = x.c.code
    BY <1>1, <1>5, <1>6 DEF Client
  <1>9. OneRest(o)
    BY <1>1, <1>8 DEF OneRest
  <1>. QED  BY <1>6, <1>7, <1>8, <1>9, Idle

(* CHttpClient::open makes a good client of a closed one; a client made    *)
(* for it has only the new request to send.                                *)
LEMMA OpenedIs ==
    ASSUME NEW x, Good(x), NEW i \in Intervals \cup {0}, NEW y \in Opened(x, i)
    PROVE  /\ Good(y)
           /\ x = Fresh => AskedOnce(y)
  <1>1. PICK b : b = Aged(x, 0, i)
    OBVIOUS
  <1>2. 0 \in 0 .. MaxAge
    BY AgeBound
  <1>3. /\ Good(b) /\ b.c.fd = x.c.fd /\ b.c.code = x.c.code /\ b.c.data = x.c.data
    BY <1>1, <1>2, AgedIs DEF Good
  <1>4. b = [x EXCEPT !.c.age = 0, !.c.interval = i]
    BY <1>1 DEF Aged
  <1>5. x = Fresh => ~b.c.fd /\ b.c.data = << >> /\ b.c.code = ""
    BY <1>3, FreshIs
  <1>6. PICK o : o = [b EXCEPT !.c.fd = FALSE, !.l = NoLink]
    OBVIOUS
  <1>7. b.l = x.l
    <2>1. x = [c |-> x.c, l |-> x.l]
      BY DEF Good, Pair
    <2>. QED  BY <1>4, <2>1
  <1>8. NoSocket(x.l) => /\ Good(o) /\ ~o.c.fd
                         /\ o.c.code = b.c.code /\ o.c.data = b.c.data
    BY <1>3, <1>6, <1>7, OffMade
  <1>9. \/ y = b
        \/ NoSocket(x.l) /\ y = o
        \/ NoSocket(x.l) /\ y \in Unconnected(o)
        \/ NoSocket(x.l) /\ \E z \in Connecting(o) : y \in Handler(Requested(z))
    BY <1>4, <1>6 DEF Opened
  <1>10. CASE y = b
    BY <1>3, <1>5, <1>10, OffIs
  <1>11. CASE NoSocket(x.l) /\ y = o
    BY <1>5, <1>8, <1>11, OffIs
  <1>12. CASE NoSocket(x.l) /\ y \in Unconnected(o)
    BY <1>5, <1>8, <1>12, UnconnectedIs
  <1>13. CASE NoSocket(x.l) /\ \E z \in Connecting(o) : y \in Handler(Requested(z))
    <2>1. PICK z \in Connecting(o) : y \in Handler(Requested(z))
      BY <1>13
    <2>2. PICK r : r = Requested(z)
      OBVIOUS
    <2>3. Good(r) /\ (x = Fresh => AskedOnce(r))
      BY <1>5, <1>8, <1>13, <2>2, RequestedIs
    <2>. QED  BY <2>1, <2>2, <2>3, HandlerIs DEF Good
  <1>. QED  BY <1>9, <1>10, <1>11, <1>12, <1>13

-----------------------------------------------------------------------------
(* What the network and the server do to a link.                           *)

With(x, l) == [c |-> x.c, l |-> l]

(* A client with another link.                                             *)
LEMMA WithIs ==
    ASSUME NEW x, NEW l
    PROVE  With(x, l).c = x.c /\ With(x, l).l = l /\ With(x, l) = [c |-> x.c, l |-> l]
  BY DEF With

(* The connection is established or refused.                               *)
LEMMA ConnectKeeps ==
    ASSUME NEW x, Good(x), x.l.st = "connecting", NEW st \in {"up", "failed"},
           NEW l, l = [x.l EXCEPT !.st = st]
    PROVE  Good(With(x, l)) /\ (AskedOnce(x) => AskedOnce(With(x, l)))
  <1>1. PICK y : y = With(x, l)
    OBVIOUS
  <1>2. y.c = x.c /\ y.l = l /\ y = [c |-> y.c, l |-> y.l]
    BY <1>1, WithIs
  <1>3. x.c \in Client /\ x.l \in Link /\ Attached(x)
    BY DEF Good, Pair
  <1>4. x.l = [NoLink EXCEPT !.st = "connecting"]
    BY <1>3 DEF Attached
  <1>5. /\ l \in Link /\ l.st = st /\ l.rcvd = x.l.rcvd /\ l.arrived = x.l.arrived
        /\ l.sent = x.l.sent /\ l.verdicts = x.l.verdicts /\ l.split = x.l.split
    BY <1>3 DEF Link
  <1>6. x.l.verdicts = << >> /\ x.l.rcvd = << >> /\ x.l.arrived = << >>
    BY <1>4 DEF NoLink
  <1>7. Attached(y)
    BY <1>2, <1>3, <1>5, <1>6 DEF Attached, Trying
  <1>8. Pair(y)
    BY <1>2, <1>3, <1>5, <1>7 DEF Pair
  <1>9. OneRest(y)
    BY <1>2 DEF Good, OneRest
  <1>10. InOrder(y)
    BY <1>2, <1>5 DEF Good, InOrder, Trying
  <1>11. Unspoilt(x.l)
    BY <1>6 DEF Unspoilt, ToSet
  <1>12. Unanswered(x)
    <2>1. ~Answered(x)
      BY <1>6 DEF Answered
    <2>. QED  BY <1>11, <2>1 DEF Good, AnswerRead, Reading
  <1>13. AnswerRead(y)
    BY <1>2, <1>5, <1>12 DEF AnswerRead, Reading, Unanswered
  <1>14. AskedOnce(x) => AskedOnce(y)
    BY <1>2, <1>5 DEF AskedOnce, Unspoilt, Trying
  <1>. QED  BY <1>1, <1>8, <1>9, <1>10, <1>13, <1>14 DEF Good

(* While its own bytes are all a connection carried, the server has at     *)
(* most the one request.                                                   *)
LEMMA OneAsked ==
    ASSUME NEW x, Good(x), Trying(x.l), Unspoilt(x.l)
    PROVE  Cardinality({i \in DOMAIN x.l.rcvd : x.l.rcvd[i][2] = 2}) <= 1
  <1>1. PICK g \in Seq(Req), d \in Seq(Req), a \in Seq(Req) :
            g = x.l.rcvd /\ d = x.c.data /\ a = x.c.array
    <2>1. x.c.array \in Arrays /\ x.l.rcvd \in Seq(Req) /\ x.c.data \in Seq(Req)
      BY DEF Good, Pair, Client, Link, Req, Arrays
    <2>. QED  BY <2>1, ArrayIs
  <1>2. PICK n \in 1 .. 3 : (g \o d) \o a = SubSeq(Request("old"), n, 2) \o Request("new")
    BY <1>1 DEF Good, InOrder
  <1>3. PICK e \in Seq(Req), r \in Seq(Req) : e = SubSeq(Request("old"), n, 2) /\ r = Request("new")
    <2>1. SubSeq(Request("old"), n, 2) \in Seq(Req) /\ Request("new") \in Seq(Req)
      BY RestShape, RequestIs
    <2>. QED  BY <2>1
  <1>4. Len(e) = 3 - n /\ \A i \in 1 .. 3 - n : e[i] = <<"old", n + i - 1>>
    <2>1. Len(e) = 3 - n /\ e = [i \in 1 .. 3 - n |-> <<"old", n + i - 1>>]
      BY <1>3, RestShape
    <2>. QED  BY <2>1
  <1>w. PICK w \in Seq(Req) : w = e \o r
    BY Joined
  <1>5. Len(r) = 2 /\ r[1] = <<"new", 1>> /\ r[2] = <<"new", 2>>
    BY <1>3, RequestIs
  <1>6. /\ DOMAIN w = 1 .. 5 - n
        /\ \A i \in 1 .. 5 - n : w[i] = IF i <= 3 - n THEN e[i] ELSE r[i - (3 - n)]
    <2>1. /\ Len(w) = Len(e) + Len(r)
          /\ \A i \in 1 .. Len(e) + Len(r) : w[i] = IF i <= Len(e) THEN e[i] ELSE r[i - Len(e)]
      BY <1>w, ConcatProperties
    <2>2. DOMAIN w = 1 .. Len(w) /\ Len(e) + Len(r) = 5 - n
      BY <1>4, <1>5, LenProperties
    <2>. QED  BY <1>4, <2>1, <2>2
  <1>7. ASSUME NEW i \in DOMAIN w, w[i][2] = 2, w[i] # <<"old", 2>> PROVE i = 5 - n
    <2>1. CASE i <= 3 - n
      <3>1. i \in 1 .. 3 - n /\ w[i] = e[i]
        BY <1>6, <2>1
      <3>2. w[i] = <<"old", n + i - 1>>
        BY <1>4, <3>1
      <3>3. n + i - 1 # 2
        BY <1>7, <3>2
      <3>4. n + i - 1 = 2
        BY <1>7, <3>2
      <3>. QED  BY <3>3, <3>4
    <2>2. CASE ~(i <= 3 - n)
      <3>0. PICK j \in 1 .. 2 : j = i - (3 - n)
        BY <1>6, <2>2
      <3>1. w[i] = r[j]
        BY <1>6, <2>2, <3>0
      <3>2. r[1][2] # 2
        BY <1>5
      <3>3. j = 2
        BY <1>7, <3>1, <3>2
      <3>. QED  BY <1>6, <3>0, <3>3
    <2>. QED  BY <2>1, <2>2
  <1>8. ASSUME NEW i \in DOMAIN g PROVE i \in DOMAIN w /\ w[i] = g[i]
    <2>1. PICK f \in Seq(Req) : f = g \o d
      BY Joined
    <2>2. i \in DOMAIN f /\ f[i] = g[i]
      BY <2>1, FrontOf
    <2>3. i \in DOMAIN (f \o a) /\ (f \o a)[i] = f[i]
      BY <2>2, FrontOf
    <2>. QED  BY <1>2, <1>3, <1>w, <2>1, <2>2, <2>3
  <1>9. \A i \in DOMAIN g : g[i] # <<"old", 2>>
    BY <1>1 DEF Unspoilt, ToSet
  <1>. DEFINE R == {i \in DOMAIN g : g[i][2] = 2}
  <1>10. R \in SUBSET {5 - n}
    BY <1>7, <1>8, <1>9
  <1>11. Cardinality(R) <= Cardinality({5 - n}) /\ Cardinality({5 - n}) = 1
    BY <1>10, FS_Singleton, FS_Subset
  <1>12. Cardinality(R) <= 1
    BY <1>11
  <1>. QED  BY <1>1, <1>12

(* The server answers a request, for the first time unless it took bytes   *)
(* of an earlier one for it.                                               *)
LEMMA AnswerKeeps ==
    ASSUME NEW x, Good(x), x.l.st = "up", NEW a \in Answers,
           Cardinality({i \in DOMAIN x.l.rcvd : x.l.rcvd[i][2] = 2}) > Len(x.l.verdicts),
           NEW l, l = [x.l EXCEPT !.sent = @ \o a, !.verdicts = Append(@, a[2])]
    PROVE  Good(With(x, l)) /\ (AskedOnce(x) => AskedOnce(With(x, l)))
  <1>1. PICK y : y = With(x, l)
    OBVIOUS
  <1>2. y.c = x.c /\ y.l = l /\ y = [c |-> y.c, l |-> y.l]
    BY <1>1, WithIs
  <1>3. x.c \in Client /\ x.l \in Link /\ Attached(x)
    BY DEF Good, Pair
  <1>4. PICK s \in Seq(Pieces), v \in Seq({"200", "403"}) : s = x.l.sent /\ v = x.l.verdicts
    BY <1>3 DEF Link
  <1>5. a \in Seq(Pieces) /\ a[2] \in {"200", "403"} /\ Len(a) \in Nat
    BY AnswerIs
  <1>6. PICK t \in Seq(Pieces), w \in Seq({"200", "403"}) : t = s \o a /\ w = Append(v, a[2])
    BY <1>5, ConcatProperties, AppendProperties
  <1>7. l = [x.l EXCEPT !.sent = t, !.verdicts = w]
    BY <1>4, <1>6
  <1>8. /\ l \in Link /\ l.st = x.l.st /\ l.rcvd = x.l.rcvd /\ l.arrived = x.l.arrived
        /\ l.sent = t /\ l.verdicts = w /\ l.split = x.l.split
    BY <1>3, <1>7 DEF Link
  <1>9. Attached(y)
    BY <1>2, <1>3, <1>8 DEF Attached, Trying
  <1>10. Pair(y)
    BY <1>2, <1>3, <1>8, <1>9 DEF Pair
  <1>11. OneRest(y)
    BY <1>2 DEF Good, OneRest
  <1>12. InOrder(y)
    BY <1>2, <1>8 DEF Good, InOrder, Trying
  <1>13. ASSUME Unspoilt(x.l) PROVE Unanswered(x) /\ v = << >>
    <2>1. Cardinality({i \in DOMAIN x.l.rcvd : x.l.rcvd[i][2] = 2}) <= 1
      BY <1>13, OneAsked DEF Trying
    <2>2. PICK n \in Nat : n = Cardinality({i \in DOMAIN x.l.rcvd : x.l.rcvd[i][2] = 2})
      <3>1. IsFiniteSet({i \in DOMAIN x.l.rcvd : x.l.rcvd[i][2] = 2})
        <4>1. PICK g \in Seq(Req) : g = x.l.rcvd
          BY <1>3 DEF Link, Req
        <4>2. PICK m \in Nat : DOMAIN g = 1 .. m
          BY LenProperties
        <4>3. IsFiniteSet(1 .. m)
          <5>1. 1 \in Int /\ m \in Int
            OBVIOUS
          <5>. QED  BY <5>1, FS_Interval
        <4>. QED  BY <4>1, <4>2, <4>3, FS_Subset
      <3>. QED  BY <3>1, FS_CardinalityType
    <2>3. Len(v) = 0
      <3>1. Len(v) \in Nat /\ n <= 1 /\ n > Len(v)
        BY <1>4, <2>1, <2>2
      <3>. QED  BY <3>1
    <2>4. v = << >>
      BY <2>3, EmptySeq
    <2>5. ~Answered(x)
      BY <1>4, <2>4 DEF Answered
    <2>. QED  BY <1>13, <2>4, <2>5 DEF Good, AnswerRead, Reading
  <1>14. ASSUME Unanswered(x), v = << >> PROVE Answered(y)
    <2>1. t = a /\ w = <<a[2]>>
      <3>1. s = << >>
        BY <1>4, <1>14 DEF Unanswered
      <3>. QED  BY <1>5, <1>6, <1>14, <3>1, ConcatEmptySeq
    <2>2. y.l.arrived \o y.l.sent = After(a, 0, Len(a))
      <3>1. y.l.arrived = << >> /\ y.l.sent = a
        BY <1>2, <1>8, <1>14, <2>1 DEF Unanswered
      <3>2. << >> \o a = a
        BY <1>5, ConcatEmptySeq
      <3>3. SubSeq(a, 1, Len(a)) = a
        BY <1>5, SubSeqFull
      <3>. QED  BY <3>1, <3>2, <3>3 DEF After
    <2>3. 0 \in 0 .. Len(a) /\ Len(a) \in 0 .. Len(a)
      BY <1>5
    <2>4. Parsing(y, a, 0)
      BY <1>2, <1>14 DEF Parsing, Unanswered
    <2>5. ReadUpTo(y, a, 0)
      BY <2>2, <2>3, <2>4 DEF ReadUpTo
    <2>6. y.l.verdicts = <<a[2]>>
      BY <1>2, <1>8, <2>1
    <2>. QED  BY <2>3, <2>5, <2>6 DEF Answered
  <1>15. AnswerRead(y)
    <2>1. Unspoilt(y.l) <=> Unspoilt(x.l)
      BY <1>2, <1>8 DEF Unspoilt
    <2>. QED  BY <1>13, <1>14, <2>1 DEF AnswerRead, Reading
  <1>16. ASSUME AskedOnce(x) PROVE AskedOnce(y)
    <2>1. ~x.c.header
      BY <1>13, <1>16 DEF AskedOnce, Unanswered
    <2>2. x.c.code = ""
      BY <1>16, <2>1 DEF AskedOnce
    <2>. QED  BY <1>2, <1>8, <1>16, <2>1, <2>2 DEF AskedOnce, Unspoilt, Trying
  <1>. QED  BY <1>1, <1>10, <1>11, <1>12, <1>15, <1>16 DEF Good

(* TCP delivers the next pieces of the answer.                             *)
LEMMA ArriveKeeps ==
    ASSUME NEW x, Good(x), x.l.st = "up", NEW n \in DOMAIN x.l.sent,
           NEW l, l = [x.l EXCEPT !.arrived = @ \o SubSeq(x.l.sent, 1, n),
                                  !.sent = SubSeq(@, n + 1, Len(@))]
    PROVE  Good(With(x, l)) /\ (AskedOnce(x) => AskedOnce(With(x, l)))
  <1>1. PICK y : y = With(x, l)
    OBVIOUS
  <1>2. y.c = x.c /\ y.l = l /\ y = [c |-> y.c, l |-> y.l]
    BY <1>1, WithIs
  <1>3. x.c \in Client /\ x.l \in Link /\ Attached(x)
    BY DEF Good, Pair
  <1>4. PICK s \in Seq(Pieces), t \in Seq(Pieces) : s = x.l.sent /\ t = x.l.arrived
    BY <1>3 DEF Link
  <1>5. n \in 0 .. Len(s) /\ s # << >>
    <2>1. DOMAIN s = 1 .. Len(s) /\ Len(s) \in Nat
      BY LenProperties
    <2>2. n \in 1 .. Len(s)
      BY <1>4, <2>1
    <2>. QED  BY <2>1, <2>2, EmptySeq
  <1>6. PICK u \in Seq(Pieces), v \in Seq(Pieces) :
            u = SubSeq(s, 1, n) /\ v = SubSeq(s, n + 1, Len(s)) /\ u \o v = s
    <2>1. /\ SubSeq(s, 1, n) \in Seq(Pieces) /\ SubSeq(s, n + 1, Len(s)) \in Seq(Pieces)
          /\ SubSeq(s, 1, n) \o SubSeq(s, n + 1, Len(s)) = s
      BY <1>5, CutInTwo
    <2>. QED  BY <2>1
  <1>7. t \o u \in Seq(Pieces) /\ (t \o u) \o v = t \o s
    <2>1. t \o u \in Seq(Pieces)
      BY ConcatProperties
    <2>2. (t \o u) \o v = t \o (u \o v)
      BY ConcatAssociative
    <2>. QED  BY <1>6, <2>1, <2>2
  <1>8. l = [x.l EXCEPT !.arrived = t \o u, !.sent = v]
    BY <1>4, <1>6
  <1>9. /\ l \in Link /\ l.st = x.l.st /\ l.rcvd = x.l.rcvd /\ l.arrived = t \o u
        /\ l.sent = v /\ l.verdicts = x.l.verdicts /\ l.split = x.l.split
    BY <1>3, <1>7, <1>8 DEF Link
  <1>10. Attached(y)
    BY <1>2, <1>3, <1>9 DEF Attached, Trying
  <1>11. Pair(y)
    BY <1>2, <1>3, <1>9, <1>10 DEF Pair
  <1>12. OneRest(y)
    BY <1>2 DEF Good, OneRest
  <1>13. InOrder(y)
    BY <1>2, <1>9 DEF Good, InOrder, Trying
  <1>14. Unspoilt(y.l) <=> Unspoilt(x.l)
    BY <1>2, <1>9 DEF Unspoilt
  <1>15. ASSUME Answered(x) PROVE Answered(y)
    <2>1. PICK a \in Answers :
            x.l.verdicts = <<a[2]>> /\ \E p \in 0 .. Len(a) : ReadUpTo(x, a, p)
      BY <1>15 DEF Answered
    <2>2. PICK p \in 0 .. Len(a) : ReadUpTo(x, a, p)
      BY <2>1
    <2>3. PICK m \in p .. Len(a) :
            x.l.arrived \o x.l.sent = After(a, p, m) /\ (x.l.st = "up" => m = Len(a))
      BY <2>2 DEF ReadUpTo
    <2>4. y.l.arrived \o y.l.sent = After(a, p, m)
      BY <1>2, <1>4, <1>7, <1>9, <2>3
    <2>5. ~y.l.split => Parsing(y, a, p)
      BY <1>2, <1>9, <2>2 DEF ReadUpTo, Parsing
    <2>6. ReadUpTo(y, a, p)
      BY <1>2, <1>9, <2>3, <2>4, <2>5 DEF ReadUpTo
    <2>. QED  BY <1>2, <1>9, <2>1, <2>6 DEF Answered
  <1>16. AnswerRead(y)
    <2>1. ~Unanswered(x)
      BY <1>4, <1>5 DEF Unanswered
    <2>. QED  BY <1>14, <1>15, <2>1 DEF Good, AnswerRead, Reading
  <1>17. AskedOnce(x) => AskedOnce(y)
    BY <1>2, <1>9, <1>14 DEF AskedOnce, Trying
  <1>. QED  BY <1>1, <1>11, <1>12, <1>13, <1>16, <1>17 DEF Good

(* The connection ends, what has arrived is kept or lost with it.          *)
LEMMA DisconnectKeeps ==
    ASSUME NEW x, Good(x), x.l.st = "up", NEW st \in {"closed", "failed"},
           NEW kept \in {x.l.arrived, << >>},
           NEW l, l = [x.l EXCEPT !.st = st, !.sent = << >>, !.arrived = kept]
    PROVE  Good(With(x, l)) /\ (AskedOnce(x) => AskedOnce(With(x, l)))
  <1>1. PICK y : y = With(x, l)
    OBVIOUS
  <1>2. y.c = x.c /\ y.l = l /\ y = [c |-> y.c, l |-> y.l]
    BY <1>1, WithIs
  <1>3. x.c \in Client /\ x.l \in Link /\ Attached(x)
    BY DEF Good, Pair
  <1>4. kept \in Seq(Pieces) /\ << >> \in Seq(Pieces)
    BY <1>3, EmptySeq DEF Link
  <1>5. /\ l \in Link /\ l.st = st /\ l.rcvd = x.l.rcvd /\ l.arrived = kept
        /\ l.sent = << >> /\ l.verdicts = x.l.verdicts /\ l.split = x.l.split
    BY <1>3, <1>4 DEF Link
  <1>6. Attached(y)
    BY <1>2, <1>3, <1>5 DEF Attached, Trying
  <1>7. Pair(y)
    BY <1>2, <1>3, <1>5, <1>6 DEF Pair
  <1>8. OneRest(y)
    BY <1>2 DEF Good, OneRest
  <1>9. InOrder(y)
    BY <1>2, <1>5 DEF InOrder, Trying
  <1>10. Unspoilt(y.l) <=> Unspoilt(x.l)
    BY <1>2, <1>5 DEF Unspoilt
  <1>11. ASSUME Answered(x) PROVE Answered(y)
    <2>1. PICK a \in Answers :
            x.l.verdicts = <<a[2]>> /\ \E p \in 0 .. Len(a) : ReadUpTo(x, a, p)
      BY <1>11 DEF Answered
    <2>2. PICK p \in 0 .. Len(a) : ReadUpTo(x, a, p)
      BY <2>1
    <2>3. PICK k \in Nat : \E m \in p + k .. Len(a) :
            /\ k = Len(x.l.arrived) /\ p + k \in 0 .. Len(a)
            /\ x.l.arrived = After(a, p, p + k)
            /\ x.l.sent = After(a, p + k, m) /\ (x.l.st = "up" => m = Len(a))
      BY <1>3, <2>2, NextPieces DEF Good
    <2>4. \E m \in p .. Len(a) : kept = After(a, p, m)
      <3>1. Len(a) \in Nat
        BY AnswerIs
      <3>2. CASE kept = x.l.arrived
        <4>1. p + k \in p .. Len(a)
          BY <2>3, <3>1
        <4>. QED  BY <2>3, <3>2, <4>1
      <3>3. CASE kept = << >>
        <4>1. SubSeq(a, p + 1, p) = << >>
          BY SubSeqEmpty
        <4>2. p \in p .. Len(a)
          BY <3>1
        <4>. QED  BY <3>3, <4>1, <4>2 DEF After
      <3>. QED  BY <3>2, <3>3
    <2>5. kept \o << >> = kept
      BY <1>4, ConcatEmptySeq
    <2>6. \E m \in p .. Len(a) : y.l.arrived \o y.l.sent = After(a, p, m)
      BY <1>2, <1>5, <2>4, <2>5
    <2>7. ~y.l.split => Parsing(y, a, p)
      BY <1>2, <1>5, <2>2 DEF ReadUpTo, Parsing
    <2>8. y.l.st # "up"
      BY <1>2, <1>5
    <2>9. ReadUpTo(y, a, p)
      BY <2>6, <2>7, <2>8 DEF ReadUpTo
    <2>. QED  BY <1>2, <1>5, <2>1, <2>9 DEF Answered
  <1>12. ASSUME Unanswered(x) PROVE Unanswered(y)
    BY <1>2, <1>5, <1>12 DEF Unanswered
  <1>13. AnswerRead(y)
    BY <1>10, <1>11, <1>12 DEF Good, AnswerRead, Reading
  <1>14. AskedOnce(x) => AskedOnce(y)
    BY <1>2, <1>5, <1>10 DEF AskedOnce, Trying
  <1>. QED  BY <1>1, <1>7, <1>8, <1>9, <1>13, <1>14 DEF Good

-----------------------------------------------------------------------------
(* The invariant is inductive.                                             *)

(* What a step makes is good if it makes a good client and link.           *)
LEMMA StepTo ==
    ASSUME NEW z, Good(z), Become(z), phase' = "asking" => AskedOnce(z),
           phase' \in Phases, reloads' \in 0 .. MaxReloads
    PROVE  IInv'
  <1>1. Now' = z
    BY DEF Become, Now, Good, Pair
  <1>2. Good(Now)' /\ (phase' = "asking" => AskedOnce(Now)')
    BY <1>1
  <1>. QED  BY <1>2 DEF IInv

(* The two parts of the invariant, over a call of the handler.             *)
LEMMA Handled ==
    ASSUME NEW x, Good(x), NEW y \in Handler(x)
    PROVE  Good(y) /\ (AskedOnce(x) => AskedOnce(y))
  BY HandlerIs DEF Good

(* It holds at first.                                                      *)
LEMMA InitHolds == Init => IInv
  <1>. SUFFICES ASSUME Init PROVE IInv
    OBVIOUS
  <1>1. CASE phase = "gone" /\ m_http_client = NewClient /\ link = NoLink
    <2>1. Now = Fresh
      BY <1>1 DEF Now, Fresh
    <2>2. Good(Now)
      BY <2>1, FreshIs
    <2>3. phase \in Phases /\ phase # "asking" /\ reloads \in 0 .. MaxReloads
      BY <1>1, HttpAssumption DEF Init, Phases
    <2>. QED  BY <2>2, <2>3 DEF IInv
  <1>2. CASE /\ phase = "stat"
             /\ \E i \in Intervals : \E x \in Opened(Fresh, i) :
                    m_http_client = x.c /\ link = x.l
    <2>0. PICK i \in Intervals \cup {0} :
            \E x \in Opened(Fresh, i) : m_http_client = x.c /\ link = x.l
      BY <1>2
    <2>1. PICK x \in Opened(Fresh, i) : m_http_client = x.c /\ link = x.l
      BY <2>0
    <2>2. Good(x)
      BY FreshIs, OpenedIs
    <2>3. Now = x
      BY <2>1, <2>2 DEF Now, Good, Pair
    <2>. QED  BY <1>2, <2>2, <2>3, HttpAssumption DEF Init, IInv, Phases
  <1>. QED  BY <1>1, <1>2 DEF Init

(* A round of main's loop keeps it.                                        *)
LEMMA StatLoopKeeps ==
    ASSUME IInv, StatLoop
    PROVE  IInv'
  <1>1. PICK x : x = Now /\ Good(x)
    BY DEF IInv
  <1>2. PICK y \in IF ~x.c.valid /\ Repeats(x.c) THEN Opened(Closed(x), x.c.interval) ELSE {x} :
            \E z \in Handler(y) : Become(IF Ended(z.c) THEN Closed(z) ELSE z)
    BY <1>1 DEF StatLoop
  <1>3. Good(y)
    <2>1. CASE y = x
      BY <1>1, <2>1
    <2>2. CASE y \in Opened(Closed(x), x.c.interval)
      <3>1. PICK i \in Intervals \cup {0} : i = x.c.interval
        BY <1>1 DEF Good, Pair, Client
      <3>2. Good(Closed(x))
        BY <1>1, ClosedIs DEF Good
      <3>. QED  BY <2>2, <3>1, <3>2, OpenedIs
    <2>. QED  BY <1>2, <2>1, <2>2
  <1>4. PICK z \in Handler(y) : Become(IF Ended(z.c) THEN Closed(z) ELSE z)
    BY <1>2
  <1>5. Good(z) /\ Good(Closed(z))
    <2>1. Good(z)
      BY <1>3, Handled
    <2>. QED  BY <2>1, ClosedIs DEF Good
  <1>6. phase' = "stat" /\ phase' \in Phases /\ reloads' \in 0 .. MaxReloads
    BY DEF StatLoop, IInv, Phases
  <1>7. CASE Ended(z.c)
    <2>1. Become(Closed(z))
      BY <1>4, <1>7
    <2>. QED  BY <1>5, <1>6, <2>1, StepTo
  <1>8. CASE ~Ended(z.c)
    <2>1. Become(z)
      BY <1>4, <1>8
    <2>. QED  BY <1>5, <1>6, <2>1, StepTo
  <1>. QED  BY <1>7, <1>8

(* A reload keeps it, with an interval nobody knows.                       *)
LEMMA ReloadKeeps ==
    ASSUME IInv, Reload
    PROVE  IInv'
  <1>1. PICK x : x = Now /\ Good(x)
    BY DEF IInv
  <1>2. PICK y \in {x} \cup UNION {Opened(x, i) : i \in Intervals \cup {0}} : Become(y)
    BY <1>1 DEF Reload
  <1>3. Good(y)
    <2>1. CASE y = x
      BY <1>1, <2>1
    <2>2. CASE \E i \in Intervals \cup {0} : y \in Opened(x, i)
      BY <1>1, <2>2, OpenedIs
    <2>. QED  BY <1>2, <2>1, <2>2
  <1>4. phase' = "stat" /\ phase' \in Phases /\ reloads' \in 0 .. MaxReloads
    BY HttpAssumption DEF Reload, IInv, Phases
  <1>. QED  BY <1>2, <1>3, <1>4, StepTo

(* What a role does with its client keeps it.                              *)
LEMMA RoleKeeps ==
    ASSUME IInv, OnConnect \/ CheckHttpPassed \/ InvalidSrt \/ Uninit
    PROVE  IInv'
  <1>1. PICK x : x = Now /\ Good(x) /\ (phase = "asking" => AskedOnce(x))
    BY DEF IInv
  <1>2. phase \in Phases /\ reloads \in 0 .. MaxReloads
    BY DEF IInv
  <1>3. 0 \in Intervals \cup {0}
    OBVIOUS
  <1>4. CASE OnConnect
    <2>1. PICK y \in Opened(Fresh, 0) : Become(y)
      BY <1>4 DEF OnConnect
    <2>2. Good(y) /\ AskedOnce(y)
      BY <1>3, FreshIs, OpenedIs
    <2>3. phase' \in Phases /\ reloads' \in 0 .. MaxReloads
      BY <1>2, <1>4 DEF OnConnect, Phases
    <2>. QED  BY <2>1, <2>2, <2>3, StepTo
  <1>5. CASE CheckHttpPassed
    <2>1. PICK y \in Handler(x) :
            IF Ended(y.c) THEN Become(Fresh) /\ phase' = Verdict(y.c)
            ELSE Become(y) /\ UNCHANGED phase
      BY <1>1, <1>5 DEF CheckHttpPassed
    <2>2. Good(y) /\ AskedOnce(y)
      BY <1>1, <1>5, Handled DEF CheckHttpPassed
    <2>3. reloads' \in 0 .. MaxReloads
      BY <1>2, <1>5 DEF CheckHttpPassed
    <2>4. CASE Ended(y.c)
      <3>1. Become(Fresh) /\ phase' \in Phases /\ phase' # "asking"
        BY <2>1, <2>4 DEF Verdict, Phases
      <3>. QED  BY <2>3, <3>1, FreshIs, StepTo
    <2>5. CASE ~Ended(y.c)
      <3>1. Become(y) /\ phase' \in Phases
        BY <1>2, <2>1, <2>5
      <3>. QED  BY <2>2, <2>3, <3>1, StepTo
    <2>. QED  BY <2>4, <2>5
  <1>6. CASE InvalidSrt
    <2>1. reloads' \in 0 .. MaxReloads /\ phase' \in Phases /\ phase' # "asking"
      BY <1>2, <1>6 DEF InvalidSrt, Phases
    <2>2. CASE UNCHANGED <<m_http_client, link>>
      <3>1. Become(x)
        BY <1>1, <2>2 DEF Become, Now
      <3>. QED  BY <1>1, <2>1, <3>1, StepTo
    <2>3. CASE \E y \in Opened(Fresh, 0) : Become(y)
      <3>1. PICK y \in Opened(Fresh, 0) : Become(y)
        BY <2>3
      <3>2. Good(y)
        BY <1>3, FreshIs, OpenedIs
      <3>. QED  BY <2>1, <3>1, <3>2, StepTo
    <2>. QED  BY <1>6, <2>2, <2>3 DEF InvalidSrt
  <1>7. CASE Uninit
    <2>1. Become(Fresh) /\ phase' \in Phases /\ phase' # "asking" /\ reloads' \in 0 .. MaxReloads
      BY <1>2, <1>7 DEF Uninit, Phases
    <2>. QED  BY <2>1, FreshIs, StepTo
  <1>. QED  BY <1>4, <1>5, <1>6, <1>7

(* The network, the server and the clock do not touch the phase.           *)
LEMMA LinkTo ==
    ASSUME IInv, NEW x, x = Now, NEW l, link' = l, Environment,
           Good(With(x, l)) /\ (AskedOnce(x) => AskedOnce(With(x, l)))
    PROVE  IInv'
  <1>1. Become(With(x, l))
    <2>1. With(x, l).c = x.c /\ With(x, l).l = l
      BY WithIs
    <2>2. x.c = m_http_client
      BY DEF Now
    <2>. QED  BY <2>1, <2>2 DEF Become, Environment
  <1>2. phase' = phase /\ phase' \in Phases /\ reloads' \in 0 .. MaxReloads
    BY DEF Environment, IInv
  <1>3. phase' = "asking" => AskedOnce(With(x, l))
    BY <1>2 DEF IInv
  <1>. QED  BY <1>1, <1>2, <1>3, StepTo

(* Whatever the network and the server do keeps it.                        *)
LEMMA NetworkKeeps ==
    ASSUME IInv, Connect \/ Answer \/ Arrive \/ Disconnect
    PROVE  IInv'
  <1>1. PICK x : x = Now /\ Good(x) /\ x.l = link
    BY DEF IInv, Now
  <1>2. CASE Connect
    <2>1. PICK st \in {"up", "failed"} : link' = [link EXCEPT !.st = st]
      BY <1>2 DEF Connect
    <2>2. PICK l : l = [x.l EXCEPT !.st = st] /\ link' = l
      BY <1>1, <2>1
    <2>3. x.l.st = "connecting" /\ Environment
      BY <1>1, <1>2 DEF Connect
    <2>4. Good(With(x, l)) /\ (AskedOnce(x) => AskedOnce(With(x, l)))
      BY <1>1, <2>2, <2>3, ConnectKeeps
    <2>. QED  BY <1>1, <2>2, <2>3, <2>4, LinkTo
  <1>3. CASE Answer
    <2>1. PICK a \in Answers :
            link' = [link EXCEPT !.sent = @ \o a, !.verdicts = Append(@, a[2])]
      BY <1>3 DEF Answer
    <2>2. PICK l : l = [x.l EXCEPT !.sent = @ \o a, !.verdicts = Append(@, a[2])] /\ link' = l
      BY <1>1, <2>1
    <2>3. /\ x.l.st = "up" /\ Environment
          /\ Cardinality({i \in DOMAIN x.l.rcvd : x.l.rcvd[i][2] = 2}) > Len(x.l.verdicts)
      BY <1>1, <1>3 DEF Answer, Requests
    <2>4. Good(With(x, l)) /\ (AskedOnce(x) => AskedOnce(With(x, l)))
      BY <1>1, <2>2, <2>3, AnswerKeeps
    <2>. QED  BY <1>1, <2>2, <2>3, <2>4, LinkTo
  <1>4. CASE Arrive
    <2>1. PICK n \in DOMAIN x.l.sent :
            link' = [x.l EXCEPT !.arrived = @ \o SubSeq(x.l.sent, 1, n),
                                !.sent = SubSeq(@, n + 1, Len(@))]
      BY <1>1, <1>4 DEF Arrive
    <2>2. PICK l : /\ l = [x.l EXCEPT !.arrived = @ \o SubSeq(x.l.sent, 1, n),
                                      !.sent = SubSeq(@, n + 1, Len(@))]
                   /\ link' = l
      BY <2>1
    <2>3. x.l.st = "up" /\ Environment
      BY <1>1, <1>4 DEF Arrive
    <2>4. Good(With(x, l)) /\ (AskedOnce(x) => AskedOnce(With(x, l)))
      BY <1>1, <2>2, <2>3, ArriveKeeps
    <2>. QED  BY <1>1, <2>2, <2>3, <2>4, LinkTo
  <1>5. CASE Disconnect
    <2>1. x.l.st = "up" /\ Environment /\ x.l \in Link
      BY <1>1, <1>5 DEF Disconnect, Good, Pair
    <2>2. PICK st \in {"closed", "failed"}, kept \in {x.l.arrived, << >>} :
            link' = [x.l EXCEPT !.st = st, !.sent = << >>, !.arrived = kept]
      <3>1. CASE link' = [link EXCEPT !.st = "closed", !.sent = << >>]
        <4>1. link' = [x.l EXCEPT !.st = "closed", !.sent = << >>, !.arrived = x.l.arrived]
          BY <1>1, <2>1, <3>1 DEF Link
        <4>. QED  BY <4>1
      <3>2. CASE \E kept \in {link.arrived, << >>} :
                    link' = [link EXCEPT !.st = "failed", !.sent = << >>, !.arrived = kept]
        BY <1>1, <3>2
      <3>. QED  BY <1>5, <3>1, <3>2 DEF Disconnect
    <2>3. PICK l : l = [x.l EXCEPT !.st = st, !.sent = << >>, !.arrived = kept] /\ link' = l
      BY <2>2
    <2>4. Good(With(x, l)) /\ (AskedOnce(x) => AskedOnce(With(x, l)))
      BY <1>1, <2>1, <2>3, DisconnectKeeps
    <2>. QED  BY <1>1, <2>1, <2>3, <2>4, LinkTo
  <1>. QED  BY <1>2, <1>3, <1>4, <1>5

(* Time that passes keeps it.                                              *)
LEMMA TickKeeps ==
    ASSUME IInv, Tick
    PROVE  IInv'
  <1>1. PICK x : x = Now /\ Good(x) /\ (phase = "asking" => AskedOnce(x))
    BY DEF IInv
  <1>2. x.c = m_http_client /\ x.l = link /\ x.c \in Client
    BY <1>1 DEF Now, Good, Pair
  <1>3. PICK a \in 0 .. MaxAge, i \in Intervals \cup {0} : a = x.c.age + 1 /\ i = x.c.interval
    <2>1. x.c.age \in 0 .. MaxAge /\ x.c.age < MaxAge /\ x.c.interval \in Intervals \cup {0}
      BY <1>2 DEF Tick, Client
    <2>2. x.c.age + 1 \in 0 .. MaxAge
      BY <2>1, AgeBound
    <2>. QED  BY <2>1, <2>2
  <1>4. PICK z : z = Aged(x, a, i)
    OBVIOUS
  <1>5. Good(z) /\ (AskedOnce(x) => AskedOnce(z))
    BY <1>1, <1>4, AgedIs DEF Good
  <1>6. Become(z)
    <2>1. x = [c |-> x.c, l |-> x.l]
      BY <1>1 DEF Good, Pair
    <2>2. z.l = x.l /\ z.c = [x.c EXCEPT !.age = a, !.interval = i]
      BY <1>4, <2>1 DEF Aged
    <2>3. z.c = [x.c EXCEPT !.age = a]
      BY <1>2, <1>3, <2>2 DEF Client
    <2>4. m_http_client' = [x.c EXCEPT !.age = a]
      BY <1>2, <1>3 DEF Tick
    <2>. QED  BY <1>2, <2>2, <2>3, <2>4 DEF Become, Tick
  <1>7. phase' = phase /\ phase' \in Phases /\ reloads' \in 0 .. MaxReloads
    BY DEF Tick, IInv
  <1>. QED  BY <1>1, <1>5, <1>6, <1>7, StepTo

(* And so does a step that changes nothing.                                *)
LEMMA StutterKeeps ==
    ASSUME IInv, UNCHANGED vars
    PROVE  IInv'
  <1>1. Now' = Now /\ phase' = phase /\ reloads' = reloads
    BY DEF vars, Now
  <1>. QED  BY <1>1 DEF IInv

(* In every reachable state client and link fit together: the bytes to be  *)
(* sent continue those that were, and what was read of the answer is its   *)
(* beginning (CHttpClient::send, CHttpClient::recv).                       *)
THEOREM Invariant == Spec => []IInv
  <1>1. IInv /\ [Next]_vars => IInv'
    BY StatLoopKeeps, ReloadKeeps, RoleKeeps, NetworkKeeps, TickKeeps, StutterKeeps DEF Next
  <1>. QED  BY InitHolds, <1>1, PTL DEF Spec

(* The client, its link and the users' phases stay within their types.     *)
THEOREM TypeCorrect == Spec => []TypeOK
  <1>1. IInv => TypeOK
    <2>. SUFFICES ASSUME IInv PROVE TypeOK
      OBVIOUS
    <2>1. Now.c = m_http_client /\ Now.l = link
      BY DEF Now
    <2>2. Now.c \in Client /\ Now.l \in Link /\ Attached(Now)
      BY DEF IInv, Good, Pair
    <2>3. m_http_client \in Client /\ link \in Link
      BY <2>1, <2>2
    <2>4. /\ m_http_client.fd <=> link.st # "none"
          /\ m_http_client.valid => link.st \notin {"none", "bad", "unconnected"}
      BY <2>1, <2>2 DEF Attached
    <2>5. /\ link.st \in {"none", "bad", "unconnected", "connecting", "up", "failed", "closed"}
          /\ link.arrived \in Seq(Pieces) /\ link.sent \in Seq(Pieces)
      BY <2>3 DEF Link
    <2>6. phase \in Phases /\ reloads \in 0 .. MaxReloads
      BY DEF IInv
    <2>. QED  BY <2>3, <2>4, <2>5, <2>6 DEF TypeOK, Client, Phases
  <1>. QED  BY Invariant, <1>1, PTL

(* For whatever numbers of pieces the writes take and whenever connections *)
(* are lost: the bytes on a connection are the request's, in order, after  *)
(* at most the rest of one earlier request.                                *)
THEOREM WireInOrderCorrect == Spec => []WireInOrder
  <1>1. IInv => WireInOrder
    <2>. SUFFICES ASSUME IInv PROVE WireInOrder
      OBVIOUS
    <2>1. Now.c = m_http_client /\ Now.l = link
      BY DEF Now
    <2>2. InOrder(Now)
      BY DEF IInv, Good
    <2>. QED  BY <2>1, <2>2 DEF InOrder, Trying, WireInOrder
  <1>. QED  BY Invariant, <1>1, PTL

(* A request that is found to be ended (CHttpClient::check_finished) was   *)
(* answered and the answer delivered.                                      *)
LEMMA EndedIs ==
    ASSUME NEW x, Good(x), Trying(x.l), x.c.age < Timeout, Hears(x), Unspoilt(x.l),
           NEW z \in Handler(x), Ended(z.c)
    PROVE  x.l.verdicts # << >> /\ x.l.sent = << >>
  <1>1. /\ z.c.age = x.c.age /\ z.c.fd = x.c.fd
        /\ z.l.sent = x.l.sent /\ z.l.verdicts = x.l.verdicts
        /\ Reading(x) => Reading(z)
        /\ x.c.valid => z.l.arrived = << >>
        /\ z.c.header /\ ~z.l.split
    BY HandlerIs DEF Good
  <1>2. x.c \in Client /\ Attached(x) /\ x.c.valid /\ x.c.fd /\ Reading(x)
    BY DEF Good, Pair, Attached, Trying, AnswerRead
  <1>3. z.c.length = z.c.content
    <2>1. x.c.age \in Nat /\ Timeout \in Nat
      <3>1. x.c.age \in 0 .. MaxAge
        BY <1>2 DEF Client
      <3>. QED  BY <3>1, HttpAssumption, AgeBound
    <2>2. ~TimedOut(z.c)
      BY <1>1, <1>2, <2>1 DEF TimedOut
    <2>. QED  BY <1>1, <1>2, <2>2 DEF Ended, Finished
  <1>4. Answered(z)
    BY <1>1, <1>2 DEF Reading, Unanswered
  <1>5. PICK a \in Answers :
            z.l.verdicts = <<a[2]>> /\ \E p \in 0 .. Len(a) : ReadUpTo(z, a, p)
    BY <1>4 DEF Answered
  <1>6. PICK p \in 0 .. Len(a) : ReadUpTo(z, a, p)
    BY <1>5
  <1>7. /\ Len(a) \in Nat /\ Blank(a) \in Nat
        /\ FieldOf(a) \in {-1, Len(a) - Blank(a)}
    BY AnswerIs
  <1>8. Blank(a) <= p /\ FieldOf(a) = p - Blank(a)
    BY <1>1, <1>3, <1>6 DEF ReadUpTo, Parsing
  <1>9. p = Len(a)
    BY <1>7, <1>8
  <1>10. z.l.arrived \o z.l.sent = After(a, p, p)
    <2>1. PICK m \in p .. Len(a) : z.l.arrived \o z.l.sent = After(a, p, m)
      BY <1>6 DEF ReadUpTo
    <2>2. m = p
      BY <1>7, <1>9, <2>1
    <2>. QED  BY <2>1, <2>2
  <1>11. After(a, p, p) = << >>
    <2>1. p + 1 \in Int /\ p \in Int /\ p < p + 1
      BY <1>7
    <2>. QED  BY <2>1, SubSeqEmpty DEF After
  <1>12. z.l.sent = << >>
    <2>1. x.l.sent \in Seq(Pieces)
      BY DEF Good, Pair, Link
    <2>2. << >> \o x.l.sent = x.l.sent
      BY <2>1, ConcatEmptySeq
    <2>. QED  BY <1>1, <1>2, <1>10, <1>11, <2>2
  <1>. QED  BY <1>1, <1>5, <1>12

(* A client gives an open request up before its time only when the answer  *)
(* has been read to its end, for any time-out and any intervals.           *)
THEOREM EndsForCauseCorrect == Spec => EndsForCause
  <1>1. ASSUME IInv, Next,
               phase \in {"stat", "asking"}, phase' \in {"stat", "admitted", "refused"},
               link.st \in {"connecting", "up"}, link'.st = "none",
               m_http_client.age < Timeout, m_http_client.valid,
               Heard, <<"old", 2>> \notin ToSet(link.rcvd)
        PROVE  link.verdicts # << >> /\ link.sent = << >>
    <2>1. PICK x : x = Now /\ Good(x) /\ x.c = m_http_client /\ x.l = link
      BY <1>1 DEF IInv, Now
    <2>2. /\ Trying(x.l) /\ x.c.age < Timeout /\ Hears(x) /\ Unspoilt(x.l) /\ x.c.valid
      BY <1>1, <2>1 DEF Trying, Hears, Heard, Unspoilt
    <2>9. ~NoSocket(x.l)
      BY <2>2 DEF Trying, NoSocket
    <2>4. CASE StatLoop
      <3>1. PICK z \in Handler(x) : Become(IF Ended(z.c) THEN Closed(z) ELSE z)
        BY <2>1, <2>2, <2>4 DEF StatLoop
      <3>2. z.l.st # "none"
        BY <2>1, <2>2, <3>1, HandlerIs DEF Good, Trying
      <3>3. Ended(z.c)
        BY <1>1, <3>1, <3>2 DEF Become
      <3>. QED  BY <2>1, <2>2, <3>3, EndedIs
    <2>5. CASE CheckHttpPassed
      <3>1. PICK z \in Handler(x) : ~Ended(z.c) => Become(z)
        BY <2>1, <2>5 DEF CheckHttpPassed
      <3>2. z.l.st # "none"
        BY <2>1, <2>2, <3>1, HandlerIs DEF Good, Trying
      <3>3. Ended(z.c)
        BY <1>1, <3>1, <3>2 DEF Become
      <3>. QED  BY <2>1, <2>2, <3>3, EndedIs
    <2>6. ~Reload
      <3>. SUFFICES ASSUME Reload PROVE FALSE
        OBVIOUS
      <3>1. PICK y \in {x} \cup UNION {Opened(x, i) : i \in Intervals \cup {0}} : Become(y)
        BY <2>1 DEF Reload
      <3>2. y.l = x.l
        <4>1. CASE y = x
          BY <4>1
        <4>2. CASE \E i \in Intervals \cup {0} : y \in Opened(x, i)
          <5>1. PICK i \in Intervals \cup {0} : y = [x EXCEPT !.c.age = 0, !.c.interval = i]
            BY <2>9, <4>2 DEF Opened
          <5>2. x = [c |-> x.c, l |-> x.l]
            BY <2>1 DEF Good, Pair
          <5>. QED  BY <5>1, <5>2
        <4>. QED  BY <3>1, <4>1, <4>2
      <3>. QED  BY <1>1, <2>1, <3>1, <3>2 DEF Become
    <2>7. ~(OnConnect \/ InvalidSrt \/ Uninit)
      BY <1>1 DEF OnConnect, InvalidSrt, Uninit
    <2>8. ~(Connect \/ Arrive \/ Answer \/ Disconnect \/ Tick)
      <3>1. link \in Link
        BY <2>1 DEF Good, Pair
      <3>0. ASSUME NEW st \in {"up", "failed"}, link' = [link EXCEPT !.st = st] PROVE FALSE
        BY <1>1, <3>0, <3>1 DEF Link
      <3>2. ~Connect
        BY <3>0 DEF Connect
      <3>5. ~Disconnect
        <4>1. ASSUME link' = [link EXCEPT !.st = "closed", !.sent = << >>] PROVE FALSE
          <5>1. link'.st = "closed"
            BY <3>1, <4>1 DEF Link
          <5>. QED  BY <1>1, <5>1
        <4>2. ASSUME NEW kept,
                     link' = [link EXCEPT !.st = "failed", !.sent = << >>, !.arrived = kept]
              PROVE  FALSE
          <5>1. link'.st = "failed"
            BY <3>1, <4>2 DEF Link
          <5>. QED  BY <1>1, <5>1
        <4>. QED  BY <4>1, <4>2 DEF Disconnect
      <3>3. ~Arrive /\ ~Answer
        BY <1>1, <3>1 DEF Arrive, Answer, Link
      <3>4. ~Tick
        BY <1>1 DEF Tick
      <3>. QED  BY <3>2, <3>3, <3>4, <3>5
    <2>. QED  BY <1>1, <2>4, <2>5, <2>6, <2>7, <2>8 DEF Next
  <1>. DEFINE A == /\ phase \in {"stat", "asking"} /\ phase' \in {"stat", "admitted", "refused"}
                   /\ link.st \in {"connecting", "up"} /\ link'.st = "none"
                   /\ m_http_client.age < Timeout /\ m_http_client.valid
                   /\ Heard /\ <<"old", 2>> \notin ToSet(link.rcvd)
                   => link.verdicts # << >> /\ link.sent = << >>
  <1>2. IInv /\ [Next]_vars => [A]_vars
    BY <1>1
  <1>. HIDE DEF A
  <1>3. Spec => [][A]_vars
    BY Invariant, <1>2, PTL DEF Spec
  <1>. QED  BY <1>3 DEF EndsForCause, A

(* No order of pieces, connections and losses admits a role the server did *)
(* not admit, nor refuses one whose 200 came in one piece and in time.     *)
THEOREM AdmittedByServerCorrect == Spec => AdmittedByServer
  <1>1. ASSUME IInv, Next, phase = "asking"
        PROVE  /\ phase' = "admitted" => link.verdicts = <<"200">>
               /\ phase' = "refused"  => ~(link.verdicts = <<"200">> /\ Heard)
    <2>1. PICK x : /\ x = Now /\ Good(x) /\ x.c = m_http_client /\ x.l = link
                   /\ AskedOnce(x)
      BY <1>1 DEF IInv, Now
    <2>2. CASE CheckHttpPassed
      <3>1. PICK y \in Handler(x) : /\ Ended(y.c) => phase' = Verdict(y.c)
                                    /\ ~Ended(y.c) => phase' = phase
        BY <2>1, <2>2 DEF CheckHttpPassed
      <3>2. AskedOnce(y) /\ y.l.verdicts = x.l.verdicts /\ (Hears(x) => y.c.header /\ ~y.l.split)
        BY <2>1, <3>1, HandlerIs DEF Good
      <3>3. ASSUME phase' = "admitted" PROVE link.verdicts = <<"200">>
        <4>1. y.c.code = "200"
          BY <1>1, <3>1, <3>3 DEF Verdict
        <4>2. y.l.verdicts = <<y.c.code>>
          BY <3>2, <4>1 DEF AskedOnce
        <4>. QED  BY <2>1, <3>2, <4>1, <4>2
      <3>4. ASSUME phase' = "refused", link.verdicts = <<"200">>, Heard PROVE FALSE
        <4>1. y.c.code # "200"
          BY <1>1, <3>1, <3>4 DEF Verdict
        <4>2. Hears(x)
          BY <2>1, <3>4 DEF Hears, Heard
        <4>3. y.c.code # "" /\ y.l.verdicts = <<y.c.code>>
          BY <3>2, <4>2 DEF AskedOnce
        <4>4. <<y.c.code>> = <<"200">>
          BY <2>1, <3>2, <3>4, <4>3
        <4>. QED  BY <4>1, <4>4
      <3>. QED  BY <3>3, <3>4
    <2>3. CASE ~CheckHttpPassed
      <3>1. phase' # "admitted" /\ phase' # "refused"
        BY <1>1, <2>3 DEF Next, StatLoop, Reload, OnConnect, InvalidSrt, Uninit,
              Connect, Answer, Arrive, Disconnect, Tick, Environment
      <3>. QED  BY <3>1
    <2>. QED  BY <2>2, <2>3
  <1>. DEFINE A == /\ phase = "asking"
                   => /\ phase' = "admitted" => link.verdicts = <<"200">>
                      /\ phase' = "refused"  => ~(link.verdicts = <<"200">> /\ Heard)
  <1>2. IInv /\ [Next]_vars => [A]_vars
    BY <1>1
  <1>. HIDE DEF A
  <1>3. Spec => [][A]_vars
    BY Invariant, <1>2, PTL DEF Spec
  <1>. QED  BY <1>3 DEF AdmittedByServer, A
=============================================================================
