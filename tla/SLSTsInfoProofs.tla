-------------------------- MODULE SLSTsInfoProofs ---------------------------
(* Proofs about SLSTsInfo: for any contents of the packets, any layouts of *)
(* pids, any room in a packet and any number of publishers.                *)
EXTENDS SLSTsInfo, FiniteSetTheorems, SequenceTheorems, TLAPS

(* A set of naturals has a smallest member.  (Of the sets 1 .. x the least *)
(* by inclusion, a well-founded order on finite sets.)                     *)
LEMMA SmallestExists ==
    ASSUME NEW S \in SUBSET Nat, S # {}
    PROVE  \E x \in S : \A y \in S : x <= y
  <1>. DEFINE T == {1 .. x : x \in S}
  <1>1. T \subseteq FiniteSubsetsOf(Nat)
    <2>. SUFFICES ASSUME NEW x \in S PROVE 1 .. x \in FiniteSubsetsOf(Nat)
      OBVIOUS
    <2>. QED
      BY FS_Interval DEF FiniteSubsetsOf
  <1>2. PICK I \in T : \A J \in T : <<J, I>> \notin StrictSubsetOrdering(Nat)
    <2>1. T # {}
      OBVIOUS
    <2>. HIDE DEF T
    <2>. QED
      BY <1>1, <2>1, FS_StrictSubsetOrderingWellFounded, WFMin
  <1>3. PICK x \in S : I = 1 .. x
    BY <1>2
  <1>4. ASSUME NEW y \in S, y < x
        PROVE  FALSE
    <2>1. 1 .. y \subseteq 1 .. x /\ x \in 1 .. x /\ x \notin 1 .. y
      BY <1>4
    <2>2. 1 .. y \in T
      OBVIOUS
    <2>3. 1 .. y \in SUBSET Nat /\ 1 .. x \in SUBSET Nat
      OBVIOUS
    <2>4. <<1 .. y, 1 .. x>> \in StrictSubsetOrdering(Nat)
      BY <2>1, <2>3, Zenon DEF StrictSubsetOrdering
    <2>. QED
      BY <1>2, <1>3, <2>2, <2>4
  <1>. QED
    BY <1>4

(* Min is the smallest.                                                    *)
LEMMA MinIsSmallest ==
    ASSUME NEW S \in SUBSET Nat, S # {}
    PROVE  Min(S) \in S /\ \A y \in S : Min(S) <= y
  BY SmallestExists, Zenon DEF Min

(* A bounded set of naturals has a greatest.                               *)
LEMMA MaxIsGreatest ==
    ASSUME NEW n \in Nat, NEW S \in SUBSET (1 .. n), S # {}
    PROVE  Max(S) \in S /\ \A y \in S : Max(S) >= y
  <1>. DEFINE T == {d \in Nat : \E x \in S : d = n - x}
  <1>1. T # {}
    <2>1. PICK x \in S : TRUE
      OBVIOUS
    <2>2. n - x \in Nat
      BY <2>1
    <2>. QED
      BY <2>1, <2>2
  <1>2. PICK d \in T : \A y \in T : d <= y
    BY <1>1, SmallestExists
  <1>3. PICK x \in S : d = n - x
    BY <1>2
  <1>4. ASSUME NEW y \in S PROVE x >= y
    <2>1. n - y \in T
      OBVIOUS
    <2>. QED
      BY <1>2, <1>3, <2>1
  <1>. QED
    BY <1>3, <1>4, Zenon DEF Max

-----------------------------------------------------------------------------
(* What is always true of an entry of m_map_ts_info: its sets are cut      *)
(* where they should be, and a header is made only of all there has to be. *)
Sound(i) ==
    /\ i \in Info
    /\ IsCut("sps", i.sps) /\ IsCut("pps", i.pps)
    /\ IsCut("sps", i.data.sps) /\ IsCut("pps", i.data.pps)
    /\ i.data # NoHeader =>
        /\ Done(i)
        /\ i.data.pat \in Owner /\ Len(i.data.sps \o i.data.pps) <= Room

(* The inductive invariant: every name's entry is sound, and a publisher   *)
(* has a number.                                                           *)
IInv ==
    /\ TypeOK
    /\ IF ring THEN stream \in Owner ELSE stream < MaxStreams
    /\ Known => Sound(ti)

Unit    == [type : {"sps", "pps", "other"}, long : BOOLEAN]
Content == Seq(Unit)

(* The scan, sls_parse_spspps: a set starts with its unit and has no start *)
(* code of full length in it.                                              *)
Numbered(es, b) ==
    [u \in DOMAIN Cut(es, b) |-> <<stream, Cut(es, b)[u].type, Cut(es, b)[u].long>>]

(* What the scan of sls_parse_spspps cuts out starts with its unit and has *)
(* no other start code of full length in it; numbering it changes neither. *)
LEMMA CutIsCut ==
    ASSUME NEW es \in Content, NEW b \in DOMAIN es, stream \in Owner
    PROVE  /\ Numbered(es, b) \in Units
           /\ Numbered(es, b) # << >>
           /\ IsCut(es[b].type, Numbered(es, b))
           /\ Head(Numbered(es, b)) = <<stream, es[b].type, es[b].long>>
           /\ Cut(es, b) \in Content /\ Len(Numbered(es, b)) = Len(Cut(es, b))
  <1>. DEFINE ends == {e \in b + 1 .. Len(es) : es[e].long}
              last == IF ends = {} THEN Len(es) ELSE Min(ends) - 1
  <1>1. b \in Nat /\ 1 <= b /\ b <= Len(es) /\ Len(es) \in Nat
    BY DEF Content
  <1>2. /\ last \in b .. Len(es)
        /\ \A e \in b + 1 .. last : ~es[e].long
    <2>1. CASE ends = {}
      BY <1>1, <2>1
    <2>2. CASE ends # {}
      <3>1. ends \in SUBSET Nat
        BY <1>1
      <3>2. Min(ends) \in ends /\ \A y \in ends : Min(ends) <= y
        BY <2>2, <3>1, MinIsSmallest
      <3>3. last = Min(ends) - 1
        BY <2>2
      <3>4. Min(ends) \in b + 1 .. Len(es)
        BY <3>2
      <3>5. \A e \in b + 1 .. last : e \notin ends
        <4>. HIDE DEF ends, last
        <4>. QED
          BY <1>1, <3>1, <3>2, <3>3, <3>4
      <3>6. last \in b .. Len(es)
        BY <1>1, <3>3, <3>4
      <3>7. \A e \in b + 1 .. last : e \in b + 1 .. Len(es)
        <4>. HIDE DEF ends, last
        <4>. QED
          BY <1>1, <3>6
      <3>. QED
        BY <3>5, <3>6, <3>7
    <2>. QED
      BY <2>1, <2>2
  <1>3. Cut(es, b) = SubSeq(es, b, last)
    BY DEF Cut
  <1>. HIDE DEF last, ends
  <1>4. /\ Len(SubSeq(es, b, last)) = last - b + 1
        /\ SubSeq(es, b, last) \in Content
        /\ \A u \in 1 .. last - b + 1 : SubSeq(es, b, last)[u] = es[b + u - 1]
    <2>1. last \in Int /\ b \in Int
      BY <1>1, <1>2
    <2>2. \A e \in b .. last : es[e] \in Unit
      <3>. SUFFICES ASSUME NEW e \in b .. last PROVE es[e] \in Unit
        OBVIOUS
      <3>1. e \in 1 .. Len(es)
        BY <1>1, <1>2
      <3>. QED
        BY <3>1, ElementOfSeq DEF Content
    <2>. QED
      BY <1>1, <1>2, <2>1, <2>2, SubSeqProperties DEF Content
  <1>5. DOMAIN Cut(es, b) = 1 .. last - b + 1
    BY <1>3, <1>4 DEF Content
  <1>6. \A u \in 1 .. last - b + 1 :
            /\ Numbered(es, b)[u] = <<stream, es[b + u - 1].type, es[b + u - 1].long>>
            /\ b + u - 1 \in DOMAIN es
    <2>. SUFFICES ASSUME NEW u \in 1 .. last - b + 1
                  PROVE  /\ Numbered(es, b)[u] = <<stream, es[b + u - 1].type, es[b + u - 1].long>>
                         /\ b + u - 1 \in DOMAIN es
      OBVIOUS
    <2>1. Cut(es, b)[u] = es[b + u - 1]
      BY <1>3, <1>4
    <2>2. b + u - 1 \in 1 .. Len(es)
      BY <1>1, <1>2
    <2>3. Numbered(es, b)[u] = <<stream, Cut(es, b)[u].type, Cut(es, b)[u].long>>
      BY <1>5 DEF Numbered
    <2>. QED
      BY <2>1, <2>2, <2>3 DEF Content
  <1>7. \A e \in DOMAIN es : es[e].type \in {"sps", "pps", "other"} /\ es[e].long \in BOOLEAN
    <2>1. \A e \in DOMAIN es : es[e] \in Unit
      BY DEF Content
    <2>. QED
      BY <2>1 DEF Unit
  <1>8. Numbered(es, b) \in Units /\ Len(Numbered(es, b)) = last - b + 1
    <2>1. Numbered(es, b) = [u \in 1 .. last - b + 1 |-> Numbered(es, b)[u]]
      BY <1>5 DEF Numbered
    <2>2. \A u \in 1 .. last - b + 1 :
            Numbered(es, b)[u] \in Owner \X {"sps", "pps", "other"} \X BOOLEAN
      <3>. SUFFICES ASSUME NEW u \in 1 .. last - b + 1
                    PROVE  Numbered(es, b)[u] \in Owner \X {"sps", "pps", "other"} \X BOOLEAN
        OBVIOUS
      <3>1. /\ es[b + u - 1].type \in {"sps", "pps", "other"}
            /\ es[b + u - 1].long \in BOOLEAN
        BY <1>6, <1>7
      <3>. QED
        BY <1>6, <3>1
    <2>3. last - b + 1 \in Nat
      BY <1>1, <1>2
    <2>. QED
      BY <2>1, <2>2, <2>3 DEF Units
  <1>9. Numbered(es, b)[1] = <<stream, es[b].type, es[b].long>>
    <2>1. 1 \in 1 .. last - b + 1 /\ b + 1 - 1 = b
      BY <1>1, <1>2
    <2>. QED
      BY <1>6, <2>1
  <1>10. \A n \in 2 .. last - b + 1 : ~Numbered(es, b)[n][3]
    <2>. SUFFICES ASSUME NEW n \in 2 .. last - b + 1 PROVE ~Numbered(es, b)[n][3]
      OBVIOUS
    <2>1. n \in 1 .. last - b + 1 /\ b + n - 1 \in b + 1 .. last
      BY <1>1, <1>2
    <2>2. ~es[b + n - 1].long
      BY <1>2, <2>1
    <2>3. Numbered(es, b)[n] = <<stream, es[b + n - 1].type, es[b + n - 1].long>>
      BY <1>6, <2>1
    <2>. QED
      BY <2>2, <2>3
  <1>11. Numbered(es, b) # << >> /\ Head(Numbered(es, b)) = Numbered(es, b)[1]
    BY <1>1, <1>2, <1>8 DEF Units
  <1>12. IsCut(es[b].type, Numbered(es, b))
    BY <1>8, <1>9, <1>10, <1>11 DEF IsCut
  <1>. QED
    BY <1>3, <1>4, <1>8, <1>9, <1>11, <1>12

(* What the scan leaves in the entry is cut where it should be; the rest   *)
(* of the entry it does not touch.                                         *)
LEMMA ScanKeepsSetsCut ==
    ASSUME NEW i \in Info, NEW es \in Content, stream \in Owner,
           IsCut("sps", i.sps), IsCut("pps", i.pps)
    PROVE  \E sps, pps \in Units :
              /\ ParseSpsPps(i, es) = [i EXCEPT !.sps = sps, !.pps = pps]
              /\ IsCut("sps", sps) /\ IsCut("pps", pps)
  <1>. DEFINE units == {b \in DOMAIN es : es[b].long /\ es[b].type \in {"sps", "pps"}}
              Found(type, bs) == {b \in bs : es[b].type = type}
              Enough(c) == LET bs == {b \in units : b <= c} IN
                  /\ i.sps # << >> \/ Found("sps", bs) # {}
                  /\ i.pps # << >> \/ Found("pps", bs) # {}
              seen == {b \in units : \A c \in units : c < b => ~Enough(c)}
              Latest(type, before) ==
                  IF Found(type, seen) = {} THEN before ELSE Numbered(es, Max(Found(type, seen)))
  <1>1. ParseSpsPps(i, es) = [i EXCEPT !.sps = Latest("sps", i.sps), !.pps = Latest("pps", i.pps)]
    BY Zenon DEF ParseSpsPps, Numbered
  <1>2. ASSUME NEW type, NEW before \in Units, IsCut(type, before)
        PROVE  Latest(type, before) \in Units /\ IsCut(type, Latest(type, before))
    <2>. DEFINE F == Found(type, seen)
    <2>1. CASE F = {}
      BY <1>2, <2>1
    <2>2. CASE F # {}
      <3>1. F \in SUBSET DOMAIN es /\ \A b \in F : es[b].type = type
        OBVIOUS
      <3>2. Len(es) \in Nat /\ DOMAIN es = 1 .. Len(es)
        BY DEF Content
      <3>. HIDE DEF F
      <3>3. Max(F) \in F
        BY <2>2, <3>1, <3>2, MaxIsGreatest
      <3>4. Numbered(es, Max(F)) \in Units /\ IsCut(type, Numbered(es, Max(F)))
        BY <3>1, <3>3, CutIsCut
      <3>5. Latest(type, before) = Numbered(es, Max(F))
        BY <2>2, Zenon DEF F
      <3>. QED
        BY <3>4, <3>5
    <2>. QED
      BY <2>1, <2>2
  <1>3. i.sps \in Units /\ i.pps \in Units
    BY DEF Info
  <1>. HIDE DEF Latest
  <1>. QED
    BY <1>1, <1>2, <1>3, Zenon

-----------------------------------------------------------------------------
(* One packet.                                                             *)

(* An entry that has no header yet and may have its sets.                  *)
Open(i) ==
    /\ i \in Info /\ i.data = NoHeader
    /\ IsCut("sps", i.sps) /\ IsCut("pps", i.pps)

(* An entry nothing was parsed for is sound.                               *)
LEMMA OpenIsSound == ASSUME NEW i, Open(i) PROVE Sound(i)
  BY DEF Open, Sound, IsCut, NoHeader

(* A new entry is one.                                                     *)
LEMMA NewInfoIsOpen == Open(NewInfo)
  <1>1. << >> \in Units
    BY DEF Units
  <1>. QED
    BY <1>1 DEF Open, NewInfo, NoHeader, Info, IsCut, PidOrNone, Table

(* The header is built of cut sets that fit, or of the tables alone.       *)
LEMMA BuiltIsSound ==
    ASSUME NEW i, Open(i), MayBuild(i), NEW pid \in PidOrNone
    PROVE  Sound(Built(i, pid))
  <1>1. /\ i \in Info /\ i.sps \in Units /\ i.pps \in Units
        /\ i.pat \in Table /\ i.pat # None /\ i.pmt \in Table
    BY DEF Open, MayBuild, Info
  <1>2. i.pat \in Owner
    BY <1>1 DEF Table
  <1>3. << >> \in Units /\ IsCut("sps", << >>) /\ IsCut("pps", << >>)
    BY DEF Units, IsCut
  <1>4. Len(i.sps \o i.pps) \in Nat
    <2>1. i.sps \o i.pps \in Units
      BY <1>1, ConcatProperties DEF Units
    <2>. QED
      BY <2>1, LenProperties DEF Units
  <1>5. ASSUME NEW sps \in Units, NEW pps \in Units, NEW es_pid \in PidOrNone,
               IsCut("sps", sps), IsCut("pps", pps), Len(sps \o pps) <= Room,
               Built(i, pid) = [i EXCEPT !.data = HeaderOf(i, sps, pps), !.es_pid = es_pid]
        PROVE  Sound(Built(i, pid))
    <2>1. HeaderOf(i, sps, pps) \in [pat : Table, pmt : Table, sps : Units, pps : Units]
      BY <1>1, <1>5 DEF HeaderOf
    <2>2. Built(i, pid) \in Info
      BY <1>1, <1>5, <2>1 DEF Info
    <2>3. /\ Built(i, pid).data = HeaderOf(i, sps, pps) /\ Built(i, pid).pat = i.pat
          /\ Built(i, pid).sps = i.sps /\ Built(i, pid).pps = i.pps
      BY <1>1, <1>5 DEF Info
    <2>4. /\ Built(i, pid).data.pat = i.pat
          /\ Built(i, pid).data.sps = sps /\ Built(i, pid).data.pps = pps
      BY <2>3 DEF HeaderOf
    <2>5. Done(Built(i, pid))
      BY <2>3 DEF Done, MayBuild, HasSets
    <2>6. IsCut("sps", i.sps) /\ IsCut("pps", i.pps)
      BY DEF Open
    <2>. QED
      BY <1>2, <1>5, <2>2, <2>3, <2>4, <2>5, <2>6, Zenon DEF Sound
  <1>6. CASE Len(i.sps \o i.pps) > Room
    <2>1. Built(i, pid) = [i EXCEPT !.data = HeaderOf(i, << >>, << >>), !.es_pid = i.es_pid]
      <3>1. Built(i, pid) = [i EXCEPT !.data = HeaderOf(i, << >>, << >>)]
        BY <1>6, Zenon DEF Built
      <3>. QED
        BY <1>1, <3>1 DEF Info
    <2>2. Len(<< >> \o << >>) <= Room
      BY TsAssumption
    <2>3. i.es_pid \in PidOrNone
      BY <1>1 DEF Info
    <2>. QED
      BY <1>3, <1>5, <2>1, <2>2, <2>3, Zenon
  <1>7. CASE ~(Len(i.sps \o i.pps) > Room)
    <2>1. Built(i, pid) = [i EXCEPT !.data = HeaderOf(i, i.sps, i.pps), !.es_pid = pid]
      BY <1>7, Zenon DEF Built
    <2>2. Len(i.sps \o i.pps) <= Room
      <3>. DEFINE n == Len(i.sps \o i.pps)
      <3>1. n \in Nat /\ ~(n > Room)
        BY <1>4, <1>7
      <3>. HIDE DEF n
      <3>2. n <= Room
        BY <3>1, TsAssumption
      <3>. QED
        BY <3>2 DEF n
    <2>3. IsCut("sps", i.sps) /\ IsCut("pps", i.pps)
      BY DEF Open
    <2>. QED
      BY <1>1, <1>5, <2>1, <2>2, <2>3, Zenon
  <1>. QED
    BY <1>6, <1>7

(* A PES packet's content is a sequence of units.                          *)
LEMMA PesPackets ==
    ASSUME NEW p \in Packets, p.kind \notin {"pat", "pmt", "other"}
    PROVE  p.kind \in {"video", "audio"} /\ p.pts \in BOOLEAN /\ p.es \in Content
  <1>1. CASE p \in [kind : {"pat", "pmt", "other"}]
    BY <1>1
  <1>2. CASE p \in [kind : {"video"}, pts : BOOLEAN, es : Contents]
    BY <1>2, TsAssumption DEF Content, Unit
  <1>3. CASE p \in [kind : {"audio"}, pts : BOOLEAN, es : {<< >>}]
    <2>1. p.kind = "audio" /\ p.pts \in BOOLEAN /\ p.es = << >>
      BY <1>3
    <2>. QED
      BY <2>1, EmptySeq DEF Content
  <1>. QED
    BY <1>1, <1>2, <1>3 DEF Packets

(* A packet has one pid.                                                   *)
LEMMA PidIsOne ==
    ASSUME layout \in Layouts, NEW kind \in {"pmt", "video", "audio"}
    PROVE  Pid(kind) \in PidOrNone
  BY TsAssumption DEF Kinds, Pid, PidOrNone

(* A field that says nothing of the sets or the header.                    *)
LEMMA OtherPidIsSound ==
    ASSUME NEW i, Sound(i), NEW pid \in PidOrNone
    PROVE  Sound([i EXCEPT !.es_pid = pid])
  <1>. DEFINE j == [i EXCEPT !.es_pid = pid]
  <1>1. i \in Info
    BY DEF Sound
  <1>2. /\ j \in Info /\ j.sps = i.sps /\ j.pps = i.pps
        /\ j.data = i.data /\ j.pat = i.pat
    BY <1>1 DEF Info
  <1>. HIDE DEF j
  <1>3. Done(i) => Done(j)
    BY <1>2 DEF Done, HasSets
  <1>4. Sound(j)
    BY <1>2, <1>3, Zenon DEF Sound
  <1>. QED
    BY <1>4 DEF j

(* A PES packet keeps the entry sound.                                     *)
LEMMA PesIsSound ==
    ASSUME NEW i, Open(i), NEW p \in Packets, p.kind \notin {"pat", "pmt", "other"},
           stream \in Owner, layout \in Layouts
    PROVE  Sound(Pes2es(i, p)) /\ Pes2es(i, p) \in Info
  <1>. DEFINE k == [i EXCEPT !.dts = p.pts]
              j == ParseSpsPps(k, p.es)
  <1>1. /\ k \in Info /\ k.sps = i.sps /\ k.pps = i.pps
        /\ k.data = NoHeader
    BY PesPackets DEF Open, Info
  <1>2. IsCut("sps", k.sps) /\ IsCut("pps", k.pps)
    BY <1>1 DEF Open
  <1>. HIDE DEF k
  <1>3. PICK sps \in Units, pps \in Units :
            /\ j = [k EXCEPT !.sps = sps, !.pps = pps]
            /\ IsCut("sps", sps) /\ IsCut("pps", pps)
    BY <1>1, <1>2, PesPackets, ScanKeepsSetsCut
  <1>. HIDE DEF j
  <1>4. Open(j)
    <2>1. j \in Info /\ j.sps = sps /\ j.pps = pps /\ j.data = NoHeader
      BY <1>1, <1>3 DEF Info
    <2>. QED
      BY <1>3, <2>1 DEF Open
  <1>5. Pes2es(i, p) = IF MayBuild(j) THEN Built(j, Pid(p.kind)) ELSE j
    BY Zenon DEF Pes2es, j, k
  <1>6. Pid(p.kind) \in PidOrNone
    BY PesPackets, PidIsOne
  <1>7. Sound(Pes2es(i, p))
    <2>1. CASE MayBuild(j)
      BY <1>4, <1>5, <1>6, <2>1, BuiltIsSound
    <2>2. CASE ~MayBuild(j)
      BY <1>4, <1>5, <2>2, OpenIsSound
    <2>. QED
      BY <2>1, <2>2
  <1>. QED
    BY <1>7 DEF Sound

(* check_ts_info leaves the entry sound, whatever the packet.              *)
LEMMA CheckKeepsSound ==
    ASSUME NEW i, Sound(i), NEW p \in Packets, stream \in Owner, layout \in Layouts
    PROVE  Sound(CheckTsInfo(i, p))
  <1>1. CASE Done(i)
    BY <1>1 DEF CheckTsInfo
  <1>2. CASE ~Done(i)
    <2>1. Open(i)
      BY <1>2 DEF Open, Sound
    <2>2. CheckTsInfo(i, p) = ParseTsInfo(i, p)
      BY <1>2, Zenon DEF CheckTsInfo
    <2>3. CASE p.kind = "pat"
      <3>1. Open(SavePat(i, p))
        <4>1. /\ SavePat(i, p) \in Info /\ SavePat(i, p).data = i.data
              /\ SavePat(i, p).sps = i.sps /\ SavePat(i, p).pps = i.pps
          BY <2>1, PidIsOne DEF SavePat, Open, Info, Table
        <4>. QED
          BY <2>1, <4>1 DEF Open
      <3>. QED
        BY <2>2, <2>3, <3>1, OpenIsSound DEF ParseTsInfo
    <2>4. CASE p.kind \notin {"pat", "other"} /\ i.pmt_pid = Pid(p.kind)
      <3>1. Open(SavePmt(i, p))
        <4>. DEFINE j == SavePmt(i, p)
        <4>1. j \in Info /\ j.data = i.data /\ j.sps = i.sps /\ j.pps = i.pps
          BY <2>1 DEF SavePmt, Open, Info, Table
        <4>. HIDE DEF j
        <4>2. Open(j)
          BY <2>1, <4>1 DEF Open
        <4>. QED
          BY <4>2 DEF j
      <3>2. ParseTsInfo(i, p) = SavePmt(i, p)
        BY <2>4, Zenon DEF ParseTsInfo
      <3>. QED
        BY <2>2, <3>1, <3>2, OpenIsSound
    <2>5. CASE /\ p.kind \notin {"pat", "pmt", "other"} /\ i.pmt_pid # Pid(p.kind)
               /\ i.es_pid \in {None, Pid(p.kind)}
      <3>. DEFINE j == Pes2es(i, p)
                  pid == IF j.dts \/ HasSets(j) THEN Pid(p.kind) ELSE j.es_pid
      <3>1. ParseTsInfo(i, p) = [j EXCEPT !.es_pid = pid]
        BY <2>5, Zenon DEF ParseTsInfo
      <3>2. Sound(j) /\ j \in Info
        BY <2>1, <2>5, PesIsSound
      <3>3. pid \in PidOrNone
        <4>1. Pid(p.kind) \in PidOrNone
          BY <2>5, PesPackets, PidIsOne
        <4>2. j.es_pid \in PidOrNone
          BY <3>2 DEF Info
        <4>. QED
          BY <4>1, <4>2, Zenon
      <3>. HIDE DEF j, pid
      <3>. QED
        BY <2>2, <3>1, <3>2, <3>3, OtherPidIsSound
    <2>6. ASSUME p.kind # "pat",
                 p.kind = "other" \/ i.pmt_pid # Pid(p.kind),
                 p.kind \in {"pmt", "other"} \/ i.es_pid \notin {None, Pid(p.kind)}
          PROVE  Sound(CheckTsInfo(i, p))
      <3>1. ParseTsInfo(i, p) = i
        BY <2>6, Zenon DEF ParseTsInfo
      <3>. QED
        BY <2>2, <3>1
    <2>. QED
      BY <2>3, <2>4, <2>5, <2>6, Zenon
  <1>. QED
    BY <1>1, <1>2

-----------------------------------------------------------------------------
(* The specification.                                                      *)

(* The invariant holds at first.                                           *)
LEMMA InitIInv == Init => IInv
  <1>. SUFFICES ASSUME Init PROVE IInv
    OBVIOUS
  <1>1. ring = FALSE /\ stream = 0 /\ 0 \in 0 .. MaxStreams /\ 0 < MaxStreams
    BY TsAssumption DEF Init
  <1>2. ~Known /\ ti \in Info \cup {None} /\ Header = NoHeader
    BY DEF Init, Known, Header
  <1>3. layout \in Layouts /\ order = "start"
    BY DEF Init
  <1>. QED
    BY <1>1, <1>2, <1>3 DEF IInv, TypeOK

(* The history of the order does not matter to it.                         *)
LEMMA OrderKept ==
    ASSUME order \in {"start", "pat", "pmt", "video", "key", "odd"}, NEW p \in Packets
    PROVE  Follow(p) \in {"start", "pat", "pmt", "video", "key", "odd"}
  BY Zenon DEF Follow

(* Every step keeps it.                                                    *)
LEMMA NextIInv == IInv /\ [Next]_vars => IInv'
  <1>. SUFFICES ASSUME IInv, [Next]_vars PROVE IInv'
    OBVIOUS
  <1>. USE DEF IInv
  <1>1. CASE Add
    <2>1. stream' \in Owner /\ stream' \in 0 .. MaxStreams
      BY <1>1, TsAssumption DEF Add, Owner, TypeOK
    <2>2. ring' /\ ring' \in BOOLEAN /\ layout' \in Layouts /\ order' = "start" /\ ti' = ti
      BY <1>1 DEF Add
    <2>3. TypeOK'
      BY <2>1, <2>2 DEF TypeOK, Header, Known
    <2>. QED
      BY <2>1, <2>2, <2>3 DEF Known
  <1>2. CASE Remove
    <2>1. ~ring' /\ ring' \in BOOLEAN /\ stream' < MaxStreams
          /\ UNCHANGED <<ti, stream, layout, order>>
      BY <1>2 DEF Remove
    <2>2. TypeOK'
      BY <2>1 DEF TypeOK, Header, Known
    <2>. QED
      BY <2>1, <2>2 DEF Known
  <1>3. ASSUME NEW p \in Packets, Put(p)
        PROVE  IInv'
    <2>. DEFINE i == IF ti = None THEN NewInfo ELSE ti
    <2>1. /\ ring' = ring /\ stream' = stream /\ layout' = layout
          /\ ti' = CheckTsInfo(i, p) /\ order' = Follow(p) /\ ring
      BY <1>3 DEF Put
    <2>2. Sound(i)
      BY NewInfoIsOpen, OpenIsSound DEF Known
    <2>. HIDE DEF i
    <2>3. Sound(ti')
      BY <2>1, <2>2, CheckKeepsSound DEF TypeOK
    <2>4. order' \in {"start", "pat", "pmt", "video", "key", "odd"}
      BY <2>1, OrderKept DEF TypeOK
    <2>5. TypeOK'
      BY <2>1, <2>3, <2>4 DEF TypeOK, Header, Known, Sound
    <2>. QED
      BY <2>1, <2>3, <2>5 DEF Known
  <1>4. CASE UNCHANGED vars
    <2>1. TypeOK'
      BY <1>4 DEF vars, TypeOK, Header, Known
    <2>. QED
      BY <1>4, <2>1 DEF vars, Known
  <1>. QED
    BY <1>1, <1>2, <1>3, <1>4 DEF Next

(* So it holds in every reachable state.                                   *)
LEMMA IInvAlways == Spec => []IInv
  BY InitIInv, NextIInv, PTL DEF Spec

-----------------------------------------------------------------------------
(* The order of the first publisher's packets.                             *)

Entry == IF ti = None THEN NewInfo ELSE ti

(* The entry has no sets yet, and listens to nothing but the video.        *)
Waits(i) == i.sps = << >> /\ i.pps = << >> /\ i.es_pid \in {None, Pid("video")}

Served(i) ==
    /\ Done(i)
    /\ i.data.pat = 1 /\ i.data.pmt = 1
    /\ Head(i.data.sps) = <<1, "sps", TRUE>> /\ Head(i.data.pps) = <<1, "pps", TRUE>>

(* What the entry has when the publisher has come so far in the order.     *)
Follows(i, o) ==
    /\ o \in {"start", "pat", "pmt", "video"} => Waits(i)
    /\ o = "start" => i.pmt_pid = None
    /\ o \in {"pat", "pmt", "video"} => i.pat = 1 /\ i.pmt_pid = Pid("pmt")
    /\ o \in {"pmt", "video"} => i.pmt = 1
    /\ o = "video" => i.es_pid = Pid("video")
    /\ o = "key" => Served(i)

OrderInv ==
    /\ stream = 0 => ti = None
    /\ stream = 1 => Follows(Entry, order)

(* The pids of a layout are different, and none is "no pid".               *)
LEMMA PidsDiffer ==
    ASSUME layout \in Layouts
    PROVE  /\ \A kind \in {"pmt", "video", "audio"} : Pid(kind) # None
           /\ Pid("pmt") # Pid("video") /\ Pid("pmt") # Pid("audio")
           /\ Pid("video") # Pid("audio")
  <1>1. layout \in [Kinds -> Pids] /\ \A a, b \in Kinds : layout[a] = layout[b] => a = b
    BY TsAssumption
  <1>2. None \notin Pids
    BY TsAssumption
  <1>. QED
    BY <1>1, <1>2 DEF Pid, Kinds

(* A packet without sets leaves the entry without them.                    *)
LEMMA NoSetsThere ==
    ASSUME NEW i \in Info, NEW es \in Content, Sets(es) = {}
    PROVE  ParseSpsPps(i, es) = i
  <1>. DEFINE units == {b \in DOMAIN es : es[b].long /\ es[b].type \in {"sps", "pps"}}
  <1>1. units = {}
    BY DEF Sets
  <1>2. ParseSpsPps(i, es) = [i EXCEPT !.sps = i.sps, !.pps = i.pps]
    BY <1>1, Zenon DEF ParseSpsPps
  <1>. QED
    BY <1>2 DEF Info

(* An entry that has found these sets.                                    *)
WithSets(i, sps, pps) == [i EXCEPT !.sps = sps, !.pps = pps]

(* An orderly one gives it its own: the scan does not end before both are  *)
(* found, and there is one of each.                                        *)
LEMMA BothSetsThere ==
    ASSUME NEW i \in Info, i.sps = << >>, i.pps = << >>, NEW es \in Content,
           NEW b \in DOMAIN es, NEW c \in DOMAIN es, b < c, Sets(es) = {b, c},
           es[b].type = "sps", es[b].long = TRUE, es[c].type = "pps", es[c].long = TRUE
    PROVE  ParseSpsPps(i, es) = WithSets(i, Numbered(es, b), Numbered(es, c))
  <1>. DEFINE units == {d \in DOMAIN es : es[d].long /\ es[d].type \in {"sps", "pps"}}
              Found(type, bs) == {d \in bs : es[d].type = type}
              Enough(d) == LET bs == {e \in units : e <= d} IN
                  /\ i.sps # << >> \/ Found("sps", bs) # {}
                  /\ i.pps # << >> \/ Found("pps", bs) # {}
              seen == {d \in units : \A e \in units : e < d => ~Enough(e)}
              Latest(type, before) ==
                  IF Found(type, seen) = {} THEN before ELSE Numbered(es, Max(Found(type, seen)))
  <1>1. ParseSpsPps(i, es) = [i EXCEPT !.sps = Latest("sps", i.sps), !.pps = Latest("pps", i.pps)]
    BY Zenon DEF ParseSpsPps, Numbered
  <1>2. b \in Nat /\ c \in Nat /\ es[b].type # es[c].type
    BY DEF Content
  <1>3. units = {b, c}
    <2>1. units \subseteq Sets(es)
      BY DEF Sets
    <2>2. b \in units /\ c \in units
      OBVIOUS
    <2>. QED
      BY <2>1, <2>2
  <1>4. ~Enough(b)
    <2>1. Found("pps", {e \in units : e <= b}) = {}
      BY <1>2, <1>3
    <2>. QED
      BY <2>1
  <1>5. seen = {b, c}
    BY <1>2, <1>3, <1>4
  <1>6. Found("sps", seen) = {b} /\ Found("pps", seen) = {c}
    BY <1>5
  <1>7. \A d \in Nat : Max({d}) = d
    BY DEF Max
  <1>8. Latest("sps", i.sps) = Numbered(es, b) /\ Latest("pps", i.pps) = Numbered(es, c)
    <2>1. Found("sps", seen) # {} /\ Max(Found("sps", seen)) = b
      BY <1>2, <1>6, <1>7
    <2>2. Found("pps", seen) # {} /\ Max(Found("pps", seen)) = c
      BY <1>2, <1>6, <1>7
    <2>. QED
      BY <2>1, <2>2, Zenon
  <1>. QED
    BY <1>1, <1>8, Zenon DEF WithSets

(* A PES without sets: of the fields, only the time stamp changes and, if  *)
(* it has one, the pid that is listened to.                                *)
LEMMA PlainPes ==
    ASSUME NEW i \in Info, Waits(i), NEW p \in Packets, p.kind \in {"video", "audio"},
           Sets(p.es) = {}, i.pmt_pid # Pid(p.kind), i.es_pid \in {None, Pid(p.kind)}
    PROVE  ParseTsInfo(i, p) =
             [i EXCEPT !.dts = p.pts, !.es_pid = IF p.pts THEN Pid(p.kind) ELSE i.es_pid]
  <1>. DEFINE k == [i EXCEPT !.dts = p.pts]
  <1>1. p.pts \in BOOLEAN /\ p.es \in Content /\ p.kind \notin {"pat", "pmt", "other"}
    BY PesPackets
  <1>2. k \in Info /\ k.sps = << >> /\ k.pps = << >> /\ k.dts = p.pts /\ k.es_pid = i.es_pid
    BY <1>1 DEF Info, Waits
  <1>3. ParseTsInfo(i, p) =
          LET j == Pes2es(i, p) IN
          [j EXCEPT !.es_pid = IF j.dts \/ HasSets(j) THEN Pid(p.kind) ELSE @]
    BY <1>1, Zenon DEF ParseTsInfo
  <1>4. Pes2es(i, p) = k
    <2>. HIDE DEF k
    <2>1. ParseSpsPps(k, p.es) = k
      BY <1>1, <1>2, NoSetsThere
    <2>2. ~MayBuild(k)
      BY <1>2 DEF MayBuild, HasSets
    <2>3. Pes2es(i, p) = LET j == ParseSpsPps(k, p.es) IN
                         IF MayBuild(j) THEN Built(j, Pid(p.kind)) ELSE j
      BY Zenon DEF Pes2es, k
    <2>. QED
      BY <2>1, <2>2, <2>3
  <1>5. ~HasSets(k)
    BY <1>2 DEF HasSets
  <1>6. ParseTsInfo(i, p) = [k EXCEPT !.es_pid = IF p.pts THEN Pid(p.kind) ELSE i.es_pid]
    BY <1>2, <1>3, <1>4, <1>5
  <1>. QED
    BY <1>6

(* The first packet of an access unit with its sets, after the tables: the *)
(* header is there.                                                        *)
LEMMA KeyPes ==
    ASSUME NEW i \in Info, Waits(i), NEW p \in Packets, p.kind = "video", Keyed(p.es),
           i.pmt_pid # Pid("video"), i.pat = 1, i.pmt = 1, stream = 1, 1 \in Owner,
           layout \in Layouts
    PROVE  Served(ParseTsInfo(i, p))
  <1>. DEFINE es == p.es
              k == [i EXCEPT !.dts = p.pts]
  <1>1. p.pts \in BOOLEAN /\ es \in Content
    BY PesPackets
  <1>2. k \in Info /\ k.sps = << >> /\ k.pps = << >> /\ k.pat = 1 /\ k.pmt = 1
    BY <1>1 DEF Info, Waits
  <1>. HIDE DEF k
  <1>3. PICK b \in DOMAIN es :
            /\ Sets(es) = {b, b + 1}
            /\ es[b].type = "sps" /\ es[b].long /\ es[b + 1].type = "pps" /\ es[b + 1].long
            /\ Len(Cut(es, b) \o Cut(es, b + 1)) <= Room
    BY DEF Keyed
  <1>4. b + 1 \in DOMAIN es /\ b < b + 1
    BY <1>1, <1>3 DEF Sets, Content
  <1>. DEFINE sps == Numbered(es, b)
              pps == Numbered(es, b + 1)
              j == WithSets(k, sps, pps)
  <1>5. /\ sps \in Units /\ sps # << >> /\ Head(sps) = <<1, es[b].type, es[b].long>>
        /\ Cut(es, b) \in Content /\ Len(sps) = Len(Cut(es, b))
    BY <1>1, CutIsCut
  <1>6. /\ pps \in Units /\ pps # << >> /\ Head(pps) = <<1, es[b + 1].type, es[b + 1].long>>
        /\ Cut(es, b + 1) \in Content /\ Len(pps) = Len(Cut(es, b + 1))
    BY <1>1, <1>4, CutIsCut
  <1>7. es[b].long = TRUE /\ es[b + 1].long = TRUE
    <2>1. \A e \in DOMAIN es : es[e].long \in BOOLEAN
      <3>. HIDE DEF es
      <3>1. \A e \in DOMAIN es : es[e] \in Unit
        BY <1>1 DEF Content
      <3>. QED
        BY <3>1 DEF Unit
    <2>. QED
      BY <1>3, <1>4, <2>1
  <1>8. ParseSpsPps(k, es) = j
    <2>. DEFINE c == b + 1
    <2>1. /\ c \in DOMAIN es /\ b < c /\ Sets(es) = {b, c}
          /\ es[c].type = "pps" /\ es[c].long = TRUE
      BY <1>3, <1>4, <1>7
    <2>. HIDE DEF c, es
    <2>2. ParseSpsPps(k, es) = WithSets(k, Numbered(es, b), Numbered(es, c))
      BY <1>1, <1>2, <1>3, <1>7, <2>1, BothSetsThere
    <2>. QED
      BY <2>2 DEF c
  <1>. HIDE DEF sps, pps
  <1>9. Len(sps \o pps) = Len(Cut(es, b) \o Cut(es, b + 1))
    <2>1. Len(sps \o pps) = Len(sps) + Len(pps)
      BY <1>5, <1>6, ConcatProperties DEF Units
    <2>2. Len(Cut(es, b) \o Cut(es, b + 1)) = Len(Cut(es, b)) + Len(Cut(es, b + 1))
      BY <1>5, <1>6, ConcatProperties DEF Content
    <2>. QED
      BY <1>5, <1>6, <2>1, <2>2
  <1>10. /\ j.sps = sps /\ j.pps = pps /\ j.pat = 1 /\ j.pmt = 1 /\ j \in Info
    BY <1>2, <1>5, <1>6 DEF WithSets, Info
  <1>. HIDE DEF j
  <1>11. 1 # None
    BY TsAssumption
  <1>12. MayBuild(j)
    BY <1>5, <1>6, <1>10, <1>11 DEF MayBuild, HasSets
  <1>. DEFINE d == [j EXCEPT !.data = HeaderOf(j, sps, pps), !.es_pid = Pid(p.kind)]
  <1>13. Built(j, Pid(p.kind)) = d
    <2>. DEFINE n == Len(sps \o pps)
    <2>1. n \in Nat /\ n <= Room
      <3>1. sps \o pps \in Seq(Owner \X {"sps", "pps", "other"} \X BOOLEAN)
        BY <1>5, <1>6, ConcatProperties DEF Units
      <3>. QED
        BY <1>3, <1>9, <3>1, LenProperties
    <2>. HIDE DEF n
    <2>2. ~(n > Room)
      BY <2>1, TsAssumption
    <2>. QED
      BY <1>10, <2>2, Zenon DEF Built, n
  <1>14. Pes2es(i, p) = d
    BY <1>8, <1>12, <1>13, Zenon DEF Pes2es, k
  <1>. DEFINE x == ParseTsInfo(i, p)
  <1>15. /\ d.sps = sps /\ d.pps = pps /\ d.pat = 1
         /\ d.data = HeaderOf(j, sps, pps)
         /\ \A pid : LET y == [d EXCEPT !.es_pid = pid] IN
                y.sps = d.sps /\ y.pps = d.pps /\ y.pat = d.pat /\ y.data = d.data
    BY <1>10 DEF Info
  <1>. HIDE DEF d
  <1>16. \E pid : x = [d EXCEPT !.es_pid = pid]
    <2>1. x = [d EXCEPT !.es_pid = IF d.dts \/ HasSets(d) THEN Pid(p.kind) ELSE d.es_pid]
      <3>1. i.es_pid \in {None, Pid(p.kind)}
        BY DEF Waits
      <3>. QED
        BY <1>14, <3>1, Zenon DEF ParseTsInfo
    <2>. QED
      BY <2>1, Zenon
  <1>17. /\ x.sps = sps /\ x.pps = pps /\ x.pat = 1
         /\ x.data = HeaderOf(j, sps, pps)
    BY <1>15, <1>16
  <1>18. /\ x.data.pat = 1 /\ x.data.pmt = 1 /\ x.data.sps = sps /\ x.data.pps = pps
    BY <1>10, <1>17 DEF HeaderOf
  <1>19. Done(x)
    BY <1>5, <1>6, <1>11, <1>17 DEF Done, HasSets
  <1>. HIDE DEF x
  <1>20. Served(x)
    BY <1>3, <1>5, <1>6, <1>7, <1>18, <1>19 DEF Served
  <1>. QED
    BY <1>20 DEF x

(* A packet of the first publisher leaves the entry where Follow says.     *)
LEMMA FollowKept ==
    ASSUME NEW i \in Info, Follows(i, order), NEW p \in Packets,
           order \in {"start", "pat", "pmt", "video", "key", "odd"},
           stream = 1, 1 \in Owner, layout \in Layouts
    PROVE  Follows(CheckTsInfo(i, p), Follow(p))
  <1>1. CASE order = "odd"
    BY <1>1 DEF Follow, Follows
  <1>2. CASE order = "key"
    <2>1. Follow(p) = "key"
      BY <1>2 DEF Follow
    <2>2. CheckTsInfo(i, p) = i
      BY <1>2, Zenon DEF CheckTsInfo, Follows, Served
    <2>. QED
      BY <1>2, <2>1, <2>2
  <1>3. CASE order \in {"start", "pat", "pmt", "video"}
    <2>1. Waits(i) /\ order \notin {"key", "odd"}
      BY <1>3 DEF Follows
    <2>2. CheckTsInfo(i, p) = ParseTsInfo(i, p)
      BY <2>1, Zenon DEF CheckTsInfo, Done, HasSets, Waits
    <2>3. p.kind \in {"pat", "pmt", "other", "video", "audio"}
      BY DEF Packets
    <2>4. /\ i.pmt_pid # Pid("video") /\ i.pmt_pid # Pid("audio")
          /\ i.pmt_pid = Pid("pmt") <=> order # "start"
      BY <1>3, PidsDiffer DEF Follows
    <2>5. CASE p.kind = "other"
      <3>1. ParseTsInfo(i, p) = i /\ Follow(p) = order
        BY <2>1, <2>5 DEF ParseTsInfo, Follow
      <3>. QED
        BY <2>2, <3>1
    <2>6. CASE p.kind = "pat"
      <3>0. p.program \in BOOLEAN
        BY <2>6 DEF Packets
      <3>1. ParseTsInfo(i, p) = SavePat(i, p)
        BY <2>6 DEF ParseTsInfo
      <3>2. Follow(p) = IF order = "start" /\ p.program THEN "pat" ELSE order
        BY <2>1, <2>6 DEF Follow
      <3>. DEFINE x == SavePat(i, p)
      <3>3. /\ x.sps = i.sps /\ x.pps = i.pps /\ x.es_pid = i.es_pid /\ x.pmt = i.pmt
            /\ x.pat = 1 /\ x.pmt_pid = IF p.program THEN Pid("pmt") ELSE i.pmt_pid
        BY DEF SavePat, Info
      <3>. HIDE DEF x
      <3>4. Follows(x, Follow(p))
        BY <1>3, <3>0, <3>2, <3>3 DEF Follows, Waits
      <3>. QED
        BY <2>2, <3>1, <3>4 DEF x
    <2>7. CASE p.kind = "pmt"
      <3>1. Follow(p) = IF order = "pat" THEN "pmt" ELSE order
        BY <2>1, <2>7 DEF Follow
      <3>2. CASE order = "start"
        <4>1. ParseTsInfo(i, p) = i
          BY <2>4, <2>7, <3>2, Zenon DEF ParseTsInfo
        <4>. QED
          BY <2>2, <3>1, <3>2, <4>1
      <3>3. CASE order # "start"
        <4>. DEFINE x == [i EXCEPT !.pmt = 1]
        <4>1. ParseTsInfo(i, p) = x
          BY <2>4, <2>7, <3>3, Zenon DEF ParseTsInfo, SavePmt
        <4>2. /\ x.sps = i.sps /\ x.pps = i.pps /\ x.es_pid = i.es_pid /\ x.pmt = 1
              /\ x.pat = i.pat /\ x.pmt_pid = i.pmt_pid
          BY DEF Info
        <4>. HIDE DEF x
        <4>3. Follows(x, Follow(p))
          BY <1>3, <3>1, <3>3, <4>2 DEF Follows, Waits
        <4>. QED
          BY <2>2, <4>1, <4>3
      <3>. QED
        BY <3>2, <3>3
    <2>8. ASSUME p.kind \in {"video", "audio"}, Sets(p.es) = {}, i.es_pid \in {None, Pid(p.kind)}
          PROVE  \E x \in Info :
                    /\ CheckTsInfo(i, p) = x
                    /\ x.sps = i.sps /\ x.pps = i.pps /\ x.pmt = i.pmt
                    /\ x.pat = i.pat /\ x.pmt_pid = i.pmt_pid
                    /\ x.es_pid = IF p.pts THEN Pid(p.kind) ELSE i.es_pid
      <3>. DEFINE x == [i EXCEPT !.dts = p.pts, !.es_pid = IF p.pts THEN Pid(p.kind) ELSE i.es_pid]
      <3>1. CheckTsInfo(i, p) = x
        BY <2>1, <2>2, <2>4, <2>8, PlainPes
      <3>2. p.pts \in BOOLEAN /\ Pid(p.kind) \in PidOrNone
        BY <2>8, PesPackets, PidIsOne
      <3>3. /\ x \in Info /\ x.sps = i.sps /\ x.pps = i.pps /\ x.pmt = i.pmt
            /\ x.pat = i.pat /\ x.pmt_pid = i.pmt_pid
            /\ x.es_pid = IF p.pts THEN Pid(p.kind) ELSE i.es_pid
        BY <3>2 DEF Info
      <3>. HIDE DEF x
      <3>. QED
        BY <3>1, <3>3
    <2>9. CASE p.kind = "audio"
      <3>1. p.es = << >> /\ p.pts \in BOOLEAN
        BY <2>9 DEF Packets
      <3>2. Sets(p.es) = {}
        BY <3>1 DEF Sets
      <3>3. CASE i.es_pid = Pid("video")
        <4>1. ParseTsInfo(i, p) = i
          BY <2>4, <2>9, <3>3, PidsDiffer, Zenon DEF ParseTsInfo
        <4>2. Follow(p) = order \/ Follow(p) = "odd"
          BY <2>1, <2>9 DEF Follow
        <4>. QED
          BY <2>2, <4>1, <4>2 DEF Follows
      <3>4. CASE i.es_pid # Pid("video")
        <4>1. i.es_pid = None /\ order # "video"
          BY <2>1, <3>4 DEF Waits, Follows
        <4>2. PICK x \in Info :
                    /\ CheckTsInfo(i, p) = x
                    /\ x.sps = i.sps /\ x.pps = i.pps /\ x.pmt = i.pmt
                    /\ x.pat = i.pat /\ x.pmt_pid = i.pmt_pid
                    /\ x.es_pid = IF p.pts THEN Pid(p.kind) ELSE i.es_pid
          BY <2>8, <2>9, <3>2, <4>1
        <4>3. Follow(p) = IF p.pts THEN "odd" ELSE order
          BY <2>1, <2>9, <3>1, <4>1 DEF Follow
        <4>. QED
          BY <1>3, <4>1, <4>2, <4>3 DEF Follows, Waits
      <3>. QED
        BY <3>3, <3>4
    <2>10. CASE p.kind = "video" /\ Sets(p.es) = {}
      <3>1. p.pts \in BOOLEAN
        BY <2>10, PesPackets
      <3>2. PICK x \in Info :
                    /\ CheckTsInfo(i, p) = x
                    /\ x.sps = i.sps /\ x.pps = i.pps /\ x.pmt = i.pmt
                    /\ x.pat = i.pat /\ x.pmt_pid = i.pmt_pid
                    /\ x.es_pid = IF p.pts THEN Pid(p.kind) ELSE i.es_pid
        BY <2>1, <2>8, <2>10 DEF Waits
      <3>3. Follow(p) = IF p.pts /\ order = "pmt" THEN "video" ELSE order
        BY <2>1, <2>10, <3>1 DEF Follow
      <3>. QED
        BY <1>3, <2>10, <3>2, <3>3 DEF Follows, Waits
    <2>11. CASE p.kind = "video" /\ Sets(p.es) # {}
      <3>1. Follow(p) = IF order \in {"pmt", "video"} /\ Keyed(p.es) THEN "key" ELSE "odd"
        BY <2>1, <2>11 DEF Follow
      <3>2. CASE order \in {"pmt", "video"} /\ Keyed(p.es)
        <4>1. Served(ParseTsInfo(i, p))
          BY <2>1, <2>4, <2>11, <3>2, KeyPes DEF Follows
        <4>. QED
          BY <2>2, <3>1, <3>2, <4>1 DEF Follows
      <3>3. CASE ~(order \in {"pmt", "video"} /\ Keyed(p.es))
        BY <3>1, <3>3 DEF Follows
      <3>. QED
        BY <3>2, <3>3
    <2>. QED
      BY <2>3, <2>5, <2>6, <2>7, <2>9, <2>10, <2>11
  <1>. QED
    BY <1>1, <1>2, <1>3

(* Every step keeps the order.                                             *)
LEMMA NextOrder == IInv /\ OrderInv /\ [Next]_vars => OrderInv'
  <1>. SUFFICES ASSUME IInv, OrderInv, [Next]_vars PROVE OrderInv'
    OBVIOUS
  <1>1. CASE Add
    <2>1. stream' = stream + 1 /\ order' = "start" /\ ti' = ti /\ stream \in Nat
      BY <1>1 DEF Add, IInv, TypeOK
    <2>2. ASSUME stream' = 1 PROVE Follows(Entry, order)'
      <3>1. stream = 0 /\ Entry' = NewInfo
        BY <2>1, <2>2 DEF OrderInv, Entry
      <3>. QED
        BY <2>1, <3>1 DEF Follows, Waits, NewInfo
    <2>. QED
      BY <2>1, <2>2 DEF OrderInv
  <1>2. CASE Remove \/ UNCHANGED vars
    <2>1. UNCHANGED <<ti, stream, layout, order>>
      BY <1>2 DEF Remove, vars
    <2>. QED
      BY <2>1 DEF OrderInv, Entry, Follows, Waits, Pid, Served
  <1>3. ASSUME NEW p \in Packets, Put(p)
        PROVE  OrderInv'
    <2>1. /\ ti' = CheckTsInfo(Entry, p) /\ order' = Follow(p)
          /\ stream' = stream /\ layout' = layout /\ stream \in Owner /\ layout \in Layouts
      BY <1>3 DEF Put, Entry, IInv, TypeOK
    <2>2. Sound(Entry) /\ Entry \in Info
      BY NewInfoIsOpen, OpenIsSound DEF Known, IInv, Entry, Sound
    <2>3. Sound(ti')
      BY <2>1, <2>2, CheckKeepsSound
    <2>4. stream # 0
      BY <2>1 DEF Owner
    <2>5. ASSUME stream' = 1 PROVE Follows(Entry, order)'
      <3>1. Follows(CheckTsInfo(Entry, p), Follow(p))
        BY <2>1, <2>2, <2>5, FollowKept DEF OrderInv, IInv, TypeOK
      <3>2. Entry' = CheckTsInfo(Entry, p)
        <4>1. ti' # None
          BY <2>3, NoneIsNoInfo DEF Sound
        <4>. QED
          BY <2>1, <4>1 DEF Entry
      <3>. QED
        BY <2>1, <3>1, <3>2 DEF Follows, Waits, Pid, Served
    <2>. QED
      BY <2>1, <2>4, <2>5 DEF OrderInv
  <1>. QED
    BY <1>1, <1>2, <1>3 DEF Next

-----------------------------------------------------------------------------
(* The theorems.                                                           *)

(* Types, and that a header has a PAT and fits a packet: sls_pes2es builds *)
(* none before both sets and a PAT are there.                              *)
THEOREM TypeCorrect == Spec => []TypeOK
  BY IInvAlways, PTL DEF IInv

(* Every parameter set a player is handed starts with its unit and ends    *)
(* before the next start code, for any sequence of units and packets       *)
(* (sls_parse_spspps).                                                     *)
THEOREM SetsAreCutCorrect == Spec => []SetsAreCut
  <1>1. IInv => SetsAreCut
    BY DEF IInv, Sound, SetsAreCut, Header, NoHeader, IsCut
  <1>. QED
    BY <1>1, IInvAlways, PTL

(* A header once made stays what it is: a packet finds the entry done, and *)
(* neither a publisher that comes nor one that leaves touches it.          *)
THEOREM HeaderIsFinalCorrect == Spec => HeaderIsFinal
  <1>1. IInv /\ [Next]_vars => [Header # NoHeader => Header' = Header]_vars
    <2>. SUFFICES ASSUME IInv, Next, Header # NoHeader PROVE Header' = Header
      BY Zenon DEF vars
    <2>1. ti # None /\ Done(ti)
      BY DEF IInv, Sound, Header, Known
    <2>2. ti' = ti
      <3>1. CASE Add \/ Remove
        BY <3>1 DEF Add, Remove
      <3>2. CASE \E p \in Packets : Put(p)
        BY <2>1, <3>2 DEF Put, CheckTsInfo
      <3>. QED
        BY <3>1, <3>2 DEF Next
    <2>. QED
      BY <2>2 DEF Header, Known
  <1>. QED
    BY <1>1, IInvAlways, PTL DEF Spec, HeaderIsFinal

(* Whatever units its packets hold and whatever else comes between, an     *)
(* orderly first publisher gives its players its own tables and sets with  *)
(* the packet that has the sets (sls_pes2es, sls_parse_spspps).            *)
THEOREM OrderlyIsServedCorrect == Spec => []OrderlyIsServed
  <1>1. Init => OrderInv
    BY DEF Init, OrderInv
  <1>2. IInv /\ OrderInv => OrderlyIsServed
    <2>. SUFFICES ASSUME IInv, OrderInv, stream = 1, order = "key"
                  PROVE  /\ Header.pat = 1 /\ Header.pmt = 1
                         /\ Head(Header.sps) = <<1, "sps", TRUE>>
                         /\ Head(Header.pps) = <<1, "pps", TRUE>>
      BY DEF OrderlyIsServed
    <2>1. Served(Entry)
      BY DEF OrderInv, Follows
    <2>2. ~Done(NewInfo)
      BY DEF Done, HasSets, NewInfo
    <2>3. Header = Entry.data
      BY <2>1, <2>2 DEF Header, Known, Entry, Served
    <2>. QED
      BY <2>1, <2>3 DEF Served
  <1>. QED
    BY IInvAlways, <1>1, <1>2, NextOrder, PTL DEF Spec
=============================================================================
