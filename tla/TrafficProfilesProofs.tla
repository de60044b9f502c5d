------------------------ MODULE TrafficProfilesProofs ------------------------
(***************************************************************************)
(* Proofs about TrafficProfiles, for every integer frame size.  Of the     *)
(* table of the profiles only what ProfilesAssumption says is used; TLC    *)
(* evaluates it on the whole table.                                        *)
(*                                                                         *)
(* PortsLoaded is not inductive: what a port is given depends on streams   *)
(* that were created, in an earlier step, from the profile and the frame   *)
(* size of the same trial (Loaded).                                        *)
(***************************************************************************)
EXTENDS TrafficProfiles, SequenceTheorems, TLAPS

NoStreams == [p \in Ports |-> <<>>]

\* The streams are those of the profile and the frame size of the trial;
\* between trials, and for a stateful profile, there are none.
Loaded ==
  /\ IF name = None THEN profile = NoProfile
     ELSE name \in Names /\ profile = ProfileOf[name]
  /\ IF IsStl THEN frame \in Frames /\ streams = create_streams(profile, frame)
     ELSE streams = <<>> /\ ports = NoStreams /\ ~latency

IInv == TypeOK /\ Loaded /\ PortsLoaded

-----------------------------------------------------------------------------
(* Lemmas about the operators.                                             *)

\* The maximum of two, as create_streams uses it to pad a frame to its headers.
LEMMA MaxOfTwo ==
  ASSUME NEW a \in Int, NEW b \in Int
  PROVE  Max({a, b}) = IF a >= b THEN a ELSE b
<1>1. \E x \in {a, b} : \A y \in {a, b} : x >= y
  OBVIOUS
<1>2. Max({a, b}) \in {a, b} /\ \A y \in {a, b} : Max({a, b}) >= y
  BY <1>1 DEF Max
<1> QED  BY <1>2

\* A frame is padded up to the requested size, never cut.
LEMMA PadFills ==
  ASSUME NEW length \in Nat, NEW size \in Nat
  PROVE  Pad(length, size) \in Nat
         /\ Pad(length, size) = IF size >= length + 4 THEN size - length - 4 ELSE 0
  BY MaxOfTwo DEF Pad

\* The streams of an integer frame size: one for each direction, then the
\* latency streams.
LEMMA FixedList ==
  ASSUME NEW d, NEW size
  PROVE  LET s == FixedStreams(d, size)
             pad == Pad(DirOf(d, 0).len, size)
         IN  /\ Len(s) = 4
             /\ s[1] = Stream(0, DirOf(d, 0).len + pad, FALSE)
             /\ s[2] = Stream(1, DirOf(d, 1).len + pad, FALSE)
             /\ s[3] = Stream(0, DirOf(d, 0).len + pad, TRUE)
             /\ s[4] = Stream(1, DirOf(d, 1).len + pad, TRUE)
  BY DEF FixedStreams

\* The three streams of a direction for a mix.
MixOf(d, mix, p) ==
  [i \in 1 .. 3 |-> Stream(p, DirOf(d, p).len + Pad(DirOf(d, p).len, STREAM_TABLE[mix][i]), FALSE)]

\* A mix: the streams of direction 0, then those of direction 1.
LEMMA MixList ==
  ASSUME NEW d, NEW mix \in DOMAIN STREAM_TABLE
  PROVE  LET s == MixStreams(d, mix)
         IN  /\ Len(s) = 6
             /\ \A i \in 1 .. 3 : s[i] = MixOf(d, mix, 0)[i]
             /\ \A i \in 4 .. 6 : s[i] = MixOf(d, mix, 1)[i - 3]
<1>1. /\ mix \in {"IMIX_v4", "IMIX_v4_1"}
      /\ DOMAIN STREAM_TABLE[mix] = 1 .. 3
  BY DEF STREAM_TABLE
<1>2. MixStreams(d, mix) = MixOf(d, mix, 0) \o MixOf(d, mix, 1)
  BY <1>1 DEF MixStreams, MixOf
<1> DEFINE S == UNION {{MixOf(d, mix, p)[i] : i \in 1 .. 3} : p \in {0, 1}}
<1>3. /\ MixOf(d, mix, 0) \in Seq(S) /\ Len(MixOf(d, mix, 0)) = 3
      /\ MixOf(d, mix, 1) \in Seq(S) /\ Len(MixOf(d, mix, 1)) = 3
  BY DEF MixOf
<1> HIDE DEF S
<1>4. /\ Len(MixOf(d, mix, 0) \o MixOf(d, mix, 1)) = 6
      /\ \A i \in 1 .. 6 : (MixOf(d, mix, 0) \o MixOf(d, mix, 1))[i] =
           IF i <= 3 THEN MixOf(d, mix, 0)[i] ELSE MixOf(d, mix, 1)[i - 3]
  <2> DEFINE s == MixOf(d, mix, 0)
             t == MixOf(d, mix, 1)
  <2>1. s \in Seq(S) /\ t \in Seq(S) /\ Len(s) = 3 /\ Len(t) = 3
    BY <1>3
  <2> HIDE DEF s, t
  <2>2. /\ Len(s \o t) = 6
        /\ \A i \in 1 .. 6 : (s \o t)[i] = IF i <= 3 THEN s[i] ELSE t[i - 3]
    <3>1. /\ Len(s \o t) = Len(s) + Len(t)
          /\ \A i \in 1 .. Len(s) + Len(t) :
               (s \o t)[i] = IF i <= Len(s) THEN s[i] ELSE t[i - Len(s)]
      BY <2>1, ConcatProperties, Zenon
    <3> QED  BY <2>1, <3>1
  <2> QED  BY <2>2 DEF s, t
<1> QED  BY <1>2, <1>4

\* What a slice with something after it consists of.
LEMMA SliceAndMore ==
  ASSUME NEW s, NEW m \in Int, NEW n \in Int, NEW k \in Nat \ {0}, n = m + k - 1,
         NEW T, NEW t \in Seq(T), NEW r, r = SubSeq(s, m, n) \o t
  PROVE  /\ Len(r) = k + Len(t)
         /\ DOMAIN r = 1 .. Len(r)
         /\ \A i \in 1 .. k : r[i] = s[m + i - 1]
         /\ \A i \in 1 .. Len(t) : r[k + i] = t[i]
<1> DEFINE S == {s[i] : i \in m .. n} \cup T
<1>1. \A i \in m .. n : s[i] \in S
  OBVIOUS
<1>2. t \in Seq(S) /\ Len(t) \in Nat
  BY SeqMonotonic, LenProperties
<1> HIDE DEF S
<1>3. /\ SubSeq(s, m, n) \in Seq(S)
      /\ Len(SubSeq(s, m, n)) = k
      /\ \A i \in 1 .. k : SubSeq(s, m, n)[i] = s[m + i - 1]
  BY <1>1, SubSeqProperties
<1>4. /\ r \in Seq(S)
      /\ Len(r) = k + Len(t)
      /\ \A i \in 1 .. k + Len(t) : r[i] =
           IF i <= k THEN SubSeq(s, m, n)[i] ELSE t[i - k]
  <2> DEFINE q == SubSeq(s, m, n)
  <2> HIDE DEF q
  <2>1. /\ q \o t \in Seq(S)
        /\ Len(q \o t) = Len(q) + Len(t)
        /\ \A i \in 1 .. Len(q) + Len(t) :
             (q \o t)[i] = IF i <= Len(q) THEN q[i] ELSE t[i - Len(q)]
    <3>1. q \in Seq(S) /\ t \in Seq(S)
      BY <1>2, <1>3 DEF q
    <3> QED  BY <3>1, ConcatProperties, Zenon
  <2>2. q \o t = r /\ Len(q) = k /\ q = SubSeq(s, m, n)
    BY <1>3 DEF q
  <2> QED  BY <2>1, <2>2
<1>5. DOMAIN r = 1 .. Len(r)
  BY <1>4, LenProperties
<1>7. \A i \in 1 .. k : r[i] = s[m + i - 1]
  BY <1>2, <1>3, <1>4
<1>8. ASSUME NEW i \in 1 .. Len(t) PROVE r[k + i] = t[i]
  <2>1. k + i \in 1 .. k + Len(t) /\ ~(k + i <= k) /\ (k + i) - k = i
    BY <1>2
  <2> QED  BY <1>4, <2>1
<1> QED  BY <1>4, <1>5, <1>7, <1>8

\* A latency stream after it, or nothing.
LEMMA OneOrNone ==
  ASSUME NEW more \in BOOLEAN, NEW x
  PROVE  LET t == IF more THEN <<x>> ELSE <<>>
         IN  /\ t \in Seq({x})
             /\ Len(t) = IF more THEN 1 ELSE 0
             /\ more => t[1] = x
<1>1. CASE more
  <2>1. <<x>> \in Seq({x}) /\ Len(<<x>>) = 1 /\ <<x>>[1] = x
    OBVIOUS
  <2> QED  BY <1>1, <2>1
<1>2. CASE ~more
  BY <1>2, EmptySeq
<1> QED  BY <1>1, <1>2

-----------------------------------------------------------------------------
(* What a port is given.                                                   *)

\* Two directions of a stateless profile.
LEMMA ProfileFacts ==
  ASSUME Loaded, IsStl, NEW p \in Ports
  PROVE  Dir(p).len \in Nat
<1>1. name \in Names /\ profile = ProfileOf[name]
  BY DEF Loaded, IsStl, NoProfile, None
<1>2. profile.kind = "stl"
  BY DEF IsStl
<1> QED  BY <1>1, <1>2, ProfilesAssumption DEF Dir

\* With an integer frame size a port gets its one stream and perhaps the latency
\* stream of its direction.
LEMMA FixedFits ==
  ASSUME Loaded, IsStl, frame.mix = None, NEW p \in Ports, NEW more \in BOOLEAN
  PROVE  LET r == SubSeq(streams, p + 1, p + 1)
                  \o (IF more THEN <<streams[2 + p + 1]>> ELSE <<>>)
         IN  /\ Fits(profile, frame, p, r) /\ r # <<>>
             /\ more => \E i \in DOMAIN r : r[i].lat
<1> DEFINE r == SubSeq(streams, p + 1, p + 1)
                \o (IF more THEN <<streams[2 + p + 1]>> ELSE <<>>)
           pad == Pad(Dir(0).len, frame.size)
<1>1. /\ frame.size \in Nat
      /\ streams = FixedStreams(profile, frame.size)
  BY FrameSizesAssumption DEF Loaded, Frames, create_streams, STREAM_TABLE, None
<1>2. p \in {0, 1} /\ 0 \in Ports
  BY DEF Ports
<1>3. Dir(p).len \in Nat /\ Dir(0).len \in Nat
  BY <1>2, ProfileFacts
<1>4. /\ pad \in Nat
      /\ pad = IF frame.size >= Dir(0).len + 4 THEN frame.size - Dir(0).len - 4 ELSE 0
  BY <1>1, <1>3, PadFills
<1>5. /\ streams[p + 1] = Stream(p, Dir(p).len + pad, FALSE)
      /\ streams[2 + p + 1] = Stream(p, Dir(p).len + pad, TRUE)
  <2>1. /\ streams[1] = Stream(0, Dir(0).len + pad, FALSE)
        /\ streams[2] = Stream(1, Dir(1).len + pad, FALSE)
        /\ streams[3] = Stream(0, Dir(0).len + pad, TRUE)
        /\ streams[4] = Stream(1, Dir(1).len + pad, TRUE)
    BY <1>1, FixedList DEF Dir
  <2> HIDE DEF pad
  <2>2. CASE p = 0
    BY <2>1, <2>2 DEF Stream
  <2>3. CASE p = 1
    BY <2>1, <2>3 DEF Stream
  <2> QED  BY <1>2, <2>2, <2>3
<1> HIDE DEF pad
<1>6. /\ r # <<>>
      /\ Len(r) = IF more THEN 2 ELSE 1
      /\ DOMAIN r = 1 .. Len(r)
      /\ r[1] = Stream(p, Dir(p).len + pad, FALSE)
      /\ more => r[2] = Stream(p, Dir(p).len + pad, TRUE)
  <2> DEFINE m == p + 1
             k == 1
             T == {streams[2 + p + 1]}
             t == IF more THEN <<streams[2 + p + 1]>> ELSE <<>>
  <2>1. m \in Int /\ k \in Nat \ {0} /\ m = m + k - 1
    BY <1>2
  <2>2. /\ t \in Seq(T)
        /\ Len(t) = IF more THEN 1 ELSE 0
        /\ more => t[1] = streams[2 + p + 1]
    BY OneOrNone
  <2>3. r = SubSeq(streams, m, m) \o t
    OBVIOUS
  <2> HIDE DEF r, t, T, m, k
  <2>4. /\ Len(r) = k + Len(t)
        /\ DOMAIN r = 1 .. Len(r)
        /\ \A i \in 1 .. k : r[i] = streams[m + i - 1]
        /\ \A i \in 1 .. Len(t) : r[k + i] = t[i]
    BY <2>1, <2>2, <2>3, SliceAndMore
  <2>5. r[1] = streams[p + 1]
    BY <2>1, <2>4 DEF k, m
  <2>6. Len(r) = IF more THEN 2 ELSE 1
    BY <2>2, <2>4 DEF k
  <2>7. more => r[2] = streams[2 + p + 1]
    BY <2>2, <2>4 DEF k
  <2>8. r # <<>>
    <3>1. SUFFICES ASSUME r = <<>> PROVE FALSE
      OBVIOUS
    <3>2. Len(r) = 0
      BY <3>1, EmptySeq
    <3> QED  BY <2>6, <3>2
  <2> QED  BY <1>5, <2>4, <2>5, <2>6, <2>7, <2>8
<1> HIDE DEF r
<1>7. Dir(p).len + pad + 4 = Max({frame.size + (Dir(p).len - Dir(0).len), Dir(p).len + 4})
  BY <1>1, <1>3, <1>4, MaxOfTwo
<1>8. ASSUME NEW i \in DOMAIN r
      PROVE  /\ r[i].dir = p
             /\ r[i].lat <=> i > 1
             /\ r[i].length = Dir(p).len + pad
  BY <1>6 DEF Stream
<1>9. Fits(profile, frame, p, r)
  BY <1>6, <1>7, <1>8 DEF Fits, Dir
<1>10. more => \E i \in DOMAIN r : r[i].lat
  BY <1>6, <1>8
<1> QED  BY <1>6, <1>9, <1>10 DEF r

\* With a mix a port gets the three streams of its direction.
LEMMA MixFits ==
  ASSUME Loaded, IsStl, frame.mix # None, NEW p \in Ports, NEW x,
         NEW more \in BOOLEAN, ~more
  PROVE  LET r == SubSeq(streams, 3 * p + 1, 3 * p + 3) \o (IF more THEN <<x>> ELSE <<>>)
         IN  Fits(profile, frame, p, r) /\ r # <<>>
<1> DEFINE r == SubSeq(streams, 3 * p + 1, 3 * p + 3) \o (IF more THEN <<x>> ELSE <<>>)
           table == STREAM_TABLE[frame.mix]
<1>1. /\ frame.mix \in DOMAIN STREAM_TABLE
      /\ streams = MixStreams(profile, frame.mix)
  BY DEF Loaded, Frames, create_streams
<1>2. p \in {0, 1}
  BY DEF Ports
<1>3. Dir(p).len \in Nat
  BY ProfileFacts
<1>4. Len(table) = 3 /\ \A i \in 1 .. 3 : table[i] \in Nat
  BY <1>1 DEF STREAM_TABLE
<1> HIDE DEF table
<1>5. \A i \in 1 .. 3 : streams[3 * p + i] = MixOf(profile, frame.mix, p)[i]
  BY <1>1, <1>2, MixList
<1>6. \A i \in 1 .. 3 : streams[3 * p + i] =
        Stream(p, Dir(p).len + Pad(Dir(p).len, table[i]), FALSE)
  BY <1>5 DEF MixOf, Dir, table
<1>7. /\ r # <<>> /\ Len(r) = 3
      /\ DOMAIN r = 1 .. 3
      /\ \A i \in 1 .. 3 : r[i] = streams[3 * p + i]
  <2> DEFINE m == 3 * p + 1
             n == 3 * p + 3
             k == 3
             T == {x}
             t == IF more THEN <<x>> ELSE <<>>
  <2>1. m \in Int /\ n \in Int /\ k \in Nat \ {0} /\ n = m + k - 1
    BY <1>2
  <2>2. t \in Seq(T) /\ Len(t) = 0
    BY OneOrNone
  <2>3. r = SubSeq(streams, m, n) \o t
    OBVIOUS
  <2> HIDE DEF r, t, T, m, n, k
  <2>4. /\ Len(r) = k + Len(t)
        /\ DOMAIN r = 1 .. Len(r)
        /\ \A i \in 1 .. k : r[i] = streams[m + i - 1]
    BY <2>1, <2>2, <2>3, SliceAndMore
  <2>5. \A i \in 1 .. 3 : m + i - 1 = 3 * p + i
    BY <1>2 DEF m
  <2>8. r # <<>>
    <3>1. SUFFICES ASSUME r = <<>> PROVE FALSE
      OBVIOUS
    <3>2. Len(r) = 0
      BY <3>1, EmptySeq
    <3> QED  BY <2>2, <2>4, <3>2 DEF k
  <2> QED  BY <2>2, <2>4, <2>5, <2>8 DEF k
<1> HIDE DEF r
<1>8. ASSUME NEW i \in 1 .. 3
      PROVE  /\ r[i].dir = p /\ ~r[i].lat
             /\ r[i].length + 4 = Max({table[i] + 0, Dir(p).len + 4})
  <2>1. Pad(Dir(p).len, table[i]) \in Nat /\
        Pad(Dir(p).len, table[i]) =
          IF table[i] >= Dir(p).len + 4 THEN table[i] - Dir(p).len - 4 ELSE 0
    BY <1>3, <1>4, PadFills
  <2>2. /\ r[i].dir = p /\ r[i].lat = FALSE
        /\ r[i].length = Dir(p).len + Pad(Dir(p).len, table[i])
    BY <1>6, <1>7 DEF Stream
  <2>3. Max({table[i] + 0, Dir(p).len + 4}) =
          IF table[i] >= Dir(p).len + 4 THEN table[i] ELSE Dir(p).len + 4
    BY <1>3, <1>4, MaxOfTwo
  <2> QED  BY <1>3, <1>4, <2>1, <2>2, <2>3
<1>9. Fits(profile, frame, p, r)
  BY <1>4, <1>7, <1>8 DEF Fits, Dir, table
<1> QED  BY <1>7, <1>9 DEF r

\* What AddStreams does to one port it uses.
LEMMA PortGiven ==
  ASSUME Loaded, IsStl, NEW p \in Ports, NEW given,
         frame.mix # None => p \notin given
  PROVE  LET lastA == (Len(streams) - 2) \div 2
             lastB == 2 * lastA
             Data == IF frame.mix = None
                     THEN <<SubSeq(streams, 1, lastA), SubSeq(streams, lastA + 1, lastB)>>
                     ELSE <<SubSeq(streams, 1, 3), SubSeq(streams, 4, 6)>>
             r == Data[p + 1] \o (IF p \in given THEN <<streams[lastB + p + 1]>> ELSE <<>>)
         IN  /\ Fits(profile, frame, p, r) /\ r # <<>>
             /\ p \in given => \E i \in DOMAIN r : r[i].lat
<1> DEFINE lastA == (Len(streams) - 2) \div 2
           lastB == 2 * lastA
           Data == IF frame.mix = None
                   THEN <<SubSeq(streams, 1, lastA), SubSeq(streams, lastA + 1, lastB)>>
                   ELSE <<SubSeq(streams, 1, 3), SubSeq(streams, 4, 6)>>
           more == p \in given
           Rest(x) == IF more THEN <<x>> ELSE <<>>
<1>1. p \in {0, 1}
  BY DEF Ports
<1>2. more \in BOOLEAN
  OBVIOUS
<1>3. CASE frame.mix = None
  <2>1. Len(streams) = 4
    <3>1. streams = FixedStreams(profile, frame.size)
      BY <1>3 DEF Loaded, create_streams
    <3> QED  BY <3>1, FixedList
  <2>2. lastA = 1 /\ lastB = 2
    BY <2>1
  <2>3. Data[p + 1] = SubSeq(streams, p + 1, p + 1)
    <3>1. Data = <<SubSeq(streams, 1, 1), SubSeq(streams, 2, 2)>>
      BY <1>3, <2>2
    <3> HIDE DEF Data
    <3>2. CASE p = 0
      BY <3>1, <3>2
    <3>3. CASE p = 1
      BY <3>1, <3>3
    <3> QED  BY <1>1, <3>2, <3>3
  <2> DEFINE r == SubSeq(streams, p + 1, p + 1) \o Rest(streams[2 + p + 1])
  <2>4. /\ Fits(profile, frame, p, r) /\ r # <<>>
        /\ more => \E i \in DOMAIN r : r[i].lat
    <3> HIDE DEF more
    <3> QED  BY <1>2, <1>3, FixedFits
  <2> HIDE DEF more, lastA, lastB, Data
  <2>5. Data[p + 1] \o Rest(streams[lastB + p + 1]) = r
    BY <2>2, <2>3
  <2> HIDE DEF r, Rest
  <2>6. /\ Fits(profile, frame, p, Data[p + 1] \o Rest(streams[lastB + p + 1]))
        /\ Data[p + 1] \o Rest(streams[lastB + p + 1]) # <<>>
        /\ more => \E i \in DOMAIN (Data[p + 1] \o Rest(streams[lastB + p + 1])) :
                     (Data[p + 1] \o Rest(streams[lastB + p + 1]))[i].lat
    BY <2>4, <2>5
  <2> QED  BY <2>6 DEF Rest, more, Data, lastA, lastB
<1>4. CASE frame.mix # None
  <2>1. ~more
    BY <1>4
  <2>2. Data[p + 1] = SubSeq(streams, 3 * p + 1, 3 * p + 3)
    <3>1. Data = <<SubSeq(streams, 1, 3), SubSeq(streams, 4, 6)>>
      BY <1>4
    <3> HIDE DEF Data
    <3>2. CASE p = 0
      BY <3>1, <3>2
    <3>3. CASE p = 1
      BY <3>1, <3>3
    <3> QED  BY <1>1, <3>2, <3>3
  <2> DEFINE x == streams[lastB + p + 1]
             r == SubSeq(streams, 3 * p + 1, 3 * p + 3) \o Rest(x)
  <2>3. Fits(profile, frame, p, r) /\ r # <<>>
    <3> HIDE DEF more, x
    <3> QED  BY <1>2, <1>4, <2>1, MixFits
  <2> HIDE DEF more, lastA, lastB, Data
  <2>4. Data[p + 1] \o Rest(streams[lastB + p + 1]) = r
    BY <2>2
  <2> HIDE DEF r, Rest
  <2>5. /\ Fits(profile, frame, p, Data[p + 1] \o Rest(streams[lastB + p + 1]))
        /\ Data[p + 1] \o Rest(streams[lastB + p + 1]) # <<>>
    BY <2>3, <2>4
  <2> QED  BY <2>1, <2>5 DEF Rest, more, Data, lastA, lastB
<1> QED  BY <1>3, <1>4

-----------------------------------------------------------------------------
(* The steps.                                                              *)

\* Nothing is loaded at first.
LEMMA InitHolds == Init => IInv
<1> SUFFICES ASSUME Init PROVE IInv
  OBVIOUS
<1>1. /\ name = None /\ profile = NoProfile /\ frame = NoFrame /\ streams = <<>>
      /\ ports = NoStreams /\ ~latency /\ latency \in BOOLEAN
  BY DEF Init, NoStreams
<1>2. \A p \in Ports : ports[p] = <<>>
  BY <1>1 DEF NoStreams
<1>3. ~IsStl
  BY <1>1 DEF IsStl, NoProfile, None
<1>4. TypeOK
  BY <1>1 DEF TypeOK, NoProfile
<1>5. Loaded
  BY <1>1, <1>3 DEF Loaded
<1>6. PortsLoaded
  BY <1>1, <1>2 DEF PortsLoaded, Sending
<1> QED  BY <1>4, <1>5, <1>6 DEF IInv

\* Between trials the ports are empty.
LEMMA NothingBetweenTrials ==
  ASSUME Loaded, name = None
  PROVE  /\ streams = <<>> /\ ports = NoStreams /\ ~latency
         /\ \A p \in Ports : ports[p] = <<>>
<1>1. ~IsStl
  BY DEF Loaded, IsStl, NoProfile, None
<1>2. streams = <<>> /\ ports = NoStreams /\ ~latency
  BY <1>1 DEF Loaded
<1> QED  BY <1>2 DEF NoStreams

\* The list has a length simple_burst can slice.
LEMMA ListLength ==
  ASSUME NEW d, NEW f \in Frames
  PROVE  Len(create_streams(d, f)) \in {4, 6}
<1>1. CASE f.mix = None
  BY <1>1, FixedList DEF create_streams
<1>2. CASE f.mix # None
  BY <1>2, MixList DEF Frames, create_streams
<1> QED  BY <1>1, <1>2

\* Loading a profile, and creating its streams, keeps the invariant.
LEMMA LoadKeeps == IInv /\ (LoadStl \/ LoadAstf) => IInv'
<1> SUFFICES ASSUME IInv, LoadStl \/ LoadAstf PROVE IInv'
  OBVIOUS
<1>1. name = None /\ UNCHANGED <<ports, latency>>
  BY DEF LoadStl, LoadAstf
<1>2. /\ streams = <<>> /\ ports = NoStreams /\ ~latency
      /\ \A p \in Ports : ports[p] = <<>>
  BY <1>1, NothingBetweenTrials DEF IInv
<1>3. /\ name' \in Names /\ profile' = ProfileOf[name'] /\ frame' \in Frames
      /\ IF IsStl' THEN streams' = create_streams(profile', frame') ELSE streams' = <<>>
  <2>1. CASE LoadStl
    BY <2>1 DEF LoadStl, IsStl
  <2>2. CASE LoadAstf
    <3>1. PICK n \in Names, f \in [mix : {None}, size : FrameSizes] :
            /\ ProfileOf[n].kind = "astf"
            /\ name' = n /\ profile' = ProfileOf[n] /\ frame' = f
      BY <2>2 DEF LoadAstf
    <3>2. ~IsStl' /\ streams' = <<>>
      BY <1>2, <2>2, <3>1 DEF LoadAstf, IsStl
    <3> QED  BY <3>1, <3>2 DEF Frames
  <2> QED  BY <2>1, <2>2
<1>4. name' # None /\ profile'.kind \in {"stl", "astf"}
  BY <1>3, ProfilesAssumption
<1>5. Len(streams') \in {0, 4, 6}
  <2>1. CASE IsStl'
    BY <1>3, <2>1, ListLength
  <2>2. CASE ~IsStl'
    BY <1>3, <2>2
  <2> QED  BY <2>1, <2>2
<1>6. TypeOK'
  BY <1>1, <1>2, <1>3, <1>4, <1>5 DEF IInv, TypeOK
<1>7. Loaded'
  BY <1>1, <1>2, <1>3, <1>4 DEF Loaded, NoStreams, Ports
<1>8. PortsLoaded'
  BY <1>1, <1>2 DEF PortsLoaded, Sending
<1> QED  BY <1>6, <1>7, <1>8 DEF IInv

\* The ports get the streams of the list.
LEMMA PrepareKeeps == IInv /\ PreparePorts => IInv'
<1> SUFFICES ASSUME IInv, PreparePorts PROVE IInv'
  OBVIOUS
<1>1. IsStl /\ Loaded /\ UNCHANGED <<name, profile, frame, streams>>
  BY DEF PreparePorts, IInv
<1>2. PICK directions \in {1, 2} : AddStreams(directions)
  BY DEF PreparePorts
<1> DEFINE used == 0 .. directions - 1
           lastA == (Len(streams) - 2) \div 2
           lastB == 2 * lastA
           Data == IF frame.mix = None
                   THEN <<SubSeq(streams, 1, lastA), SubSeq(streams, lastA + 1, lastB)>>
                   ELSE <<SubSeq(streams, 1, 3), SubSeq(streams, 4, 6)>>
<1>3. PICK wanted \in BOOLEAN, given \in LatencyPorts(frame, directions) :
        /\ ~wanted => given = {}
        /\ latency' = (wanted /\ given = used)
        /\ ports' = [p \in Ports |->
              IF p \notin used THEN <<>>
              ELSE Data[p + 1]
                   \o (IF p \in given THEN <<streams[lastB + p + 1]>> ELSE <<>>)]
  BY <1>2 DEF AddStreams
<1>4. \A p \in Ports : frame.mix # None => p \notin given
  BY DEF LatencyPorts
<1>5. \A p \in Ports \cap used :
        /\ Fits(profile, frame, p, ports'[p]) /\ ports'[p] # <<>>
        /\ p \in given => \E i \in DOMAIN ports'[p] : ports'[p][i].lat
  BY <1>1, <1>3, <1>4, PortGiven
<1> HIDE DEF Data, lastA, lastB, used
<1>6. \A p \in Ports \ used : ports'[p] = <<>>
  BY <1>3
<1>7. Sending' = Ports \cap used
  BY <1>5, <1>6 DEF Sending
<1>8. TypeOK'
  <2>1. latency' \in BOOLEAN
    BY <1>3
  <2> QED  BY <1>1, <2>1 DEF IInv, TypeOK
<1>9. Loaded'
  BY <1>1 DEF Loaded, IsStl
<1>10. PortsLoaded'
  <2>2. latency' => \A p \in Sending' : \E i \in DOMAIN ports'[p] : ports'[p][i].lat
    BY <1>3, <1>5, <1>7
  <2>3. \A p \in Sending' : Fits(profile, frame, p, ports'[p])
    BY <1>5, <1>7
  <2>4. profile' = profile /\ frame' = frame
    BY <1>1
  <2> QED  BY <2>2, <2>3, <2>4 DEF PortsLoaded
<1> QED  BY <1>8, <1>9, <1>10 DEF IInv

\* PortsLoaded depends on what a trial has loaded and on nothing else.
LEMMA PortsKept ==
  ASSUME PortsLoaded, UNCHANGED <<profile, frame, ports, latency>>
  PROVE  PortsLoaded'
<1>1. profile' = profile /\ frame' = frame /\ ports' = ports /\ latency' = latency
  OBVIOUS
<1>2. Sending' = Sending
  BY <1>1 DEF Sending
<1> QED  BY <1>1, <1>2 DEF PortsLoaded

\* The end of a trial leaves what Init sets up.
LEMMA EndKeeps == IInv /\ TrialEnds => IInv'
<1> SUFFICES ASSUME IInv, TrialEnds PROVE IInv'
  OBVIOUS
<1>1. /\ name' = None /\ profile' = NoProfile /\ frame' = NoFrame /\ streams' = <<>>
      /\ ports' = NoStreams /\ latency' = FALSE
  BY DEF TrialEnds, NoStreams
<1>2. \A p \in Ports : ports'[p] = <<>>
  BY <1>1 DEF NoStreams
<1>3. ~IsStl'
  BY <1>1 DEF IsStl, NoProfile, None
<1>4. TypeOK'
  <2>1. profile'.kind = None /\ Len(streams') = 0
    BY <1>1 DEF NoProfile
  <2>2. frame' \in Frames \cup {NoFrame} /\ latency' \in BOOLEAN
    BY <1>1
  <2> QED  BY <2>1, <2>2 DEF TypeOK
<1>5. Loaded'
  BY <1>1, <1>3 DEF Loaded, NoStreams
<1>6. PortsLoaded'
  BY <1>1, <1>2 DEF PortsLoaded, Sending
<1> QED  BY <1>4, <1>5, <1>6 DEF IInv

\* No step of the script or of the ports breaks the invariant.
LEMMA StepKeeps == IInv /\ [Next]_vars => IInv'
<1> SUFFICES ASSUME IInv, [Next]_vars PROVE IInv'
  OBVIOUS
<1>1. CASE UNCHANGED vars
  <2>1. /\ name' = name /\ profile' = profile /\ frame' = frame /\ streams' = streams
        /\ ports' = ports /\ latency' = latency
    BY <1>1 DEF vars
  <2>2. PortsLoaded'
    BY <2>1, PortsKept DEF IInv
  <2>3. TypeOK'
    BY <2>1 DEF IInv, TypeOK
  <2>4. Loaded'
    BY <2>1 DEF IInv, Loaded, IsStl
  <2> QED  BY <2>2, <2>3, <2>4 DEF IInv
<1> QED  BY <1>1, LoadKeeps, PrepareKeeps, EndKeeps DEF Next

-----------------------------------------------------------------------------
(* The theorems.                                                           *)

\* The invariant holds in every reachable state.
THEOREM Invariant == Spec => []IInv
  BY InitHolds, StepKeeps, PTL DEF Spec

\* For every integer frame size and both mixes, each port gets the streams of
\* its own direction, of the requested size, and its latency stream whenever
\* latency is reported.
THEOREM PortsLoadedHolds == Spec => []PortsLoaded
<1>1. IInv => PortsLoaded
  BY DEF IInv
<1> QED  BY Invariant, <1>1, PTL

=============================================================================
