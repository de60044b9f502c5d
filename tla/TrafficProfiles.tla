-------------------------- MODULE TrafficProfiles --------------------------
(***************************************************************************)
(* What TRex sends when a trial is started with one of the profiles of     *)
(* TrexProfiles: the base classes turn the profile into streams of the     *)
(* requested frame size (TrafficStreamsBaseClass.create_streams,           *)
(* TrafficProfileBaseClass.create_profile), the start script puts the      *)
(* streams on the two ports (simple_burst in trex_stl_profile.py).  TRex,  *)
(* which is not part of the repository and advances the flow variables     *)
(* with every packet, appears as the reference the properties compare the  *)
(* profiles with: the flows a set of variables yields.                     *)
(***************************************************************************)
EXTENDS Integers, Sequences, FiniteSets, FiniteSetsExt, TrexProfiles

CONSTANT FrameSizes  \* the frame sizes given as integers

ASSUME FrameSizesAssumption == FrameSizes \subseteq Nat

Names == DOMAIN ProfileOf
None == "none"
Ports == {0, 1}

\* The sizes of STREAM_TABLE; a frame size is an integer or the name of a mix.
STREAM_TABLE == [IMIX_v4 |-> <<60, 590, 1514>>, IMIX_v4_1 |-> <<64, 570, 1518>>]

Frames == [mix : {None}, size : FrameSizes]
          \cup [mix : DOMAIN STREAM_TABLE, size : {0}]

NoFrame == [mix |-> None, size |-> 0]

VARIABLES
    name,     \* the profile of the trial, None between trials
    profile,  \* what the file of that name defines
    frame,    \* the frame size of the trial
    streams,  \* what get_streams returned
    ports,    \* the streams each port was given
    latency   \* the latency flag of the script

vars == <<name, profile, frame, streams, ports, latency>>

NoProfile == [kind |-> None]

IsStl == profile.kind = "stl"
IsAstf == profile.kind = "astf"

\* The direction whose packets a port sends.
DirOf(d, p) == d.dirs[p + 1]

\* Headers have a length.
ASSUME ProfilesAssumption ==
    /\ None \notin Names
    /\ \A n \in Names : ProfileOf[n].kind \in {"stl", "astf"}
    /\ \A n \in Names : ProfileOf[n].kind = "stl" =>
          \A p \in Ports : DirOf(ProfileOf[n], p).len \in Nat

Dir(p) == DirOf(profile, p)

-----------------------------------------------------------------------------
(* The base class: streams of the requested size.                           *)

Pad(length, size) == Max({0, size - length - 4})

Stream(p, length, lat) == [dir |-> p, length |-> length, lat |-> lat]

\* An integer frame size: the padding of direction 0 is used for both.
FixedStreams(d, size) ==
    LET pad == Pad(DirOf(d, 0).len, size)
        Of(p, lat) == Stream(p, DirOf(d, p).len + pad, lat)
    IN  <<Of(0, FALSE), Of(1, FALSE), Of(0, TRUE), Of(1, TRUE)>>

\* A mix: three streams for each direction, each padded for itself.
MixStreams(d, mix) ==
    LET table == STREAM_TABLE[mix]
        Of(p) == [i \in DOMAIN table |->
                     Stream(p, DirOf(d, p).len + Pad(DirOf(d, p).len, table[i]), FALSE)]
    IN  Of(0) \o Of(1)

create_streams(d, f) ==
    IF f.mix = None THEN FixedStreams(d, f.size) ELSE MixStreams(d, f.mix)

-----------------------------------------------------------------------------

Init ==
    /\ name = None
    /\ profile = NoProfile
    /\ frame = NoFrame
    /\ streams = <<>>
    /\ ports = [p \in Ports |-> <<>>]
    /\ latency = FALSE

\* STLProfile.load and get_streams.
LoadStl ==
    /\ name = None
    /\ \E n \in Names, f \in Frames :
        /\ name' = n
        /\ profile' = ProfileOf[n]
        /\ profile'.kind = "stl"
        /\ frame' = f
        /\ streams' = create_streams(profile', f)
    /\ UNCHANGED <<ports, latency>>

\* ASTFProfile.load and get_profile; a mix is not supported there.
LoadAstf ==
    /\ name = None
    /\ \E n \in Names, f \in [mix : {None}, size : FrameSizes] :
        LET p == ProfileOf[n] IN
        /\ p.kind = "astf"
        /\ name' = n
        /\ profile' = p
        /\ frame' = f
    /\ UNCHANGED <<streams, ports, latency>>

\* The latency streams are added one port after the other; when a port refuses
\* its stream, the ones added before stay.
LatencyPorts(f, directions) ==
    IF f.mix # None THEN {{}}
    ELSE IF directions = 1 THEN {{}, {0}}
    ELSE {{}, {0}, {0, 1}}

\* Mutant: a refused latency stream is not noticed.
AddStreamsDeaf(directions) ==
    LET lastA == (Len(streams) - 2) \div 2
        lastB == 2 * lastA
        Data == IF frame.mix = None
                THEN <<SubSeq(streams, 1, lastA), SubSeq(streams, lastA + 1, lastB)>>
                ELSE <<SubSeq(streams, 1, 3), SubSeq(streams, 4, 6)>>
        used == 0 .. directions - 1
    IN  \E wanted \in BOOLEAN, given \in LatencyPorts(frame, directions) :
          /\ ~wanted => given = {}
          /\ latency' = wanted
          /\ ports' = [p \in Ports |->
                IF p \notin used THEN <<>>
                ELSE Data[p + 1]
                     \o (IF p \in given THEN <<streams[lastB + p + 1]>> ELSE <<>>)]

\* The streams of each direction go to its port, the latency streams if wanted.
AddStreams(directions) ==
    LET lastA == (Len(streams) - 2) \div 2
        lastB == 2 * lastA
        Data == IF frame.mix = None
                THEN <<SubSeq(streams, 1, lastA), SubSeq(streams, lastA + 1, lastB)>>
                ELSE <<SubSeq(streams, 1, 3), SubSeq(streams, 4, 6)>>
        used == 0 .. directions - 1
    IN  \E wanted \in BOOLEAN, given \in LatencyPorts(frame, directions) :
          /\ ~wanted => given = {}
          /\ latency' = (wanted /\ given = used)
          /\ ports' = [p \in Ports |->
                IF p \notin used THEN <<>>
                ELSE Data[p + 1]
                     \o (IF p \in given THEN <<streams[lastB + p + 1]>> ELSE <<>>)]

\* reset, remove_all_streams, add_streams; any profile with one or two directions.
PreparePorts ==
    /\ IsStl
    /\ ports[0] = <<>>
    /\ \E directions \in {1, 2} : AddStreams(directions)
    /\ UNCHANGED <<name, profile, frame, streams>>

Sending == {p \in Ports : ports[p] # <<>>}

\* The trial is over; the next one loads its profile anew.
TrialEnds ==
    /\ name # None
    /\ IsStl => Sending # {}
    /\ name' = None
    /\ profile' = NoProfile
    /\ frame' = NoFrame
    /\ streams' = <<>>
    /\ ports' = [p \in Ports |-> <<>>]
    /\ latency' = FALSE

Next == LoadStl \/ LoadAstf \/ PreparePorts \/ TrialEnds

Spec == Init /\ [][Next]_vars

-----------------------------------------------------------------------------
(* Reference: the packets TRex sends for a set of flow variables.           *)

\* The number of values in the range of a variable.
Span(v) == (v.hi - v.lo) \div v.step + 1

\* The packets after which a variable that moves with each of them repeats itself.
Period(v) == IF v.op = "repeatable" THEN v.limit ELSE Span(v)

\* Variables that move with every packet, in a way that repeats itself.
Heads(vs) == {i \in DOMAIN vs : /\ vs[i].op # "random"
                                /\ \A j \in DOMAIN vs : vs[j].next # vs[i].field}

\* A variable with the one that moves when it wraps around.
ChainPeriod(vs, i) ==
    Period(vs[i]) * (IF vs[i].next = "" THEN 1
                     ELSE Span(vs[CHOOSE j \in DOMAIN vs : vs[j].field = vs[i].next]))

\* All variables, the random ones apart, are back at the start after n packets.
Repeats(vs, n) == \A i \in Heads(vs) : n % ChainPeriod(vs, i) = 0

Longest(vs) == Max({1} \cup {ChainPeriod(vs, i) : i \in Heads(vs)})

\* Bound: how often the longest period fits into the flows of any profile.
Rounds == 1 .. 10

ASSUME RoundsAssumption ==
    \A n \in Names : ProfileOf[n].kind = "stl" =>
        \A p \in Ports :
            LET vs == DirOf(ProfileOf[n], p).vars
            IN  \E k \in Rounds : Repeats(vs, Longest(vs) * k)

\* The packets a port sends before they repeat: the variables step together, so
\* this is the least common multiple of their periods.
Flows(p) ==
    LET vs  == Dir(p).vars
        top == Longest(vs)
    IN  top * Min({k \in Rounds : Repeats(vs, top * k)})

\* The variable of direction p that is written to a field, as a set.
Written(p, field) == {i \in DOMAIN Dir(p).vars : Dir(p).vars[i].field = field}

-----------------------------------------------------------------------------
(* Properties.                                                              *)

\* The streams and the ports have the shape simple_burst relies on.
TypeOK ==
    /\ profile.kind \in {"stl", "astf", None}
    /\ frame \in Frames \cup {NoFrame}
    /\ Len(streams) \in {0, 4, 6}
    /\ latency \in BOOLEAN

\* The variable of a direction takes the values the file name announces; a
\* repeatable random one is drawn as often.
Holds(p, q) ==
    \A i \in Written(p, q.field) :
        LET v == Dir(p).vars[i] IN
        /\ Span(v) = q.values /\ Period(v) = q.values /\ v.step = q.step
        /\ q.first # <<>> => v.lo = q.first[p + 1]

\* Every profile announces its scale in its file name, and the scale limits of
\* a test are read from there: the ranges its class assigns must hold exactly
\* that many addresses, ports, VLANs, tunnels, containers or chains, in both
\* directions where both write the field; the chains are as many nodes apart and
\* are entered at the first node one way and at the last node back.  A stateful
\* profile has as many clients as servers, and 63 flows for each.
AsNamed ==
    /\ IsStl => \A q \in profile.named :
          /\ Written(0, q.field) = {} => q.values = 1
          /\ \A p \in Ports : Holds(p, q)
    /\ IsAstf =>
          /\ profile.clients = profile.hosts
          /\ profile.servers = profile.hosts
          /\ profile.limit = 63 * profile.hosts

\* The udir profiles: direction 1 is an Ethernet header and nothing else.
OneWay == Dir(1).vars = <<>> /\ Dir(1).len = 14

\* These two lack the last outer port: one session of theirs is never answered.
OneSessionShort == {"trex_stl_3n_ethip4udp_2000u15p", "trex_stl_3n_ethip4udp_4000u15p"}

\* Both directions of a test carry equally many flows, so that for each session
\* a NAT opens there is a flow back to the port it was given: all profiles with
\* two directions except the two above.
Balanced ==
    Sending = Ports /\ ~OneWay =>
        Flows(1) = Flows(0) - (IF name \in OneSessionShort THEN 1 ELSE 0)

\* The streams r are those that port p needs for profile d and frame size f: one
\* for each packet size of its direction, and no others but latency streams.
Fits(d, f, p, r) ==
    LET data == IF f.mix = None THEN 1 ELSE Len(STREAM_TABLE[f.mix])
        len  == DirOf(d, p).len
        more == IF f.mix = None THEN len - DirOf(d, 0).len ELSE 0
        Size(i) == IF f.mix = None THEN f.size ELSE STREAM_TABLE[f.mix][i]
    IN  /\ Len(r) >= data
        /\ \A i \in DOMAIN r :
              /\ r[i].dir = p
              /\ r[i].lat <=> i > data
              /\ r[i].length + 4 = Max({Size(i) + more, len + 4})

\* The streams of a direction are on its port and on no other, the slices of
\* simple_burst fit the list create_streams built, the latency streams apart,
\* and latency is reported only when every port that sends has its latency
\* stream.  Frames have the requested size, FCS included, unless the headers
\* alone are longer; with a fixed size direction 1 differs from it by as much as
\* its header from that of direction 0 (a VLAN tag more in the asym profiles, IP
\* and UDP less in the udir ones), with a mix it does not.
PortsLoaded ==
    /\ latency => \A p \in Sending : \E i \in DOMAIN ports[p] : ports[p][i].lat
    /\ \A p \in Sending : Fits(profile, frame, p, ports[p])

=============================================================================
