-------------------------- MODULE InputDataProofs --------------------------
(***************************************************************************)
(* Proofs about InputData, for any jobs, builds, tests and bounds: the     *)
(* invariants its run checks.  None of them is inductive.  What is stored  *)
(* rests on what the checker of the current build remembers (Fresh,        *)
(* Visited, Known) and on what it expects of the messages of the current   *)
(* keyword (Reader); which builds are left out rests on an account of the  *)
(* builds before and after the current one (Ahead, Behind).                *)
(***************************************************************************)
EXTENDS InputData, TLAPS

-----------------------------------------------------------------------------
(* The inductive invariant.                                                *)

\* A build is worked on only if there is one.
Positioned ==
    /\ pc \in {"download", "visit"} => job \in DOMAIN Jobs /\ build <= Builds[Jobs[job]]
    /\ pc = "done" => job \notin DOMAIN Jobs

\* Every build has an ExecutionChecker of its own.
Fresh ==
    /\ pc \in {"next", "download"} => checker = NewChecker /\ visited = <<>>
    /\ pc = "visit" => checker.generated \in {None, Current}

\* Results are those of tests that were visited.
Visited ==
    \A i \in DOMAIN visited : visited[i] \notin Ignored => checker.tests[Ids[visited[i]]] # None

\* If a build is outdated, so are the older ones.
OldOnes ==
    \A jb \in old : \A b \in jb[2] .. Builds[jb[1]] : <<jb[1], b>> \in old

StatusOf(i, b) == status[<<Jobs[i], b>>]

\* The builds the loops have not come to have no state.
Ahead ==
    \A i \in DOMAIN Jobs : \A b \in 1 .. Builds[Jobs[i]] :
        i > job \/ (i = job /\ b >= build) => StatusOf(i, b) = None

\* Those they have passed have one, but for the outdated end of a job.
Behind ==
    \A i \in DOMAIN Jobs : \A b \in 1 .. Builds[Jobs[i]] :
        /\ i = job /\ b < build => StatusOf(i, b) # None
        /\ i < job /\ StatusOf(i, b) = None =>
              /\ <<Jobs[i], b>> \in old
              /\ \A c \in b .. Builds[Jobs[i]] : StatusOf(i, c) = None

\* The state of a build tells whether its data is there, and whose it is.
Stored ==
    \A jb \in AllBuilds :
        /\ status[jb] = "processed" <=> input_data[jb] # None
        /\ input_data[jb] \in {None, Timeless, jb}
        /\ input_data[jb] # None /\ jb \in old => input_data[jb] = Timeless

\* A result stored under an id: what OneKeyword says of it.
ResultOK(r, id) ==
    /\ r.of \notin Ignored /\ Ids[r.of] = id
    /\ Len(r.history) <= 2
    /\ \A i \in DOMAIN r.history : r.history[i] = [r.history[1] EXCEPT !.dut = i]
    /\ \A i, k \in DOMAIN r.show_run :
          r.show_run[i].test = r.show_run[k].test =>
             r.show_run[i].keyword = r.show_run[k].keyword
    /\ \A e \in Shown(r) : e.test \in {r.of} \cup Ignored

\* Runtime counters are those of tests that were visited.
Known ==
    \A id \in TestIds : checker.tests[id] # None =>
        \A e \in ToSet(checker.tests[id].show_run) : e.test \in ToSet(visited)

\* What the checker may find in the next message: a history that is empty or
\* has the first message of this keyword, and runtime counters that have none
\* of this test, or those of this keyword.
Reader ==
    /\ messages > 0 /\ checker.msg_type \in {"history", "runtime"} => visited # <<>>
    /\ messages > 0 /\ checker.msg_type = "history" =>
          \/ checker.lookup_nr = 0
          \/ /\ checker.lookup_nr = 1 /\ checker.test_id # None
             /\ Len(checker.tests[checker.test_id].history) = 1
             /\ checker.tests[checker.test_id].history[1] = Entry(1)
    /\ visited # <<>> /\ checker.test_id # None /\ checker.sh_run = 0 =>
          \A e \in ToSet(checker.tests[checker.test_id].show_run) : e.test # Visiting
    /\ messages > 0 /\ checker.msg_type = "runtime" =>
          /\ checker.sh_run > 0
          /\ checker.test_id # None /\ checker.sh_run = 1 =>
                \A e \in ToSet(checker.tests[checker.test_id].show_run) :
                    e.test = Visiting => e.keyword = keywords

\* All that the checker remembers.
Memory ==
    /\ checker \in Checkers /\ visited \in Seq(Tests) /\ keywords \in Nat /\ messages \in Nat
    /\ \A id \in TestIds : checker.tests[id] # None => ResultOK(checker.tests[id], id)
    /\ Visited /\ LatestResult /\ Known /\ Reader

Loops == Positioned /\ OldOnes /\ Ahead /\ Behind /\ Stored

IInv == TypeOK /\ Fresh /\ Loops /\ Memory

-----------------------------------------------------------------------------
(* Jobs and builds.                                                        *)

\* The jobs are numbered, and each has a number of builds.
LEMMA JobNumbers ==
    /\ Len(Jobs) \in Nat /\ DOMAIN Jobs = 1 .. Len(Jobs)
    /\ \A i \in DOMAIN Jobs : Jobs[i] \in ToSet(Jobs) /\ Builds[Jobs[i]] \in Nat
BY SpecificationAssumption DEF ToSet

\* The builds are those the two loops come to.
LEMMA BuildNumbers ==
    \A jb : jb \in AllBuilds <=>
        \E i \in DOMAIN Jobs : \E b \in 1 .. Builds[Jobs[i]] : jb = <<Jobs[i], b>>
BY DEF AllBuilds, ToSet

\* The build worked on.
LEMMA CurrentBuild ==
    ASSUME TypeOK, Positioned, pc \in {"download", "visit"}
    PROVE  /\ job \in DOMAIN Jobs /\ build \in 1 .. Builds[Jobs[job]]
           /\ Current \in AllBuilds
<1>1. job \in DOMAIN Jobs /\ build \in 1 .. Builds[Jobs[job]]
    <2>1. build \in Nat \ {0}
        BY DEF TypeOK
    <2> QED BY <2>1, JobNumbers DEF Positioned
<1> QED BY <1>1, BuildNumbers DEF Current

\* Builds at different places are different.
LEMMA OtherBuilds ==
    ASSUME NEW i \in DOMAIN Jobs, NEW k \in DOMAIN Jobs, NEW b, NEW c,
           <<Jobs[i], b>> = <<Jobs[k], c>>
    PROVE  i = k /\ b = c
BY SpecificationAssumption

-----------------------------------------------------------------------------
(* The steps, sorted by what they change.                                  *)

\* download_and_unzip_data_file goes on with another place or is repeated.
Retries ==
    /\ pc = "download" /\ pc' = pc
    /\ source' \in DOMAIN Sources /\ attempts' \in 0 .. Repeat - 1
    /\ UNCHANGED <<job, build, reading, kept>>

Skips == pc \in {"download", "visit"} /\ SkipBuild

\* The program ends with an exception, or waits without end.
Stops ==
    /\ pc \in {"download", "visit"} /\ pc' \in {"raised", "key error", "silent"}
    /\ UNCHANGED <<job, build, source, attempts, reading, kept>>

\* A test, a keyword or a message changes what the checker remembers.
Visits ==
    /\ \/ VisitTest
       \/ \E field \in Metadata : SetupKeyword(field) \/ MetadataMessage(field)
       \/ Unreadable
       \/ HistoryKeyword \/ HistoryMessage \/ RuntimeKeyword \/ RuntimeMessage
    /\ pc = "visit" /\ pc' = pc
    /\ UNCHANGED <<job, build, source, attempts, kept>>

Stores == pc = "visit" /\ (Current \in old => checker.generated = None) /\ Store
Drops == pc = "visit" /\ Current \in old /\ Outdated

\* A failed download (download_and_unzip_data_file) repeats or skips the build.
LEMMA AttemptKinds ==
    ASSUME TypeOK, pc = "download", AttemptFails
    PROVE  Retries \/ Skips
<1>1. attempts \in 0 .. Repeat - 1 /\ Repeat \in Nat /\ 1 \in DOMAIN Sources
    BY SizesAssumption DEF TypeOK, Sources
<1>2. CASE attempts + 1 < Repeat
    BY <1>1, <1>2 DEF AttemptFails, Retries
<1>3. CASE ~(attempts + 1 < Repeat)
    BY <1>3 DEF AttemptFails, Skips
<1> QED BY <1>2, <1>3

\* Every step of the program is of one of eight kinds, by what it does to the
\* loops, the checker and the store.
LEMMA StepKinds ==
    ASSUME TypeOK, Next
    PROVE  FindBuild \/ Retries \/ Skips \/ Downloaded \/ Stops \/ Visits \/ Stores \/ Drops
<1>1. CASE SourceFails
    <2>1. source \in 1 .. 4 /\ Len(Sources) = 4 /\ DOMAIN Sources = 1 .. 4
        <3>1. Len(Sources) = 4 /\ DOMAIN Sources = 1 .. 4
            BY DEF Sources
        <3> QED BY <3>1 DEF TypeOK
    <2>2. CASE source < Len(Sources)
        BY <1>1, <2>1, <2>2 DEF SourceFails, Retries, TypeOK
    <2>3. CASE ~(source < Len(Sources))
        BY <1>1, <2>3, AttemptKinds DEF SourceFails
    <2> QED BY <2>2, <2>3
<1>2. CASE ArchiveDamaged
    BY <1>2, AttemptKinds DEF ArchiveDamaged
<1>3. CASE FileDamaged
    BY <1>3 DEF FileDamaged, Skips
<1>4. CASE VisitTest
    <2>1. pc = "visit" /\ pc' = pc /\ UNCHANGED <<job, build, source, attempts, kept>>
        BY <1>4 DEF VisitTest, StartIgnored, StartTest, Visit
    <2> QED BY <1>4, <2>1 DEF Visits
<1>5. ASSUME NEW field \in Metadata, SetupKeyword(field) \/ MetadataMessage(field) PROVE Visits
    <2>1. pc = "visit" /\ pc' = pc /\ UNCHANGED <<job, build, source, attempts, kept>>
        BY <1>5 DEF SetupKeyword, MetadataMessage, VisitKeyword, VisitMessage, Visit
    <2> QED BY <1>5, <2>1 DEF Visits
<1>6. CASE Unreadable
    <2>1. pc = "visit" /\ pc' = pc /\ UNCHANGED <<job, build, source, attempts, kept>>
        BY <1>6 DEF Unreadable
    <2> QED BY <1>6, <2>1 DEF Visits
<1>7. CASE HistoryKeyword \/ RuntimeKeyword \/ HistoryMessage \/ RuntimeMessage
    <2>1. pc = "visit" /\ pc' = pc /\ UNCHANGED <<job, build, source, attempts, kept>>
        BY <1>7 DEF HistoryKeyword, RuntimeKeyword, HistoryMessage, RuntimeMessage, VisitKeyword,
                    VisitMessage, Visit
    <2> QED BY <1>7, <2>1 DEF Visits
<1>8. CASE DownloadRaises \/ ServerSilent \/ TestRaises \/ RuntimeRaises \/ NoTestYet
    BY <1>8 DEF DownloadRaises, ServerSilent, TestRaises, RuntimeRaises, NoTestYet, Stop, Stops
<1>9. CASE FileVisited
    BY <1>9, NoneAssumption DEF FileVisited, Stores, Drops
<1> QED BY <1>1, <1>2, <1>3, <1>4, <1>5, <1>6, <1>7, <1>8, <1>9 DEF Next

-----------------------------------------------------------------------------
(* The loops.                                                              *)

\* A step that stays with the build.
LEMMA LoopsKept ==
    ASSUME Loops, UNCHANGED <<job, build, old, status, input_data>>,
           pc' \in {"download", "visit"} => pc \in {"download", "visit"},
           pc' = "done" => pc = "done"
    PROVE  Loops'
BY DEF Loops, Positioned, OldOnes, Ahead, Behind, Stored, StatusOf

\* The heads of the loops of download_and_parse_data keep what is known of the
\* builds before and after the current one.
LEMMA FindBuildLoops ==
    ASSUME TypeOK, Loops, FindBuild
    PROVE  Loops' /\ job' \in 1 .. Len(Jobs) + 1 /\ build' \in Nat \ {0}
<1>0. /\ Len(Jobs) \in Nat /\ DOMAIN Jobs = 1 .. Len(Jobs) /\ job \in 1 .. Len(Jobs) + 1
      /\ \A i \in DOMAIN Jobs : Builds[Jobs[i]] \in Nat
      /\ build \in Nat \ {0}
    BY JobNumbers DEF TypeOK
<1>1. UNCHANGED <<old, status, input_data>>
    BY DEF FindBuild, kept
<1>2. OldOnes' /\ Stored'
    BY <1>1 DEF Loops, OldOnes, Stored
<1>3. CASE UNCHANGED <<job, build>>
    <2>1. Positioned'
        BY <1>0, <1>3 DEF FindBuild, Positioned
    <2>2. Ahead' /\ Behind'
        BY <1>1, <1>3 DEF Loops, Ahead, Behind, StatusOf
    <2> QED BY <1>0, <1>2, <1>3, <2>1, <2>2 DEF Loops
<1>4. CASE ~UNCHANGED <<job, build>>
    <2>1. /\ job \in DOMAIN Jobs /\ build > Builds[Jobs[job]] /\ job' = job + 1 /\ build' = 1
          /\ pc' = "next"
        BY <1>4 DEF FindBuild
    <2>2. Positioned'
        BY <2>1 DEF Positioned
    <2>3. Ahead'
        BY <1>0, <1>1, <2>1 DEF Loops, Ahead, StatusOf
    <2>4. Behind'
        BY <1>0, <1>1, <2>1 DEF Loops, Behind, StatusOf
    <2> QED BY <1>0, <1>2, <2>1, <2>2, <2>3, <2>4 DEF Loops
<1> QED BY <1>3, <1>4

\* The current build gets its state.
LEMMA Settled ==
    ASSUME TypeOK, Loops, pc \in {"download", "visit"}, NEW state \in {"failed", "processed"},
           status' = [status EXCEPT ![Current] = state], NextBuild, old' = old
    PROVE  /\ Positioned' /\ OldOnes' /\ Ahead' /\ Behind'
           /\ job' \in 1 .. Len(Jobs) + 1 /\ build' \in Nat \ {0}
<1>0. /\ Len(Jobs) \in Nat /\ DOMAIN Jobs = 1 .. Len(Jobs) /\ job \in DOMAIN Jobs
      /\ \A i \in DOMAIN Jobs : Builds[Jobs[i]] \in Nat
      /\ build \in Nat \ {0} /\ job' = job /\ build' = build + 1 /\ pc' = "next"
      /\ state # None
    BY JobNumbers, CurrentBuild, NoneAssumption DEF TypeOK, NextBuild, LoopEnds, Loops
<1> PICK j, c : j = job /\ c = build
    OBVIOUS
<1>1. /\ StatusOf(j, c)' = state
      /\ \A i \in DOMAIN Jobs : \A b \in 1 .. Builds[Jobs[i]] :
            i # j \/ b # c => StatusOf(i, b)' = StatusOf(i, b)
    <2>1. \A i \in DOMAIN Jobs : \A b \in 1 .. Builds[Jobs[i]] : <<Jobs[i], b>> \in AllBuilds
        BY BuildNumbers
    <2>2. \A i \in DOMAIN Jobs : \A b \in 1 .. Builds[Jobs[i]] :
            i # j \/ b # c => <<Jobs[i], b>> # <<Jobs[j], c>>
        BY <1>0, OtherBuilds
    <2>3. Current = <<Jobs[j], c>> /\ Current \in AllBuilds
        BY CurrentBuild DEF Current, Loops
    <2>4. status \in [AllBuilds -> {None, "failed", "processed"}]
        BY DEF TypeOK
    <2> QED BY <2>1, <2>2, <2>3, <2>4 DEF StatusOf
<1>2. Positioned' /\ OldOnes'
    BY <1>0 DEF Loops, Positioned, OldOnes
<1>3. Ahead'
    BY <1>0, <1>1 DEF Loops, Ahead
<1>4. Behind'
    <2> SUFFICES ASSUME NEW i \in DOMAIN Jobs, NEW b \in 1 .. Builds[Jobs[i]]
                 PROVE  /\ i = j /\ b < c + 1 => StatusOf(i, b)' # None
                        /\ i < j /\ StatusOf(i, b)' = None =>
                              /\ <<Jobs[i], b>> \in old
                              /\ \A e \in b .. Builds[Jobs[i]] : StatusOf(i, e)' = None
        BY <1>0 DEF Behind
    <2>1. i = j /\ b < c + 1 => StatusOf(i, b)' # None
        <3>1. b < c /\ i = j => StatusOf(i, b) # None
            BY DEF Loops, Behind
        <3>2. b < c + 1 => b < c \/ b = c
            BY <1>0
        <3> QED BY <1>0, <1>1, <3>1, <3>2
    <2>2. CASE i < j /\ StatusOf(i, b)' = None
        <3>1. StatusOf(i, b) = None
            BY <1>0, <1>1, <2>2
        <3>2. \A e \in b .. Builds[Jobs[i]] : e \in 1 .. Builds[Jobs[i]] /\ StatusOf(i, e)' = StatusOf(i, e)
            BY <1>0, <1>1, <2>2
        <3>3. Behind
            BY DEF Loops
        <3>4. /\ <<Jobs[i], b>> \in old
              /\ \A e \in b .. Builds[Jobs[i]] : StatusOf(i, e) = None
            BY <2>2, <3>1, <3>3 DEF Behind
        <3> QED BY <2>1, <3>2, <3>4
    <2> QED BY <2>1, <2>2
<1> QED BY <1>0, <1>2, <1>3, <1>4

\* So does marking a build whose file could not be had as failed,
LEMMA SkipLoops ==
    ASSUME TypeOK, Loops, Skips
    PROVE  Loops' /\ job' \in 1 .. Len(Jobs) + 1 /\ build' \in Nat \ {0}
<1>1. /\ pc \in {"download", "visit"} /\ status' = [status EXCEPT ![Current] = "failed"]
      /\ NextBuild /\ old' = old /\ input_data' = input_data
    BY DEF Skips, SkipBuild
<1>2. /\ Positioned' /\ OldOnes' /\ Ahead' /\ Behind'
      /\ job' \in 1 .. Len(Jobs) + 1 /\ build' \in Nat \ {0}
    BY <1>1, Settled
<1>3. PICK cur : cur = Current
    OBVIOUS
<1>4. cur \in AllBuilds /\ status[cur] # "processed"
    <2>1. /\ job \in DOMAIN Jobs /\ build \in 1 .. Builds[Jobs[job]]
          /\ Current \in AllBuilds
        BY <1>1, CurrentBuild DEF Loops
    <2>2. StatusOf(job, build) = None
        BY <2>1, JobNumbers DEF Loops, Ahead
    <2> QED BY <1>3, <2>1, <2>2, NoneAssumption DEF StatusOf, Current
<1>5. \A jb \in AllBuilds : (status'[jb] = "processed") <=> (status[jb] = "processed")
    BY <1>1, <1>3, <1>4 DEF TypeOK
<1>6. Stored'
    BY <1>1, <1>5 DEF Loops, Stored
<1> QED BY <1>2, <1>6 DEF Loops

\* storing a build,
LEMMA StoreLoops ==
    ASSUME TypeOK, Loops, Fresh, Stores
    PROVE  /\ Loops' /\ job' \in 1 .. Len(Jobs) + 1 /\ build' \in Nat \ {0}
           /\ input_data' \in [AllBuilds -> AllBuilds \cup {None, Timeless}]
<1>1. /\ pc = "visit" /\ status' = [status EXCEPT ![Current] = "processed"]
      /\ NextBuild /\ old' = old /\ input_data' = [input_data EXCEPT ![Current] = Generated]
    BY DEF Stores, Store
<1>2. /\ Positioned' /\ OldOnes' /\ Ahead' /\ Behind'
      /\ job' \in 1 .. Len(Jobs) + 1 /\ build' \in Nat \ {0}
    BY <1>1, Settled
<1>3. PICK cur, gen : cur = Current /\ gen = Generated
    OBVIOUS
<1>4. cur \in AllBuilds /\ gen \in {Timeless, cur} /\ (cur \in old => gen = Timeless)
    <2>1. Current \in AllBuilds
        BY <1>1, CurrentBuild DEF Loops
    <2>2. CASE checker.generated = None
        BY <1>3, <2>1, <2>2 DEF Generated
    <2>3. CASE checker.generated # None
        <3>1. Generated = Current
            BY <1>1, <2>3 DEF Generated, Fresh
        <3>2. Current \notin old
            BY <2>3 DEF Stores
        <3> QED BY <1>3, <2>1, <3>1, <3>2
    <2> QED BY <2>2, <2>3
<1>5. gen # None
    BY <1>4, NoneAssumption
<1>6. input_data \in [AllBuilds -> AllBuilds \cup {None, Timeless}]
    BY DEF TypeOK
<1>7. /\ input_data'[cur] = gen /\ status'[cur] = "processed"
      /\ \A jb \in AllBuilds : jb # cur =>
            input_data'[jb] = input_data[jb] /\ status'[jb] = status[jb]
      /\ input_data' \in [AllBuilds -> AllBuilds \cup {None, Timeless}]
    BY <1>1, <1>3, <1>4, <1>6 DEF TypeOK
<1>8. Stored'
    BY <1>1, <1>4, <1>5, <1>7 DEF Loops, Stored
<1> QED BY <1>2, <1>7, <1>8 DEF Loops

\* and leaving the loop at an outdated build, which leaves the rest of its job out.
LEMMA DropLoops ==
    ASSUME TypeOK, Loops, Drops
    PROVE  Loops' /\ job' \in 1 .. Len(Jobs) + 1 /\ build' \in Nat \ {0}
<1>1. /\ pc = "visit" /\ pc' = "next" /\ Current \in old /\ job' = job + 1 /\ build' = 1
      /\ UNCHANGED <<old, status, input_data>>
    BY DEF Drops, Outdated, NextJob, LoopEnds
<1>2. /\ Len(Jobs) \in Nat /\ DOMAIN Jobs = 1 .. Len(Jobs) /\ job \in DOMAIN Jobs
      /\ \A i \in DOMAIN Jobs : Builds[Jobs[i]] \in Nat
      /\ build \in 1 .. Builds[Jobs[job]]
    BY <1>1, JobNumbers, CurrentBuild DEF Loops
<1>3. Positioned' /\ OldOnes' /\ Stored'
    BY <1>1 DEF Loops, Positioned, OldOnes, Stored
<1>4. \A i \in DOMAIN Jobs : \A b \in 1 .. Builds[Jobs[i]] : StatusOf(i, b)' = StatusOf(i, b)
    BY <1>1 DEF StatusOf
<1>5. Ahead'
    BY <1>1, <1>2, <1>4 DEF Loops, Ahead
<1>6. \A b \in build .. Builds[Jobs[job]] : <<Jobs[job], b>> \in old /\ StatusOf(job, b) = None
    <2>1. \A b \in build .. Builds[Jobs[job]] : <<Jobs[job], b>> \in old
        BY <1>1 DEF Loops, OldOnes, Current
    <2>2. \A b \in build .. Builds[Jobs[job]] : b \in 1 .. Builds[Jobs[job]]
        BY <1>2
    <2>3. \A b \in build .. Builds[Jobs[job]] : StatusOf(job, b) = None
        BY <1>2, <2>2 DEF Loops, Ahead
    <2> QED BY <2>1, <2>3
<1>7. Behind'
    <2> SUFFICES ASSUME NEW i \in DOMAIN Jobs, NEW b \in 1 .. Builds[Jobs[i]]
                 PROVE  /\ ~(i = job + 1 /\ b < 1)
                        /\ i < job + 1 /\ StatusOf(i, b)' = None =>
                              /\ <<Jobs[i], b>> \in old
                              /\ \A e \in b .. Builds[Jobs[i]] : StatusOf(i, e)' = None
        BY <1>1 DEF Behind
    <2>1. ~(i = job + 1 /\ b < 1)
        BY <1>2
    <2>2. \A e \in b .. Builds[Jobs[i]] : e \in 1 .. Builds[Jobs[i]] /\ StatusOf(i, e)' = StatusOf(i, e)
        BY <1>2, <1>4
    <2>3. CASE i < job /\ StatusOf(i, b)' = None
        <3>1. StatusOf(i, b) = None /\ Behind
            BY <1>4, <2>3 DEF Loops
        <3>2. <<Jobs[i], b>> \in old /\ \A e \in b .. Builds[Jobs[i]] : StatusOf(i, e) = None
            BY <2>3, <3>1 DEF Behind
        <3> QED BY <2>1, <2>2, <3>2
    <2>4. CASE i = job /\ StatusOf(i, b)' = None
        <3>1. StatusOf(i, b) = None
            BY <1>4, <2>4
        <3>2. b >= build
            <4>1. Behind
                BY DEF Loops
            <4>2. ~(b < build)
                BY <2>4, <3>1, <4>1 DEF Behind
            <4> QED BY <1>2, <2>4, <4>2
        <3>3. \A e \in b .. Builds[Jobs[i]] : e \in build .. Builds[Jobs[job]]
            BY <1>2, <2>4, <3>2
        <3>4. b \in build .. Builds[Jobs[job]]
            BY <1>2, <2>4, <3>2
        <3> QED BY <1>6, <2>1, <2>2, <2>4, <3>3, <3>4
    <2>5. i < job + 1 => i < job \/ i = job
        BY <1>2
    <2> QED BY <2>1, <2>3, <2>4, <2>5
<1> QED BY <1>1, <1>2, <1>3, <1>5, <1>7 DEF Loops

\* Together: no step of the program breaks the accounts of download_and_parse_data.
LEMMA LoopsStep ==
    ASSUME TypeOK, Loops, Fresh, [Next]_vars
    PROVE  /\ Loops' /\ job' \in 1 .. Len(Jobs) + 1 /\ build' \in Nat \ {0} /\ old' = old
           /\ status' \in [AllBuilds -> {None, "failed", "processed"}]
           /\ input_data' \in [AllBuilds -> AllBuilds \cup {None, Timeless}]
<1>0. /\ job \in 1 .. Len(Jobs) + 1 /\ build \in Nat \ {0}
      /\ status \in [AllBuilds -> {None, "failed", "processed"}]
      /\ input_data \in [AllBuilds -> AllBuilds \cup {None, Timeless}]
    BY DEF TypeOK
<1>a. ASSUME UNCHANGED <<job, build, old, status, input_data>>,
             pc' \in {"download", "visit"} => pc \in {"download", "visit"},
             pc' = "done" => pc = "done"
      PROVE  /\ Loops' /\ job' \in 1 .. Len(Jobs) + 1 /\ build' \in Nat \ {0} /\ old' = old
             /\ status' \in [AllBuilds -> {None, "failed", "processed"}]
             /\ input_data' \in [AllBuilds -> AllBuilds \cup {None, Timeless}]
    BY <1>0, <1>a, LoopsKept
<1>1. CASE UNCHANGED vars
    BY <1>a, <1>1 DEF vars, kept
<1>2. CASE FindBuild
    BY <1>0, <1>2, FindBuildLoops DEF FindBuild, kept
<1>3. CASE Retries \/ Stops \/ Visits
    BY <1>a, <1>3 DEF Retries, Stops, Visits, kept
<1>4. CASE Downloaded
    BY <1>a, <1>4 DEF Downloaded, kept
<1>5. CASE Skips
    <2>1. /\ status' = [status EXCEPT ![Current] = "failed"] /\ old' = old
          /\ input_data' = input_data
        BY <1>5 DEF Skips, SkipBuild
    <2> QED BY <1>0, <1>5, <2>1, SkipLoops
<1>6. CASE Stores
    <2>1. status' = [status EXCEPT ![Current] = "processed"] /\ old' = old
        BY <1>6 DEF Stores, Store
    <2> QED BY <1>0, <1>6, <2>1, StoreLoops
<1>7. CASE Drops
    BY <1>0, <1>7, DropLoops DEF Drops, Outdated
<1> QED BY <1>1, <1>2, <1>3, <1>4, <1>5, <1>6, <1>7, StepKinds

-----------------------------------------------------------------------------
(* The ExecutionChecker.                                                   *)

\* It gives what the properties and the type invariant say of the results.
LEMMA MemoryMeans ==
    Memory => /\ OneKeyword
              /\ \A i \in TestIds : LET r == checker.tests[i] IN
                    r # None => r.of \notin Ignored /\ Ids[r.of] = i
<1>1. ASSUME Memory, NEW i \in TestIds, checker.tests[i] # None
      PROVE  ResultOK(checker.tests[i], i)
    BY <1>1 DEF Memory
<1>2. Memory => OneKeyword
    <2> SUFFICES ASSUME Memory, NEW r \in Results
                 PROVE  /\ Len(r.history) <= 2
                        /\ \A i \in DOMAIN r.history : r.history[i] = [r.history[1] EXCEPT !.dut = i]
                        /\ \A i, k \in DOMAIN r.show_run :
                              r.show_run[i].test = r.show_run[k].test =>
                                 r.show_run[i].keyword = r.show_run[k].keyword
                        /\ \A e \in Shown(r) : e.test \in {r.of} \cup Ignored
        BY DEF OneKeyword
    <2>1. PICK i \in TestIds : r = checker.tests[i] /\ r # None
        BY DEF Results
    <2>2. ResultOK(r, i)
        BY <1>1, <2>1
    <2> QED BY <2>2 DEF ResultOK
<1> QED BY <1>1, <1>2 DEF ResultOK

\* A new checker remembers nothing.
LEMMA NewMemory ==
    ASSUME checker' = NewChecker, visited' = <<>>, keywords' = 0, messages' = 0
    PROVE  Memory'
<1>1. NewChecker \in Checkers /\ NewChecker.test_id = None
    BY DEF NewChecker, Checkers
<1>2. \A id \in TestIds : NewChecker.tests[id] = None
    BY DEF NewChecker
<1>3. visited' \in Seq(Tests) /\ DOMAIN visited' = {}
    OBVIOUS
<1>4. Visited' /\ LatestResult'
    BY <1>1, <1>3 DEF Visited, LatestResult
<1>5. Known' /\ Reader'
    BY <1>1, <1>2 DEF Known, Reader
<1> QED BY <1>1, <1>2, <1>3, <1>4, <1>5 DEF Memory

\* Results change, but are of the same tests.
LEMMA SameTests ==
    ASSUME Memory, visited' = visited, keywords' \in Nat, messages' \in Nat,
           checker' \in Checkers, checker'.test_id = checker.test_id, Reader',
           \A id \in TestIds :
              /\ checker'.tests[id] = None <=> checker.tests[id] = None
              /\ checker.tests[id] # None =>
                    /\ checker'.tests[id].of = checker.tests[id].of
                    /\ ResultOK(checker'.tests[id], id)
                    /\ \A e \in ToSet(checker'.tests[id].show_run) : e.test \in ToSet(visited)
    PROVE  Memory'
<1>1. \A i \in DOMAIN visited : Ids[visited[i]] \in TestIds
    BY DEF Memory, TestIds
<1>2. Visited' /\ Known'
    BY <1>1 DEF Memory, Visited, Known
<1>3. LatestResult'
    <2>1. checker.test_id \in TestIds \cup {None}
        BY DEF Memory, Checkers
    <2> QED BY <1>1, <2>1 DEF Memory, Visited, LatestResult
<1> QED BY <1>2, <1>3 DEF Memory

\* Or nothing about them changes.
LEMMA SameResults ==
    ASSUME Memory, visited' = visited, keywords' \in Nat, messages' \in Nat,
           checker' \in Checkers, checker'.test_id = checker.test_id, Reader',
           checker'.tests = checker.tests
    PROVE  Memory'
<1>1. \A id \in TestIds : checker.tests[id] # None =>
        /\ ResultOK(checker.tests[id], id)
        /\ \A e \in ToSet(checker.tests[id].show_run) : e.test \in ToSet(visited)
    BY DEF Memory, Known
<1> QED BY <1>1, SameTests

\* The result of a test that starts.
LEMMA NewResult ==
    ASSUME NEW t \in Tests, t \notin Ignored
    PROVE  /\ TestResult(t) \in TestResults /\ TestResult(t).of = t /\ TestResult(t) # None
           /\ ToSet(TestResult(t).show_run) = {}
           /\ Ids[t] \in TestIds /\ ResultOK(TestResult(t), Ids[t])
<1> DEFINE r == TestResult(t)
<1>1. r.of = t /\ r.history = <<>> /\ r.show_run = <<>> /\ r \in TestResults
    BY DEF TestResult, TestResults
<1>2. ToSet(<<>>) = {} /\ Len(<<>>) = 0 /\ DOMAIN <<>> = {}
    BY DEF ToSet
<1>3. r # None
    BY <1>1, NoneAssumption
<1> HIDE DEF r
<1>4. ToSet(r.history) = {} /\ ToSet(r.show_run) = {} /\ Len(r.history) = 0
      /\ DOMAIN r.history = {} /\ DOMAIN r.show_run = {}
    BY <1>1, <1>2
<1>5. ResultOK(r, Ids[t])
    BY <1>1, <1>4 DEF ResultOK, Shown
<1>6. Ids[t] \in TestIds
    BY DEF TestIds
<1> QED BY <1>1, <1>3, <1>4, <1>5, <1>6 DEF r

\* Appending to the tests visited.
LEMMA OneMore ==
    ASSUME visited \in Seq(Tests), NEW t \in Tests, visited' = Append(visited, t),
           NEW n, n = Len(visited)
    PROVE  /\ n \in Nat /\ DOMAIN visited = 1 .. n /\ DOMAIN visited' = 1 .. (n + 1)
           /\ visited'[n + 1] = t /\ visited' \in Seq(Tests)
           /\ \A i \in 1 .. n : visited'[i] = visited[i]
           /\ \A i \in 1 .. (n + 1) : i \in 1 .. n \/ i = n + 1
           /\ \A x \in ToSet(visited) : x \in ToSet(visited')
           /\ Visiting' = t /\ visited' # <<>>
<1>1. /\ n \in Nat /\ DOMAIN visited = 1 .. n /\ DOMAIN visited' = 1 .. (n + 1)
      /\ visited'[n + 1] = t /\ visited' \in Seq(Tests)
      /\ \A i \in 1 .. n : visited'[i] = visited[i]
      /\ \A i \in 1 .. (n + 1) : i \in 1 .. n \/ i = n + 1
      /\ visited' # <<>> /\ Len(visited') = n + 1
    OBVIOUS
<1>2. \A x \in ToSet(visited) : x \in ToSet(visited')
    BY <1>1 DEF ToSet
<1>3. Visiting' = t
    BY <1>1 DEF Visiting, Last
<1> QED BY <1>1, <1>2, <1>3

\* start_test of a test that is not ignored: its result replaces any of that name.
LEMMA StartTestMemory ==
    ASSUME Memory, NEW t \in Tests, t \notin Ignored, StartTest(t)
    PROVE  Memory' /\ checker'.generated = checker.generated
<1> PICK c : c = checker
    OBVIOUS
<1>0. /\ c \in Checkers /\ visited \in Seq(Tests) /\ messages' = 0 /\ keywords' = keywords
      /\ keywords \in Nat
    BY DEF Memory, StartTest
<1> DEFINE r == TestResult(t)
<1>1. /\ r \in TestResults /\ r.of = t /\ r # None /\ Ids[t] \in TestIds
      /\ ResultOK(r, Ids[t]) /\ ToSet(r.show_run) = {}
    BY NewResult
<1> PICK n : n = Len(visited)
    OBVIOUS
<1>2. /\ n \in Nat /\ DOMAIN visited = 1 .. n /\ DOMAIN visited' = 1 .. (n + 1)
      /\ visited'[n + 1] = t /\ visited' \in Seq(Tests)
      /\ \A i \in 1 .. n : visited'[i] = visited[i]
      /\ \A i \in 1 .. (n + 1) : i \in 1 .. n \/ i = n + 1
      /\ \A x \in ToSet(visited) : x \in ToSet(visited')
      /\ Visiting' = t /\ visited' # <<>>
    BY <1>0, OneMore DEF StartTest
<1>3. checker' = [c EXCEPT !.sh_run = 0, !.test_id = Ids[t], !.tests[Ids[t]] = r]
    BY DEF StartTest, Visit
<1> HIDE DEF r
<1>4. /\ checker' \in Checkers /\ checker'.test_id = Ids[t] /\ checker'.generated = c.generated
      /\ checker'.tests[Ids[t]] = r
      /\ \A id \in TestIds : id # Ids[t] => checker'.tests[id] = c.tests[id]
    BY <1>0, <1>1, <1>3 DEF Checkers
<1>5. \A id \in TestIds : checker'.tests[id] # None => ResultOK(checker'.tests[id], id)
    BY <1>1, <1>4 DEF Memory
<1>6. \A i \in 1 .. n : Ids[visited[i]] \in TestIds
    BY <1>0, <1>2 DEF TestIds
<1>7. Visited'
    <2>1. \A i \in 1 .. n : visited[i] \notin Ignored => checker'.tests[Ids[visited[i]]] # None
        BY <1>1, <1>2, <1>4, <1>6 DEF Memory, Visited
    <2> QED BY <1>1, <1>2, <1>4, <2>1 DEF Visited
<1>8. LatestResult'
    <2> DEFINE S == {i \in DOMAIN visited : visited[i] \notin Ignored}
               T == {i \in DOMAIN visited' : visited'[i] \notin Ignored}
    <2>1. n + 1 \in T /\ \A k \in T : k <= n + 1
        BY <1>2
    <2>2. \A i \in S : i \in T /\ i \in 1 .. n /\ visited'[i] = visited[i]
        BY <1>2
    <2>3. \A i \in T : i \in S \/ i = n + 1
        BY <1>2
    <2>4. \A i \in S : (\A k \in S : k > i => Ids[visited[k]] # Ids[visited[i]])
                          => c.tests[Ids[visited[i]]].of = visited[i]
        BY DEF Memory, LatestResult
    <2> HIDE DEF S, T
    <2>5. ASSUME NEW i \in T, \A k \in T : k > i => Ids[visited'[k]] # Ids[visited'[i]]
          PROVE  checker'.tests[Ids[visited'[i]]].of = visited'[i]
        <3>1. CASE i = n + 1
            BY <1>1, <1>2, <1>4, <3>1
        <3>2. CASE i \in S
            <4>1. n + 1 > i /\ visited'[i] = visited[i]
                BY <1>2, <2>2, <3>2
            <4>2. Ids[t] # Ids[visited[i]]
                BY <1>2, <2>1, <2>5, <4>1
            <4>3. \A k \in S : k > i => Ids[visited[k]] # Ids[visited[i]]
                BY <2>2, <2>5, <4>1
            <4>4. c.tests[Ids[visited[i]]].of = visited[i]
                BY <2>4, <3>2, <4>3
            <4>5. checker'.tests[Ids[visited[i]]] = c.tests[Ids[visited[i]]]
                BY <1>4, <1>6, <2>2, <3>2, <4>2
            <4> QED BY <4>1, <4>4, <4>5
        <3> QED BY <2>3, <3>1, <3>2
    <2>6. /\ checker'.tests[checker'.test_id] # None
          /\ checker'.tests[checker'.test_id].of = visited'[n + 1]
        BY <1>1, <1>2, <1>4
    <2> QED BY <2>1, <2>5, <2>6 DEF LatestResult, T
<1>9. Known' /\ Reader'
    <2>1. Known'
        BY <1>1, <1>2, <1>4 DEF Memory, Known
    <2> QED BY <1>0, <1>1, <1>4, <2>1 DEF Reader
<1> QED BY <1>0, <1>2, <1>4, <1>5, <1>7, <1>8, <1>9 DEF Memory

\* start_test of an ignored test: nothing the checker has stored changes.
LEMMA StartIgnoredMemory ==
    ASSUME Memory, NEW t \in Tests, t \in Ignored, t \notin ToSet(visited), StartIgnored(t)
    PROVE  Memory' /\ checker'.generated = checker.generated
<1>0. /\ checker \in Checkers /\ visited \in Seq(Tests) /\ messages' = 0
      /\ keywords' = keywords /\ keywords \in Nat
    BY DEF Memory, StartIgnored
<1> PICK n : n = Len(visited)
    OBVIOUS
<1>2. /\ n \in Nat /\ DOMAIN visited = 1 .. n /\ DOMAIN visited' = 1 .. (n + 1)
      /\ visited'[n + 1] = t /\ visited' \in Seq(Tests)
      /\ \A i \in 1 .. n : visited'[i] = visited[i]
      /\ \A i \in 1 .. (n + 1) : i \in 1 .. n \/ i = n + 1
      /\ \A x \in ToSet(visited) : x \in ToSet(visited')
      /\ Visiting' = t /\ visited' # <<>>
    BY <1>0, OneMore DEF StartIgnored
<1>3. checker' = [checker EXCEPT !.sh_run = 0]
    BY DEF StartIgnored, Visit
<1>4. /\ checker' \in Checkers /\ checker'.test_id = checker.test_id
      /\ checker'.tests = checker.tests /\ checker'.generated = checker.generated
    BY <1>0, <1>3 DEF Checkers
<1>5. {i \in DOMAIN visited' : visited'[i] \notin Ignored}
        = {i \in DOMAIN visited : visited[i] \notin Ignored}
    BY <1>2
<1>6. Visited'
    BY <1>2, <1>4 DEF Memory, Visited
<1>7. LatestResult'
    <2> DEFINE S == {i \in DOMAIN visited : visited[i] \notin Ignored}
    <2>1. \A i \in S : visited'[i] = visited[i]
        BY <1>2
    <2>2. /\ checker.test_id # None =>
                \E i \in S : /\ \A k \in S : k <= i
                             /\ checker.tests[checker.test_id] # None
                             /\ checker.tests[checker.test_id].of = visited[i]
          /\ \A i \in S : (\A k \in S : k > i => Ids[visited[k]] # Ids[visited[i]])
                             => checker.tests[Ids[visited[i]]].of = visited[i]
        BY DEF Memory, LatestResult
    <2>3. S = {i \in DOMAIN visited' : visited'[i] \notin Ignored}
        BY <1>5
    <2> HIDE DEF S
    <2>4. /\ checker'.test_id # None =>
                \E i \in S : /\ \A k \in S : k <= i
                             /\ checker'.tests[checker'.test_id] # None
                             /\ checker'.tests[checker'.test_id].of = visited'[i]
          /\ \A i \in S : (\A k \in S : k > i => Ids[visited'[k]] # Ids[visited'[i]])
                             => checker'.tests[Ids[visited'[i]]].of = visited'[i]
        BY <1>4, <2>1, <2>2
    <2> QED BY <2>3, <2>4 DEF LatestResult
<1>8. Known'
    BY <1>2, <1>4 DEF Memory, Known
<1>9. Reader'
    <2>1. checker.test_id # None =>
            /\ checker.test_id \in TestIds /\ checker.tests[checker.test_id] # None
        BY <1>0 DEF Memory, LatestResult, Checkers
    <2>2. checker.test_id # None =>
            \A e \in ToSet(checker.tests[checker.test_id].show_run) : e.test # t
        BY <2>1 DEF Memory, Known
    <2> QED BY <1>0, <1>2, <1>4, <2>2 DEF Reader
<1>10. \A id \in TestIds : checker'.tests[id] # None => ResultOK(checker'.tests[id], id)
    BY <1>4 DEF Memory
<1> QED BY <1>0, <1>2, <1>4, <1>6, <1>7, <1>8, <1>9, <1>10 DEF Memory

\* The test being visited is ignored or the one the current result is of.
LEMMA WhoWrites ==
    ASSUME Memory, visited # <<>>, checker.test_id # None
    PROVE  /\ checker.test_id \in TestIds /\ Visiting \in Tests
           /\ checker.tests[checker.test_id] \in TestResults
           /\ checker.tests[checker.test_id] # None
           /\ Visiting \in {checker.tests[checker.test_id].of} \cup Ignored
<1> DEFINE S == {i \in DOMAIN visited : visited[i] \notin Ignored}
<1>0. checker \in Checkers /\ visited \in Seq(Tests)
    BY DEF Memory
<1>1. Len(visited) \in Nat /\ Len(visited) \in DOMAIN visited /\ DOMAIN visited = 1 .. Len(visited)
    BY <1>0
<1>2. Visiting = visited[Len(visited)] /\ Visiting \in Tests
    BY <1>0, <1>1 DEF Visiting, Last
<1>3. PICK i \in S : /\ \A k \in S : k <= i
                     /\ checker.tests[checker.test_id] # None
                     /\ checker.tests[checker.test_id].of = visited[i]
    BY DEF Memory, LatestResult
<1>4. Len(visited) \in S => i = Len(visited)
    BY <1>1, <1>3
<1>5. checker.test_id \in TestIds /\ checker.tests[checker.test_id] \in TestResults
    BY <1>0, <1>3 DEF Checkers
<1> QED BY <1>1, <1>2, <1>3, <1>4, <1>5

\* A keyword sets the type and the counters and leaves the results alone.
LEMMA KeywordMemory ==
    ASSUME Memory, NEW m \in MsgTypes, NEW l \in Nat, NEW n \in Nat,
           checker' = [checker EXCEPT !.msg_type = m, !.lookup_nr = l, !.sh_run = n],
           visited' = visited, keywords' \in Nat, messages' \in Nat,
           m \in {"history", "runtime"} => visited # <<>>,
           m = "history" => l = 0,
           n = IF m = "runtime" THEN checker.sh_run + 1 ELSE checker.sh_run
    PROVE  Memory' /\ checker'.generated = checker.generated
<1> PICK c : c = checker
    OBVIOUS
<1>1. c \in Checkers
    BY DEF Memory
<1>2. /\ checker' \in Checkers /\ checker'.msg_type = m /\ checker'.lookup_nr = l
      /\ checker'.sh_run = n /\ checker'.test_id = c.test_id /\ checker'.tests = c.tests
      /\ checker'.generated = c.generated /\ c.sh_run \in Nat
    BY <1>1 DEF Checkers
<1>3. Visiting' = Visiting
    BY DEF Visiting
<1>4. visited # <<>> /\ c.test_id # None /\ c.sh_run = 0 =>
          \A e \in ToSet(c.tests[c.test_id].show_run) : e.test # Visiting
    BY DEF Memory, Reader
<1>5. Reader'
    <2>1. n = 0 => c.sh_run = 0
        BY <1>2
    <2>2. m = "runtime" => n > 0 /\ (n = 1 => c.sh_run = 0)
        BY <1>2
    <2> QED BY <1>2, <1>3, <1>4, <2>1, <2>2 DEF Reader
<1> QED BY <1>2, <1>5, SameResults

\* The keywords of setups, tests and teardowns.
LEMMA KeywordsMemory ==
    ASSUME Memory,
           HistoryKeyword \/ RuntimeKeyword \/ \E field \in Metadata : SetupKeyword(field)
    PROVE  Memory' /\ checker'.generated = checker.generated
<1> PICK c : c = checker
    OBVIOUS
<1>1. /\ c \in Checkers /\ keywords \in Nat /\ MaxMessages \in Nat
      /\ c.lookup_nr \in Nat /\ c.sh_run \in Nat
    BY SizesAssumption DEF Memory, Checkers
<1>2. visited' = visited /\ keywords' \in Nat /\ messages' \in Nat
    <2>1. visited' = visited /\ keywords' = keywords + 1 /\ messages' = MaxMessages
        BY DEF HistoryKeyword, RuntimeKeyword, SetupKeyword, VisitKeyword
    <2> QED BY <1>1, <2>1
<1>3. CASE HistoryKeyword
    <2>1. checker' = [c EXCEPT !.msg_type = "history", !.lookup_nr = 0, !.sh_run = c.sh_run]
        BY <1>1, <1>3 DEF HistoryKeyword, VisitKeyword, Visit, Checkers
    <2>2. visited # <<>> /\ "history" \in MsgTypes
        BY <1>3 DEF HistoryKeyword, MsgTypes
    <2> QED BY <1>1, <1>2, <2>1, <2>2, KeywordMemory
<1>4. CASE RuntimeKeyword
    <2>1. checker' = [c EXCEPT !.msg_type = "runtime", !.lookup_nr = c.lookup_nr,
                               !.sh_run = c.sh_run + 1]
        BY <1>1, <1>4 DEF RuntimeKeyword, VisitKeyword, Visit, Checkers
    <2>2. visited # <<>> /\ "runtime" \in MsgTypes /\ c.sh_run + 1 \in Nat
        BY <1>1, <1>4 DEF RuntimeKeyword, MsgTypes
    <2> QED BY <1>1, <1>2, <2>1, <2>2, KeywordMemory
<1>5. ASSUME NEW field \in Metadata, SetupKeyword(field)
      PROVE  Memory' /\ checker'.generated = checker.generated
    <2>1. checker' = [c EXCEPT !.msg_type = field, !.lookup_nr = c.lookup_nr,
                               !.sh_run = c.sh_run]
        BY <1>1, <1>5 DEF SetupKeyword, VisitKeyword, Visit, Checkers
    <2>2. field \in MsgTypes /\ field \notin {"history", "runtime"}
        BY DEF MsgTypes, Metadata
    <2> QED BY <1>1, <1>2, <2>1, <2>2, KeywordMemory
<1> QED BY <1>3, <1>4, <1>5

\* A message that leaves the results alone and no history to wait for.
LEMMA QuietMemory ==
    ASSUME Memory, checker' \in Checkers, checker'.tests = checker.tests,
           checker'.test_id = checker.test_id, checker'.sh_run = checker.sh_run,
           checker'.msg_type \in {None, "version"},
           visited' = visited, keywords' \in Nat, messages' \in Nat
    PROVE  Memory'
<1>1. Visiting' = Visiting
    BY DEF Visiting
<1>2. checker'.msg_type \notin {"history", "runtime"}
    BY NoneAssumption DEF MsgTypes
<1>3. visited # <<>> /\ checker.test_id # None /\ checker.sh_run = 0 =>
          \A e \in ToSet(checker.tests[checker.test_id].show_run) : e.test # Visiting
    BY DEF Memory, Reader
<1>4. Reader'
    BY <1>1, <1>2, <1>3 DEF Reader
<1> QED BY <1>4, SameResults

\* Metadata is that of the build.
LEMMA MetadataMemory ==
    ASSUME TypeOK, Positioned, Memory, NEW field \in Metadata, MetadataMessage(field)
    PROVE  Memory' /\ checker'.generated \in {checker.generated, Current}
<1> PICK c, v : c = checker /\ v = Current
    OBVIOUS
<1>0. /\ c \in Checkers /\ pc = "visit" /\ visited' = visited /\ keywords' = keywords
      /\ keywords \in Nat /\ messages \in Nat /\ messages > 0 /\ messages' = messages - 1
    BY DEF Memory, MetadataMessage, VisitMessage, Visit
<1>1. v \in AllBuilds
    BY <1>0, CurrentBuild
<1>2. checker' = [c EXCEPT ![field] = v, !.msg_type = None]
    BY DEF MetadataMessage, VisitMessage, Visit
<1>3. /\ checker' \in Checkers /\ checker'.test_id = c.test_id /\ checker'.tests = c.tests
      /\ checker'.sh_run = c.sh_run /\ checker'.msg_type = None
      /\ checker'.generated \in {c.generated, v}
    <2>1. CASE field = "version"
        <3>1. checker' = [c EXCEPT !.version = v, !.msg_type = None]
            BY <1>2, <2>1
        <3> QED BY <1>0, <1>1, <3>1 DEF Checkers
    <2>2. CASE field = "generated"
        <3>1. checker' = [c EXCEPT !.generated = v, !.msg_type = None]
            BY <1>2, <2>2
        <3> QED BY <1>0, <1>1, <3>1 DEF Checkers
    <2>3. CASE field = "testbed"
        <3>1. checker' = [c EXCEPT !.testbed = v, !.msg_type = None]
            BY <1>2, <2>3
        <3> QED BY <1>0, <1>1, <3>1 DEF Checkers
    <2> QED BY <2>1, <2>2, <2>3 DEF Metadata
<1>4. keywords' \in Nat /\ messages' \in Nat
    BY <1>0
<1> QED BY <1>0, <1>3, <1>4, QuietMemory

\* A message without the value changes no result.
LEMMA UnreadableMemory ==
    ASSUME Memory, Unreadable
    PROVE  Memory' /\ checker'.generated = checker.generated
<1> PICK c : c = checker
    OBVIOUS
<1>0. /\ c \in Checkers /\ visited' = visited /\ keywords' \in Nat
      /\ messages \in Nat /\ messages > 0
    BY DEF Memory, Unreadable
<1>1. messages' \in Nat
    BY <1>0 DEF Unreadable
<1>2. checker' = [c EXCEPT !.msg_type = None] \/ (checker' = c /\ c.msg_type = "version")
    BY DEF Unreadable
<1>3. /\ checker' \in Checkers /\ checker'.tests = c.tests /\ checker'.test_id = c.test_id
      /\ checker'.sh_run = c.sh_run /\ checker'.msg_type \in {None, "version"}
      /\ checker'.generated = c.generated
    BY <1>0, <1>2 DEF Checkers
<1> QED BY <1>0, <1>1, <1>3, QuietMemory

\* One entry more.
LEMMA OneEntryMore ==
    ASSUME NEW s \in Seq(Entries), NEW e \in Entries
    PROVE  /\ Len(s) \in Nat /\ DOMAIN s = 1 .. Len(s)
           /\ Append(s, e) \in Seq(Entries) /\ Len(Append(s, e)) = Len(s) + 1
           /\ DOMAIN Append(s, e) = 1 .. (Len(s) + 1) /\ Append(s, e)[Len(s) + 1] = e
           /\ \A i \in 1 .. Len(s) : Append(s, e)[i] = s[i]
           /\ \A i \in 1 .. (Len(s) + 1) : i \in 1 .. Len(s) \/ i = Len(s) + 1
           /\ ToSet(Append(s, e)) = ToSet(s) \cup {e}
<1>0. PICK n, u : n = Len(s) /\ u = Append(s, e)
    OBVIOUS
<1>1. /\ n \in Nat /\ DOMAIN s = 1 .. n /\ DOMAIN u = 1 .. (n + 1) /\ Len(u) = n + 1
      /\ u \in Seq(Entries) /\ u[n + 1] = e
      /\ \A i \in 1 .. n : u[i] = s[i]
      /\ \A i \in 1 .. (n + 1) : i \in 1 .. n \/ i = n + 1
    BY <1>0
<1>2. ToSet(u) = {u[i] : i \in 1 .. (n + 1)} /\ ToSet(s) = {s[i] : i \in 1 .. n}
    BY <1>1 DEF ToSet
<1>3. ToSet(u) \subseteq ToSet(s) \cup {e}
    BY <1>1, <1>2
<1>4. n + 1 \in 1 .. (n + 1) /\ \A i \in 1 .. n : i \in 1 .. (n + 1)
    BY <1>1
<1>5. ToSet(s) \cup {e} \subseteq ToSet(u)
    BY <1>1, <1>2, <1>4
<1>6. ToSet(u) = ToSet(s) \cup {e}
    BY <1>3, <1>5
<1> QED BY <1>0, <1>1, <1>6

\* What is written to a result: the entry of the test visited, which is ignored
\* or the one the result is of.
LEMMA Written ==
    ASSUME Memory, visited # <<>>, NEW n \in Nat
    PROVE  /\ Entry(n) \in Entries /\ Entry(n).dut = n /\ Entry(n).keyword = keywords
           /\ Entry(n).test = Visiting /\ Visiting \in ToSet(visited)
<1>1. visited \in Seq(Tests) /\ keywords \in Nat
    BY DEF Memory
<1>2. Len(visited) \in DOMAIN visited /\ visited[Len(visited)] \in Tests
    BY <1>1
<1>3. Visiting = visited[Len(visited)] /\ Visiting \in Tests
    BY <1>2 DEF Visiting, Last
<1>4. Visiting \in ToSet(visited)
    BY <1>2, <1>3 DEF ToSet
<1> QED BY <1>1, <1>3, <1>4 DEF Entry, Entries

\* The entry e comes first to a history g, or as the second of its keyword.
Continues(v, k, g, n, e) ==
    /\ e = [test |-> v, keyword |-> k, dut |-> n]
    /\ \/ n = 1 /\ g = <<>>
       \/ n = 2 /\ Len(g) = 1 /\ g[1] = [test |-> v, keyword |-> k, dut |-> 1]

\* The history h is one keyword's.
Leaves(v, n, e, h) ==
    /\ h \in Seq(Entries) /\ Len(h) <= 2
    /\ n = 1 => Len(h) = 1 /\ h[1] = e
    /\ \A i \in DOMAIN h : h[i] = [h[1] EXCEPT !.dut = i]
    /\ \A x \in ToSet(h) : x.test = v

\* The history a message leaves: the first one starts it, the second ends it.
LEMMA HistoryEntries ==
    ASSUME NEW v \in Tests, NEW k \in Nat, NEW g \in Seq(Entries), NEW n, NEW e,
           Continues(v, k, g, n, e)
    PROVE  Leaves(v, n, e, Append(g, e))
<1>a. /\ e = [test |-> v, keyword |-> k, dut |-> n]
      /\ \/ n = 1 /\ g = <<>>
         \/ n = 2 /\ Len(g) = 1 /\ g[1] = [test |-> v, keyword |-> k, dut |-> 1]
    BY DEF Continues
<1>0. e \in Entries /\ e.test = v
    BY <1>a DEF Entries
<1>1. PICK h : h = Append(g, e)
    OBVIOUS
<1>2. /\ h \in Seq(Entries) /\ Len(h) = Len(g) + 1
      /\ DOMAIN h = 1 .. (Len(g) + 1) /\ h[Len(g) + 1] = e
      /\ \A i \in 1 .. Len(g) : h[i] = g[i]
    BY <1>0, <1>1, OneEntryMore
<1>3. CASE n = 1 /\ g = <<>>
    <2>1. Len(g) = 0
        BY <1>3
    <2>2. DOMAIN h = {1} /\ h[1] = e /\ Len(h) = 1
        BY <1>2, <2>1
    <2>3. e = [e EXCEPT !.dut = 1]
        BY <1>a, <1>3
    <2>4. ToSet(h) = {e}
        BY <2>2 DEF ToSet
    <2>5. \A i \in DOMAIN h : h[i] = [h[1] EXCEPT !.dut = i]
        BY <2>2, <2>3
    <2>6. \A x \in ToSet(h) : x.test = v
        BY <1>0, <2>4
    <2>7. Leaves(v, n, e, h)
        BY <1>2, <2>2, <2>5, <2>6 DEF Leaves
    <2> QED BY <1>1, <2>7
<1>4. CASE n = 2 /\ Len(g) = 1 /\ g[1] = [test |-> v, keyword |-> k, dut |-> 1]
    <2>0. PICK d : d = [test |-> v, keyword |-> k, dut |-> 1]
        OBVIOUS
    <2>1. DOMAIN h = {1, 2} /\ h[1] = d /\ h[2] = e /\ Len(h) = 2
        BY <1>2, <1>4, <2>0
    <2>2. d = [d EXCEPT !.dut = 1] /\ e = [d EXCEPT !.dut = 2] /\ d.test = v
        BY <1>a, <1>4, <2>0
    <2>3. ToSet(h) = {d, e}
        BY <2>1 DEF ToSet
    <2>4. \A i \in DOMAIN h : h[i] = [h[1] EXCEPT !.dut = i]
        BY <2>1, <2>2
    <2>5. n # 1 /\ \A x \in ToSet(h) : x.test = v
        BY <1>0, <1>4, <2>2, <2>3
    <2>6. Leaves(v, n, e, h)
        BY <1>2, <2>1, <2>4, <2>5 DEF Leaves
    <2> QED BY <1>1, <2>6
<1> QED BY <1>a, <1>3, <1>4

\* The runtime counters a message leaves.
LEMMA RuntimeEntries ==
    ASSUME NEW q \in Seq(Entries), NEW e \in Entries,
           \A i, k \in DOMAIN q : q[i].test = q[k].test => q[i].keyword = q[k].keyword,
           \A x \in ToSet(q) : x.test = e.test => x.keyword = e.keyword
    PROVE  /\ Append(q, e) \in Seq(Entries) /\ ToSet(Append(q, e)) = ToSet(q) \cup {e}
           /\ \A i, k \in DOMAIN Append(q, e) :
                 Append(q, e)[i].test = Append(q, e)[k].test =>
                    Append(q, e)[i].keyword = Append(q, e)[k].keyword
           /\ \A x \in ToSet(Append(q, e)) : x.test = e.test => x.keyword = e.keyword
<1>0. PICK n, u : n = Len(q) /\ u = Append(q, e)
    OBVIOUS
<1>1. /\ n \in Nat /\ DOMAIN q = 1 .. n /\ DOMAIN u = 1 .. (n + 1)
      /\ u \in Seq(Entries) /\ u[n + 1] = e
      /\ \A i \in 1 .. n : u[i] = q[i]
      /\ \A i \in 1 .. (n + 1) : i \in 1 .. n \/ i = n + 1
      /\ ToSet(u) = ToSet(q) \cup {e}
    BY <1>0, OneEntryMore
<1>2. \A i \in 1 .. n : q[i] \in ToSet(q)
    BY <1>1 DEF ToSet
<1>3. \A i \in 1 .. n : u[i].test = e.test => u[i].keyword = e.keyword
    BY <1>1, <1>2
<1>4. \A i, k \in 1 .. n : u[i].test = u[k].test => u[i].keyword = u[k].keyword
    BY <1>1
<1>5. ASSUME NEW i \in 1 .. (n + 1), NEW k \in 1 .. (n + 1), u[i].test = u[k].test
      PROVE  u[i].keyword = u[k].keyword
    <2>1. (i \in 1 .. n \/ i = n + 1) /\ (k \in 1 .. n \/ k = n + 1)
        BY <1>1
    <2>2. CASE i \in 1 .. n /\ k \in 1 .. n
        BY <1>4, <1>5, <2>2
    <2>3. CASE i = n + 1 \/ k = n + 1
        <3>1. u[i] = e \/ u[k] = e
            BY <1>1, <2>3
        <3> QED BY <1>1, <1>3, <1>5, <2>1, <3>1
    <2> QED BY <2>1, <2>2, <2>3
<1>6. \A x \in ToSet(u) : x.test = e.test => x.keyword = e.keyword
    BY <1>1
<1> QED BY <1>0, <1>1, <1>5, <1>6

\* What a message writes: s instead of the result r of the current test.
Writes(c, id, r, s) ==
    /\ visited # <<>> /\ messages > 0 /\ messages' = messages - 1
    /\ visited' = visited /\ keywords' = keywords
    /\ c = checker /\ id = c.test_id /\ id # None /\ r = c.tests[id]
    /\ s \in TestResults /\ s.of = r.of /\ Len(s.history) <= 2
    /\ \A i \in DOMAIN s.history : s.history[i] = [s.history[1] EXCEPT !.dut = i]
    /\ \A i, k \in DOMAIN s.show_run :
          s.show_run[i].test = s.show_run[k].test =>
             s.show_run[i].keyword = s.show_run[k].keyword
    /\ \A x \in ToSet(s.history) : x \in ToSet(r.history) \/ x.test = Visiting
    /\ \A x \in ToSet(s.show_run) : x \in ToSet(r.show_run) \/ x.test = Visiting

\* What the checker expects then.
Expects(c, s, l, m) ==
    /\ m = "history" => l = 1 /\ Len(s.history) = 1 /\ s.history[1] = Entry(1)
    /\ c.sh_run = 0 => \A x \in ToSet(s.show_run) : x.test # Visiting
    /\ m = "runtime" =>
          /\ c.sh_run > 0
          /\ c.sh_run = 1 =>
                \A x \in ToSet(s.show_run) : x.test = Visiting => x.keyword = keywords

\* A message writes to the result of the current test, and to that one only.
LEMMA WriteMemory ==
    ASSUME Memory, NEW c, NEW id, NEW r, NEW s, Writes(c, id, r, s),
           NEW l \in Nat, NEW m \in MsgTypes \cup {None}, Expects(c, s, l, m),
           checker' = [c EXCEPT !.lookup_nr = l, !.msg_type = m, !.tests[id] = s]
    PROVE  Memory' /\ checker'.generated = checker.generated
<1>0. /\ c \in Checkers /\ messages \in Nat /\ keywords \in Nat /\ c.sh_run \in Nat
      /\ Visiting \in ToSet(visited)
    BY Written DEF Memory, Checkers, Writes
<1>1. /\ id \in TestIds /\ Visiting \in Tests /\ r \in TestResults /\ r # None
      /\ Visiting \in {r.of} \cup Ignored /\ ResultOK(r, id)
    BY WhoWrites DEF Memory, Writes
<1>2. s # None /\ s \in TestResults /\ s.of = r.of
    BY NoneAssumption DEF Writes
<1>3. ResultOK(s, id)
    <2>1. \A x \in Shown(r) : x.test \in {r.of} \cup Ignored
        BY <1>1 DEF ResultOK
    <2>2. \A x \in Shown(s) : x \in Shown(r) \/ x.test = Visiting
        BY DEF Shown, Writes
    <2>3. \A x \in Shown(s) : x.test \in {s.of} \cup Ignored
        BY <1>1, <1>2, <2>1, <2>2
    <2>4. r.of \notin Ignored /\ Ids[r.of] = id
        BY <1>1 DEF ResultOK
    <2> QED BY <1>2, <2>3, <2>4 DEF ResultOK, Writes
<1>4. /\ checker' \in Checkers /\ checker'.test_id = c.test_id /\ checker'.sh_run = c.sh_run
      /\ checker'.generated = c.generated /\ checker'.tests[id] = s
      /\ checker'.lookup_nr = l /\ checker'.msg_type = m
      /\ \A i \in TestIds : i # id => checker'.tests[i] = c.tests[i]
    BY <1>0, <1>1, <1>2 DEF Checkers
<1>5. Visiting' = Visiting /\ Entry(1)' = Entry(1)
    BY DEF Visiting, Entry, Writes
<1>6. Reader'
    <2>1. /\ visited' = visited /\ visited # <<>> /\ keywords' = keywords /\ c.test_id = id
          /\ id # None
        BY DEF Writes
    <2> QED BY <1>4, <1>5, <2>1 DEF Reader, Expects
<1>7. \A x \in ToSet(s.show_run) : x.test \in ToSet(visited)
    <2>1. \A x \in ToSet(r.show_run) : x.test \in ToSet(visited)
        BY <1>1 DEF Memory, Known, Writes
    <2> QED BY <1>0, <2>1 DEF Writes
<1>8. ASSUME NEW i \in TestIds
      PROVE  /\ checker'.tests[i] = None <=> c.tests[i] = None
             /\ c.tests[i] # None =>
                   /\ checker'.tests[i].of = c.tests[i].of /\ ResultOK(checker'.tests[i], i)
                   /\ \A x \in ToSet(checker'.tests[i].show_run) : x.test \in ToSet(visited)
    <2>1. CASE i = id
        BY <1>1, <1>2, <1>3, <1>4, <1>7, <2>1 DEF Writes
    <2>2. CASE i # id
        <3>1. c.tests[i] # None =>
                /\ ResultOK(c.tests[i], i)
                /\ \A x \in ToSet(c.tests[i].show_run) : x.test \in ToSet(visited)
            BY DEF Memory, Known, Writes
        <3> QED BY <1>4, <2>2, <3>1
    <2> QED BY <2>1, <2>2
<1>9. keywords' \in Nat /\ messages' \in Nat
    BY <1>0 DEF Writes
<1>10. c = checker /\ visited' = visited
    BY DEF Writes
<1> QED BY <1>4, <1>6, <1>8, <1>9, <1>10, SameTests

\* A message of the PAPI history.
LEMMA HistoryMemory ==
    ASSUME Memory, HistoryMessage
    PROVE  Memory' /\ checker'.generated = checker.generated
<1>p. PICK c, id, n, m : /\ c = checker /\ id = c.test_id /\ n = c.lookup_nr + 1
                         /\ m = IF n = 1 THEN c.msg_type ELSE None
    OBVIOUS
<1>q. PICK r : r = c.tests[id]
    OBVIOUS
<1>0. /\ c \in Checkers /\ c.msg_type = "history" /\ id # None /\ visited # <<>>
      /\ messages > 0 /\ messages' = messages - 1 /\ keywords \in Nat
      /\ UNCHANGED <<visited, keywords>>
      /\ c.lookup_nr \in Nat /\ n \in Nat /\ c.sh_run \in Nat
    BY <1>p DEF Memory, Reader, HistoryMessage, VisitMessage, Visit, Checkers
<1>1. id \in TestIds /\ Visiting \in Tests /\ r \in TestResults /\ ResultOK(r, id)
    BY <1>p, <1>q, <1>0, WhoWrites DEF Memory
<1>2. \/ n = 1
      \/ n = 2 /\ Len(r.history) = 1
           /\ r.history[1] = [test |-> Visiting, keyword |-> keywords, dut |-> 1]
    BY <1>p, <1>q, <1>0 DEF Memory, Reader, Entry
<1>r. PICK g, e : /\ g = IF n = 1 THEN <<>> ELSE r.history
                  /\ e = [test |-> Visiting, keyword |-> keywords, dut |-> n]
    OBVIOUS
<1>a. /\ g \in Seq(Entries)
      /\ \/ n = 1 /\ g = <<>>
         \/ n = 2 /\ Len(g) = 1 /\ g[1] = [test |-> Visiting, keyword |-> keywords, dut |-> 1]
    BY <1>1, <1>2, <1>r DEF TestResults
<1>b. PICK h : h = Append(g, e)
    OBVIOUS
<1>3. /\ h \in Seq(Entries) /\ Len(h) <= 2
      /\ n = 1 => Len(h) = 1 /\ h[1] = e
      /\ \A i \in DOMAIN h : h[i] = [h[1] EXCEPT !.dut = i]
      /\ \A x \in ToSet(h) : x.test = Visiting
    <2>1. PICK v, k : v = Visiting /\ k = keywords
        OBVIOUS
    <2>2. v \in Tests /\ k \in Nat /\ g \in Seq(Entries) /\ Continues(v, k, g, n, e)
        BY <1>0, <1>1, <1>a, <1>r, <2>1 DEF Continues
    <2>3. Leaves(v, n, e, h)
        BY <1>b, <2>2, HistoryEntries
    <2> QED BY <2>1, <2>3 DEF Leaves
<1>s. PICK s : s = [r EXCEPT !.history = h]
    OBVIOUS
<1>4. s \in TestResults /\ s.of = r.of /\ s.history = h /\ s.show_run = r.show_run
    BY <1>1, <1>3, <1>s DEF TestResults
<1>5. checker' = [c EXCEPT !.lookup_nr = n, !.msg_type = m, !.tests[id] = s]
    <2>1. checker' = [c EXCEPT !.lookup_nr = n, !.msg_type = IF n = 1 THEN @ ELSE None,
                               !.tests[id].history = Append(IF n = 1 THEN <<>> ELSE @, Entry(n))]
        BY <1>p DEF HistoryMessage, VisitMessage, Visit
    <2> QED BY <1>p, <1>q, <1>r, <1>b, <1>s, <1>0, <1>1, <2>1 DEF Checkers, TestResults, Entry
<1>6. /\ checker'.msg_type = m /\ checker'.lookup_nr = n /\ m \in MsgTypes \cup {None}
      /\ m # "runtime" /\ (m = "history" => n = 1)
    BY <1>p, <1>0, <1>5, NoneAssumption DEF Checkers, MsgTypes
<1>7. n = 1 => Len(s.history) = 1 /\ s.history[1] = Entry(1)
    BY <1>r, <1>3, <1>4 DEF Entry
<1>8. \A i, k \in DOMAIN s.show_run :
         s.show_run[i].test = s.show_run[k].test =>
            s.show_run[i].keyword = s.show_run[k].keyword
    BY <1>1, <1>4 DEF ResultOK
<1>9. Writes(c, id, r, s)
    BY <1>p, <1>q, <1>0, <1>3, <1>4, <1>8 DEF Writes
<1>10. Expects(c, s, n, m)
    <2>1. c.sh_run = 0 => \A x \in ToSet(s.show_run) : x.test # Visiting
        BY <1>p, <1>q, <1>0, <1>4 DEF Memory, Reader
    <2> QED BY <1>6, <1>7, <2>1 DEF Expects
<1> QED BY <1>0, <1>5, <1>6, <1>9, <1>10, WriteMemory

\* A message of the runtime counters.
LEMMA RuntimeMemory ==
    ASSUME Memory, RuntimeMessage
    PROVE  Memory' /\ checker'.generated = checker.generated
<1>p. PICK c, id : c = checker /\ id = c.test_id
    OBVIOUS
<1>q. PICK r : r = c.tests[id]
    OBVIOUS
<1>0. /\ c \in Checkers /\ c.msg_type = "runtime" /\ id # None /\ visited # <<>>
      /\ messages > 0 /\ messages' = messages - 1 /\ keywords \in Nat
      /\ UNCHANGED <<visited, keywords>>
      /\ c.lookup_nr \in Nat /\ c.sh_run \in Nat /\ c.sh_run > 0
    BY <1>p DEF Memory, Reader, RuntimeMessage, VisitMessage, Visit, Checkers
<1>1. id \in TestIds /\ Visiting \in Tests /\ r \in TestResults /\ ResultOK(r, id)
    BY <1>p, <1>q, <1>0, WhoWrites DEF Memory
<1>2. PICK q : q = r.show_run
    OBVIOUS
<1>3. /\ q \in Seq(Entries) /\ Len(q) + 1 \in Nat
      /\ \A i, k \in DOMAIN q : q[i].test = q[k].test => q[i].keyword = q[k].keyword
    BY <1>1, <1>2 DEF TestResults, ResultOK
<1>4. PICK e : e = Entry(Len(q) + 1)
    OBVIOUS
<1>5. e \in Entries /\ e.keyword = keywords /\ e.test = Visiting
    BY <1>0, <1>3, <1>4, Written
<1>6. c.sh_run = 1 => \A x \in ToSet(q) : x.test = e.test => x.keyword = e.keyword
    BY <1>p, <1>q, <1>0, <1>2, <1>5 DEF Memory, Reader
<1>7. PICK u : u = IF c.sh_run > 1 THEN q ELSE Append(q, e)
    OBVIOUS
<1>8. /\ u \in Seq(Entries) /\ \A x \in ToSet(u) : x \in ToSet(q) \/ x.test = Visiting
      /\ \A i, k \in DOMAIN u : u[i].test = u[k].test => u[i].keyword = u[k].keyword
      /\ c.sh_run = 1 => \A x \in ToSet(u) : x.test = Visiting => x.keyword = keywords
    <2>1. CASE c.sh_run > 1
        <3>1. u = q /\ c.sh_run # 1
            BY <1>0, <1>7, <2>1
        <3> QED BY <1>3, <3>1
    <2>2. CASE c.sh_run = 1
        <3>1. u = Append(q, e)
            BY <1>7, <2>2
        <3>2. /\ u \in Seq(Entries) /\ ToSet(u) = ToSet(q) \cup {e}
              /\ \A i, k \in DOMAIN u : u[i].test = u[k].test => u[i].keyword = u[k].keyword
              /\ \A x \in ToSet(u) : x.test = e.test => x.keyword = e.keyword
            BY <1>3, <1>5, <1>6, <2>2, <3>1, RuntimeEntries
        <3> QED BY <1>5, <3>2
    <2>3. c.sh_run > 1 \/ c.sh_run = 1
        BY <1>0
    <2> QED BY <2>1, <2>2, <2>3
<1>s. PICK s : s = [r EXCEPT !.show_run = u]
    OBVIOUS
<1>9. s \in TestResults /\ s.of = r.of /\ s.history = r.history /\ s.show_run = u
    BY <1>1, <1>8, <1>s DEF TestResults
<1>10. checker' = [c EXCEPT !.lookup_nr = c.lookup_nr, !.msg_type = c.msg_type, !.tests[id] = s]
    <2>1. checker' = [c EXCEPT !.tests[id].show_run =
                                  IF c.sh_run > 1 THEN @ ELSE Append(@, Entry(Len(@) + 1))]
        BY <1>p DEF RuntimeMessage, VisitMessage, Visit
    <2>2. checker' = [c EXCEPT !.tests[id] = s]
        BY <1>q, <1>s, <1>0, <1>1, <1>2, <1>4, <1>7, <2>1 DEF Checkers, TestResults
    <2> QED BY <1>0, <2>2 DEF Checkers
<1>11. checker'.msg_type = "runtime" /\ c.msg_type \in MsgTypes \cup {None}
    BY <1>0, <1>10 DEF Checkers
<1>12. /\ Len(s.history) <= 2
       /\ \A i \in DOMAIN s.history : s.history[i] = [s.history[1] EXCEPT !.dut = i]
    BY <1>1, <1>9 DEF ResultOK
<1>13. c.sh_run # 0 /\ checker'.msg_type # "history"
    BY <1>0, <1>11
<1>14. Writes(c, id, r, s)
    BY <1>p, <1>q, <1>0, <1>2, <1>8, <1>9, <1>12 DEF Writes
<1>15. Expects(c, s, c.lookup_nr, c.msg_type)
    BY <1>0, <1>8, <1>9, <1>13 DEF Expects
<1> QED BY <1>0, <1>10, <1>11, <1>14, <1>15, WriteMemory

\* Every element visited keeps what the checker remembers right.
LEMMA MemoryStep ==
    ASSUME TypeOK, Positioned, Fresh, Memory, [Next]_vars
    PROVE  Memory' /\ Fresh'
<1>a. ASSUME UNCHANGED <<reading, job, build>>,
             pc' \in {"next", "download"} => pc \in {"next", "download"},
             pc' = "visit" => pc \in {"visit", "download"}
      PROVE  Memory' /\ Fresh'
    <2>1. Memory'
        BY <1>a DEF Memory, Visited, LatestResult, Known, Reader, Entry, Visiting, reading
    <2>2. NewChecker.generated = None
        BY DEF NewChecker
    <2>3. Current' = Current /\ checker' = checker /\ visited' = visited
        BY <1>a DEF Current, reading
    <2> QED BY <1>a, <2>1, <2>2, <2>3 DEF Fresh
<1>b. ASSUME LoopEnds PROVE Memory' /\ Fresh'
    BY <1>b, NewMemory DEF LoopEnds, Fresh
<1>c. ASSUME pc = "visit", pc' = "visit", UNCHANGED <<job, build>>,
             checker'.generated \in {checker.generated, Current}
      PROVE  Fresh'
    <2>1. Current' = Current
        BY <1>c DEF Current
    <2> QED BY <1>c, <2>1 DEF Fresh
<1>1. CASE UNCHANGED vars
    BY <1>a, <1>1 DEF vars
<1>2. CASE FindBuild
    <2>1. /\ UNCHANGED <<checker, visited, keywords, messages>>
          /\ pc = "next" /\ pc' \in {"next", "download", "done"}
        BY <1>2 DEF FindBuild, reading
    <2>2. Memory'
        BY <2>1 DEF Memory, Visited, LatestResult, Known, Reader, Entry, Visiting
    <2> QED BY <2>1, <2>2 DEF Fresh
<1>3. CASE Retries \/ Stops \/ Downloaded
    BY <1>a, <1>3 DEF Retries, Stops, Downloaded
<1>4. CASE Skips \/ Stores \/ Drops
    BY <1>b, <1>4 DEF Skips, SkipBuild, Stores, Store, Drops, Outdated, NextBuild, NextJob
<1>5. CASE Visits
    <2>0. pc = "visit" /\ pc' = "visit" /\ UNCHANGED <<job, build>>
        BY <1>5 DEF Visits
    <2>1. ASSUME NEW field \in Metadata, MetadataMessage(field) PROVE Memory' /\ Fresh'
        BY <1>c, <2>0, <2>1, MetadataMemory
    <2>2. CASE VisitTest
        <3>1. PICK t \in Tests \ ToSet(visited) :
                 (t \in Ignored /\ StartIgnored(t)) \/ (t \notin Ignored /\ StartTest(t))
            BY <2>2 DEF VisitTest
        <3> QED BY <1>c, <2>0, <3>1, StartTestMemory, StartIgnoredMemory
    <2>3. CASE HistoryKeyword \/ RuntimeKeyword \/ \E field \in Metadata : SetupKeyword(field)
        BY <1>c, <2>0, <2>3, KeywordsMemory
    <2>4. CASE Unreadable
        BY <1>c, <2>0, <2>4, UnreadableMemory
    <2>5. CASE HistoryMessage
        BY <1>c, <2>0, <2>5, HistoryMemory
    <2>6. CASE RuntimeMessage
        BY <1>c, <2>0, <2>6, RuntimeMemory
    <2> QED BY <1>5, <2>1, <2>2, <2>3, <2>4, <2>5, <2>6 DEF Visits
<1> QED BY <1>1, <1>2, <1>3, <1>4, <1>5, StepKinds

\* Every step keeps the places and numbers of the loops inside a build.
LEMMA CountersStep ==
    ASSUME TypeOK, [Next]_vars
    PROVE  /\ pc' \in {"next", "download", "visit", "done", "raised", "key error", "silent"}
           /\ source' \in DOMAIN Sources /\ attempts' \in 0 .. Repeat - 1
<1>0. /\ pc \in {"next", "download", "visit", "done", "raised", "key error", "silent"}
      /\ source \in DOMAIN Sources /\ attempts \in 0 .. Repeat - 1
    BY DEF TypeOK
<1>1. 1 \in DOMAIN Sources /\ 0 \in 0 .. Repeat - 1
    BY SizesAssumption DEF Sources
<1>2. CASE UNCHANGED vars
    BY <1>0, <1>2 DEF vars
<1>3. CASE FindBuild \/ Downloaded
    BY <1>0, <1>1, <1>3 DEF FindBuild, Downloaded
<1>4. CASE Retries \/ Stops \/ Visits
    BY <1>0, <1>4 DEF Retries, Stops, Visits
<1>5. CASE Skips \/ Stores \/ Drops
    <2>1. LoopEnds
        BY <1>5 DEF Skips, SkipBuild, Stores, Store, Drops, Outdated, NextBuild, NextJob
    <2> QED BY <1>1, <2>1 DEF LoopEnds
<1> QED BY <1>2, <1>3, <1>4, <1>5, StepKinds

-----------------------------------------------------------------------------
(* The theorems.                                                           *)

\* The invariant holds at the start.
LEMMA InitIInv == Init => IInv
<1> SUFFICES ASSUME Init PROVE IInv
    OBVIOUS
<1>1. /\ pc = "next" /\ job = 1 /\ build = 1 /\ source = 1 /\ attempts = 0
      /\ checker = NewChecker /\ visited = <<>> /\ keywords = 0 /\ messages = 0
      /\ status = [jb \in AllBuilds |-> None] /\ input_data = [jb \in AllBuilds |-> None]
      /\ old \subseteq AllBuilds /\ OldOnes
    BY DEF Init, OldOnes
<1>2. NewChecker \in Checkers /\ NewChecker.test_id = None /\ NewChecker.generated = None
    BY DEF NewChecker, Checkers
<1>3. \A id \in TestIds : NewChecker.tests[id] = None
    BY DEF NewChecker
<1>4. 1 \in DOMAIN Sources /\ 0 \in 0 .. Repeat - 1 /\ 1 \in 1 .. Len(Jobs) + 1
    BY SizesAssumption, JobNumbers DEF Sources
<1>5. <<>> \in Seq(Tests) /\ DOMAIN visited = {}
    BY <1>1
<1>6. TypeOK
    <2>1. status \in [AllBuilds -> {None, "failed", "processed"}]
        BY <1>1
    <2>2. input_data \in [AllBuilds -> AllBuilds \cup {None, Timeless}]
        BY <1>1
    <2> QED BY <1>1, <1>2, <1>3, <1>4, <1>5, <2>1, <2>2 DEF TypeOK
<1>7. Positioned /\ Fresh
    BY <1>1 DEF Positioned, Fresh
<1>8. \A i \in DOMAIN Jobs : \A b \in 1 .. Builds[Jobs[i]] : StatusOf(i, b) = None
    BY <1>1, BuildNumbers DEF StatusOf
<1>9. Ahead
    BY <1>8 DEF Ahead
<1>10. Behind
    BY <1>1, JobNumbers DEF Behind
<1>11. Stored
    BY <1>1, NoneAssumption DEF Stored
<1>12. Memory
    <2>1. Visited /\ LatestResult
        BY <1>1, <1>2, <1>5 DEF Visited, LatestResult
    <2>2. Known /\ Reader
        BY <1>1, <1>2, <1>3 DEF Known, Reader
    <2> QED BY <1>1, <1>2, <1>3, <1>5, <2>1, <2>2 DEF Memory
<1> QED BY <1>1, <1>6, <1>7, <1>9, <1>10, <1>11, <1>12 DEF IInv, Loops

\* Every step keeps it.
LEMMA NextIInv == IInv /\ [Next]_vars => IInv'
<1> SUFFICES ASSUME IInv, [Next]_vars PROVE IInv'
    OBVIOUS
<1>1. TypeOK /\ Positioned /\ Fresh /\ Loops /\ Memory
    BY DEF IInv, Loops
<1>2. /\ Loops' /\ job' \in 1 .. Len(Jobs) + 1 /\ build' \in Nat \ {0} /\ old' = old
      /\ status' \in [AllBuilds -> {None, "failed", "processed"}]
      /\ input_data' \in [AllBuilds -> AllBuilds \cup {None, Timeless}]
    BY <1>1, LoopsStep
<1>3. Memory' /\ Fresh'
    BY <1>1, MemoryStep
<1>4. (Memory => /\ OneKeyword
                 /\ \A i \in TestIds : LET r == checker.tests[i] IN
                       r # None => r.of \notin Ignored /\ Ids[r.of] = i)'
    BY MemoryMeans, PTL
<1>5. TypeOK'
    <2>1. checker' \in Checkers /\ visited' \in Seq(Tests) /\ keywords' \in Nat /\ messages' \in Nat
        BY <1>3 DEF Memory
    <2>2. /\ pc' \in {"next", "download", "visit", "done", "raised", "key error", "silent"}
          /\ source' \in DOMAIN Sources /\ attempts' \in 0 .. Repeat - 1
        BY <1>1, CountersStep
    <2>3. old' \subseteq AllBuilds
        BY <1>1, <1>2 DEF TypeOK
    <2> QED BY <1>2, <1>3, <1>4, <2>1, <2>2, <2>3 DEF TypeOK
<1> QED BY <1>2, <1>3, <1>5 DEF IInv

\* The invariant holds always.
LEMMA Inductive == Spec => []IInv
BY InitIInv, NextIInv, PTL DEF Spec

\* Every variable keeps its type, and a result is stored under the name of the
\* test it is of.
THEOREM TypeCorrect == Spec => []TypeOK
<1>1. IInv => TypeOK
    BY DEF IInv
<1> QED BY <1>1, Inductive, PTL

\* In whatever order tests, keywords and messages follow each other: a history
\* is that of one keyword and its first two DUTs, the runtime counters of a test
\* are those of one keyword, and no test that has a result of its own adds to
\* the result of another one.
THEOREM OneKeywordTheorem == Spec => []OneKeyword
<1>1. IInv => OneKeyword
    BY MemoryMeans DEF IInv
<1> QED BY <1>1, Inductive, PTL

\* Nothing but the ignore list can show with a test what was read from another
\* one: with an empty list every result holds data of its own test only.
THEOREM OwnDataTheorem ==
    ASSUME Ignored = {}
    PROVE  Spec => []OwnData
<1>1. IInv => OwnData
    <2>1. IInv => OneKeyword
        BY MemoryMeans DEF IInv
    <2> QED BY <2>1 DEF OneKeyword, OwnData
<1> QED BY <1>1, Inductive, PTL

\* The result stored under a name is that of the last test of that name, and
\* keywords write to the result of the last test that is not ignored.
THEOREM LatestTheorem == Spec => []LatestResult
<1>1. IInv => LatestResult
    BY DEF IInv, Memory
<1> QED BY <1>1, Inductive, PTL

\* However many jobs and builds there are and whichever of them fail: the states
\* in the specification match the data, a build holds the data of its own file,
\* and only the outdated end of a job is left without a state.
THEOREM LeftOutTheorem == Spec => []LeftOut
<1>1. IInv => LeftOut
    <2> SUFFICES ASSUME IInv PROVE LeftOut
        OBVIOUS
    <2>1. ASSUME pc = "done", NEW jb \in AllBuilds, status[jb] = None
          PROVE  /\ jb \in old
                 /\ \A b \in jb[2] .. Builds[jb[1]] : status[<<jb[1], b>>] = None
        <3>1. PICK i \in DOMAIN Jobs : \E b \in 1 .. Builds[Jobs[i]] : jb = <<Jobs[i], b>>
            BY BuildNumbers
        <3>2. PICK b \in 1 .. Builds[Jobs[i]] : jb = <<Jobs[i], b>>
            BY <3>1
        <3>3. i < job
            <4>1. job \in 1 .. Len(Jobs) + 1 /\ job \notin DOMAIN Jobs
                BY <2>1 DEF IInv, Loops, TypeOK, Positioned
            <4> QED BY <4>1, JobNumbers
        <3>4. StatusOf(i, b) = None
            BY <2>1, <3>2 DEF StatusOf
        <3>5. <<Jobs[i], b>> \in old /\ \A c \in b .. Builds[Jobs[i]] : StatusOf(i, c) = None
            BY <3>3, <3>4 DEF IInv, Loops, Behind
        <3> QED BY <3>2, <3>5 DEF StatusOf
    <2> QED BY <2>1 DEF IInv, Loops, Stored, LeftOut
<1> QED BY <1>1, Inductive, PTL
=============================================================================
