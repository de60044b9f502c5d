----------------------------- MODULE InputData -----------------------------
(***************************************************************************)
(* How the presentation layer gets its input (input_data_parser.py and     *)
(* input_data_files.py): the output.xml of every build of every job is     *)
(* downloaded from up to four places, visited element by element by a new  *)
(* ExecutionChecker, dropped when it is outdated, and stored.              *)
(*                                                                         *)
(* The files are not part of the program: which test, keyword or message   *)
(* the visitor meets next is chosen freely.  Every piece of data carries   *)
(* its origin, the build or the test and keyword it was read from, so that *)
(* the properties can tell whose data ends up where.                       *)
(***************************************************************************)
EXTENDS Integers, Sequences, SequencesExt

CONSTANTS
    Jobs,         \* the jobs of the specification, a sequence
    Builds,       \* number of builds of each job; 1 is the newest
    Repeat,       \* downloads of a file before it is given up
    Tests,        \* the long names of tests in the files
    Ids,          \* the name a test is stored under: mapping, TC number, threads
    Ignored,      \* the tests on the ignore list
    MaxTests,     \* bound: tests in a file
    MaxKeywords,  \* bound: keywords in a file the visitor looks into
    MaxMessages,  \* bound: messages of such a keyword
    None          \* no value

\* The jobs are the keys of a dictionary.
ASSUME SpecificationAssumption ==
    /\ Jobs \in Seq(ToSet(Jobs))
    /\ \A i, k \in DOMAIN Jobs : Jobs[i] = Jobs[k] => i = k
    /\ Builds \in [ToSet(Jobs) -> Nat]

ASSUME SizesAssumption ==
    /\ Repeat \in Nat \ {0} /\ Ignored \subseteq Tests
    /\ MaxTests \in Nat /\ MaxKeywords \in Nat /\ MaxMessages \in Nat

VARIABLES
    pc,          \* what the program does
    job,         \* index of the current job
    build,       \* number of its current build
    old,         \* builds older than the time period
    source,      \* the place the file is downloaded from, as an index of Sources
    attempts,    \* failed calls of download_and_unzip_data_file
    checker,     \* the ExecutionChecker of the current build
    visited,     \* tests the checker has started, in order
    keywords,    \* number of keywords looked into
    messages,    \* messages the last of them may still have
    status,      \* state of the builds in the specification
    input_data   \* the builds stored, with the time they were generated

\* What a build leaves to the next: the loops keep the rest.
kept == <<old, status, input_data>>
reading == <<checker, visited, keywords, messages>>

vars == <<pc, job, build, source, attempts, reading, kept>>

AllBuilds == UNION {{<<j, b>> : b \in 1 .. Builds[j]} : j \in ToSet(Jobs)}
TestIds == {Ids[t] : t \in Tests}
Current == <<Jobs[job], build>>

\* logs.fd.io, docs.fd.io for the release and for master, jenkins.fd.io: what a
\* place offers.
Sources == <<"gz", "gz", "zip", "zip">>

\* A piece of the history or of the runtime counters: the test and the keyword
\* whose message it was read from, and the DUT it is shown for.
Entries == [test : Tests, keyword : Nat, dut : Nat]

\* The result stored for a test: the test it is of, its PAPI history and its
\* runtime counters.  Its type, its status and the numbers read from its message
\* are not told apart.
TestResult(t) == [of |-> t, history |-> <<>>, show_run |-> <<>>]

TestResults == [of : Tests, history : Seq(Entries), show_run : Seq(Entries)]

\* The metadata, each the build it was read from; a message of such a type holds
\* it.  The version is that of VPP or of DPDK.
Metadata == {"version", "generated", "testbed"}
MsgTypes == Metadata \cup {"history", "runtime"}

Checkers ==
    [version : AllBuilds \cup {None}, generated : AllBuilds \cup {None},
     testbed : AllBuilds \cup {None}, msg_type : MsgTypes \cup {None}, lookup_nr : Nat,
     sh_run : Nat, test_id : TestIds \cup {None},
     tests : [TestIds -> TestResults \cup {None}]]

NewChecker ==
    [version |-> None, generated |-> None, testbed |-> None, msg_type |-> None,
     lookup_nr |-> 0, sh_run |-> 0, test_id |-> None, tests |-> [i \in TestIds |-> None]]

\* A stored build whose file does not tell the time.
Timeless == <<>>

ASSUME NoneAssumption ==
    /\ None \notin Tests /\ None \notin TestIds /\ None \notin {"failed", "processed"}
    /\ None \notin AllBuilds /\ None # Timeless
    /\ None \notin MsgTypes /\ None \notin TestResults

\* The test whose elements are visited, None before the first one.
Visiting == IF visited = <<>> THEN None ELSE Last(visited)

Init ==
    /\ pc = "next"
    /\ job = 1
    /\ build = 1
    /\ old \in {o \in SUBSET AllBuilds :
          \A jb \in o : \A b \in jb[2] .. Builds[jb[1]] : <<jb[1], b>> \in o}
    /\ source = 1
    /\ attempts = 0
    /\ checker = NewChecker
    /\ visited = <<>>
    /\ keywords = 0
    /\ messages = 0
    /\ status = [jb \in AllBuilds |-> None]
    /\ input_data = [jb \in AllBuilds |-> None]

-----------------------------------------------------------------------------
(* download_and_parse_data                                                  *)

\* The heads of the two loops: the next build of the job, the next job, or the end.
FindBuild ==
    /\ pc = "next"
    /\ \/ /\ job \in DOMAIN Jobs /\ build <= Builds[Jobs[job]]
          /\ pc' = "download"
          /\ UNCHANGED <<job, build>>
       \/ /\ job \in DOMAIN Jobs /\ build > Builds[Jobs[job]]
          /\ job' = job + 1
          /\ build' = 1
          /\ UNCHANGED pc
       \/ /\ job \notin DOMAIN Jobs
          /\ pc' = "done"
          /\ UNCHANGED <<job, build>>
    /\ UNCHANGED <<source, attempts, reading, kept>>

\* The iteration ends; the next build gets an ExecutionChecker of its own.
LoopEnds ==
    /\ pc' = "next"
    /\ source' = 1
    /\ attempts' = 0
    /\ checker' = NewChecker
    /\ visited' = <<>>
    /\ keywords' = 0
    /\ messages' = 0

NextBuild ==
    /\ LoopEnds
    /\ build' = build + 1
    /\ UNCHANGED job

\* break
NextJob ==
    /\ LoopEnds
    /\ job' = job + 1
    /\ build' = 1

\* A build without data is only marked, the others are tried all the same.
SkipBuild ==
    /\ status' = [status EXCEPT ![Current] = "failed"]
    /\ NextBuild
    /\ UNCHANGED <<old, input_data>>

\* Mutant: the attempts are not counted.
AttemptFailsForever ==
    IF attempts + 1 < Repeat
    THEN /\ source' = 1
         /\ UNCHANGED <<pc, job, build, attempts, reading, kept>>
    ELSE SkipBuild

\* download_and_unzip_data_file has failed: it is repeated, or the build is skipped.
AttemptFails ==
    IF attempts + 1 < Repeat
    THEN /\ attempts' = attempts + 1
         /\ source' = 1
         /\ UNCHANGED <<pc, job, build, reading, kept>>
    ELSE SkipBuild

\* A place that has no such file or breaks off: the next one is asked,
\* jenkins.fd.io is the last.
SourceFails ==
    /\ pc = "download"
    /\ IF source < Len(Sources)
       THEN /\ source' = source + 1
            /\ UNCHANGED <<pc, job, build, attempts, reading, kept>>
       ELSE AttemptFails

\* A zip file that is no zip file or cannot be extracted: no other place is asked.
ArchiveDamaged ==
    /\ pc = "download"
    /\ Sources[source] = "zip"
    /\ AttemptFails

\* What nobody catches ends the program.
Stop(error) ==
    /\ pc' = error
    /\ UNCHANGED <<job, build, source, attempts, reading, kept>>

\* No except clause fits: raw.read() of a broken connection, a job name without
\* release or address, a .gz from docs.fd.io that is damaged, an archive without
\* the file.
DownloadRaises ==
    /\ pc = "download"
    /\ Stop("raised")

\* session.get has no timeout: a server that neither answers nor closes the
\* connection is waited for without end.
ServerSilent ==
    /\ pc = "download"
    /\ Stop("silent")

Downloaded ==
    /\ pc = "download"
    /\ pc' = "visit"
    /\ source' = 1
    /\ attempts' = 0
    /\ UNCHANGED <<job, build, reading, kept>>

\* ExecutionResult does not accept the file.
FileDamaged ==
    /\ pc = "visit"
    /\ visited = <<>> /\ keywords = 0
    /\ SkipBuild

-----------------------------------------------------------------------------
(* ExecutionChecker                                                         *)

Visit(c) ==
    /\ pc = "visit"
    /\ checker' = c
    /\ UNCHANGED <<pc, job, build, source, attempts, kept>>

StartTest(t) ==
    /\ Visit([checker EXCEPT
          !.sh_run = 0,
          !.test_id = Ids[t],
          !.tests[Ids[t]] = TestResult(t)])
    /\ visited' = Append(visited, t)
    /\ messages' = 0
    /\ UNCHANGED keywords

\* Mutant: the name is set before the ignore list is looked at.
StartIgnoredNamed(t) ==
    /\ Visit([checker EXCEPT !.sh_run = 0, !.test_id = Ids[t]])
    /\ visited' = Append(visited, t)
    /\ messages' = 0
    /\ UNCHANGED keywords

\* start_test returns None, not False: the keywords of an ignored test are
\* visited too, under the id of the test before.
StartIgnored(t) ==
    /\ Visit([checker EXCEPT !.sh_run = 0])
    /\ visited' = Append(visited, t)
    /\ messages' = 0
    /\ UNCHANGED keywords

VisitTest ==
    /\ Len(visited) < MaxTests
    /\ \E t \in Tests \ ToSet(visited) :
          \/ t \in Ignored /\ StartIgnored(t)
          \/ t \notin Ignored /\ StartTest(t)

\* The message of a passed MRR or TCP test that has not the form expected:
\* re.search gives None.
TestRaises ==
    /\ pc = "visit"
    /\ Len(visited) < MaxTests /\ Tests \ (ToSet(visited) \cup Ignored) # {}
    /\ Stop("raised")

\* A keyword whose messages are visited.  The others leave nothing behind.
VisitKeyword(c) ==
    /\ keywords < MaxKeywords
    /\ Visit(c)
    /\ keywords' = keywords + 1
    /\ messages' = MaxMessages
    /\ UNCHANGED visited

\* A keyword in a setup that shows the version, the time or the test bed, as
\* long as it is not known.
SetupKeyword(field) ==
    /\ checker[field] = None
    /\ VisitKeyword([checker EXCEPT !.msg_type = field])

\* Mutant: the messages are counted over all keywords.
HistoryKeywordCounts ==
    /\ visited # <<>>
    /\ VisitKeyword([checker EXCEPT !.msg_type = "history"])

\* Show Papi History, or Show Vat History before, in the teardown of a test.
HistoryKeyword ==
    /\ visited # <<>>
    /\ VisitKeyword([checker EXCEPT !.lookup_nr = 0, !.msg_type = "history"])

\* Show Runtime, in a test.
RuntimeKeyword ==
    /\ visited # <<>>
    /\ VisitKeyword([checker EXCEPT !.msg_type = "runtime", !.sh_run = @ + 1])

-----------------------------------------------------------------------------
(* The messages.  One that has not the text looked for changes nothing, nor *)
(* does one visited while the type is None.                                 *)

VisitMessage(c) ==
    /\ messages > 0
    /\ Visit(c)
    /\ messages' = messages - 1
    /\ UNCHANGED <<visited, keywords>>

MetadataMessage(field) ==
    /\ checker.msg_type = field
    /\ VisitMessage([checker EXCEPT ![field] = Current, !.msg_type = None])

\* The text is there, the value is not.  The address of the TG is given up; the
\* AttributeError of the versions is caught by start_keyword, which leaves the
\* keyword, with the type reset in a finally clause (DPDK) or not (VPP).
Unreadable ==
    /\ pc = "visit" /\ messages > 0
    /\ checker.msg_type \in {"version", "testbed"}
    /\ \/ /\ checker' = [checker EXCEPT !.msg_type = None]
          /\ messages' = IF checker.msg_type = "version" THEN 0 ELSE messages - 1
       \/ /\ checker.msg_type = "version"
          /\ messages' = 0
          /\ UNCHANGED checker
    /\ UNCHANGED <<pc, job, build, source, attempts, visited, keywords, kept>>

Entry(n) == [test |-> Visiting, keyword |-> keywords, dut |-> n]

\* The first message of the keyword empties what an earlier one has left, the
\* second is the last one read.
HistoryMessage ==
    LET n == checker.lookup_nr + 1
    IN  /\ checker.msg_type = "history" /\ checker.test_id # None
        /\ VisitMessage([checker EXCEPT
              !.lookup_nr = n,
              !.msg_type = IF n = 1 THEN @ ELSE None,
              !.tests[checker.test_id].history =
                 Append(IF n = 1 THEN <<>> ELSE @, Entry(n))])

\* Only the first keyword of a test counts, each of its messages is the next DUT.
RuntimeMessage ==
    /\ checker.msg_type = "runtime" /\ checker.test_id # None
    /\ VisitMessage([checker EXCEPT
          !.tests[checker.test_id].show_run =
             IF checker.sh_run > 1 THEN @ ELSE Append(@, Entry(Len(@) + 1))])

\* Runtime counters that are no JSON.
RuntimeRaises ==
    /\ pc = "visit" /\ messages > 0
    /\ checker.msg_type = "runtime" /\ checker.sh_run <= 1 /\ checker.test_id # None
    /\ Stop("raised")

\* There is no result to write to: self._data["tests"][None].
NoTestYet ==
    /\ pc = "visit" /\ messages > 0
    /\ \/ checker.msg_type = "history"
       \/ checker.msg_type = "runtime" /\ checker.sh_run <= 1
    /\ checker.test_id = None
    /\ Stop("key error")

-----------------------------------------------------------------------------
(* The file has been visited to its end.                                    *)

\* Mutant: only the build itself is dropped.
OutdatedOnly ==
    /\ NextBuild
    /\ UNCHANGED <<old, status, input_data>>

\* The build is outdated: neither it nor the later ones of the job are used;
\* the break comes before set_input_state.
Outdated ==
    /\ NextJob
    /\ UNCHANGED <<old, status, input_data>>

\* What the later parts of the program need to know of a stored build.
Generated == IF checker.generated = None THEN Timeless ELSE checker.generated

Store ==
    /\ input_data' = [input_data EXCEPT ![Current] = Generated]
    /\ status' = [status EXCEPT ![Current] = "processed"]
    /\ NextBuild
    /\ UNCHANGED old

FileVisited ==
    /\ pc = "visit"
    /\ IF Current \in old /\ checker.generated # None
       THEN Outdated
       ELSE Store

Next ==
    \/ FindBuild
    \/ SourceFails \/ ArchiveDamaged \/ DownloadRaises \/ ServerSilent
    \/ Downloaded \/ FileDamaged
    \/ VisitTest \/ TestRaises
    \/ \E field \in Metadata : SetupKeyword(field) \/ MetadataMessage(field)
    \/ Unreadable
    \/ HistoryKeyword \/ HistoryMessage
    \/ RuntimeKeyword \/ RuntimeMessage \/ RuntimeRaises
    \/ NoTestYet
    \/ FileVisited

Spec == Init /\ [][Next]_vars

\* One process runs to its end; a file has an end.
FairSpec == Spec /\ WF_vars(Next)

-----------------------------------------------------------------------------
(* Properties                                                               *)

\* Types; a result is stored under the name of its test.
TypeOK ==
    /\ pc \in {"next", "download", "visit", "done", "raised", "key error", "silent"}
    /\ job \in 1 .. Len(Jobs) + 1 /\ build \in Nat \ {0}
    /\ old \subseteq AllBuilds
    /\ source \in DOMAIN Sources /\ attempts \in 0 .. Repeat - 1
    /\ checker \in Checkers
    /\ \A i \in TestIds : LET r == checker.tests[i] IN
          r # None => r.of \notin Ignored /\ Ids[r.of] = i
    /\ visited \in Seq(Tests) /\ keywords \in Nat /\ messages \in Nat
    /\ status \in [AllBuilds -> {None, "failed", "processed"}]
    /\ input_data \in [AllBuilds -> AllBuilds \cup {None, Timeless}]

\* The results of the build being visited, as they are stored at its end.
Results == {checker.tests[i] : i \in TestIds} \ {None}
Shown(r) == ToSet(r.history) \cup ToSet(r.show_run)

\* However keywords and messages follow each other, also when a keyword shows
\* one DUT only or comes twice: a history is that of one keyword, the first and
\* the second DUT in this order; of one test there are runtime counters of one
\* keyword only; and nothing comes from another test that has a result of its
\* own.  (_get_papi_history, _get_show_run, start_teardown_kw, start_test)
OneKeyword ==
    \A r \in Results :
        /\ Len(r.history) <= 2
        /\ \A i \in DOMAIN r.history :
              r.history[i] = [r.history[1] EXCEPT !.dut = i]
        /\ \A i, k \in DOMAIN r.show_run :
              r.show_run[i].test = r.show_run[k].test =>
                 r.show_run[i].keyword = r.show_run[k].keyword
        /\ \A e \in Shown(r) : e.test \in {r.of} \cup Ignored

\* What is shown with a test was read from that test.  "List of TCs to be
\* ignored" (input_data_parser.py:300): tests on the list leave nothing.
\* Violated: start_test leaves the id of the test before, and the keywords of
\* an ignored test are visited all the same.
OwnData ==
    \A r \in Results : \A e \in Shown(r) : e.test = r.of

\* When several tests are stored under the same name, the result is that of the
\* last one; the keywords of a test write to its own result while it is the
\* current one.  (start_test)
LatestResult ==
    LET stored == {i \in DOMAIN visited : visited[i] \notin Ignored} IN
    /\ checker.test_id # None =>
          \E i \in stored :
              /\ \A k \in stored : k <= i
              /\ checker.tests[checker.test_id] # None
              /\ checker.tests[checker.test_id].of = visited[i]
    /\ \A i \in stored :
          (\A k \in stored : k > i => Ids[visited[k]] # Ids[visited[i]])
             => checker.tests[Ids[visited[i]]].of = visited[i]

\* The specification marks a build as processed exactly when its data is there
\* for the tables and plots, and that is the data of its own file.  Builds are
\* left out for good reasons only: when the work is done, a build was stored,
\* its file could not be had, or it or a newer build of its job is outdated and
\* told its time.  A stored build is outdated only if its file does not tell
\* the time.  (download_and_parse_data, _download_and_parse_build)
LeftOut ==
    /\ \A jb \in AllBuilds :
          /\ status[jb] = "processed" <=> input_data[jb] # None
          /\ input_data[jb] \in {None, Timeless, jb}
          /\ input_data[jb] # None /\ jb \in old => input_data[jb] = Timeless
    /\ pc = "done" => \A jb \in AllBuilds :
          status[jb] = None =>
             /\ jb \in old
             /\ \A b \in jb[2] .. Builds[jb[1]] : status[<<jb[1], b>>] = None

\* The input is read to its end, whatever places, files and builds fail, unless
\* an exception ends the program or a server falls silent in the middle.
\* (_download_and_parse_build, download_and_parse_data)
ReadingEnds == <>(pc \in {"done", "raised", "key error", "silent"})

=============================================================================
