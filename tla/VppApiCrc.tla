----------------------------- MODULE VppApiCrc -----------------------------
(***************************************************************************)
(* resources/libraries/python/VppApiCrc.py: which of the collections of    *)
(* API checksums CSIT is tested with fits the VPP build, and which         *)
(* mismatches are told to which test.  The checker is a record; its        *)
(* methods are operators that return the next record and what is raised.   *)
(***************************************************************************)
EXTENDS Naturals, FiniteSets

CONSTANTS Names,        \* names of API messages
          Crcs,         \* checksums
          None,         \* no checksum
          Collections,  \* names of collections in supported_crcs.yaml
          Known         \* the checksum of a message in a collection, or None

ASSUME CollectionAssumption ==
  /\ None \notin Crcs
  /\ Collections # {}
  /\ Known \in [Collections -> [Names -> Crcs \cup {None}]]

\* What .api.json files may say: the checksum of each message VPP has.
Builds == [Names -> Crcs \cup {None}]

Checkers ==
  [expected : SUBSET Collections, missing : [Collections -> SUBSET Names],
   found : SUBSET Names, reported : SUBSET Names, initial : BOOLEAN]

\* __init__ before _check_dir; initial is _initial_conflicts_reported.
NewChecker ==
  [expected |-> Collections,
   missing  |-> [c \in Collections |-> {n \in Names : Known[c][n] # None}],
   found    |-> {}, reported |-> {}, initial |-> FALSE]

-----------------------------------------------------------------------------
\* Mutant: the first collection that has the message as it is wins.
FirstCollectionWins(s, n, build) ==
  LET kept == {c \in s.expected : Known[c][n] \in {None, build[n]}} IN
  IF kept # {} THEN [s EXCEPT !.found = @ \cup {n}, !.expected = {CHOOSE c \in kept : TRUE}]
  ELSE [s EXCEPT !.found = @ \cup {n}, !.reported = @ \cup {n}]

\* _process_crc of a message found in a file.
process_crc(s, n, build) ==
  LET kept == {c \in s.expected : Known[c][n] \in {None, build[n]}} IN
  IF kept # {}
  THEN [s EXCEPT !.found = @ \cup {n}, !.expected = kept,
                 !.missing = [c \in Collections |->
                    IF c \notin kept THEN {}
                    ELSE IF Known[c][n] = build[n] THEN @[c] \ {n} ELSE @[c]]]
  ELSE [s EXCEPT !.found = @ \cup {n}, !.reported = @ \cup {n}]

\* report_initial_conflicts: what it raises the first time.
initial_conflicts(s) == IF s.initial THEN {} ELSE s.reported

report_initial_conflicts(s) ==
  IF s.initial THEN s ELSE [s EXCEPT !.initial = TRUE, !.reported = {}]

\* check_api_name: the collections that know the name stay, if there are any.
KnowingName(s, n) ==
  LET kept == {c \in s.expected : Known[c][n] # None}
  IN  IF kept # {} THEN kept ELSE s.expected

\* Is the checksum of the build on one of them?
matching(s, n, build) ==
  n \in s.found /\ \E c \in KnowingName(s, n) : Known[c][n] = build[n]

\* Mutant: that VPP has the message is enough.
FoundIsEnough(s, n, build) == n \notin s.reported /\ n \notin s.found

\* Does check_api_name raise?
unmatched(s, n, build) == n \notin s.reported /\ ~matching(s, n, build)

check_api_name(s, n, build) ==
  IF n \in s.reported THEN s
  ELSE [s EXCEPT !.expected = KnowingName(s, n),
                 !.reported = IF matching(s, n, build) THEN @ ELSE @ \cup {n}]

-----------------------------------------------------------------------------
\* The collection says what the build says about each message they share, and
\* has every message of the set: it is the one the build was made for.
Fits(c, build, used) ==
  /\ \A n \in Names : build[n] # None => Known[c][n] \in {None, build[n]}
  /\ \A n \in used : build[n] # None /\ Known[c][n] = build[n]

\* The message with its checksum is in some collection.
Verified(n, build) == build[n] # None /\ \E c \in Collections : Known[c][n] = build[n]
=============================================================================
