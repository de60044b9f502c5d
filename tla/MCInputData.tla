---------------------------- MODULE MCInputData ----------------------------
(* Two builds of one job and one of another; two of the tests are stored    *)
(* under the same name and one is ignored.                                  *)
EXTENDS InputData

CONSTANTS t1, t2, t3, ti

TwoJobs == <<"mrr", "ndrpdr">>
TwoAndOne == [mrr |-> 2, ndrpdr |-> 1]
FourTests == {t1, t2, t3, ti}
IdOf == [t \in FourTests |-> IF t \in {t1, t2} THEN "a" ELSE IF t = t3 THEN "b" ELSE "i"]
OneIgnored == {ti}

=============================================================================
