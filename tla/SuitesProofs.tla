---------------------------- MODULE SuitesProofs ----------------------------
(***************************************************************************)
(* What CUTE reports adds up, whatever the tests of a program do.  The     *)
(* runner is reasoned about for any program P, a sequence of suites; the   *)
(* steps of the three executables are then steps of a runner.              *)
(***************************************************************************)
EXTENDS Suites, FiniteSetTheorems, TLAPS

\* CUTE, as it runs any program.
R(P) == INSTANCE CuteRunner WITH Program <- P

\* A sequence, and a sequence of sequences of tests.
IsSeq(s) == Len(s) \in Nat /\ DOMAIN s = 1..Len(s)
IsProgram(P) == IsSeq(P) /\ \A s \in DOMAIN P : IsSeq(P[s])

Outcomes == {"success", "failure", "error"}

\* A step of the body of a test, as far as the runner is concerned.
BodyStep == outcome' \in Outcomes \cup {outcome} /\ UNCHANGED <<args, place, stage, report>>

\* std::terminate(): an exception leaves a destructor during another one.
Termination ==
    /\ stage = "body" /\ stage' = "terminated" /\ outcome' \in Outcomes
    /\ UNCHANGED <<args, place, report>>

\* What a runner of P does, whatever the tests do.
RunnerStep(P) == R(P)!BetweenTests \/ R(P)!EndTest \/ BodyStep \/ Termination

\* The tests of suite s that are due when the n-th is the next.
Outstanding(P, s, n) == {t \in R(P)!TestsToRun(s) : t >= n}

\* The listener's counters are numbers.
Counters == [numberOfTests : Nat, successfulTests : Nat, failedTests : Nat, errors : Nat,
             numberOfSuites : Nat, numberOfTestsInSuites : Nat]

\* The runner is in a suite of the program, and the test whose body it runs is
\* one of those asked for.
RunnerOK(P) ==
    /\ report \in Counters /\ outcome \in Outcomes
    /\ stage \in {"suite", "test", "body", "terminated"}
    /\ place \in [suite : Nat \ {0}, test : Nat \ {0}]
    /\ stage \in {"test", "body"} => place.suite \in DOMAIN P
    /\ stage = "body" => place.test \in R(P)!TestsToRun(place.suite)

\* Until the suite ends, what was announced is what was started and what is
\* outstanding.
OnSchedule(P) ==
    LET due(n) == report.numberOfTests + Cardinality(Outstanding(P, place.suite, n))
                  = report.numberOfTestsInSuites IN
    /\ stage = "suite" => report.numberOfTests = report.numberOfTestsInSuites
    /\ stage = "test" => due(place.test)
    /\ stage = "body" => due(place.test + 1)

\* Of the tests started, only the one that runs has not been reported.
AllReported ==
    LET ended == report.successfulTests + report.failedTests + report.errors IN
    stage # "terminated" => report.numberOfTests = ended + (IF stage = "body" THEN 1 ELSE 0)

\* The inductive invariant of a runner.
RunnerInv(P) == RunnerOK(P) /\ OnSchedule(P) /\ AllReported

-----------------------------------------------------------------------------
\* The runner.

\* Outstanding tests are counted.
LEMMA OutstandingFinite ==
    ASSUME NEW P, IsProgram(P), NEW s \in DOMAIN P, NEW n
    PROVE  /\ IsFiniteSet(Outstanding(P, s, n)) /\ Cardinality(Outstanding(P, s, n)) \in Nat
           /\ Outstanding(P, s, n) \subseteq 1..Len(P[s]) /\ Len(P[s]) \in Nat
           /\ DOMAIN P[s] = 1..Len(P[s])
<1>1. Len(P[s]) \in Nat /\ DOMAIN P[s] = 1..Len(P[s])
  BY DEF IsProgram, IsSeq
<1>2. Outstanding(P, s, n) \in SUBSET (1..Len(P[s]))
  BY <1>1 DEF Outstanding, R!TestsToRun
<1>3. IsFiniteSet(1..Len(P[s]))
  <2>1. 1 \in Int /\ Len(P[s]) \in Int
    BY <1>1
  <2> QED  BY <2>1, FS_Interval
<1>4. IsFiniteSet(Outstanding(P, s, n))
  BY <1>2, <1>3, FS_Subset
<1>5. Cardinality(Outstanding(P, s, n)) \in Nat
  BY <1>4, FS_CardinalityType
<1> QED  BY <1>1, <1>2, <1>4, <1>5

\* Starting a test makes one less outstanding.
LEMMA OneLess ==
    ASSUME NEW P, IsProgram(P), NEW s \in DOMAIN P, NEW n \in R(P)!TestsToRun(s)
    PROVE  /\ n \in Nat \ {0}
           /\ Cardinality(Outstanding(P, s, n)) = Cardinality(Outstanding(P, s, n + 1)) + 1
<1>1. n \in 1..Len(P[s]) /\ Len(P[s]) \in Nat
  BY OutstandingFinite DEF R!TestsToRun
<1>2. Outstanding(P, s, n) = Outstanding(P, s, n + 1) \cup {n}
  <2>1. ASSUME NEW t
        PROVE  t \in Outstanding(P, s, n) <=> t \in Outstanding(P, s, n + 1) \cup {n}
    BY <1>1, OutstandingFinite DEF Outstanding, R!TestsToRun
  <2> QED  BY <2>1
<1>3. n \notin Outstanding(P, s, n + 1)
  BY <1>1 DEF Outstanding
<1>4. n + 1 \in Nat /\ IsFiniteSet(Outstanding(P, s, n + 1))
      /\ Cardinality(Outstanding(P, s, n + 1)) \in Nat
  BY <1>1, OutstandingFinite
<1>5. Cardinality(Outstanding(P, s, n)) = Cardinality(Outstanding(P, s, n + 1)) + 1
  BY <1>2, <1>3, <1>4, FS_AddElement
<1> QED  BY <1>1, <1>5

\* The runner counts with the same operator.
LEMMA SameCardinality == ASSUME NEW P, NEW S PROVE R(P)!Cardinality(S) = Cardinality(S)
  BY Zenon DEF R!Cardinality, Cardinality

\* A step between tests keeps the account: a suite announces the tests that
\* will be started in it.
LEMMA BetweenKeeps ==
    ASSUME NEW P, IsProgram(P), RunnerInv(P), R(P)!BetweenTests
    PROVE  RunnerInv(P)'
<1> USE DEF RunnerInv, RunnerOK
<1> DEFINE s == place.suite
           n == place.test
<1>1. s \in Nat \ {0} /\ n \in Nat \ {0} /\ args' = args /\ outcome' \in Outcomes
      /\ IsSeq(P) /\ \A k \in DOMAIN P : IsSeq(P[k])
  BY DEF IsProgram, Outcomes, R!BetweenTests, R!BeginSuite, R!SkipSuite, R!StartTest, R!SkipTest,
     R!EndSuite
<1>2. CASE R(P)!BeginSuite
  <2>0. s \in DOMAIN P
    BY <1>1, <1>2 DEF R!BeginSuite, R!SuiteDue, IsSeq
  <2>1. /\ s \in DOMAIN P /\ place' = [place EXCEPT !.test = 1]
        /\ stage = "suite" /\ stage' = "test"
    BY <1>2, <2>0 DEF R!BeginSuite, R!SuiteDue
  <2>9. report' = [report EXCEPT !.numberOfSuites = report.numberOfSuites + 1,
                     !.numberOfTestsInSuites = report.numberOfTestsInSuites
                                                 + Cardinality(R(P)!TestsToRun(place.suite))]
    BY <1>2, SameCardinality DEF R!BeginSuite
  <2>a. report.numberOfSuites \in Nat /\ report.numberOfTestsInSuites \in Nat
    BY DEF Counters
  <2>2. place' = [suite |-> s, test |-> 1]
    BY <2>1
  <2>3. Outstanding(P, place.suite, place.test)' = Outstanding(P, s, 1)
    BY <1>1, <2>2 DEF Outstanding, R!TestsToRun, R!ShouldRun, R!Match
  <2>4. Outstanding(P, s, 1) = R(P)!TestsToRun(s)
    BY <1>1, <2>1 DEF Outstanding, R!TestsToRun, IsSeq
  <2>5. Cardinality(Outstanding(P, s, 1)) \in Nat
    BY <2>1, OutstandingFinite
  <2>6. RunnerOK(P)'
    <3>1. report' \in Counters
      <4> DEFINE c == Cardinality(Outstanding(P, s, 1))
      <4>1. report' = [report EXCEPT !.numberOfSuites = report.numberOfSuites + 1,
                         !.numberOfTestsInSuites = report.numberOfTestsInSuites + c]
        BY <2>9, <2>4
      <4>2. report.numberOfSuites + 1 \in Nat /\ report.numberOfTestsInSuites + c \in Nat
        BY <2>a, <2>5
      <4> HIDE DEF c
      <4> QED  BY <4>1, <4>2 DEF Counters
    <3> QED  BY <1>1, <2>1, <2>2, <3>1
  <2>7. /\ report'.numberOfTests = report.numberOfTests
        /\ report'.numberOfTestsInSuites =
              report.numberOfTestsInSuites + Cardinality(Outstanding(P, s, 1))
        /\ report'.successfulTests = report.successfulTests
        /\ report'.failedTests = report.failedTests /\ report'.errors = report.errors
    BY <2>9, <2>4 DEF Counters
  <2>8. OnSchedule(P)'
    BY <2>1, <2>3, <2>7 DEF OnSchedule, Counters
  <2> QED  BY <2>1, <2>6, <2>7, <2>8 DEF AllReported
<1>3. CASE R(P)!SkipSuite
  <2>1. /\ place' = [suite |-> s + 1, test |-> n] /\ stage = "suite" /\ stage' = "suite"
        /\ report' = report
    BY <1>1, <1>3 DEF R!SkipSuite, R!SuiteDue
  <2> QED  BY <1>1, <2>1 DEF OnSchedule, AllReported
<1>4. CASE R(P)!StartTest
  <2>1. /\ s \in DOMAIN P /\ n \in R(P)!TestsToRun(s) /\ place' = place
        /\ stage = "test" /\ stage' = "body"
        /\ report' = [report EXCEPT !.numberOfTests = @ + 1]
    BY <1>1, <1>4 DEF R!StartTest, R!TestDue, R!TestsToRun, IsSeq
  <2>2. Outstanding(P, place.suite, place.test + 1)' = Outstanding(P, s, n + 1)
    BY <1>1, <2>1 DEF Outstanding, R!TestsToRun, R!ShouldRun, R!Match
  <2>3. (place.test \in R(P)!TestsToRun(place.suite))'
    BY <1>1, <2>1 DEF R!TestsToRun, R!ShouldRun, R!Match
  <2>4. /\ Cardinality(Outstanding(P, s, n)) = Cardinality(Outstanding(P, s, n + 1)) + 1
        /\ Cardinality(Outstanding(P, s, n + 1)) \in Nat
    BY <2>1, OneLess, OutstandingFinite
  <2>5. RunnerOK(P)'
    BY <1>1, <2>1, <2>3 DEF Counters
  <2>6. /\ report'.numberOfTests = report.numberOfTests + 1
        /\ report'.numberOfTestsInSuites = report.numberOfTestsInSuites
        /\ report'.successfulTests = report.successfulTests
        /\ report'.failedTests = report.failedTests /\ report'.errors = report.errors
    BY <2>1 DEF Counters
  <2>7. OnSchedule(P)'
    BY <2>1, <2>2, <2>4, <2>6 DEF OnSchedule, Counters
  <2> QED  BY <2>1, <2>5, <2>6, <2>7 DEF AllReported, Counters
<1>5. CASE R(P)!SkipTest
  <2>1. /\ s \in DOMAIN P /\ n \notin R(P)!TestsToRun(s) /\ place' = [suite |-> s, test |-> n + 1]
        /\ stage = "test" /\ stage' = "test" /\ report' = report
    BY <1>1, <1>5 DEF R!SkipTest, R!TestDue, R!TestsToRun
  <2>2. Outstanding(P, place.suite, place.test)' = Outstanding(P, s, n + 1)
    BY <1>1, <2>1 DEF Outstanding, R!TestsToRun, R!ShouldRun, R!Match
  <2>3. Outstanding(P, s, n + 1) = Outstanding(P, s, n)
    <3>1. ASSUME NEW t
          PROVE  t \in Outstanding(P, s, n + 1) <=> t \in Outstanding(P, s, n)
      BY <1>1, <2>1 DEF Outstanding, R!TestsToRun, IsSeq
    <3> QED  BY <3>1
  <2>4. RunnerOK(P)'
    BY <1>1, <2>1
  <2> QED  BY <2>1, <2>2, <2>3, <2>4 DEF OnSchedule, AllReported
<1>6. CASE R(P)!EndSuite
  <2>1. /\ s \in DOMAIN P /\ place' = [suite |-> s + 1, test |-> n] /\ ~(n <= Len(P[s]))
        /\ stage = "test" /\ stage' = "suite" /\ report' = report
    BY <1>1, <1>6 DEF R!EndSuite, R!TestDue
  <2>2. Outstanding(P, s, n) = {}
    <3>1. ASSUME NEW t \in Outstanding(P, s, n)
          PROVE  FALSE
      BY <1>1, <2>1 DEF Outstanding, R!TestsToRun, IsSeq
    <3> QED  BY <3>1
  <2>3. Cardinality(Outstanding(P, s, n)) = 0
    BY <2>2, FS_EmptySet
  <2>4. RunnerOK(P)'
    BY <1>1, <2>1
  <2> QED  BY <2>1, <2>3, <2>4 DEF OnSchedule, AllReported, Counters
<1> QED  BY <1>2, <1>3, <1>4, <1>5, <1>6 DEF R!BetweenTests

\* So does the end of a test, however it ends.
LEMMA EndTestKeeps ==
    ASSUME NEW P, IsProgram(P), RunnerInv(P), R(P)!EndTest
    PROVE  RunnerInv(P)'
<1> USE DEF RunnerInv, RunnerOK
<1> DEFINE s == place.suite
           n == place.test
           ended == report.successfulTests + report.failedTests + report.errors
<1>1. /\ s \in DOMAIN P /\ n \in Nat \ {0} /\ s \in Nat \ {0}
      /\ stage = "body" /\ stage' = "test" /\ args' = args /\ outcome' = outcome
      /\ place' = [suite |-> s, test |-> n + 1]
  BY DEF R!EndTest, R!BodyOver
<1>2. Outstanding(P, place.suite, place.test)' = Outstanding(P, s, n + 1)
  BY <1>1 DEF Outstanding, R!TestsToRun, R!ShouldRun, R!Match
<1>3. /\ report' \in Counters /\ report'.numberOfTests = report.numberOfTests
      /\ report'.numberOfTestsInSuites = report.numberOfTestsInSuites
      /\ ended' = ended + 1
  BY DEF R!EndTest, Outcomes, Counters
<1>4. RunnerOK(P)'
  BY <1>1, <1>3
<1>5. OnSchedule(P)'
  BY <1>1, <1>2, <1>3 DEF OnSchedule
<1>6. AllReported'
  BY <1>1, <1>3 DEF AllReported, Counters
<1> QED  BY <1>4, <1>5, <1>6

\* And what happens in a test.
LEMMA BodyKeeps ==
    ASSUME NEW P, RunnerInv(P), BodyStep \/ Termination
    PROVE  RunnerInv(P)'
<1> USE DEF RunnerInv, RunnerOK
<1> DEFINE next == place.test + 1
<1>1. /\ args' = args /\ place' = place /\ report' = report /\ outcome' \in Outcomes
      /\ stage' = stage \/ stage' = "terminated"
  BY DEF BodyStep, Termination
<1>2. /\ (R(P)!TestsToRun(place.suite))' = R(P)!TestsToRun(place.suite)
      /\ Outstanding(P, place.suite, place.test)' = Outstanding(P, place.suite, place.test)
      /\ Outstanding(P, place.suite, place.test + 1)' = Outstanding(P, place.suite, place.test + 1)
  BY <1>1 DEF Outstanding, R!TestsToRun, R!ShouldRun, R!Match
<1> QED  BY <1>1, <1>2 DEF OnSchedule, AllReported

-----------------------------------------------------------------------------
\* The three executables run such a runner.

\* ExW3: an assertion has one of the three outcomes.
LEMMA AVerdicts == ASSUME NEW item, NEW a PROVE A!Verdict(item, a) \in Outcomes
  BY DEF A!Verdict, Outcomes

\* Looking at an answer is no concern of the runner's.
LEMMA AJudges == ASSUME NEW a, A!Judge(a) PROVE BodyStep
  BY AVerdicts DEF A!Judge, BodyStep

\* Filter, announcement and start of tests are those of a runner of this program,
LEMMA ABetween == ASSUME A!BetweenTests PROVE R(AT!Program)!BetweenTests
<1>1. \A S : A!Cardinality(S) = R(AT!Program)!Cardinality(S)
  BY Zenon DEF A!Cardinality, R!Cardinality
<1>2. /\ A!SuiteDue <=> R(AT!Program)!SuiteDue
      /\ A!TestDue <=> R(AT!Program)!TestDue
      /\ \A k : A!ShouldRunSuite(k) <=> R(AT!Program)!ShouldRunSuite(k)
      /\ \A k, t : A!ShouldRun(k, t) <=> R(AT!Program)!ShouldRun(k, t)
  BY DEF A!SuiteDue, R!SuiteDue, A!TestDue, R!TestDue, A!ShouldRunSuite, R!ShouldRunSuite,
     A!ShouldRun, R!ShouldRun, A!Match, R!Match
<1>3. \A k : A!TestsToRun(k) = R(AT!Program)!TestsToRun(k)
  BY <1>2 DEF A!TestsToRun, R!TestsToRun
<1>4. CASE A!BeginSuite
  BY <1>1, <1>2, <1>3, <1>4 DEF A!BeginSuite, R!BeginSuite, R!BetweenTests
<1>5. CASE A!SkipSuite
  BY <1>2, <1>5 DEF A!SkipSuite, R!SkipSuite, R!BetweenTests
<1>6. CASE A!StartTest
  BY <1>2, <1>6 DEF A!StartTest, R!StartTest, R!BetweenTests
<1>7. CASE A!SkipTest
  BY <1>2, <1>7 DEF A!SkipTest, R!SkipTest, R!BetweenTests
<1>8. CASE A!EndSuite
  BY <1>2, <1>8 DEF A!EndSuite, R!EndSuite, R!BetweenTests
<1> QED  BY <1>4, <1>5, <1>6, <1>7, <1>8 DEF A!BetweenTests

\* so is the end of a test,
LEMMA AEnds == ASSUME A!EndTest PROVE R(AT!Program)!EndTest
  BY DEF A!EndTest, R!EndTest, A!BodyOver, R!BodyOver

\* and with it each step of the executable.
LEMMA ASteps == ASSUME A!SuiteStep PROVE RunnerStep(AT!Program)
<1>1. CASE A!CallOperation \/ A!RunOperation \/ A!DestroyLocal
  BY <1>1 DEF A!CallOperation, A!RunOperation, A!DestroyLocal, A!BeginItem, A!runnerVars, BodyStep,
     RunnerStep
<1>2. CASE A!Judged \/ A!JudgedOwn \/ A!NewRing \/ A!OnRing \/ A!CompareRing
  BY <1>2, AJudges DEF A!Judged, A!JudgedOwn, A!NewRing, A!OnRing, A!CompareRing, RunnerStep
<1>3. CASE A!Finish \/ A!Run
  BY <1>3, AEnds, ABetween DEF A!Finish, A!Run, RunnerStep
<1> QED  BY <1>1, <1>2, <1>3 DEF A!SuiteStep

\* ExW7: an assertion has one of the three outcomes.
LEMMA BVerdicts == ASSUME NEW item, NEW a PROVE B!Verdict(item, a) \in Outcomes
  BY DEF B!Verdict, Outcomes

\* Looking at an answer is no concern of the runner's.
LEMMA BJudges == ASSUME NEW a, B!Judge(a) PROVE BodyStep
  BY BVerdicts DEF B!Judge, BodyStep

\* Filter, announcement and start of tests are those of a runner of this program,
LEMMA BBetween == ASSUME B!BetweenTests PROVE R(BT!Program)!BetweenTests
<1>1. \A S : B!Cardinality(S) = R(BT!Program)!Cardinality(S)
  BY Zenon DEF B!Cardinality, R!Cardinality
<1>2. /\ B!SuiteDue <=> R(BT!Program)!SuiteDue
      /\ B!TestDue <=> R(BT!Program)!TestDue
      /\ \A k : B!ShouldRunSuite(k) <=> R(BT!Program)!ShouldRunSuite(k)
      /\ \A k, t : B!ShouldRun(k, t) <=> R(BT!Program)!ShouldRun(k, t)
  BY DEF B!SuiteDue, R!SuiteDue, B!TestDue, R!TestDue, B!ShouldRunSuite, R!ShouldRunSuite,
     B!ShouldRun, R!ShouldRun, B!Match, R!Match
<1>3. \A k : B!TestsToRun(k) = R(BT!Program)!TestsToRun(k)
  BY <1>2 DEF B!TestsToRun, R!TestsToRun
<1>4. CASE B!BeginSuite
  BY <1>1, <1>2, <1>3, <1>4 DEF B!BeginSuite, R!BeginSuite, R!BetweenTests
<1>5. CASE B!SkipSuite
  BY <1>2, <1>5 DEF B!SkipSuite, R!SkipSuite, R!BetweenTests
<1>6. CASE B!StartTest
  BY <1>2, <1>6 DEF B!StartTest, R!StartTest, R!BetweenTests
<1>7. CASE B!SkipTest
  BY <1>2, <1>7 DEF B!SkipTest, R!SkipTest, R!BetweenTests
<1>8. CASE B!EndSuite
  BY <1>2, <1>8 DEF B!EndSuite, R!EndSuite, R!BetweenTests
<1> QED  BY <1>4, <1>5, <1>6, <1>7, <1>8 DEF B!BetweenTests

\* so is the end of a test,
LEMMA BEnds == ASSUME B!EndTest PROVE R(BT!Program)!EndTest
  BY DEF B!EndTest, R!EndTest, B!BodyOver, R!BodyOver

\* and with it each step of the executable.
LEMMA BSteps == ASSUME B!SuiteStep PROVE RunnerStep(BT!Program)
<1>1. CASE B!CallOperation \/ B!RunOperation \/ B!UseIterator \/ B!DropIterators \/ B!DestroyLocal
  BY <1>1 DEF B!CallOperation, B!RunOperation, B!UseIterator, B!DropIterators, B!DestroyLocal,
     B!BeginItem, B!runnerVars, BodyStep, RunnerStep
<1>2. CASE B!Judged \/ B!JudgedOwn \/ B!ResetCounters
  BY <1>2, BJudges DEF B!Judged, B!JudgedOwn, B!ResetCounters, RunnerStep
<1>3. CASE B!Finish \/ B!Run
  BY <1>3, BEnds, BBetween DEF B!Finish, B!Run, RunnerStep
<1> QED  BY <1>1, <1>2, <1>3 DEF B!SuiteStep

\* ExW11: an assertion has one of the three outcomes.
LEMMA QVerdicts == ASSUME NEW item, NEW a PROVE Q!Verdict(item, a) \in Outcomes
  BY DEF Q!Verdict, Outcomes

\* Looking at an answer is no concern of the runner's.
LEMMA QJudges == ASSUME NEW a, Q!Judge(a) PROVE BodyStep
  BY QVerdicts DEF Q!Judge, BodyStep

\* Filter, announcement and start of tests are those of a runner of this program,
LEMMA QBetween == ASSUME Q!BetweenTests PROVE R(QT!Program)!BetweenTests
<1>1. \A S : Q!Cardinality(S) = R(QT!Program)!Cardinality(S)
  BY Zenon DEF Q!Cardinality, R!Cardinality
<1>2. /\ Q!SuiteDue <=> R(QT!Program)!SuiteDue
      /\ Q!TestDue <=> R(QT!Program)!TestDue
      /\ \A k : Q!ShouldRunSuite(k) <=> R(QT!Program)!ShouldRunSuite(k)
      /\ \A k, t : Q!ShouldRun(k, t) <=> R(QT!Program)!ShouldRun(k, t)
  BY DEF Q!SuiteDue, R!SuiteDue, Q!TestDue, R!TestDue, Q!ShouldRunSuite, R!ShouldRunSuite,
     Q!ShouldRun, R!ShouldRun, Q!Match, R!Match
<1>3. \A k : Q!TestsToRun(k) = R(QT!Program)!TestsToRun(k)
  BY <1>2 DEF Q!TestsToRun, R!TestsToRun
<1>4. CASE Q!BeginSuite
  BY <1>1, <1>2, <1>3, <1>4 DEF Q!BeginSuite, R!BeginSuite, R!BetweenTests
<1>5. CASE Q!SkipSuite
  BY <1>2, <1>5 DEF Q!SkipSuite, R!SkipSuite, R!BetweenTests
<1>6. CASE Q!StartTest
  BY <1>2, <1>6 DEF Q!StartTest, R!StartTest, R!BetweenTests
<1>7. CASE Q!SkipTest
  BY <1>2, <1>7 DEF Q!SkipTest, R!SkipTest, R!BetweenTests
<1>8. CASE Q!EndSuite
  BY <1>2, <1>8 DEF Q!EndSuite, R!EndSuite, R!BetweenTests
<1> QED  BY <1>4, <1>5, <1>6, <1>7, <1>8 DEF Q!BetweenTests

\* so is the end of a test,
LEMMA QEnds == ASSUME Q!EndTest PROVE R(QT!Program)!EndTest
  BY DEF Q!EndTest, R!EndTest, Q!BodyOver, R!BodyOver

\* and with it each step of the executable.
LEMMA QSteps == ASSUME Q!SuiteStep PROVE RunnerStep(QT!Program)
<1>1. CASE \/ Q!CallOperation \/ Q!Keep \/ Q!DestroyFront
         \/ \E t \in QT!Launched \cup {Test} :
                Q!LaunchedCall(t) \/ Q!RefuseLock(t) \/ Q!RunOperation(t)
  BY <1>1 DEF Q!CallOperation, Q!Keep, Q!DestroyFront, Q!LaunchedCall, Q!RefuseLock,
     Q!RunOperation, Q!BeginItem, Q!runnerVars, BodyStep, RunnerStep
<1>2. CASE \/ Q!Judged \/ Q!ConstructQueue \/ Q!CloseScope \/ Q!ResetCounters \/ Q!JudgedOwn
           \/ Q!Launch \/ Q!WaitFor \/ Q!Got
  BY <1>2, QJudges DEF Q!Judged, Q!ConstructQueue, Q!CloseScope, Q!ResetCounters, Q!JudgedOwn,
     Q!Launch, Q!WaitFor, Q!Got, RunnerStep
<1>3. CASE Q!DestroyLocal
  BY <1>3 DEF Q!DestroyLocal, Q!Left, Q!BodyOver, BodyStep, Termination, Outcomes, RunnerStep
<1>4. CASE Q!Finish \/ Q!Run
  BY <1>4, QEnds, QBetween DEF Q!Finish, Q!Run, RunnerStep
<1> QED  BY <1>1, <1>2, <1>3, <1>4 DEF Q!SuiteStep

-----------------------------------------------------------------------------
\* ExW3's suites are sequences of tests.
LEMMA ATProgram == IsProgram(AT!Program)
<1>1. IsSeq(AT!make_suite_bounded_buffer_default_behavior_suite)
  BY DEF IsSeq, AT!make_suite_bounded_buffer_default_behavior_suite
<1>2. IsSeq(AT!make_suite_bounded_buffer_content_suite)
  BY DEF IsSeq, AT!make_suite_bounded_buffer_content_suite
<1>3. IsSeq(AT!make_suite_bounded_buffer_semantic_suite)
  BY DEF IsSeq, AT!make_suite_bounded_buffer_semantic_suite
<1>4. IsSeq(AT!make_suite_bounded_buffer_make_buffer_suite)
  BY DEF IsSeq, AT!make_suite_bounded_buffer_make_buffer_suite
<1>5. IsSeq(AT!make_suite_bounded_buffer_student_suite)
  BY DEF IsSeq, AT!make_suite_bounded_buffer_student_suite
<1> QED  BY <1>1, <1>2, <1>3, <1>4, <1>5 DEF IsProgram, IsSeq, AT!Program

\* ExW7's suites are sequences of tests.
LEMMA BTProgram == IsProgram(BT!Program)
<1>1. IsSeq(BT!make_suite_bounded_buffer_default_behavior_suite)
  BY DEF IsSeq, BT!make_suite_bounded_buffer_default_behavior_suite
<1>2. IsSeq(BT!make_suite_bounded_buffer_content_suite)
  BY DEF IsSeq, BT!make_suite_bounded_buffer_content_suite
<1>3. IsSeq(BT!make_suite_bounded_buffer_semantic_suite)
  BY DEF IsSeq, BT!make_suite_bounded_buffer_semantic_suite
<1>4. IsSeq(BT!make_suite_bounded_buffer_student_suite)
  BY DEF IsSeq, BT!make_suite_bounded_buffer_student_suite
<1>5. IsSeq(BT!make_suite_bounded_buffer_heap_memory_suite)
  BY DEF IsSeq, BT!make_suite_bounded_buffer_heap_memory_suite
<1>6. IsSeq(BT!make_suite_bounded_buffer_make_buffer_suite)
  BY DEF IsSeq, BT!make_suite_bounded_buffer_make_buffer_suite
<1>7. IsSeq(BT!make_suite_bounded_buffer_iterator_suite)
  BY DEF IsSeq, BT!make_suite_bounded_buffer_iterator_suite
<1>8. IsSeq(BT!make_suite_bounded_buffer_non_default_constructible_element_type_suite)
  BY DEF IsSeq, BT!make_suite_bounded_buffer_non_default_constructible_element_type_suite
<1> QED  BY <1>1, <1>2, <1>3, <1>4, <1>5, <1>6, <1>7, <1>8 DEF IsProgram, IsSeq, BT!Program

\* ExW11's suites are sequences of tests.
LEMMA QTProgram == IsProgram(QT!Program)
<1>1. IsSeq(QT!make_suite_bounded_queue_default_behavior_suite)
  BY DEF IsSeq, QT!make_suite_bounded_queue_default_behavior_suite
<1>2. IsSeq(QT!make_suite_bounded_queue_content_suite)
  BY DEF IsSeq, QT!make_suite_bounded_queue_content_suite
<1>3. IsSeq(QT!make_suite_bounded_queue_semantic_suite)
  BY DEF IsSeq, QT!make_suite_bounded_queue_semantic_suite
<1>4. IsSeq(QT!make_suite_bounded_queue_student_suite)
  BY DEF IsSeq, QT!make_suite_bounded_queue_student_suite
<1>5. IsSeq(QT!make_suite_bounded_queue_heap_memory_suite)
  BY DEF IsSeq, QT!make_suite_bounded_queue_heap_memory_suite
<1>6. IsSeq(QT!make_suite_bounded_queue_non_default_constructible_element_type_suite)
  BY DEF IsSeq, QT!make_suite_bounded_queue_non_default_constructible_element_type_suite
<1>7. IsSeq(QT!make_suite_bounded_queue_single_threaded_lock_suite)
  BY DEF IsSeq, QT!make_suite_bounded_queue_single_threaded_lock_suite
<1>8. IsSeq(QT!make_suite_bounded_queue_multi_threaded_suite)
  BY DEF IsSeq, QT!make_suite_bounded_queue_multi_threaded_suite
<1> QED  BY <1>1, <1>2, <1>3, <1>4, <1>5, <1>6, <1>7, <1>8 DEF IsProgram, IsSeq, QT!Program

\* Each executable's report is right for its own suites.
Invariant ==
    /\ exercise \in {"ExW3", "ExW7", "ExW11"}
    /\ exercise = "ExW3" => RunnerInv(AT!Program)
    /\ exercise = "ExW7" => RunnerInv(BT!Program)
    /\ exercise = "ExW11" => RunnerInv(QT!Program)

\* A runner starts with nothing to report.
LEMMA RunnerStarts ==
    ASSUME NEW P, R(P)!RunnerInit
    PROVE  RunnerInv(P)
  BY DEF R!RunnerInit, R!NoReport, RunnerInv, RunnerOK, OnSchedule, AllReported, Counters, Outcomes

\* The three executables start so.
LEMMA InitInvariant == Init => Invariant
<1>1. A!SuiteInit => R(AT!Program)!RunnerInit
  BY DEF A!SuiteInit, A!RunnerInit, R!RunnerInit, A!NoReport, R!NoReport
<1>2. B!SuiteInit => R(BT!Program)!RunnerInit
  BY DEF B!SuiteInit, B!RunnerInit, R!RunnerInit, B!NoReport, R!NoReport
<1>3. Q!SuiteInit => R(QT!Program)!RunnerInit
  BY DEF Q!SuiteInit, Q!RunnerInit, R!RunnerInit, Q!NoReport, R!NoReport
<1> QED  BY <1>1, <1>2, <1>3, RunnerStarts DEF Init, Invariant

\* Every step of a runner keeps its account.
LEMMA RunnerKeeps ==
    ASSUME NEW P, IsProgram(P), RunnerInv(P), RunnerStep(P)
    PROVE  RunnerInv(P)'
  BY BetweenKeeps, EndTestKeeps, BodyKeeps DEF RunnerStep

\* And so does every step of the executables.
LEMMA NextInvariant == Invariant /\ [Next]_vars => Invariant'
<1> SUFFICES ASSUME Invariant, [Next]_vars
             PROVE  Invariant'
  OBVIOUS
<1> USE DEF Invariant
<1>1. CASE UNCHANGED vars
  <2>1. exercise' = exercise /\ BodyStep
    BY <1>1 DEF vars, runnerVars, BodyStep
  <2> QED  BY <2>1, BodyKeeps
<1>2. CASE exercise = "ExW3" /\ A!SuiteStep /\ exercise' = exercise
  BY <1>2, ASteps, ATProgram, RunnerKeeps
<1>3. CASE exercise = "ExW7" /\ B!SuiteStep /\ exercise' = exercise
  BY <1>3, BSteps, BTProgram, RunnerKeeps
<1>4. CASE exercise = "ExW11" /\ Q!SuiteStep /\ exercise' = exercise
  BY <1>4, QSteps, QTProgram, RunnerKeeps
<1> QED  BY <1>1, <1>2, <1>3, <1>4 DEF Next

\* Unless an exception from a destructor ends the program, the counters of
\* cute_counting_listener.h agree with the tests, in every interleaving and
\* whatever the tests and the arguments are: every test started is reported
\* once, and a suite starts as many as it announced.
THEOREM ReportsAgree == Spec => [](stage # "terminated" => ReportAgrees)
<1>1. Invariant => (stage # "terminated" => ReportAgrees)
  BY DEF Invariant, RunnerInv, OnSchedule, AllReported, ReportAgrees, B!ReportAgrees
<1> QED  BY <1>1, InitInvariant, NextInvariant, PTL DEF Spec
=============================================================================
