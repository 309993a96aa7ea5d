----------------------------- MODULE TestRunner -----------------------------
(* How tests are run: runtests and _runtree of src/nfs4.1/testmod.py, with    *)
(* Test.run below them and run_filter of src/nfs4.1/testserver.py above.      *)
(* Tests run in their order, but a test's dependencies run first, in a tree   *)
(* of calls that meets tests which were run, omitted, or wait further up.     *)
(*                                                                           *)
(* Init chooses the suite: who depends on whom, which tests the command line  *)
(* asks for, and the options.  stack holds the frames of _runtree.            *)
EXTENDS Naturals, Sequences, SequencesExt, FiniteSets

CONSTANTS
  NTests,     \* the tests are numbers, in the order of tests.sort()
  Funct,      \* a dependency that is a function
  MaxDepends, \* bound: dependencies of a test
  Outcomes    \* what comes of a test that runs

Tests == 1..NTests

\* FILTERED is _omit_result, an OMIT that is told from others by its identity
Omitted == {"OMIT", "FILTERED"}
Ended == {"FAIL", "NOTSUP", "WARN", "PASS"}
FailedDependency == Omitted \cup {"FAIL", "NOTSUP"}

ASSUME RunnerAssumption ==
  /\ NTests \in Nat /\ MaxDepends \in Nat
  /\ Funct \notin Tests
  /\ Outcomes \subseteq Ended

\* Lists of dependencies a test may have: no test names itself, or another twice
Depends(x) ==
  {ds \in UNION {[1..n -> (Tests \ {x}) \cup {Funct}] : n \in 0..MaxDepends} :
     IsInjective(ds)}

VARIABLES
  dependencies, \* t.dependencies
  selected,     \* the tests for which run_filter is true
  force,        \* --force
  rundeps,      \* --rundeps
  result,       \* t.result
  place,        \* where runtests is in its list
  stack,        \* the calls of _runtree that have not returned, the last on top
  ran,          \* history: the tests that were run, in order
  interrupted   \* a KeyboardInterrupt ended it

suite == <<dependencies, selected, force, rundeps>>
vars == <<dependencies, selected, force, rundeps, result, place, stack, ran, interrupted>>

Init ==
  /\ dependencies \in [Tests -> UNION {Depends(x) : x \in Tests}]
  /\ \A x \in Tests : dependencies[x] \in Depends(x)
  /\ selected \in SUBSET Tests
  /\ force \in BOOLEAN /\ rundeps \in BOOLEAN
  /\ result = [t \in Tests |-> "NOTRUN"]
  /\ place = 1 /\ stack = <<>> /\ ran = <<>> /\ interrupted = FALSE

-----------------------------------------------------------------------------
Top == stack[Len(stack)]
t == Top.test
Rest == Front(stack)

\* A frame: its test, the dependency it is at, and whether _runtree was called
\* for that dependency
Frame(test) == [test |-> test, next |-> 1, returned |-> FALSE]

\* _runtree is called for a test that does not wait: it is filtered, or begins
Call(test, filtering, frames) ==
  IF filtering /\ test \notin selected
  THEN /\ result' = [result EXCEPT ![test] = "FILTERED"]
       /\ stack' = frames
  ELSE /\ result' = [result EXCEPT ![test] = "WAIT"]
       /\ stack' = Append(frames, Frame(test))

\* runtests: the next test, unless it ran in a dependency tree
NextTest ==
  /\ stack = <<>> /\ place <= NTests /\ ~interrupted
  /\ place' = place + 1
  /\ IF result[place] = "NOTRUN" THEN Call(place, TRUE, <<>>) ELSE UNCHANGED <<result, stack>>
  /\ UNCHANGED <<suite, ran, interrupted>>

\* The loop over t.dependencies; it ends while the test runs
InLoop == stack # <<>> /\ ~interrupted /\ Top.next <= Len(dependencies[t])
dep == dependencies[t][Top.next]
GoOn == Append(Rest, [Top EXCEPT !.next = @ + 1, !.returned = FALSE])

\* Mutant: tests that were omitted are not tried again.
NeedsRunOnce(d) == result[d] = "NOTRUN"

NeedsRun(d) == result[d] = "NOTRUN" \/ (result[d] = "FILTERED" /\ rundeps)

Leave(outcome) ==
  /\ result' = [result EXCEPT ![t] = outcome]
  /\ stack' = Rest

\* dep is a function, whose answer may be anything
AskFunct ==
  /\ InLoop /\ dep = Funct
  /\ \/ stack' = GoOn /\ UNCHANGED result
     \/ ~force /\ Leave("OMIT")
  /\ UNCHANGED <<suite, place, ran, interrupted>>

\* dep is a test to be run first; with --rundeps all of them are
RunDependency ==
  /\ InLoop /\ dep # Funct /\ ~Top.returned /\ NeedsRun(dep)
  /\ Call(dep, ~rundeps, Append(Rest, [Top EXCEPT !.returned = TRUE]))
  /\ UNCHANGED <<suite, place, ran, interrupted>>

\* Mutant: a test that was not supported is no failed dependency.
LookAtFailure ==
  /\ InLoop /\ dep # Funct /\ (Top.returned \/ ~NeedsRun(dep))
  /\ IF result[dep] = "WAIT" THEN stack' = Rest /\ UNCHANGED result
     ELSE IF ~force /\ result[dep] \in Omitted \cup {"FAIL"} THEN Leave("OMIT")
     ELSE stack' = GoOn /\ UNCHANGED result
  /\ UNCHANGED <<suite, place, ran, interrupted>>

\* Mutant: on a circular dependency the loop waits.
LookAtResultPatiently ==
  /\ InLoop /\ dep # Funct /\ (Top.returned \/ ~NeedsRun(dep))
  /\ result[dep] # "WAIT"
  /\ IF ~force /\ result[dep] \in FailedDependency THEN Leave("OMIT")
     ELSE stack' = GoOn /\ UNCHANGED result
  /\ UNCHANGED <<suite, place, ran, interrupted>>

\* dep has its result.  On a circular dependency the test is left as it is,
\* WAIT, for good.
LookAtResult ==
  /\ InLoop /\ dep # Funct /\ (Top.returned \/ ~NeedsRun(dep))
  /\ IF result[dep] = "WAIT" THEN stack' = Rest /\ UNCHANGED result
     ELSE IF ~force /\ result[dep] \in FailedDependency THEN Leave("OMIT")
     ELSE stack' = GoOn /\ UNCHANGED result
  /\ UNCHANGED <<suite, place, ran, interrupted>>

\* Test.run, up to runtest
StartTest ==
  /\ stack # <<>> /\ ~interrupted /\ Top.next > Len(dependencies[t])
  /\ result[t] # "RUNNING"
  /\ result' = [result EXCEPT ![t] = "RUNNING"]
  /\ ran' = Append(ran, t)
  /\ UNCHANGED <<suite, place, stack, interrupted>>

\* Every exception is an outcome, those of cleaning up and shutDown too...
EndTest ==
  /\ stack # <<>> /\ ~interrupted /\ result[t] = "RUNNING"
  /\ \E outcome \in Outcomes : Leave(outcome)
  /\ UNCHANGED <<suite, place, ran, interrupted>>

\* ...but for KeyboardInterrupt, which may come at any moment and ends runtests.
Interrupt ==
  /\ stack # <<>> /\ ~interrupted
  /\ \E outcome \in IF result[t] = "RUNNING" THEN Outcomes \cup {"RUNNING"} ELSE {result[t]} :
       result' = [result EXCEPT ![t] = outcome]
  /\ interrupted' = TRUE
  /\ UNCHANGED <<suite, place, stack, ran>>

Step ==
  NextTest \/ AskFunct \/ RunDependency \/ LookAtResult \/ StartTest \/ EndTest

Next == Step \/ Interrupt

Spec == Init /\ [][Next]_vars
\* One thread, and tests that end
FairSpec == Spec /\ WF_vars(Step)

-----------------------------------------------------------------------------
(* Properties                                                                 *)

TestsOf(test) == Range(dependencies[test]) \ {Funct}
Over == stack = <<>> /\ place > NTests

(* No test is run twice, and none before all tests it depends on have come    *)
(* out well; or, with --force, before they were tried: "The depend list is a  *)
(* list of code names for tests that must be run before the given test"       *)
(* (testmod.py:366).                                                          *)
DependenciesRunFirst ==
  /\ IsInjective(ran)
  /\ \A i \in DOMAIN ran : \A d \in TestsOf(ran[i]) :
       result[d] \in IF force THEN Omitted \cup Ended ELSE Ended \ FailedDependency

\* Tests that reach a circle of dependencies: from one member of a set to
\* another there is no end.
Circular ==
  UNION {xs \in SUBSET Tests : \A x \in xs : TestsOf(x) \cap xs # {}}

\* What ends the loop of a test before it gets to its i-th dependency
EndsBefore(test, i) ==
  \E j \in 1..(i - 1) :
    LET d == dependencies[test][j]
    IN d = Funct \/ result[d] \in FailedDependency \cup {"WAIT"}

\* With --rundeps, test is run as a dependency of another
Needed(test) ==
  rundeps /\ \E u \in Tests : result[u] # "FILTERED" /\ test \in TestsOf(u)
\* Nobody who gets as far as to need it is there
NotNeeded(test) ==
  rundeps => \A u \in Tests : \A i \in DOMAIN dependencies[u] :
    dependencies[u][i] = test => result[u] = "FILTERED" \/ EndsBefore(u, i)

(* In the end every test has been considered, and its result has its reason,  *)
(* in whatever order the tree met it: a test is skipped for a failed          *)
(* dependency, filtered when neither asked for nor needed, and left waiting   *)
(* only for a circle of dependencies.                                         *)
ResultsHaveReasons ==
  Over => \A x \in Tests :
    \/ result[x] \in Ended /\ (x \in selected \/ Needed(x))
    \/ /\ result[x] = "OMIT" /\ ~force
       /\ \E d \in Range(dependencies[x]) : d = Funct \/ result[d] \in FailedDependency
    \/ result[x] = "FILTERED" /\ x \notin selected /\ NotNeeded(x)
    \/ result[x] = "WAIT" /\ x \in Circular

(* The run ends, however tests depend on each other: _runtree looks for a     *)
(* circle before it goes down.                                                *)
RunEnds == <>(Over \/ interrupted)
=============================================================================
