--------------------------- MODULE TestRunner_proofs ---------------------------
(* Proofs about TestRunner, for any number of tests, any lists of             *)
(* dependencies among them, any selection and all options.                    *)
EXTENDS TestRunner, Integers, SequenceTheorems, TLAPS

-----------------------------------------------------------------------------
(* The inductive invariant                                                    *)

Results == {"NOTRUN", "WAIT", "RUNNING"} \cup Omitted \cup Ended
Frames == [test : Tests, next : Nat \ {0}, returned : BOOLEAN]

TypeOK ==
  /\ dependencies \in [Tests -> Seq(Tests \cup {Funct})]
  /\ \A x \in Tests : \A i \in 1..Len(dependencies[x]) : dependencies[x][i] # x
  /\ selected \in SUBSET Tests /\ force \in BOOLEAN /\ rundeps \in BOOLEAN
  /\ result \in [Tests -> Results]
  /\ place \in Nat \ {0}
  /\ stack \in Seq(Frames) /\ ran \in Seq(Tests)
  /\ interrupted \in BOOLEAN

\* A dependency that lets a test go on, for good; and one that needs no run now
Tried(d) ==
  /\ result[d] \in IF force THEN Omitted \cup Ended ELSE Ended \ FailedDependency
  /\ rundeps => result[d] # "FILTERED"
Considered(d) == result[d] # "NOTRUN" /\ (rundeps => result[d] # "FILTERED")

(* The tests of the calls wait, each in one call; only the last may run, and  *)
(* that after its loop.                                                       *)
StackOK ==
  /\ \A i \in 1..Len(stack) : result[stack[i].test] \in {"WAIT", "RUNNING"}
  /\ \A i, j \in 1..Len(stack) : stack[i].test = stack[j].test => i = j
  /\ \A x \in Tests : result[x] = "RUNNING" =>
       /\ stack # <<>> /\ x = Top.test /\ Top.next > Len(dependencies[x])

\* What a call has found out about the dependencies of its test
FrameOK(f) ==
  /\ \A j \in 1..Len(dependencies[f.test]) :
       j < f.next /\ dependencies[f.test][j] # Funct => Tried(dependencies[f.test][j])
  /\ f.returned =>
       /\ f.next <= Len(dependencies[f.test]) /\ dependencies[f.test][f.next] # Funct
       /\ Considered(dependencies[f.test][f.next])

CallsOK == ~interrupted => StackOK /\ \A i \in 1..Len(stack) : FrameOK(stack[i])

RanOK ==
  /\ \A i, j \in 1..Len(ran) : ran[i] = ran[j] => i = j
  /\ \A i \in 1..Len(ran) :
       /\ ~interrupted => result[ran[i]] \in {"RUNNING"} \cup Ended
       /\ \A j \in 1..Len(dependencies[ran[i]]) :
            dependencies[ran[i]][j] # Funct => Tried(dependencies[ran[i]][j])

IInv == TypeOK /\ CallsOK /\ RanOK

-----------------------------------------------------------------------------
(* Sequences of calls                                                         *)

LEMMA Popped ==
  ASSUME NEW S, NEW q \in Seq(S), q # <<>>
  PROVE  /\ Len(q) \in Nat \ {0} /\ q[Len(q)] \in S
         /\ Front(q) \in Seq(S) /\ Len(Front(q)) = Len(q) - 1
         /\ \A i \in 1..(Len(q) - 1) : Front(q)[i] = q[i]
<1>1. PICK n \in Nat \ {0} : n = Len(q) /\ q[n] \in S /\ \A i \in 1..n : q[i] \in S
  OBVIOUS
<1>2. n - 1 \in Nat /\ \A i \in 1..(n - 1) : q[i] \in S /\ 1 + i - 1 = i
  BY <1>1
<1>3. /\ SubSeq(q, 1, n - 1) \in Seq(S) /\ Len(SubSeq(q, 1, n - 1)) = n - 1
      /\ \A i \in 1..(n - 1) : SubSeq(q, 1, n - 1)[i] = q[i]
  BY <1>2, SubSeqProperties
<1> QED  BY <1>1, <1>3 DEF Front

LEMMA Pushed ==
  ASSUME NEW S, NEW q \in Seq(S), NEW e \in S
  PROVE  /\ Append(q, e) \in Seq(S) /\ Len(Append(q, e)) = Len(q) + 1
         /\ Append(q, e)[Len(q) + 1] = e /\ \A j \in 1..Len(q) : Append(q, e)[j] = q[j]
OBVIOUS

\* The last call, and those that wait for it
LEMMA TopCall ==
  ASSUME IInv, stack # <<>>
  PROVE  \E n \in Nat \ {0}, f \in Frames :
           /\ n = Len(stack) /\ stack[n] = f /\ Top = f /\ t = f.test /\ f.test \in Tests
           /\ f.next \in Nat \ {0} /\ f.returned \in BOOLEAN
           /\ Rest \in Seq(Frames) /\ Len(Rest) = n - 1 /\ \A i \in 1..(n - 1) : Rest[i] = stack[i]
<1>1. stack \in Seq(Frames)
  BY DEF IInv, TypeOK
<1>2. PICK n \in Nat \ {0} : n = Len(stack) /\ stack[n] \in Frames
                          /\ Rest \in Seq(Frames) /\ Len(Rest) = n - 1
                          /\ \A i \in 1..(n - 1) : Rest[i] = stack[i]
  BY <1>1, Popped DEF Rest
<1>3. PICK f \in Frames : f = stack[n] /\ Top = f /\ t = f.test
  BY <1>2 DEF Top, t
<1>4. f.test \in Tests /\ f.next \in Nat \ {0} /\ f.returned \in BOOLEAN
  BY DEF Frames
<1> QED  BY <1>2, <1>3, <1>4

LEMMA TestLists ==
  ASSUME TypeOK
  PROVE  \A x \in Tests :
           /\ Len(dependencies[x]) \in Nat
           /\ \A i \in 1..Len(dependencies[x]) :
                /\ dependencies[x][i] \in Tests \cup {Funct} /\ dependencies[x][i] # x
                /\ dependencies[x][i] # Funct => dependencies[x][i] \in Tests
<1> SUFFICES ASSUME NEW x \in Tests
             PROVE  /\ Len(dependencies[x]) \in Nat
                    /\ \A i \in 1..Len(dependencies[x]) :
                         dependencies[x][i] \in Tests \cup {Funct} /\ dependencies[x][i] # x
  OBVIOUS
<1>1. dependencies[x] \in Seq(Tests \cup {Funct})
  BY DEF TypeOK
<1> QED  BY <1>1 DEF TypeOK

-----------------------------------------------------------------------------
(* Results                                                                    *)

(* A test gets a result: what calls have found out stays true, unless it was  *)
(* about that test.                                                           *)
LEMMA NewResult ==
  ASSUME TypeOK, UNCHANGED suite, NEW x \in Tests, ~Tried(x), NEW v \in Results,
         Considered(x) => v # "NOTRUN" /\ (rundeps => v # "FILTERED"),
         result' = [result EXCEPT ![x] = v]
  PROVE  /\ result' \in [Tests -> Results] /\ result'[x] = v
         /\ \A y \in Tests : y # x => result'[y] = result[y]
         /\ \A d \in Tests : Tried(d) => Tried(d)'
         /\ \A f \in Frames : FrameOK(f) => FrameOK(f)'
<1>1. /\ result' \in [Tests -> Results] /\ result'[x] = v
      /\ \A y \in Tests : y # x => result'[y] = result[y]
  BY DEF TypeOK
<1>2. dependencies' = dependencies /\ force' = force /\ rundeps' = rundeps
  BY DEF suite
<1>3. \A d \in Tests : Tried(d) => Tried(d)'
  BY <1>1, <1>2 DEF Tried
<1>4. \A d \in Tests : Considered(d) => Considered(d)'
  BY <1>1, <1>2 DEF Considered
<1>5. ASSUME NEW f \in Frames, FrameOK(f)
      PROVE  FrameOK(f)'
  <2>1. f.test \in Tests
    BY DEF Frames
  <2>2. \A i \in 1..Len(dependencies[f.test]) :
          dependencies[f.test][i] # Funct => dependencies[f.test][i] \in Tests
    BY <2>1, TestLists
  <2>3. f.next \in Nat \ {0} /\ Len(dependencies[f.test]) \in Nat
    BY <2>1, TestLists DEF Frames
  <2>4. ASSUME NEW j \in 1..Len(dependencies[f.test]), j < f.next,
               dependencies[f.test][j] # Funct
        PROVE  Tried(dependencies[f.test][j])'
    <3>1. PICK d \in Tests : d = dependencies[f.test][j]
      BY <2>2, <2>4
    <3>2. Tried(d)
      BY <1>5, <2>4, <3>1 DEF FrameOK
    <3>3. Tried(d)'
      BY <1>3, <3>2
    <3> QED  BY <1>2, <3>1, <3>3
  <2>5. ASSUME f.returned
        PROVE  /\ f.next \in 1..Len(dependencies[f.test]) /\ dependencies[f.test][f.next] # Funct
               /\ Considered(dependencies[f.test][f.next])'
    <3>1. /\ f.next \in 1..Len(dependencies[f.test]) /\ dependencies[f.test][f.next] # Funct
          /\ Considered(dependencies[f.test][f.next])
      BY <1>5, <2>3, <2>5 DEF FrameOK
    <3>2. PICK d \in Tests : d = dependencies[f.test][f.next]
      BY <2>2, <3>1
    <3>3. Considered(d)'
      BY <1>4, <3>1, <3>2
    <3> QED  BY <1>2, <3>1, <3>2, <3>3
  <2> QED  BY <1>2, <2>3, <2>4, <2>5 DEF FrameOK
<1> QED  BY <1>1, <1>3, <1>5

LEMMA RanStays ==
  ASSUME IInv, UNCHANGED <<suite, ran>>, \A d \in Tests : Tried(d) => Tried(d)',
         \A i \in 1..Len(ran) : ~interrupted' =>
           (result'[ran[i]] = result[ran[i]] /\ ~interrupted) \/ result'[ran[i]] \in Ended
  PROVE  RanOK'
<1>1. dependencies' = dependencies /\ ran' = ran
  BY DEF suite
<1>2. \A i \in 1..Len(ran) : ran[i] \in Tests
  BY DEF IInv, TypeOK
<1>3. ASSUME NEW i \in 1..Len(ran), NEW j \in 1..Len(dependencies[ran[i]]),
             dependencies[ran[i]][j] # Funct
      PROVE  Tried(dependencies[ran[i]][j])'
  <2>1. PICK d \in Tests : d = dependencies[ran[i]][j]
    BY <1>2, <1>3, TestLists DEF IInv
  <2>2. Tried(d)'
    BY <1>3, <2>1 DEF IInv, RanOK
  <2> QED  BY <1>1, <2>1, <2>2
<1>4. \A i \in 1..Len(ran) : ~interrupted' => result'[ran[i]] \in {"RUNNING"} \cup Ended
  BY DEF IInv, RanOK
<1>5. \A i, j \in 1..Len(ran) : ran[i] = ran[j] => i = j
  BY DEF IInv, RanOK
<1> QED  BY <1>1, <1>3, <1>4, <1>5 DEF RanOK

-----------------------------------------------------------------------------
(* The steps                                                                  *)

\* A call returns, and its test has a result, or is left as it is.
LEMMA Returning ==
  ASSUME IInv, stack # <<>>, ~interrupted, UNCHANGED <<suite, place, ran, interrupted>>,
         stack' = Rest,
         \/ result' = result /\ result[t] # "RUNNING"
         \/ \E v \in Ended : result' = [result EXCEPT ![t] = v]
         \/ result' = [result EXCEPT ![t] = "OMIT"] /\ result[t] # "RUNNING"
  PROVE  IInv'
<1>1. PICK n \in Nat \ {0}, f \in Frames :
        /\ n = Len(stack) /\ stack[n] = f /\ Top = f /\ t = f.test /\ f.test \in Tests
        /\ Rest \in Seq(Frames) /\ Len(Rest) = n - 1 /\ \A i \in 1..(n - 1) : Rest[i] = stack[i]
  BY TopCall
<1>2. PICK x \in Tests : x = t /\ x = f.test
  BY <1>1
<1>3. /\ result[x] \in {"WAIT", "RUNNING"}
      /\ \A i \in 1..n : result[stack[i].test] \in {"WAIT", "RUNNING"}
      /\ \A i, j \in 1..n : stack[i].test = stack[j].test => i = j
      /\ \A y \in Tests : result[y] = "RUNNING" => y = x
      /\ \A i \in 1..n : FrameOK(stack[i])
  BY <1>1, <1>2 DEF IInv, CallsOK, StackOK
<1>4. ~Tried(x)
  BY <1>3 DEF Tried, Omitted, Ended, FailedDependency
<1>5. /\ result' \in [Tests -> Results] /\ result'[x] # "RUNNING"
      /\ \A y \in Tests : y # x => result'[y] = result[y]
      /\ \A d \in Tests : Tried(d) => Tried(d)'
      /\ \A g \in Frames : FrameOK(g) => FrameOK(g)'
      /\ result[x] = "RUNNING" => result'[x] \in Ended
  <2>1. CASE result' = result /\ result[t] # "RUNNING"
    <3>1. UNCHANGED <<dependencies, force, rundeps>>
      BY DEF suite
    <3> QED  BY <1>2, <2>1, <3>1 DEF Tried, FrameOK, Considered, IInv, TypeOK
  <2>2. ASSUME NEW v \in Ended \cup {"OMIT"}, result' = [result EXCEPT ![t] = v]
        PROVE  /\ result' \in [Tests -> Results] /\ result'[x] = v /\ v # "RUNNING"
               /\ \A y \in Tests : y # x => result'[y] = result[y]
               /\ \A d \in Tests : Tried(d) => Tried(d)'
               /\ \A g \in Frames : FrameOK(g) => FrameOK(g)'
    <3>1. v \in Results /\ v \notin {"NOTRUN", "FILTERED", "RUNNING"}
      BY DEF Ended, Results, Omitted
    <3> QED  BY <1>2, <1>4, <2>2, <3>1, NewResult DEF IInv
  <2>3. CASE \E v \in Ended : result' = [result EXCEPT ![t] = v]
    BY <2>2, <2>3
  <2>4. CASE result' = [result EXCEPT ![t] = "OMIT"] /\ result[t] # "RUNNING"
    BY <1>2, <2>2, <2>4
  <2> QED  BY <2>1, <2>3, <2>4
<1>6. TypeOK'
  BY <1>1, <1>5 DEF IInv, TypeOK, suite
<1>7. CallsOK'
  <2>1. Len(stack') = n - 1 /\ \A i \in 1..(n - 1) : stack'[i] = stack[i] /\ i \in 1..n /\ i # n
    BY <1>1
  <2>2. \A i \in 1..(n - 1) : stack[i] \in Frames /\ stack[i].test \in Tests
    <3>1. stack \in Seq(Frames)
      BY DEF IInv, TypeOK
    <3>2. \A i \in 1..(n - 1) : stack[i] \in Frames
      BY <1>1, <2>1, <3>1
    <3> QED  BY <3>2 DEF Frames
  <2>3. \A i \in 1..(n - 1) : stack[i].test # x
    <3>1. n \in 1..n /\ stack[n].test = x
      BY <1>1, <1>2
    <3> QED  BY <1>3, <2>1, <3>1
  <2>4. \A i \in 1..(n - 1) : result'[stack[i].test] \in {"WAIT", "RUNNING"}
    BY <1>3, <1>5, <2>1, <2>2, <2>3
  <2>5. \A y \in Tests : result'[y] # "RUNNING"
    BY <1>3, <1>5
  <2>6. \A i, j \in 1..(n - 1) : stack[i].test = stack[j].test => i = j
    BY <1>3, <2>1
  <2>7. StackOK'
    BY <2>1, <2>4, <2>5, <2>6 DEF StackOK
  <2>8. \A i \in 1..(n - 1) : FrameOK(stack[i])'
    <3> SUFFICES ASSUME NEW i \in 1..(n - 1)
                 PROVE  FrameOK(stack[i])'
      OBVIOUS
    <3>1. PICK g \in Frames : g = stack[i] /\ FrameOK(g) /\ stack'[i] = g
      BY <1>3, <2>1, <2>2
    <3> QED  BY <1>5, <3>1
  <2> QED  BY <2>1, <2>7, <2>8 DEF CallsOK
<1>8. RanOK'
  <2>1. \A i \in 1..Len(ran) : ran[i] \in Tests /\ result[ran[i]] \in {"RUNNING"} \cup Ended
    BY DEF IInv, TypeOK, RanOK
  <2>2. \A i \in 1..Len(ran) : ran[i] = x => result[x] = "RUNNING"
    BY <1>3, <2>1 DEF Ended
  <2> QED  BY <1>5, <2>1, <2>2, RanStays
<1> QED  BY <1>6, <1>7, <1>8 DEF IInv

\* The last call goes on with the next dependency of its test.
LEMMA GoingOn ==
  ASSUME IInv, InLoop, UNCHANGED <<suite, place, result, ran, interrupted>>, stack' = GoOn,
         dep # Funct => Tried(dep)
  PROVE  IInv'
<1>1. stack # <<>> /\ ~interrupted
  BY DEF InLoop
<1>2. PICK n \in Nat \ {0}, f \in Frames :
        /\ n = Len(stack) /\ stack[n] = f /\ Top = f /\ t = f.test /\ f.test \in Tests
        /\ f.next \in Nat \ {0}
        /\ Rest \in Seq(Frames) /\ Len(Rest) = n - 1 /\ \A i \in 1..(n - 1) : Rest[i] = stack[i]
  BY <1>1, TopCall
<1>3. PICK x \in Tests : x = t /\ x = f.test
  BY <1>2
<1>4. f.next <= Len(dependencies[x]) /\ dep = dependencies[x][f.next]
  BY <1>2, <1>3 DEF InLoop, dep
<1>5. PICK g \in Frames : /\ g = [f EXCEPT !.next = f.next + 1, !.returned = FALSE]
                          /\ g.test = x /\ g.next = f.next + 1 /\ g.returned = FALSE
  <2>1. PICK m \in Nat \ {0} : m = f.next + 1
    BY <1>2
  <2>2. PICK g : g = [f EXCEPT !.next = m, !.returned = FALSE]
    OBVIOUS
  <2>3. g \in Frames /\ g.test = f.test /\ g.next = m /\ g.returned = FALSE
    BY <2>2 DEF Frames
  <2> QED  BY <1>3, <2>1, <2>2, <2>3
<1>6. stack' = Append(Rest, g)
  BY <1>2, <1>5 DEF GoOn
<1>7. /\ stack' \in Seq(Frames) /\ Len(stack') = n /\ stack'[n] = g
      /\ \A i \in 1..(n - 1) : stack'[i] = stack[i]
  BY <1>2, <1>6, Pushed
<1>8. UNCHANGED <<dependencies, force, rundeps, selected>>
  BY DEF suite
<1>9. TypeOK'
  BY <1>7, <1>8 DEF IInv, TypeOK
<1>10. StackOK /\ \A i \in 1..n : FrameOK(stack[i])
  BY <1>1, <1>2 DEF IInv, CallsOK
<1>11. StackOK'
  <2>1. \A i \in 1..n : stack'[i].test = stack[i].test
    <3>1. stack'[n].test = x /\ stack[n].test = x
      BY <1>2, <1>3, <1>5, <1>7
    <3>2. \A i \in 1..n : i = n \/ i \in 1..(n - 1)
      OBVIOUS
    <3> QED  BY <1>7, <3>1, <3>2
  <2>2. \A y \in Tests : result[y] # "RUNNING"
    <3>1. Len(dependencies[x]) \in Nat
      BY TestLists DEF IInv
    <3> QED  BY <1>2, <1>3, <1>4, <1>10, <3>1 DEF StackOK
  <2> QED  BY SMTT(40), <1>2, <1>7, <1>10, <2>1, <2>2 DEF StackOK
<1>12. \A f1 : FrameOK(f1)' <=> FrameOK(f1)
  BY <1>8 DEF FrameOK, Tried, Considered
<1>13. FrameOK(g)
  <2>1. FrameOK(f) /\ f.test = x /\ Len(dependencies[x]) \in Nat
    BY <1>2, <1>3, <1>10, TestLists DEF IInv
  <2> QED  BY SMTT(40), <1>2, <1>4, <1>5, <2>1 DEF FrameOK
<1>14. \A i \in 1..n : FrameOK(stack'[i])
  BY <1>7, <1>10, <1>13
<1>15. \A i \in 1..Len(stack') : FrameOK(stack[i])'
  BY <1>7, <1>12, <1>14
<1>16. CallsOK'
  BY <1>11, <1>15 DEF CallsOK
<1>17. RanOK'
  <2>1. \A d \in Tests : Tried(d) => Tried(d)'
    BY <1>8 DEF Tried
  <2> QED  BY <1>1, <2>1, RanStays
<1> QED  BY <1>9, <1>16, <1>17 DEF IInv

\* _runtree is called for a test that has not been tried.
LEMMA CallResult ==
  ASSUME IInv, UNCHANGED suite, NEW d \in Tests, NEW filtering \in BOOLEAN, NEW frames,
         result[d] = "NOTRUN" \/ (result[d] = "FILTERED" /\ rundeps),
         Call(d, filtering, frames)
  PROVE  /\ result' \in [Tests -> Results] /\ result'[d] \in {"FILTERED", "WAIT"}
         /\ result'[d] = "WAIT" => stack' = Append(frames, Frame(d))
         /\ result'[d] = "FILTERED" => stack' = frames
         /\ \A y \in Tests : y # d => result'[y] = result[y]
         /\ \A x \in Tests : Tried(x) => Tried(x)'
         /\ \A f \in Frames : FrameOK(f) => FrameOK(f)'
         /\ ~(filtering /\ rundeps) => Considered(d)'
<1>1. ~Tried(d) /\ ~Considered(d)
  BY DEF Tried, Considered, Omitted, Ended, FailedDependency
<1>2. PICK v \in {"FILTERED", "WAIT"} :
        /\ result' = [result EXCEPT ![d] = v]
        /\ v = "WAIT" => stack' = Append(frames, Frame(d))
        /\ v = "FILTERED" => stack' = frames /\ filtering
  BY DEF Call
<1>3. v \in Results
  BY DEF Results, Omitted
<1>4. /\ result' \in [Tests -> Results] /\ result'[d] = v
      /\ \A y \in Tests : y # d => result'[y] = result[y]
      /\ \A x \in Tests : Tried(x) => Tried(x)'
      /\ \A f \in Frames : FrameOK(f) => FrameOK(f)'
  BY <1>1, <1>2, <1>3, NewResult DEF IInv
<1>5. ~(filtering /\ rundeps) => Considered(d)'
  BY <1>2, <1>4 DEF Considered, suite
<1> QED  BY <1>2, <1>4, <1>5

LEMMA Calling ==
  ASSUME IInv, ~interrupted, UNCHANGED <<suite, ran, interrupted>>, place' \in Nat \ {0},
         NEW d \in Tests, NEW filtering \in BOOLEAN, NEW frames \in Seq(Frames),
         result[d] = "NOTRUN" \/ (result[d] = "FILTERED" /\ rundeps),
         Call(d, filtering, frames),
         Len(frames) = Len(stack),
         \A i \in 1..Len(stack) : frames[i].test = stack[i].test /\ FrameOK(frames[i])',
         \A y \in Tests : result[y] # "RUNNING"
  PROVE  IInv'
<1>1. /\ result' \in [Tests -> Results] /\ result'[d] \in {"FILTERED", "WAIT"}
      /\ result'[d] = "WAIT" => stack' = Append(frames, Frame(d))
      /\ result'[d] = "FILTERED" => stack' = frames
      /\ \A y \in Tests : y # d => result'[y] = result[y]
      /\ \A x \in Tests : Tried(x) => Tried(x)'
  BY CallResult
<1>2. PICK n \in Nat : n = Len(stack) /\ \A i \in 1..n : frames[i] \in Frames /\ frames[i].test \in Tests
  <2>1. Len(frames) \in Nat /\ \A i \in 1..Len(frames) : frames[i] \in Frames
    OBVIOUS
  <2> QED  BY <2>1 DEF Frames
<1>3. PICK g \in Frames : g = Frame(d) /\ g.test = d /\ g.next = 1 /\ g.returned = FALSE
  <2>1. PICK g : g = Frame(d)
    OBVIOUS
  <2>2. g \in Frames /\ g.test = d /\ g.next = 1 /\ g.returned = FALSE
    BY <2>1 DEF Frame, Frames
  <2> QED  BY <2>1, <2>2
<1>4. \A i \in 1..n : frames[i].test # d /\ result[frames[i].test] \in {"WAIT", "RUNNING"}
  BY <1>2 DEF IInv, CallsOK, StackOK
<1>5. \A i, j \in 1..n : frames[i].test = frames[j].test => i = j
  BY <1>2 DEF IInv, CallsOK, StackOK
<1>6. \A i \in 1..n : result'[frames[i].test] \in {"WAIT", "RUNNING"}
  BY <1>1, <1>2, <1>4
<1>7. \A y \in Tests : result'[y] # "RUNNING"
  BY <1>1
<1>8. FrameOK(g)'
  BY <1>3 DEF FrameOK
<1>9. RanOK'
  <2>1. \A i \in 1..Len(ran) : ran[i] \in Tests
    <3>1. ran \in Seq(Tests)
      BY DEF IInv, TypeOK
    <3> QED  BY <3>1
  <2>2. \A i \in 1..Len(ran) : ran[i] # d
    BY DEF IInv, RanOK, Ended
  <2> QED  BY <1>1, <2>1, <2>2, RanStays
<1>10. CASE result'[d] = "FILTERED"
  <2>1. stack' = frames
    BY <1>1, <1>10
  <2>2. TypeOK'
    BY <1>1, <2>1 DEF IInv, TypeOK, suite
  <2>3. CallsOK'
    BY <1>2, <1>5, <1>6, <1>7, <2>1 DEF CallsOK, StackOK
  <2> QED  BY <1>9, <2>2, <2>3 DEF IInv
<1>11. CASE result'[d] = "WAIT"
  <2>1. stack' = Append(frames, g)
    BY <1>1, <1>3, <1>11
  <2>2. /\ stack' \in Seq(Frames) /\ Len(stack') = n + 1 /\ stack'[n + 1] = g
        /\ \A i \in 1..n : stack'[i] = frames[i]
    BY <1>2, <2>1, Pushed
  <2>3. TypeOK'
    BY <1>1, <2>2 DEF IInv, TypeOK, suite
  <2>4. \A i \in 1..(n + 1) : i = n + 1 \/ i \in 1..n
    BY <1>2
  <2>5. \A i \in 1..(n + 1) : result'[stack'[i].test] \in {"WAIT", "RUNNING"}
    BY <1>3, <1>6, <1>11, <2>2, <2>4
  <2>6. \A i, j \in 1..(n + 1) : stack'[i].test = stack'[j].test => i = j
    BY <1>3, <1>4, <1>5, <2>2, <2>4
  <2>7. StackOK'
    BY <1>7, <2>2, <2>5, <2>6 DEF StackOK
  <2>8. \A i \in 1..(n + 1) : FrameOK(stack[i])'
    BY <1>2, <1>8, <2>2, <2>4
  <2> QED  BY <1>9, <2>2, <2>3, <2>7, <2>8 DEF IInv, CallsOK
<1> QED  BY <1>1, <1>10, <1>11

LEMMA NextTestStep ==
  ASSUME IInv, NextTest
  PROVE  IInv'
<1>1. /\ stack = <<>> /\ place <= NTests /\ ~interrupted /\ place' = place + 1
      /\ UNCHANGED <<suite, ran, interrupted>>
  BY DEF NextTest
<1>2. place \in Tests /\ place' \in Nat \ {0}
  BY <1>1, RunnerAssumption DEF IInv, TypeOK, Tests
<1>3. CASE result[place] # "NOTRUN"
  <2>1. result' = result /\ stack' = stack
    BY <1>3 DEF NextTest
  <2>2. UNCHANGED <<dependencies, force, rundeps, selected>>
    BY <1>1 DEF suite
  <2> QED  BY <1>1, <1>2, <2>1, <2>2
           DEF IInv, TypeOK, CallsOK, StackOK, FrameOK, RanOK, Tried, Considered, Top
<1>4. CASE result[place] = "NOTRUN"
  <2>1. PICK none \in Seq(Frames) : none = <<>>
    <3>1. <<>> \in Seq(Frames)
      OBVIOUS
    <3> QED  BY <3>1
  <2>2. Call(place, TRUE, none)
    BY <1>4, <2>1 DEF NextTest
  <2>3. Len(none) = Len(stack) /\ Len(stack) = 0
    BY <1>1, <2>1
  <2>4. \A y \in Tests : result[y] # "RUNNING"
    BY <1>1 DEF IInv, CallsOK, StackOK
  <2>5. \A i \in 1..Len(stack) : none[i].test = stack[i].test /\ FrameOK(none[i])'
    BY <2>3
  <2> QED  BY <1>1, <1>2, <1>4, <2>2, <2>3, <2>4, <2>5, Calling
<1> QED  BY <1>3, <1>4

\* While the last call goes through dependencies, no test runs.
LEMMA NobodyRuns ==
  ASSUME IInv, InLoop
  PROVE  /\ ~interrupted /\ stack # <<>> /\ t \in Tests /\ Top.next \in 1..Len(dependencies[t])
         /\ \A y \in Tests : result[y] # "RUNNING"
         /\ dep \in Tests \cup {Funct} /\ dep = dependencies[t][Top.next]
         /\ FrameOK(Top)
<1>1. stack # <<>> /\ ~interrupted /\ Top.next <= Len(dependencies[t])
  BY DEF InLoop
<1>2. PICK n \in Nat \ {0}, f \in Frames :
        /\ n = Len(stack) /\ stack[n] = f /\ Top = f /\ t = f.test /\ f.test \in Tests
        /\ f.next \in Nat \ {0}
  BY <1>1, TopCall
<1>3. Len(dependencies[t]) \in Nat
  BY <1>2, TestLists DEF IInv
<1>4. Top.next \in 1..Len(dependencies[t])
  BY <1>1, <1>2, <1>3
<1>5. \A y \in Tests : result[y] # "RUNNING"
  BY <1>1, <1>2, <1>3 DEF IInv, CallsOK, StackOK
<1>6. FrameOK(Top)
  BY <1>1, <1>2 DEF IInv, CallsOK
<1>7. dep = dependencies[t][Top.next] /\ dep \in Tests \cup {Funct}
  BY <1>2, <1>4, TestLists DEF dep, IInv
<1> QED  BY <1>1, <1>2, <1>4, <1>5, <1>6, <1>7

LEMMA RunDependencyStep ==
  ASSUME IInv, RunDependency
  PROVE  IInv'
<1>1. /\ InLoop /\ dep # Funct /\ ~Top.returned /\ NeedsRun(dep)
      /\ Call(dep, ~rundeps, Append(Rest, [Top EXCEPT !.returned = TRUE]))
      /\ UNCHANGED <<suite, place, ran, interrupted>>
  BY DEF RunDependency
<1>2. PICK d \in Tests : d = dep /\ d = dependencies[t][Top.next]
  BY <1>1, NobodyRuns
<1>3. /\ ~interrupted /\ stack # <<>> /\ t \in Tests /\ Top.next \in 1..Len(dependencies[t])
      /\ \A y \in Tests : result[y] # "RUNNING"
      /\ FrameOK(Top)
  BY <1>1, NobodyRuns
<1>4. PICK n \in Nat \ {0}, f \in Frames :
        /\ n = Len(stack) /\ stack[n] = f /\ Top = f /\ t = f.test /\ f.test \in Tests
        /\ Rest \in Seq(Frames) /\ Len(Rest) = n - 1 /\ \A i \in 1..(n - 1) : Rest[i] = stack[i]
  BY <1>3, TopCall
<1>5. PICK g \in Frames : /\ g = [f EXCEPT !.returned = TRUE]
                          /\ g.test = f.test /\ g.next = f.next /\ g.returned = TRUE
  <2>1. PICK g : g = [f EXCEPT !.returned = TRUE]
    OBVIOUS
  <2>2. g \in Frames /\ g.test = f.test /\ g.next = f.next /\ g.returned = TRUE
    BY <2>1 DEF Frames
  <2> QED  BY <2>1, <2>2
<1>6. PICK frames \in Seq(Frames) :
        /\ frames = Append(Rest, g) /\ Len(frames) = n /\ frames[n] = g
        /\ \A i \in 1..(n - 1) : frames[i] = stack[i]
  <2>1. Rest \in Seq(Frames) /\ Len(Rest) = n - 1 /\ n - 1 + 1 = n
    BY <1>4
  <2>2. PICK frames : frames = Append(Rest, g)
    OBVIOUS
  <2>3. frames \in Seq(Frames) /\ Len(frames) = n /\ frames[n] = g
    BY <2>1, <2>2, Pushed
  <2>4. \A i \in 1..(n - 1) : frames[i] = Rest[i]
    BY <2>1, <2>2, Pushed
  <2> QED  BY <1>4, <2>2, <2>3, <2>4
<1>7. Call(d, ~rundeps, frames)
  BY <1>1, <1>2, <1>4, <1>5, <1>6
<1>8. /\ (~rundeps) \in BOOLEAN
      /\ result[d] = "NOTRUN" \/ (result[d] = "FILTERED" /\ rundeps)
  <2>1. rundeps \in BOOLEAN
    BY DEF IInv, TypeOK
  <2>2. (~rundeps) \in BOOLEAN
    BY <2>1
  <2>3. result[d] = "NOTRUN" \/ (result[d] = "FILTERED" /\ rundeps)
    BY <1>1, <1>2 DEF NeedsRun
  <2> QED  BY <2>2, <2>3
<1>9. (\A h \in Frames : FrameOK(h) => FrameOK(h)') /\ Considered(d)'
  BY <1>1, <1>7, <1>8, CallResult
<1>10. FrameOK(g)'
  <2>1. FrameOK(f)' /\ UNCHANGED <<dependencies, force, rundeps>>
    BY <1>1, <1>3, <1>4, <1>9 DEF suite
  <2>2. g.next \in 1..Len(dependencies[g.test]) /\ dependencies[g.test][g.next] = d
    BY <1>2, <1>3, <1>4, <1>5
  <2>3. g.next <= Len(dependencies[g.test]) /\ d # Funct
    BY <1>1, <1>2, <2>2
  <2> QED  BY <1>5, <1>9, <2>1, <2>2, <2>3 DEF FrameOK
<1>11. \A i \in 1..n : frames[i].test = stack[i].test /\ FrameOK(frames[i])'
  <2>1. \A i \in 1..n : i = n \/ i \in 1..(n - 1)
    OBVIOUS
  <2>2. frames[n].test = stack[n].test
    BY <1>4, <1>5, <1>6
  <2>3. \A i \in 1..(n - 1) : stack[i] \in Frames /\ FrameOK(stack[i])
    <3>1. stack \in Seq(Frames)
      BY DEF IInv, TypeOK
    <3>2. \A i \in 1..n : stack[i] \in Frames
      BY <1>4, <3>1
    <3>3. \A i \in 1..n : FrameOK(stack[i])
      BY <1>3, <1>4 DEF IInv, CallsOK
    <3> QED  BY <3>2, <3>3
  <2>4. ASSUME NEW i \in 1..(n - 1)
        PROVE  frames[i].test = stack[i].test /\ FrameOK(frames[i])'
    <3>1. PICK h \in Frames : h = stack[i] /\ FrameOK(h) /\ frames[i] = h
      BY <1>6, <2>3
    <3> QED  BY <1>9, <3>1
  <2>5. FrameOK(frames[n])'
    BY <1>6, <1>10
  <2> QED  BY <2>1, <2>2, <2>4, <2>5
<1>12. place' \in Nat \ {0}
  BY <1>1 DEF IInv, TypeOK
<1> QED  BY <1>1, <1>3, <1>4, <1>6, <1>7, <1>8, <1>11, <1>12, Calling

LEMMA LookAtResultStep ==
  ASSUME IInv, LookAtResult
  PROVE  IInv'
<1>1. /\ InLoop /\ dep # Funct /\ (Top.returned \/ ~NeedsRun(dep))
      /\ UNCHANGED <<suite, place, ran, interrupted>>
  BY DEF LookAtResult
<1>2. /\ ~interrupted /\ stack # <<>> /\ t \in Tests /\ Top.next \in 1..Len(dependencies[t])
      /\ result[t] # "RUNNING" /\ dep \in Tests /\ dep = dependencies[t][Top.next] /\ FrameOK(Top)
      /\ \A y \in Tests : result[y] # "RUNNING"
  BY <1>1, NobodyRuns
<1>3. CASE result[dep] = "WAIT"
  BY <1>1, <1>2, <1>3, Returning DEF LookAtResult
<1>4. CASE result[dep] # "WAIT" /\ ~force /\ result[dep] \in FailedDependency
  BY <1>1, <1>2, <1>4, Returning DEF LookAtResult, Leave
<1>5. CASE result[dep] # "WAIT" /\ ~(~force /\ result[dep] \in FailedDependency)
  <2>1. stack' = GoOn /\ result' = result
    BY <1>5 DEF LookAtResult
  <2>2. Considered(dep)
    <3>1. CASE Top.returned
      BY <1>2, <3>1 DEF FrameOK, t
    <3>2. CASE ~NeedsRun(dep)
      BY <3>2 DEF Considered, NeedsRun
    <3> QED  BY <1>1, <3>1, <3>2
  <2>3. result[dep] \in Omitted \cup Ended
    BY <1>2, <1>5, <2>2 DEF Considered, IInv, TypeOK, Results
  <2>4. Tried(dep)
    BY <1>5, <2>2, <2>3 DEF Tried, Considered, FailedDependency
  <2> QED  BY <1>1, <2>1, <2>4, GoingOn
<1> QED  BY <1>3, <1>4, <1>5

LEMMA AskFunctStep ==
  ASSUME IInv, AskFunct
  PROVE  IInv'
<1>1. InLoop /\ dep = Funct /\ UNCHANGED <<suite, place, ran, interrupted>>
  BY DEF AskFunct
<1>2. ~interrupted /\ stack # <<>> /\ result[t] # "RUNNING"
  BY <1>1, NobodyRuns
<1>3. CASE stack' = GoOn /\ UNCHANGED result
  BY <1>1, <1>3, GoingOn
<1>4. CASE Leave("OMIT")
  BY <1>1, <1>2, <1>4, Returning DEF Leave
<1> QED  BY <1>3, <1>4 DEF AskFunct

LEMMA EndTestStep ==
  ASSUME IInv, EndTest
  PROVE  IInv'
<1>1. /\ stack # <<>> /\ ~interrupted /\ UNCHANGED <<suite, place, ran, interrupted>>
  BY DEF EndTest
<1>2. PICK v \in Outcomes : Leave(v)
  BY DEF EndTest
<1>3. v \in Ended
  BY RunnerAssumption
<1> QED  BY <1>1, <1>2, <1>3, Returning DEF Leave

LEMMA StartTestStep ==
  ASSUME IInv, StartTest
  PROVE  IInv'
<1>1. /\ stack # <<>> /\ ~interrupted /\ Top.next > Len(dependencies[t]) /\ result[t] # "RUNNING"
      /\ result' = [result EXCEPT ![t] = "RUNNING"] /\ ran' = Append(ran, t)
      /\ UNCHANGED <<suite, place, stack, interrupted>>
  BY DEF StartTest
<1>2. PICK n \in Nat \ {0}, f \in Frames :
        /\ n = Len(stack) /\ stack[n] = f /\ Top = f /\ t = f.test /\ f.test \in Tests
        /\ f.next \in Nat \ {0}
  BY <1>1, TopCall
<1>3. PICK x \in Tests : x = t /\ x = f.test
  BY <1>2
<1>4. StackOK /\ \A i \in 1..n : FrameOK(stack[i])
  BY <1>1, <1>2 DEF IInv, CallsOK
<1>5. result[x] = "WAIT" /\ \A y \in Tests : result[y] = "RUNNING" => y = x
  BY <1>1, <1>2, <1>3, <1>4 DEF StackOK
<1>6. ~Tried(x)
  BY <1>5 DEF Tried, Omitted, Ended, FailedDependency
<1>7. "RUNNING" \in Results
  BY DEF Results
<1>8. /\ result' \in [Tests -> Results] /\ result'[x] = "RUNNING"
      /\ \A y \in Tests : y # x => result'[y] = result[y]
      /\ \A d \in Tests : Tried(d) => Tried(d)'
      /\ \A g \in Frames : FrameOK(g) => FrameOK(g)'
  BY <1>1, <1>3, <1>6, <1>7, NewResult DEF IInv
<1>9. UNCHANGED <<dependencies, force, rundeps, selected>>
  BY <1>1 DEF suite
<1>10. PICK m \in Nat : m = Len(ran) /\ \A i \in 1..m : ran[i] \in Tests
  <2>1. ran \in Seq(Tests)
    BY DEF IInv, TypeOK
  <2> QED  BY <2>1
<1>11. /\ ran' \in Seq(Tests) /\ Len(ran') = m + 1 /\ ran'[m + 1] = x
       /\ \A i \in 1..m : ran'[i] = ran[i]
  <2>1. ran \in Seq(Tests) /\ ran' = Append(ran, x)
    BY <1>1, <1>3 DEF IInv, TypeOK
  <2> QED  BY <1>10, <2>1, Pushed
<1>12. TypeOK'
  BY <1>1, <1>8, <1>9, <1>11 DEF IInv, TypeOK
<1>13. CallsOK'
  <2>1. \A i \in 1..n : stack[i] \in Frames /\ stack[i].test \in Tests
    <3>1. stack \in Seq(Frames)
      BY DEF IInv, TypeOK
    <3>2. \A i \in 1..n : stack[i] \in Frames
      BY <1>2, <3>1
    <3> QED  BY <3>2 DEF Frames
  <2>2. \A i \in 1..n : FrameOK(stack[i])'
    <3> SUFFICES ASSUME NEW i \in 1..n
                 PROVE  FrameOK(stack[i])'
      OBVIOUS
    <3>1. PICK g \in Frames : g = stack[i] /\ FrameOK(g)
      BY <1>4, <2>1
    <3>2. FrameOK(g)'
      BY <1>8, <3>1
    <3> QED  BY <1>1, <3>1, <3>2
  <2>3. \A i \in 1..n : result'[stack[i].test] \in {"WAIT", "RUNNING"}
    BY <1>2, <1>4, <1>8, <2>1 DEF StackOK
  <2>4. \A i, j \in 1..n : stack[i].test = stack[j].test => i = j
    BY <1>2, <1>4 DEF StackOK
  <2>5. \A y \in Tests : result'[y] = "RUNNING" => y = x
    BY <1>5, <1>8
  <2>6. stack' # <<>> /\ x = Top' .test /\ Top' .next > Len(dependencies'[x])
    BY <1>1, <1>2, <1>3, <1>9 DEF Top
  <2>7. StackOK'
    BY <1>1, <1>2, <2>3, <2>4, <2>5, <2>6 DEF StackOK
  <2> QED  BY <1>1, <1>2, <2>2, <2>7 DEF CallsOK
<1>14. RanOK'
  <2>1. \A i \in 1..(m + 1) : i = m + 1 \/ i \in 1..m
    BY <1>10
  <2>2. \A i \in 1..m : ran[i] # x /\ result'[ran[i]] \in {"RUNNING"} \cup Ended
    <3>1. \A i \in 1..m : result[ran[i]] \in {"RUNNING"} \cup Ended
      BY <1>1, <1>10 DEF IInv, RanOK
    <3>2. \A i \in 1..m : ran[i] # x
      BY <1>5, <3>1 DEF Ended
    <3> QED  BY <1>8, <1>10, <3>1, <3>2
  <2>3. \A i, j \in 1..m : ran[i] = ran[j] => i = j
    BY <1>10 DEF IInv, RanOK
  <2>4. \A i, j \in 1..(m + 1) : ran'[i] = ran'[j] => i = j
    BY <1>11, <2>1, <2>2, <2>3
  <2>5. \A i \in 1..(m + 1) : result'[ran'[i]] \in {"RUNNING"} \cup Ended
    BY <1>8, <1>11, <2>1, <2>2
  <2>6. ASSUME NEW y \in Tests, NEW j \in 1..Len(dependencies[y]), dependencies[y][j] # Funct,
               Tried(dependencies[y][j])
        PROVE  Tried(dependencies[y][j])'
    <3>1. PICK d \in Tests : d = dependencies[y][j] /\ Tried(d)
      BY <2>6, TestLists DEF IInv
    <3>2. Tried(d)'
      BY <1>8, <3>1
    <3> QED  BY <1>9, <3>1, <3>2
  <2>7. \A j \in 1..Len(dependencies[x]) :
          dependencies[x][j] # Funct => Tried(dependencies[x][j])
    <3>1. FrameOK(f) /\ f.test = x /\ f.next > Len(dependencies[x])
      BY <1>1, <1>2, <1>3, <1>4
    <3>2. Len(dependencies[x]) \in Nat
      BY TestLists DEF IInv
    <3> QED  BY <1>2, <3>1, <3>2 DEF FrameOK
  <2>8. \A i \in 1..m : \A j \in 1..Len(dependencies[ran[i]]) :
          dependencies[ran[i]][j] # Funct => Tried(dependencies[ran[i]][j])
    BY <1>10 DEF IInv, RanOK
  <2>9. ASSUME NEW i \in 1..(m + 1), NEW j \in 1..Len(dependencies'[ran'[i]]),
               dependencies'[ran'[i]][j] # Funct
        PROVE  Tried(dependencies[ran[i]][j])'
    <3>1. PICK y \in Tests : y = ran'[i] /\ ((i = m + 1 /\ y = x) \/ (i \in 1..m /\ y = ran[i]))
      BY <1>10, <1>11, <2>1
    <3>2. j \in 1..Len(dependencies[y]) /\ dependencies[y][j] # Funct
      BY <1>9, <2>9, <3>1
    <3>3. Tried(dependencies[y][j])
      BY <2>7, <2>8, <3>1, <3>2
    <3>4. Tried(dependencies[y][j])'
      BY <2>6, <3>2, <3>3
    <3> QED  BY <1>9, <3>1, <3>4
  <2> QED  BY <1>11, <2>4, <2>5, <2>9 DEF RanOK
<1> QED  BY <1>12, <1>13, <1>14 DEF IInv

LEMMA InterruptStep ==
  ASSUME IInv, Interrupt
  PROVE  IInv'
<1>1. /\ stack # <<>> /\ ~interrupted /\ interrupted' = TRUE
      /\ UNCHANGED <<suite, place, stack, ran>>
  BY DEF Interrupt
<1>2. PICK x \in Tests : x = t /\ result[x] \in {"WAIT", "RUNNING"}
  <2>1. PICK n \in Nat \ {0}, f \in Frames :
          /\ n = Len(stack) /\ stack[n] = f /\ Top = f /\ t = f.test /\ f.test \in Tests
    BY <1>1, TopCall
  <2> QED  BY <1>1, <2>1 DEF IInv, CallsOK, StackOK
<1>3. PICK v \in Ended \cup {"RUNNING", "WAIT"} : result' = [result EXCEPT ![x] = v]
  BY <1>2, RunnerAssumption DEF Interrupt
<1>4. v \in Results /\ v \notin {"NOTRUN", "FILTERED"}
  BY <1>3 DEF Results, Ended
<1>5. ~Tried(x)
  BY <1>2 DEF Tried, Omitted, Ended, FailedDependency
<1>6. /\ result' \in [Tests -> Results]
      /\ \A d \in Tests : Tried(d) => Tried(d)'
  BY <1>1, <1>3, <1>4, <1>5, NewResult DEF IInv
<1>7. TypeOK'
  BY <1>1, <1>6 DEF IInv, TypeOK, suite
<1>8. CallsOK'
  BY <1>1 DEF CallsOK
<1>9. RanOK'
  BY <1>1, <1>6, RanStays
<1> QED  BY <1>7, <1>8, <1>9 DEF IInv

-----------------------------------------------------------------------------
(* The theorems                                                               *)

LEMMA Initially ==
  ASSUME Init
  PROVE  IInv
<1>1. /\ stack = <<>> /\ ran = <<>> /\ place = 1 /\ interrupted = FALSE
      /\ result = [x \in Tests |-> "NOTRUN"]
      /\ selected \in SUBSET Tests /\ force \in BOOLEAN /\ rundeps \in BOOLEAN
  BY DEF Init
<1>2. ASSUME NEW x \in Tests
      PROVE  /\ dependencies[x] \in Seq(Tests \cup {Funct})
             /\ \A i \in 1..Len(dependencies[x]) : dependencies[x][i] # x
  <2>1. dependencies[x] \in UNION {[1..n -> (Tests \ {x}) \cup {Funct}] : n \in 0..MaxDepends}
    BY DEF Init, Depends
  <2>2. PICK n \in 0..MaxDepends : dependencies[x] \in [1..n -> (Tests \ {x}) \cup {Funct}]
    BY <2>1
  <2>3. n \in Nat
    BY RunnerAssumption
  <2>4. dependencies[x] \in Seq((Tests \ {x}) \cup {Funct})
    BY <2>2, <2>3
  <2>5. x # Funct
    BY RunnerAssumption
  <2> QED  BY <2>4, <2>5
<1>3. dependencies \in [Tests -> Seq(Tests \cup {Funct})]
  <2>1. dependencies = [x \in Tests |-> dependencies[x]]
    BY DEF Init
  <2> QED  BY <1>2, <2>1
<1>4. stack \in Seq(Frames) /\ ran \in Seq(Tests) /\ Len(stack) = 0 /\ Len(ran) = 0
  BY <1>1
<1>5. result \in [Tests -> Results] /\ \A x \in Tests : result[x] = "NOTRUN"
  BY <1>1 DEF Results
<1>6. TypeOK
  <2>1. place \in Nat \ {0}
    BY <1>1
  <2>2. interrupted \in BOOLEAN
    BY <1>1
  <2> QED  BY <1>1, <1>2, <1>3, <1>4, <1>5, <2>1, <2>2 DEF TypeOK
<1>7. CallsOK
  BY <1>4, <1>5 DEF CallsOK, StackOK
<1>8. RanOK
  BY <1>4 DEF RanOK
<1> QED  BY <1>6, <1>7, <1>8 DEF IInv

LEMMA Stuttering ==
  ASSUME IInv, UNCHANGED vars
  PROVE  IInv'
BY SMTT(40) DEF IInv, TypeOK, CallsOK, StackOK, FrameOK, Tried, Considered, RanOK, Top, vars

(* What the calls of _runtree know holds in every state: the tests of the     *)
(* stack wait, each once, and everything a call has passed in its list of     *)
(* dependencies has been tried, for good, whatever runs further down.         *)
THEOREM Invariance == Spec => []IInv
<1>1. IInv /\ [Next]_vars => IInv'
  BY NextTestStep, AskFunctStep, RunDependencyStep, LookAtResultStep, StartTestStep, EndTestStep,
     InterruptStep, Stuttering DEF Next, Step
<1> QED  BY <1>1, Initially, PTL DEF Spec

(* No test is run twice, and none before the tests it depends on have come    *)
(* out well or, with --force, were tried.                                     *)
THEOREM DependenciesComeFirst == Spec => []DependenciesRunFirst
<1>1. IInv => DependenciesRunFirst
  <2> SUFFICES ASSUME IInv
               PROVE  DependenciesRunFirst
    OBVIOUS
  <2>1. ran \in Seq(Tests) /\ DOMAIN ran = 1..Len(ran)
    BY DEF IInv, TypeOK
  <2>2. IsInjective(ran)
    BY <2>1 DEF IInv, RanOK, IsInjective
  <2>3. ASSUME NEW i \in 1..Len(ran), NEW d \in TestsOf(ran[i])
        PROVE  result[d] \in IF force THEN Omitted \cup Ended ELSE Ended \ FailedDependency
    <3>1. PICK x \in Tests : x = ran[i]
      BY <2>1
    <3>2. dependencies[x] \in Seq(Tests \cup {Funct})
      BY DEF IInv, TypeOK
    <3>3. PICK j \in 1..Len(dependencies[x]) : d = dependencies[x][j] /\ d # Funct
      BY <2>3, <3>1, <3>2 DEF TestsOf, Range
    <3> QED  BY <3>1, <3>3 DEF IInv, RanOK, Tried
  <2> QED  BY <2>1, <2>2, <2>3 DEF DependenciesRunFirst
<1> QED  BY <1>1, Invariance, PTL

-----------------------------------------------------------------------------
(* The invariant behind the results                                           *)

OnStack(x) == \E i \in 1..Len(stack) : stack[i].test = x

\* _runtree began with a test, because it was asked for or another needs it.
Called(x) == result[x] \notin {"NOTRUN", "FILTERED"}
Asked(x) ==
  \/ x \in selected
  \/ /\ rundeps
     /\ \E u \in Tests : Called(u) /\ \E i \in 1..Len(dependencies[u]) : dependencies[u][i] = x

\* A dependency that a test is omitted for, for good
Failed(d) == result[d] \in FailedDependency /\ (rundeps => result[d] # "FILTERED")

\* A test got past all its dependencies, or to the one at k, for good...
AllTried(x) ==
  \A j \in 1..Len(dependencies[x]) : dependencies[x][j] # Funct => Tried(dependencies[x][j])
Reached(x, k) ==
  /\ k \in 1..Len(dependencies[x])
  /\ \A j \in 1..Len(dependencies[x]) :
       j < k /\ dependencies[x][j] # Funct => Tried(dependencies[x][j])

\* ...where it was omitted...
OmittedAt(x, k) ==
  Reached(x, k) /\ (dependencies[x][k] # Funct => Failed(dependencies[x][k]))

(* ...or left waiting.  Doomed: the last call looks at a test that waits and  *)
(* has no call any more; it leaves its own test waiting, and so do those      *)
(* before it.  At any other time a test left waiting depends on one that is.  *)
Doomed == stack # <<>> /\ Top.returned /\ result[dep] = "WAIT" /\ ~OnStack(dep)
LeftAt(x, k) ==
  /\ Reached(x, k) /\ dependencies[x][k] # Funct /\ result[dependencies[x][k]] = "WAIT"
  /\ ~Doomed => ~OnStack(dependencies[x][k])

ReasonOK(x) ==
  /\ Called(x) => Asked(x)
  /\ result[x] = "FILTERED" => x \notin selected
  /\ result[x] \in {"RUNNING"} \cup Ended => AllTried(x)
  /\ result[x] = "OMIT" => ~force /\ \E k : OmittedAt(x, k)
  /\ result[x] = "WAIT" /\ ~OnStack(x) => \E k : LeftAt(x, k)

\* Every call but the last waits for the next one to return.
ChainOK ==
  \A i \in 1..(Len(stack) - 1) :
    stack[i].returned /\ dependencies[stack[i].test][stack[i].next] = stack[i + 1].test

ReasonsOK ==
  /\ interrupted => stack # <<>>
  /\ ~interrupted =>
       /\ \A x \in Tests : x < place => result[x] # "NOTRUN"
       /\ \A x \in Tests : ReasonOK(x)
       /\ ChainOK

\* A call begins, goes on or returns: the others stay on the stack.
LEMMA SameCalls ==
  ASSUME Len(stack') = Len(stack), \A i \in 1..Len(stack) : stack'[i].test = stack[i].test
  PROVE  \A y : OnStack(y)' <=> OnStack(y)
BY DEF OnStack

LEMMA CallBegins ==
  ASSUME IInv, NEW d \in Tests, NEW frames \in Seq(Frames), Len(frames) = Len(stack),
         \A i \in 1..Len(stack) : frames[i].test = stack[i].test,
         stack' = Append(frames, Frame(d))
  PROVE  /\ Len(stack') = Len(stack) + 1 /\ stack'[Len(stack) + 1].test = d
         /\ \A i \in 1..Len(stack) : stack'[i] = frames[i]
         /\ OnStack(d)' /\ \A y : y # d => (OnStack(y)' <=> OnStack(y))
<1>1. PICK n \in Nat : n = Len(stack)
  BY DEF IInv, TypeOK
<1>2. PICK g \in Frames : g = Frame(d) /\ g.test = d
  <2>1. PICK g : g = Frame(d)
    OBVIOUS
  <2>2. g \in Frames /\ g.test = d
    BY <2>1 DEF Frame, Frames
  <2> QED  BY <2>1, <2>2
<1>3. /\ Len(stack') = n + 1 /\ stack'[n + 1] = g
      /\ \A i \in 1..n : stack'[i] = frames[i] /\ stack'[i].test = stack[i].test
  BY <1>1, <1>2, Pushed
<1>4. \A i \in 1..(n + 1) : i = n + 1 \/ i \in 1..n
  BY <1>1
<1>5. n + 1 \in 1..(n + 1) /\ \A i \in 1..n : i \in 1..(n + 1)
  BY <1>1
<1>6. OnStack(d)'
  BY <1>2, <1>3, <1>5 DEF OnStack
<1>7. ASSUME NEW y, y # d
      PROVE  OnStack(y)' <=> OnStack(y)
  BY <1>1, <1>2, <1>3, <1>4, <1>5, <1>7 DEF OnStack
<1> QED  BY <1>1, <1>2, <1>3, <1>6, <1>7

LEMMA CallReturns ==
  ASSUME IInv, stack # <<>>, ~interrupted, stack' = Rest
  PROVE  \E n \in Nat \ {0}, f \in Frames, x \in Tests :
           /\ n = Len(stack) /\ stack[n] = f /\ Top = f /\ t = x /\ f.test = x
           /\ Len(stack') = n - 1 /\ \A i \in 1..(n - 1) : stack'[i] = stack[i]
           /\ OnStack(x) /\ ~(OnStack(x)') /\ \A y : y # x => (OnStack(y)' <=> OnStack(y))
<1>1. PICK n \in Nat \ {0}, f \in Frames :
        /\ n = Len(stack) /\ stack[n] = f /\ Top = f /\ t = f.test /\ f.test \in Tests
        /\ Rest \in Seq(Frames) /\ Len(Rest) = n - 1 /\ \A i \in 1..(n - 1) : Rest[i] = stack[i]
  BY TopCall
<1>2. PICK x \in Tests : x = t /\ x = f.test
  BY <1>1
<1>3. Len(stack') = n - 1 /\ \A i \in 1..(n - 1) : stack'[i] = stack[i]
  BY <1>1
<1>4. n \in 1..n /\ \A i \in 1..n : i = n \/ i \in 1..(n - 1)
  OBVIOUS
<1>5. \A i \in 1..(n - 1) : i \in 1..n /\ i # n
  OBVIOUS
<1>6. \A i \in 1..(n - 1) : stack[i].test # x
  BY <1>1, <1>2, <1>4, <1>5 DEF IInv, CallsOK, StackOK
<1>7. OnStack(x)
  BY <1>1, <1>2, <1>4 DEF OnStack
<1>8. ~(OnStack(x)')
  BY <1>3, <1>6 DEF OnStack
<1>9. ASSUME NEW y, y # x
      PROVE  OnStack(y)' <=> OnStack(y)
  BY <1>1, <1>2, <1>3, <1>4, <1>5, <1>9 DEF OnStack
<1> QED  BY <1>1, <1>2, <1>3, <1>7, <1>8, <1>9

\* The test of the last call has no result yet.
LEMMA TopHasNoResult ==
  ASSUME IInv, stack # <<>>, ~interrupted
  PROVE  /\ t \in Tests /\ result[t] \in {"WAIT", "RUNNING"} /\ OnStack(t) /\ FrameOK(Top)
         /\ ~Tried(t) /\ ~Failed(t) /\ Called(t)
<1>1. PICK n \in Nat \ {0}, f \in Frames :
        n = Len(stack) /\ stack[n] = f /\ Top = f /\ t = f.test /\ f.test \in Tests
  BY TopCall
<1>2. n \in 1..n
  OBVIOUS
<1>3. result[t] \in {"WAIT", "RUNNING"} /\ OnStack(t) /\ FrameOK(Top)
  BY <1>1, <1>2 DEF IInv, CallsOK, StackOK, OnStack
<1> QED  BY <1>1, <1>3 DEF Tried, Failed, Called, Omitted, Ended, FailedDependency

(* One test, which was not done, gets another result or enters or leaves the  *)
(* stack: the reasons of the others stay good.                                *)
LEMMA OneChanges ==
  ASSUME IInv, UNCHANGED suite, ~Doomed, NEW x0 \in Tests, ~Tried(x0), ~Failed(x0),
         Called(x0) => Called(x0)', OnStack(x0) \/ result[x0] # "WAIT",
         \A y \in Tests : y # x0 => result'[y] = result[y] /\ (OnStack(y)' <=> OnStack(y))
  PROVE  /\ \A x \in Tests : AllTried(x) => AllTried(x)'
         /\ \A x \in Tests : \A k : OmittedAt(x, k) => OmittedAt(x, k)'
         /\ \A x \in Tests : Asked(x) => Asked(x)'
         /\ \A x \in Tests : x # x0 /\ ReasonOK(x) => ReasonOK(x)'
<1>1. UNCHANGED <<dependencies, selected, force, rundeps>>
  BY DEF suite
<1>2. \A d \in Tests : Tried(d) => Tried(d)'
  BY <1>1 DEF Tried
<1>3. \A d \in Tests : Failed(d) => Failed(d)'
  BY <1>1 DEF Failed
<1>4. \A d \in Tests : Called(d) => Called(d)'
  BY DEF Called
<1>5. \A x \in Tests : \A i \in 1..Len(dependencies[x]) :
        dependencies[x][i] # Funct => dependencies[x][i] \in Tests
  BY TestLists DEF IInv
<1>6. ASSUME NEW x \in Tests, NEW i \in 1..Len(dependencies[x]), dependencies[x][i] # Funct
      PROVE  /\ Tried(dependencies[x][i]) => Tried(dependencies[x][i])'
             /\ Failed(dependencies[x][i]) => Failed(dependencies[x][i])'
             /\ /\ result[dependencies[x][i]] = "WAIT" /\ ~OnStack(dependencies[x][i])
                => /\ result'[dependencies[x][i]] = "WAIT"
                   /\ ~OnStack(dependencies[x][i])'
  <2>1. PICK d \in Tests : d = dependencies[x][i] /\ d = dependencies'[x][i]
    BY <1>1, <1>5, <1>6
  <2>2. result[d] = "WAIT" /\ ~OnStack(d) => result'[d] = "WAIT" /\ ~(OnStack(d)')
    OBVIOUS
  <2> QED  BY <1>2, <1>3, <2>1, <2>2
<1>7. \A x \in Tests : AllTried(x) => AllTried(x)'
  BY <1>1, <1>6 DEF AllTried
<1>8. \A x \in Tests : \A k : Reached(x, k) => Reached(x, k)'
  BY <1>1, <1>6 DEF Reached
<1>9. \A x \in Tests : \A k : Reached(x, k) => k \in 1..Len(dependencies[x])
  BY DEF Reached
<1>10. \A x \in Tests : \A k : OmittedAt(x, k) => OmittedAt(x, k)'
  BY <1>1, <1>6, <1>8, <1>9 DEF OmittedAt
<1>11. \A x \in Tests : Asked(x) => Asked(x)'
  BY <1>1, <1>4 DEF Asked
<1>12. \A x \in Tests : \A k : LeftAt(x, k) => LeftAt(x, k)'
  BY <1>1, <1>6, <1>8, <1>9 DEF LeftAt
<1>13. ASSUME NEW x \in Tests, x # x0, ReasonOK(x)
       PROVE  ReasonOK(x)'
  <2>1. result'[x] = result[x] /\ (OnStack(x)' <=> OnStack(x)) /\ (Called(x)' <=> Called(x))
    BY <1>13 DEF Called
  <2> QED  BY <1>1, <1>7, <1>10, <1>11, <1>12, <1>13, <2>1 DEF ReasonOK
<1> QED  BY <1>7, <1>10, <1>11, <1>13

\* Where a test goes on, nothing has to be said of it.
LEMMA ReasonOfWaiting ==
  ASSUME NEW x, OnStack(x), result[x] = "WAIT", Asked(x)
  PROVE  ReasonOK(x)
BY DEF ReasonOK, Ended

LEMMA NextTestReasons ==
  ASSUME IInv, ReasonsOK, NextTest
  PROVE  ReasonsOK'
<1>1. /\ stack = <<>> /\ place <= NTests /\ ~interrupted /\ place' = place + 1
      /\ UNCHANGED <<suite, ran, interrupted>>
  BY DEF NextTest
<1>2. PICK x0 \in Tests : x0 = place
  BY <1>1, RunnerAssumption DEF IInv, TypeOK, Tests
<1>3. /\ \A x \in Tests : x < place => result[x] # "NOTRUN"
      /\ \A x \in Tests : ReasonOK(x)
  BY <1>1 DEF ReasonsOK
<1>4. ~Doomed /\ ~interrupted'
  BY <1>1 DEF Doomed
<1>5. \A x \in Tests : x < place' => x < place \/ x = x0
  BY <1>1, <1>2 DEF Tests
<1>6. CASE result[x0] # "NOTRUN"
  <2>1. result' = result /\ stack' = stack
    BY <1>2, <1>6 DEF NextTest
  <2>2. UNCHANGED <<dependencies, force, rundeps, selected>>
    BY <1>1 DEF suite
  <2>3. \A x \in Tests : ReasonOK(x)'
    BY SMTT(40), <1>3, <2>1, <2>2 DEF ReasonOK, Called, Asked, AllTried, OmittedAt, Reached, LeftAt, Tried,
       Failed, OnStack, Doomed, Top, t, dep
  <2>4. ChainOK'
    BY <1>1, <2>1 DEF ChainOK
  <2> QED  BY <1>3, <1>4, <1>5, <1>6, <2>1, <2>3, <2>4 DEF ReasonsOK
<1>7. CASE result[x0] = "NOTRUN"
  <2>1. PICK none \in Seq(Frames) : none = <<>> /\ Len(none) = 0
    <3>1. <<>> \in Seq(Frames) /\ Len(<<>>) = 0
      OBVIOUS
    <3> QED  BY <3>1
  <2>2. Call(x0, TRUE, none)
    BY <1>2, <1>7, <2>1 DEF NextTest
  <2>3. /\ result'[x0] \in {"FILTERED", "WAIT"}
        /\ result'[x0] = "WAIT" => stack' = Append(none, Frame(x0))
        /\ result'[x0] = "FILTERED" => stack' = none
        /\ \A y \in Tests : y # x0 => result'[y] = result[y]
    BY <1>1, <1>7, <2>2, CallResult
  <2>4. IF x0 \in selected THEN result'[x0] = "WAIT" ELSE result'[x0] = "FILTERED"
    BY <2>2 DEF Call, IInv, TypeOK
  <2>5. /\ (result'[x0] = "WAIT" => OnStack(x0)')
        /\ \A y \in Tests : y # x0 => (OnStack(y)' <=> OnStack(y))
        /\ Len(stack') \in {0, 1}
    <3>1. Len(none) = Len(stack) /\ Len(stack) = 0
      BY <1>1, <2>1
    <3>2. \A i \in 1..Len(stack) : none[i].test = stack[i].test
      BY <3>1
    <3>3. CASE result'[x0] = "WAIT"
      <4>1. stack' = Append(none, Frame(x0))
        BY <2>3, <3>3
      <4>2. OnStack(x0)' /\ \A y : y # x0 => (OnStack(y)' <=> OnStack(y))
        BY <3>1, <3>2, <4>1, CallBegins
      <4>3. Len(stack') = Len(stack) + 1
        BY <3>1, <3>2, <4>1, CallBegins
      <4> QED  BY <3>1, <4>2, <4>3
    <3>4. CASE result'[x0] = "FILTERED"
      <4>1. stack' = <<>> /\ Len(stack') = Len(stack)
        BY <1>1, <2>1, <2>3, <3>4
      <4>2. \A i \in 1..Len(stack) : stack'[i].test = stack[i].test
        BY <3>1
      <4> QED  BY <3>1, <3>4, <4>1, <4>2, SameCalls
    <3> QED  BY <2>3, <3>3, <3>4
  <2>6. ~Tried(x0) /\ ~Failed(x0) /\ ~Called(x0)
    BY <1>7 DEF Tried, Failed, Called, Omitted, Ended, FailedDependency
  <2>7. \A x \in Tests : x # x0 /\ ReasonOK(x) => ReasonOK(x)'
    BY <1>1, <1>4, <1>7, <2>3, <2>5, <2>6, OneChanges
  <2>8. selected' = selected
    BY <1>1 DEF suite
  <2>9. ReasonOK(x0)'
    BY <2>3, <2>4, <2>5, <2>8 DEF ReasonOK, Asked, Called, Ended
  <2>10. \A x \in Tests : x < place' => result'[x] # "NOTRUN"
    BY <1>3, <1>5, <2>3
  <2>11. ChainOK'
    BY <2>5 DEF ChainOK
  <2> QED  BY <1>3, <1>4, <2>7, <2>9, <2>10, <2>11 DEF ReasonsOK
<1> QED  BY <1>6, <1>7

LEMMA RunDependencyReasons ==
  ASSUME IInv, ReasonsOK, RunDependency
  PROVE  ReasonsOK'
<1>1. /\ InLoop /\ dep # Funct /\ ~Top.returned /\ NeedsRun(dep)
      /\ Call(dep, ~rundeps, Append(Rest, [Top EXCEPT !.returned = TRUE]))
      /\ UNCHANGED <<suite, place, ran, interrupted>>
  BY DEF RunDependency
<1>2. PICK d \in Tests, k \in 1..Len(dependencies[t]) :
        d = dep /\ k = Top.next /\ d = dependencies[t][k]
  BY <1>1, NobodyRuns
<1>3. ~interrupted /\ stack # <<>> /\ \A y \in Tests : result[y] # "RUNNING"
  BY <1>1, NobodyRuns
<1>4. PICK n \in Nat \ {0}, f \in Frames :
        /\ n = Len(stack) /\ stack[n] = f /\ Top = f /\ t = f.test /\ f.test \in Tests
        /\ Rest \in Seq(Frames) /\ Len(Rest) = n - 1 /\ \A i \in 1..(n - 1) : Rest[i] = stack[i]
  BY <1>3, TopCall
<1>5. PICK x \in Tests : x = t /\ result[x] = "WAIT"
  BY <1>3, TopHasNoResult
<1>6. PICK g \in Frames : /\ g = [f EXCEPT !.returned = TRUE]
                          /\ g.test = x /\ g.next = k /\ g.returned = TRUE
  <2>1. PICK g : g = [f EXCEPT !.returned = TRUE]
    OBVIOUS
  <2>2. g \in Frames /\ g.test = f.test /\ g.next = f.next /\ g.returned = TRUE
    BY <2>1 DEF Frames
  <2> QED  BY <1>2, <1>4, <1>5, <2>1, <2>2
<1>7. PICK frames \in Seq(Frames) :
        /\ frames = Append(Rest, g) /\ Len(frames) = n /\ frames[n] = g
        /\ \A i \in 1..(n - 1) : frames[i] = stack[i]
  <2>1. Rest \in Seq(Frames) /\ Len(Rest) = n - 1 /\ n - 1 + 1 = n
    BY <1>4
  <2>2. PICK frames : frames = Append(Rest, g)
    OBVIOUS
  <2>3. frames \in Seq(Frames) /\ Len(frames) = n /\ frames[n] = g
    BY <2>1, <2>2, Pushed
  <2>4. \A i \in 1..(n - 1) : frames[i] = Rest[i]
    BY <2>1, <2>2, Pushed
  <2> QED  BY <1>4, <2>2, <2>3, <2>4
<1>8. \A i \in 1..n : frames[i].test = stack[i].test
  <2>1. \A i \in 1..n : i = n \/ i \in 1..(n - 1)
    OBVIOUS
  <2>2. frames[n].test = stack[n].test
    BY <1>4, <1>5, <1>6, <1>7
  <2> QED  BY <1>7, <2>1, <2>2
<1>9. Call(d, ~rundeps, frames) /\ rundeps \in BOOLEAN
  BY <1>1, <1>2, <1>4, <1>6, <1>7 DEF IInv, TypeOK
<1>10. result[d] = "NOTRUN" \/ (result[d] = "FILTERED" /\ rundeps)
  BY <1>1, <1>2 DEF NeedsRun
<1>11. /\ result'[d] \in {"FILTERED", "WAIT"}
       /\ result'[d] = "WAIT" => stack' = Append(frames, Frame(d))
       /\ result'[d] = "FILTERED" => stack' = frames
       /\ \A y \in Tests : y # d => result'[y] = result[y]
  <2>1. (~rundeps) \in BOOLEAN
    BY <1>9
  <2> QED  BY <1>1, <1>9, <1>10, <2>1, CallResult
<1>12. /\ result'[d] = "WAIT" => rundeps \/ d \in selected
       /\ result'[d] = "FILTERED" => d \notin selected
  BY <1>9 DEF Call, IInv, TypeOK
<1>13. /\ result'[d] = "WAIT" => /\ OnStack(d)' /\ Len(stack') = n + 1 /\ stack'[n + 1].test = d
                                 /\ \A i \in 1..n : stack'[i] = frames[i]
       /\ \A y \in Tests : y # d => (OnStack(y)' <=> OnStack(y))
  <2>1. CASE result'[d] = "WAIT"
    <3>1. stack' = Append(frames, Frame(d))
      BY <1>11, <2>1
    <3>2. Len(frames) = Len(stack) /\ \A i \in 1..Len(stack) : frames[i].test = stack[i].test
      BY <1>4, <1>7, <1>8
    <3>3. /\ Len(stack') = Len(stack) + 1 /\ stack'[Len(stack) + 1].test = d
          /\ \A i \in 1..Len(stack) : stack'[i] = frames[i]
          /\ OnStack(d)' /\ \A y : y # d => (OnStack(y)' <=> OnStack(y))
      BY <3>1, <3>2, CallBegins
    <3> QED  BY <1>4, <3>3
  <2>2. CASE result'[d] = "FILTERED"
    <3>1. Len(stack') = Len(stack) /\ \A i \in 1..Len(stack) : stack'[i].test = stack[i].test
      BY <1>4, <1>7, <1>8, <1>11, <2>2
    <3> QED  BY <2>2, <3>1, SameCalls
  <2> QED  BY <1>11, <2>1, <2>2
<1>14. ~Tried(d) /\ ~Failed(d) /\ ~Called(d) /\ result[d] # "WAIT"
  BY <1>10 DEF Tried, Failed, Called, Omitted, Ended, FailedDependency
<1>15. ~Doomed
  BY <1>1 DEF Doomed
<1>16. /\ \A y \in Tests : y # d /\ ReasonOK(y) => ReasonOK(y)'
       /\ \A y \in Tests : Asked(y) => Asked(y)'
  BY <1>1, <1>11, <1>13, <1>14, <1>15, OneChanges
<1>17. UNCHANGED <<dependencies, selected, rundeps>>
  BY <1>1 DEF suite
<1>18. ReasonOK(d)'
  <2>1. x # d /\ Called(x)'
    BY <1>5, <1>11, <1>14 DEF Called
  <2>2. k \in 1..Len(dependencies'[x]) /\ dependencies'[x][k] = d
    BY <1>2, <1>5, <1>17
  <2>3. result'[d] = "WAIT" => Asked(d)'
    BY <1>12, <1>17, <2>1, <2>2 DEF Asked
  <2>4. CASE result'[d] = "WAIT"
    BY <1>13, <2>3, <2>4 DEF ReasonOK, Ended
  <2>5. CASE result'[d] = "FILTERED"
    BY <1>12, <1>17, <2>5 DEF ReasonOK, Called, Ended
  <2> QED  BY <1>11, <2>4, <2>5
<1>19. ChainOK'
  <2>1. ASSUME NEW i \in 1..(n - 1)
        PROVE  /\ frames[i].returned
               /\ dependencies[frames[i].test][frames[i].next] = frames[i + 1].test
    <3>1. i \in 1..n /\ i + 1 \in 1..n
      OBVIOUS
    <3>2. stack[i].returned /\ dependencies[stack[i].test][stack[i].next] = stack[i + 1].test
      BY <1>3, <1>4 DEF ReasonsOK, ChainOK
    <3> QED  BY <1>7, <1>8, <3>1, <3>2
  <2>2. frames[n].returned /\ dependencies[frames[n].test][frames[n].next] = d
    BY <1>2, <1>5, <1>6, <1>7
  <2>3. CASE result'[d] = "WAIT"
    <3>1. \A i \in 1..n : i = n \/ (i \in 1..(n - 1) /\ i + 1 \in 1..n)
      OBVIOUS
    <3>2. \A i \in 1..n :
            /\ stack'[i].returned
            /\ dependencies[stack'[i].test][stack'[i].next] = stack'[i + 1].test
      BY <1>13, <2>1, <2>2, <2>3, <3>1
    <3>3. Len(stack') - 1 = n
      BY <1>13, <2>3
    <3> QED  BY <1>17, <3>2, <3>3 DEF ChainOK
  <2>4. CASE result'[d] = "FILTERED"
    BY <1>7, <1>11, <1>17, <2>1, <2>4 DEF ChainOK
  <2> QED  BY <1>11, <2>3, <2>4
<1>20. \A y \in Tests : y < place' => result'[y] # "NOTRUN"
  <2>1. \A y \in Tests : y < place => result[y] # "NOTRUN"
    BY <1>3 DEF ReasonsOK
  <2> QED  BY <1>1, <1>11, <2>1
<1> QED  BY <1>1, <1>3, <1>16, <1>18, <1>19, <1>20 DEF ReasonsOK

\* The last call goes on with the next dependency, or its test begins to run.
LEMMA GoesOnReasons ==
  ASSUME IInv, ReasonsOK, stack # <<>>, ~interrupted, ~Doomed,
         UNCHANGED <<suite, place, interrupted>>,
         NEW x0 \in Tests, x0 = t, ReasonOK(x0)', Called(x0)', 
         \A y \in Tests : y # x0 => result'[y] = result[y],
         Len(stack') = Len(stack),
         \A i \in 1..Len(stack) : stack'[i].test = stack[i].test,
         \A i \in 1..(Len(stack) - 1) : stack'[i] = stack[i]
  PROVE  ReasonsOK'
<1>1. PICK n \in Nat \ {0} : n = Len(stack) /\ n = Len(stack')
  BY TopCall
<1>2. ~Tried(x0) /\ ~Failed(x0) /\ OnStack(x0)
  BY TopHasNoResult
<1>3. \A y : OnStack(y)' <=> OnStack(y)
  BY SameCalls
<1>4. \A y \in Tests : y # x0 /\ ReasonOK(y) => ReasonOK(y)'
  BY <1>2, <1>3, OneChanges
<1>5. ChainOK'
  <2>1. \A i \in 1..(n - 1) : i \in 1..n /\ i + 1 \in 1..n
    OBVIOUS
  <2>2. \A i \in 1..(n - 1) :
          stack[i].returned /\ dependencies[stack[i].test][stack[i].next] = stack[i + 1].test
    BY <1>1 DEF ReasonsOK, ChainOK
  <2>3. \A i \in 1..(n - 1) : stack'[i] = stack[i] /\ stack'[i + 1].test = stack[i + 1].test
    BY <1>1, <2>1
  <2>4. dependencies' = dependencies
    BY DEF suite
  <2> QED  BY <1>1, <2>2, <2>3, <2>4 DEF ChainOK
<1>6. stack' # <<>>
  BY <1>1
<1> QED  BY <1>4, <1>5, <1>6 DEF ReasonsOK, Called

\* The last call returns, with a result.
LEMMA LeavesReasons ==
  ASSUME IInv, ReasonsOK, stack # <<>>, ~interrupted, ~Doomed,
         UNCHANGED <<suite, place, interrupted>>, stack' = Rest,
         NEW x0 \in Tests, x0 = t, ReasonOK(x0)', Called(x0)',
         \A y \in Tests : y # x0 => result'[y] = result[y]
  PROVE  ReasonsOK'
<1>1. PICK n \in Nat \ {0} :
        /\ n = Len(stack) /\ Len(stack') = n - 1 /\ \A i \in 1..(n - 1) : stack'[i] = stack[i]
        /\ \A y : y # x0 => (OnStack(y)' <=> OnStack(y))
  <2>1. PICK n \in Nat \ {0}, f \in Frames, x \in Tests :
          /\ n = Len(stack) /\ t = x
          /\ Len(stack') = n - 1 /\ \A i \in 1..(n - 1) : stack'[i] = stack[i]
          /\ \A y : y # x => (OnStack(y)' <=> OnStack(y))
    BY CallReturns
  <2> QED  BY <2>1
<1>2. ~Tried(x0) /\ ~Failed(x0) /\ OnStack(x0)
  BY TopHasNoResult
<1>3. \A y \in Tests : y # x0 /\ ReasonOK(y) => ReasonOK(y)'
  BY <1>1, <1>2, OneChanges
<1>4. ChainOK'
  <2>1. \A i \in 1..(n - 1 - 1) : i \in 1..(n - 1) /\ i + 1 \in 1..(n - 1)
    OBVIOUS
  <2>2. \A i \in 1..(n - 1) :
          stack[i].returned /\ dependencies[stack[i].test][stack[i].next] = stack[i + 1].test
    BY <1>1 DEF ReasonsOK, ChainOK
  <2>3. dependencies' = dependencies
    BY DEF suite
  <2> QED  BY <1>1, <2>1, <2>2, <2>3 DEF ChainOK
<1> QED  BY <1>3, <1>4 DEF ReasonsOK, Called

\* The last call returns and leaves its test waiting.
LEMMA LeavesWaitingReasons ==
  ASSUME IInv, ReasonsOK, InLoop, dep # Funct, result[dep] = "WAIT",
         UNCHANGED <<suite, place, result, interrupted>>, stack' = Rest
  PROVE  ReasonsOK'
<1>1. stack # <<>> /\ ~interrupted /\ Top.next \in 1..Len(dependencies[t]) /\ FrameOK(Top)
      /\ dep = dependencies[t][Top.next]
  BY NobodyRuns
<1>2. PICK n \in Nat \ {0}, f \in Frames, x0 \in Tests :
        /\ n = Len(stack) /\ stack[n] = f /\ Top = f /\ t = x0 /\ f.test = x0
        /\ Len(stack') = n - 1 /\ \A i \in 1..(n - 1) : stack'[i] = stack[i]
        /\ ~(OnStack(x0)') /\ \A y : y # x0 => (OnStack(y)' <=> OnStack(y))
  BY <1>1, CallReturns
<1>3. UNCHANGED <<dependencies, selected, force, rundeps>>
  BY DEF suite
<1>4. result[x0] = "WAIT"
  BY <1>1, <1>2, TopHasNoResult, NobodyRuns
<1>5. \A i \in 1..(n - 1) :
        stack[i].returned /\ dependencies[stack[i].test][stack[i].next] = stack[i + 1].test
  BY <1>1, <1>2 DEF ReasonsOK, ChainOK
<1>6. ChainOK'
  <2>1. \A i \in 1..(n - 1 - 1) : i \in 1..(n - 1) /\ i + 1 \in 1..(n - 1)
    OBVIOUS
  <2> QED  BY <1>2, <1>3, <1>5, <2>1 DEF ChainOK
<1>7. stack' # <<>> => Doomed'
  <2> SUFFICES ASSUME stack' # <<>>
               PROVE  Doomed'
    OBVIOUS
  <2>1. n - 1 \in 1..(n - 1) /\ n - 1 + 1 = n
    <3>1. stack' \in Seq(Frames)
      BY <1>1, <1>2, TopCall
    <3>2. Len(stack') # 0
      BY <3>1
    <3> QED  BY <1>2, <3>2
  <2>2. PICK g : g = stack[n - 1] /\ stack'[n - 1] = g /\ g.returned /\ dependencies[g.test][g.next] = x0
    BY SMTT(40), <1>2, <1>5, <2>1
  <2>3. Top' = g
    BY <1>2, <2>2 DEF Top
  <2>4. dep' = x0
    BY <1>3, <2>2, <2>3 DEF dep, t
  <2> QED  BY <1>2, <1>4, <2>2, <2>3, <2>4 DEF Doomed
<1>8. \A y : OnStack(y)' => Doomed'
  <2>1. ASSUME NEW y, OnStack(y)'
        PROVE  stack' # <<>>
    <3>1. Len(stack') # 0
      BY <1>2, <2>1 DEF OnStack
    <3> QED  BY <3>1
  <2> QED  BY <1>7, <2>1
<1>9. /\ \A y \in Tests : AllTried(y)' <=> AllTried(y)
      /\ \A y \in Tests : \A k : Reached(y, k)' <=> Reached(y, k)
      /\ \A y \in Tests : \A k : OmittedAt(y, k)' <=> OmittedAt(y, k)
      /\ \A y \in Tests : Asked(y)' <=> Asked(y)
      /\ \A y \in Tests : Called(y)' <=> Called(y)
  BY <1>3 DEF AllTried, Reached, OmittedAt, Asked, Called, Failed, Tried
<1>10. ASSUME NEW y \in Tests, NEW k, Reached(y, k), dependencies[y][k] # Funct,
              result[dependencies[y][k]] = "WAIT"
       PROVE  LeftAt(y, k)'
  BY <1>3, <1>8, <1>9, <1>10 DEF LeftAt
<1>11. ASSUME NEW y \in Tests, result[y] = "WAIT", ~(OnStack(y)')
       PROVE  \E k : LeftAt(y, k)'
  <2>1. CASE y = x0
    <3>1. Reached(y, Top.next)
      BY <1>1, <1>2, <2>1 DEF FrameOK, Reached
    <3> QED  BY <1>1, <1>2, <1>10, <2>1, <3>1
  <2>2. CASE y # x0
    <3>1. PICK k : LeftAt(y, k)
      BY <1>1, <1>2, <1>11, <2>2 DEF ReasonsOK, ReasonOK
    <3> QED  BY <1>10, <3>1 DEF LeftAt
  <2> QED  BY <2>1, <2>2
<1>12. \A y \in Tests : ReasonOK(y)'
  <2>1. \A y \in Tests : ReasonOK(y)
    BY <1>1 DEF ReasonsOK
  <2> QED  BY <1>3, <1>9, <1>11, <2>1 DEF ReasonOK
<1>13. \A y \in Tests : y < place => result[y] # "NOTRUN"
  BY <1>1 DEF ReasonsOK
<1> QED  BY <1>1, <1>6, <1>12, <1>13 DEF ReasonsOK

\* A call that is not doomed omits its test, or goes on.
LEMMA OmitsReasons ==
  ASSUME IInv, ReasonsOK, InLoop, ~Doomed, UNCHANGED <<suite, place, ran, interrupted>>,
         Leave("OMIT"), ~force, dep # Funct => Failed(dep)
  PROVE  ReasonsOK'
<1>1. stack # <<>> /\ ~interrupted /\ Top.next \in 1..Len(dependencies[t]) /\ FrameOK(Top)
      /\ dep = dependencies[t][Top.next] /\ dep \in Tests \cup {Funct}
  BY NobodyRuns
<1>2. PICK x0 \in Tests : x0 = t /\ ~Tried(x0) /\ ~Failed(x0) /\ Called(x0) /\ OnStack(x0)
  BY <1>1, TopHasNoResult
<1>3. /\ result' = [result EXCEPT ![x0] = "OMIT"] /\ stack' = Rest
  BY <1>2 DEF Leave
<1>4. result'[x0] = "OMIT" /\ \A y \in Tests : y # x0 => result'[y] = result[y]
  BY <1>3 DEF IInv, TypeOK
<1>5. UNCHANGED <<dependencies, selected, force, rundeps>>
  BY DEF suite
<1>6. PICK k : k = Top.next
  OBVIOUS
<1>7. OmittedAt(x0, k)
  <2>1. Reached(x0, k)
    BY <1>1, <1>2, <1>6 DEF FrameOK, Reached, t
  <2> QED  BY <1>1, <1>2, <1>6, <2>1 DEF OmittedAt
<1>8. PICK n \in Nat \ {0}, f \in Frames, x \in Tests :
        t = x /\ \A y : y # x => (OnStack(y)' <=> OnStack(y))
  BY <1>1, <1>3, CallReturns
<1>9. Called(x0)'
  BY <1>4 DEF Called
<1>10. OmittedAt(x0, k)' /\ (Asked(x0) => Asked(x0)')
  BY <1>2, <1>4, <1>7, <1>8, <1>9, OneChanges
<1>11. Asked(x0)
  BY <1>1, <1>2 DEF ReasonsOK, ReasonOK
<1>12. ReasonOK(x0)'
  BY <1>4, <1>5, <1>10, <1>11 DEF ReasonOK, Ended
<1> QED  BY <1>1, <1>2, <1>3, <1>4, <1>9, <1>12, LeavesReasons

LEMMA GoOnReasons ==
  ASSUME IInv, ReasonsOK, InLoop, ~Doomed, UNCHANGED <<suite, place, result, ran, interrupted>>,
         stack' = GoOn
  PROVE  ReasonsOK'
<1>1. stack # <<>> /\ ~interrupted /\ \A y \in Tests : result[y] # "RUNNING"
  BY NobodyRuns
<1>2. PICK x0 \in Tests : x0 = t /\ Called(x0) /\ OnStack(x0) /\ result[x0] = "WAIT"
  BY <1>1, TopHasNoResult
<1>3. PICK n \in Nat \ {0}, f \in Frames :
        /\ n = Len(stack) /\ stack[n] = f /\ Top = f /\ f.test = x0
        /\ f.next \in Nat \ {0}
        /\ Rest \in Seq(Frames) /\ Len(Rest) = n - 1 /\ \A i \in 1..(n - 1) : Rest[i] = stack[i]
  BY <1>1, <1>2, TopCall
<1>4. PICK g \in Frames : g = [f EXCEPT !.next = f.next + 1, !.returned = FALSE] /\ g.test = x0
  <2>1. PICK m \in Nat \ {0} : m = f.next + 1
    BY <1>3
  <2>2. PICK g : g = [f EXCEPT !.next = m, !.returned = FALSE]
    OBVIOUS
  <2>3. g \in Frames /\ g.test = f.test
    BY <2>2 DEF Frames
  <2> QED  BY <1>3, <2>1, <2>2, <2>3
<1>5. stack' = Append(Rest, g)
  BY <1>3, <1>4 DEF GoOn
<1>6. Len(stack') = n /\ stack'[n] = g /\ \A i \in 1..(n - 1) : stack'[i] = stack[i]
  BY <1>3, <1>5, Pushed
<1>7. \A i \in 1..n : stack'[i].test = stack[i].test
  <2>1. \A i \in 1..n : i = n \/ i \in 1..(n - 1)
    OBVIOUS
  <2>2. stack'[n].test = stack[n].test
    BY <1>3, <1>4, <1>6
  <2> QED  BY <1>6, <2>1, <2>2
<1>8. OnStack(x0)'
  BY <1>2, <1>3, <1>6, <1>7, SameCalls
<1>9. Asked(x0)'
  <2>1. Asked(x0)
    BY <1>1, <1>2 DEF ReasonsOK, ReasonOK
  <2> QED  BY <2>1 DEF Asked, Called, suite
<1>10. ReasonOK(x0)' /\ Called(x0)'
  BY <1>2, <1>8, <1>9 DEF ReasonOK, Called, Ended
<1> QED  BY <1>1, <1>2, <1>3, <1>6, <1>7, <1>10, GoesOnReasons

LEMMA AskFunctReasons ==
  ASSUME IInv, ReasonsOK, AskFunct
  PROVE  ReasonsOK'
<1>1. InLoop /\ dep = Funct /\ UNCHANGED <<suite, place, ran, interrupted>>
  BY DEF AskFunct
<1>2. ~Doomed
  BY <1>1, NobodyRuns DEF Doomed, FrameOK, dep, t
<1>3. CASE stack' = GoOn /\ UNCHANGED result
  BY <1>1, <1>2, <1>3, GoOnReasons
<1>4. CASE ~force /\ Leave("OMIT")
  BY <1>1, <1>2, <1>4, OmitsReasons
<1> QED  BY <1>3, <1>4 DEF AskFunct

LEMMA LookAtResultReasons ==
  ASSUME IInv, ReasonsOK, LookAtResult
  PROVE  ReasonsOK'
<1>1. /\ InLoop /\ dep # Funct /\ (Top.returned \/ ~NeedsRun(dep))
      /\ UNCHANGED <<suite, place, ran, interrupted>>
  BY DEF LookAtResult
<1>2. Considered(dep)
  <2>1. CASE Top.returned
    BY <1>1, <2>1, NobodyRuns DEF FrameOK, t
  <2>2. CASE ~NeedsRun(dep)
    BY <2>2 DEF Considered, NeedsRun
  <2> QED  BY <1>1, <2>1, <2>2
<1>3. CASE result[dep] = "WAIT"
  BY <1>1, <1>3, LeavesWaitingReasons DEF LookAtResult
<1>4. CASE result[dep] # "WAIT"
  <2>1. ~Doomed
    BY <1>4 DEF Doomed
  <2>2. CASE ~force /\ result[dep] \in FailedDependency
    <3>1. Leave("OMIT") /\ Failed(dep)
      BY <1>2, <1>4, <2>2 DEF LookAtResult, Failed, Considered
    <3> QED  BY <1>1, <2>1, <2>2, <3>1, OmitsReasons
  <2>3. CASE ~(~force /\ result[dep] \in FailedDependency)
    <3>1. stack' = GoOn /\ UNCHANGED result
      BY <1>4, <2>3 DEF LookAtResult
    <3> QED  BY <1>1, <2>1, <3>1, GoOnReasons
  <2> QED  BY <2>2, <2>3
<1> QED  BY <1>3, <1>4

\* Where the loop is over, the test got past all its dependencies.
LEMMA LoopOver ==
  ASSUME IInv, stack # <<>>, ~interrupted, Top.next > Len(dependencies[t])
  PROVE  ~Doomed /\ AllTried(t)
<1>1. t \in Tests /\ FrameOK(Top)
  BY TopHasNoResult
<1>2. PICK n \in Nat \ {0}, f \in Frames : Top = f /\ t = f.test /\ f.next \in Nat \ {0}
  BY TopCall
<1>3. Len(dependencies[t]) \in Nat
  BY <1>1, TestLists DEF IInv
<1>4. ~Top.returned
  BY <1>1, <1>2, <1>3 DEF FrameOK
<1>5. \A j \in 1..Len(dependencies[t]) : j < Top.next
  BY <1>2, <1>3
<1>6. AllTried(t)
  BY <1>1, <1>2, <1>5 DEF FrameOK, AllTried
<1> QED  BY <1>4, <1>6 DEF Doomed

LEMMA StartTestReasons ==
  ASSUME IInv, ReasonsOK, StartTest
  PROVE  ReasonsOK'
<1>1. /\ stack # <<>> /\ ~interrupted /\ Top.next > Len(dependencies[t]) /\ result[t] # "RUNNING"
      /\ result' = [result EXCEPT ![t] = "RUNNING"]
      /\ UNCHANGED <<suite, place, stack, interrupted>>
  BY DEF StartTest
<1>2. PICK x0 \in Tests :
        x0 = t /\ ~Tried(x0) /\ ~Failed(x0) /\ Called(x0) /\ OnStack(x0) /\ AllTried(x0)
  BY <1>1, TopHasNoResult, LoopOver
<1>3. result'[x0] = "RUNNING" /\ \A y \in Tests : y # x0 => result'[y] = result[y]
  BY <1>1, <1>2 DEF IInv, TypeOK
<1>4. Called(x0)' /\ ~Doomed
  BY <1>1, <1>3, LoopOver DEF Called
<1>5. \A y : OnStack(y)' <=> OnStack(y)
  BY <1>1 DEF OnStack
<1>6. AllTried(x0)' /\ (Asked(x0) => Asked(x0)')
  BY <1>1, <1>2, <1>3, <1>4, <1>5, OneChanges
<1>7. Asked(x0)
  BY <1>1, <1>2 DEF ReasonsOK, ReasonOK
<1>8. ReasonOK(x0)'
  BY <1>3, <1>6, <1>7 DEF ReasonOK
<1> QED  BY <1>1, <1>2, <1>3, <1>4, <1>8, GoesOnReasons

LEMMA EndTestReasons ==
  ASSUME IInv, ReasonsOK, EndTest
  PROVE  ReasonsOK'
<1>1. /\ stack # <<>> /\ ~interrupted /\ result[t] = "RUNNING"
      /\ UNCHANGED <<suite, place, ran, interrupted>>
  BY DEF EndTest
<1>2. PICK v \in Ended : result' = [result EXCEPT ![t] = v] /\ stack' = Rest
  BY RunnerAssumption DEF EndTest, Leave
<1>3. PICK x0 \in Tests : x0 = t /\ ~Tried(x0) /\ ~Failed(x0) /\ Called(x0) /\ OnStack(x0)
  BY <1>1, TopHasNoResult
<1>4. Top.next > Len(dependencies[t])
  BY <1>1, <1>3 DEF IInv, CallsOK, StackOK
<1>5. AllTried(x0) /\ ~Doomed
  BY <1>1, <1>3, <1>4, LoopOver
<1>6. result'[x0] = v /\ \A y \in Tests : y # x0 => result'[y] = result[y]
  BY <1>2, <1>3 DEF IInv, TypeOK
<1>7. Called(x0)'
  BY <1>6 DEF Called, Ended
<1>8. PICK n \in Nat \ {0}, f \in Frames, x \in Tests :
        t = x /\ \A y : y # x => (OnStack(y)' <=> OnStack(y))
  BY <1>1, <1>2, CallReturns
<1>9. AllTried(x0)' /\ (Asked(x0) => Asked(x0)')
  BY <1>1, <1>3, <1>5, <1>6, <1>7, <1>8, OneChanges
<1>10. Asked(x0)
  BY <1>1, <1>3 DEF ReasonsOK, ReasonOK
<1>11. ReasonOK(x0)'
  BY <1>6, <1>9, <1>10 DEF ReasonOK, Ended
<1> QED  BY <1>1, <1>2, <1>3, <1>5, <1>6, <1>7, <1>11, LeavesReasons

LEMMA ReasonsInitially ==
  ASSUME Init
  PROVE  ReasonsOK
<1>1. place = 1 /\ stack = <<>> /\ interrupted = FALSE /\ \A x \in Tests : result[x] = "NOTRUN"
  BY DEF Init
<1>2. \A x \in Tests : ~(x < 1)
  BY DEF Tests
<1> QED  BY <1>1, <1>2 DEF ReasonsOK, ReasonOK, ChainOK, Called, Ended

LEMMA ReasonsUnchanged ==
  ASSUME ReasonsOK, UNCHANGED vars
  PROVE  ReasonsOK'
BY SMTT(40) DEF ReasonsOK, ReasonOK, ChainOK, Called, Asked, AllTried, Reached, OmittedAt, LeftAt,
   Tried, Failed, OnStack, Doomed, Top, t, dep, vars

(* At every moment of a run that was not interrupted, every result has its    *)
(* reason: a test that _runtree began was asked for or is needed by one it    *)
(* began, one that ran got past all its dependencies, one that was omitted    *)
(* got past all up to one that failed, and one that was left waiting got past *)
(* all up to one that was left waiting too, or is about to be.                *)
THEOREM ReasonsStay == Spec => []ReasonsOK
<1>1. IInv /\ ReasonsOK /\ [Next]_vars => ReasonsOK'
  <2> SUFFICES ASSUME IInv, ReasonsOK, [Next]_vars
               PROVE  ReasonsOK'
    OBVIOUS
  <2>1. CASE Interrupt
    BY <2>1 DEF Interrupt, ReasonsOK
  <2>2. CASE Step
    BY <2>2, NextTestReasons, AskFunctReasons, RunDependencyReasons, LookAtResultReasons,
       StartTestReasons, EndTestReasons DEF Step
  <2>3. CASE UNCHANGED vars
    BY <2>3, ReasonsUnchanged
  <2> QED  BY <2>1, <2>2, <2>3 DEF Next
<1> QED  BY <1>1, ReasonsInitially, Invariance, PTL DEF Spec

(* In the end every test has been considered, and is skipped only for a       *)
(* failed dependency, filtered only when neither asked for nor needed, and    *)
(* left waiting only for a circle of dependencies.                            *)
THEOREM EveryResultHasItsReason == Spec => []ResultsHaveReasons
<1>1. IInv /\ ReasonsOK => ResultsHaveReasons
  <2> SUFFICES ASSUME IInv, ReasonsOK, Over, NEW x \in Tests
               PROVE  \/ result[x] \in Ended /\ (x \in selected \/ Needed(x))
                      \/ /\ result[x] = "OMIT" /\ ~force
                         /\ \E d \in Range(dependencies[x]) : d = Funct \/ result[d] \in FailedDependency
                      \/ result[x] = "FILTERED" /\ x \notin selected /\ NotNeeded(x)
                      \/ result[x] = "WAIT" /\ x \in Circular
    BY DEF ResultsHaveReasons
  <2>1. ~interrupted /\ stack = <<>> /\ Len(stack) = 0 /\ place > NTests
    BY DEF Over, ReasonsOK
  <2>2. \A y \in Tests : y < place
    BY <2>1, RunnerAssumption DEF Tests, IInv, TypeOK
  <2>3. \A y \in Tests : result[y] \in {"WAIT", "OMIT", "FILTERED"} \cup Ended
    BY <2>1, <2>2 DEF ReasonsOK, IInv, TypeOK, CallsOK, StackOK, Results, Omitted
  <2>4. \A y : ~OnStack(y)
    BY <2>1 DEF OnStack
  <2>5. \A y \in Tests : ReasonOK(y)
    BY <2>1 DEF ReasonsOK
  <2>6. \A y \in Tests :
          /\ DOMAIN dependencies[y] = 1..Len(dependencies[y]) /\ Len(dependencies[y]) \in Nat
          /\ \A i \in 1..Len(dependencies[y]) :
               /\ dependencies[y][i] \in Range(dependencies[y])
               /\ dependencies[y][i] # Funct => /\ dependencies[y][i] \in TestsOf(y)
                                                /\ dependencies[y][i] \in Tests
    <3>1. \A y \in Tests : dependencies[y] \in Seq(Tests \cup {Funct})
      BY DEF IInv, TypeOK
    <3> QED  BY <3>1 DEF TestsOf, Range
  <2>7. x # Funct
    BY RunnerAssumption
  <2>8. CASE result[x] \in Ended
    <3>1. Asked(x)
      BY <2>5, <2>8 DEF ReasonOK, Called, Ended
    <3>2. ASSUME rundeps, NEW u \in Tests, Called(u), NEW i \in 1..Len(dependencies[u]),
                 dependencies[u][i] = x
          PROVE  Needed(x)
      BY <2>6, <2>7, <3>2 DEF Needed, Called
    <3> QED  BY <2>8, <3>1, <3>2 DEF Asked
  <2>9. CASE result[x] = "OMIT"
    <3>1. PICK k : OmittedAt(x, k) /\ ~force
      BY <2>5, <2>9 DEF ReasonOK
    <3>2. k \in 1..Len(dependencies[x]) /\ (dependencies[x][k] # Funct => Failed(dependencies[x][k]))
      BY <3>1 DEF OmittedAt, Reached
    <3> QED  BY <2>6, <2>9, <3>1, <3>2 DEF Failed
  <2>10. CASE result[x] = "FILTERED"
    <3>1. rundeps => ~Tried(x) /\ ~Failed(x) /\ result[x] # "WAIT"
      BY <2>10 DEF Tried, Failed
    <3>2. ASSUME rundeps, NEW u \in Tests, NEW i \in DOMAIN dependencies[u],
                 dependencies[u][i] = x, result[u] # "FILTERED"
          PROVE  EndsBefore(u, i)
      <4>1. i \in 1..Len(dependencies[u]) /\ Len(dependencies[u]) \in Nat
        BY <2>6
      <4>2. ~AllTried(u)
        BY <2>7, <3>1, <3>2, <4>1 DEF AllTried
      <4>3. \A k : Reached(u, k) => k \in 1..Len(dependencies[u]) /\ k <= i
        BY <2>7, <3>1, <3>2, <4>1 DEF Reached
      <4>4. PICK k : /\ Reached(u, k)
                     /\ \/ dependencies[u][k] = Funct
                        \/ dependencies[u][k] # Funct /\ Failed(dependencies[u][k])
                        \/ dependencies[u][k] # Funct /\ result[dependencies[u][k]] = "WAIT"
        BY <2>3, <2>4, <2>5, <3>2, <4>2 DEF ReasonOK, OmittedAt, LeftAt
      <4>5. k # i
        BY <2>7, <3>1, <3>2, <4>4
      <4>6. k \in 1..(i - 1)
        BY <4>1, <4>3, <4>4, <4>5
      <4> QED  BY <4>4, <4>6 DEF EndsBefore, Failed
    <3>3. x \notin selected
      BY <2>5, <2>10 DEF ReasonOK
    <3> QED  BY <2>10, <3>2, <3>3 DEF NotNeeded
  <2>11. CASE result[x] = "WAIT"
    <3>1. PICK xs \in SUBSET Tests : xs = {y \in Tests : result[y] = "WAIT"}
      OBVIOUS
    <3>2. ASSUME NEW y \in xs
          PROVE  TestsOf(y) \cap xs # {}
      <4>1. PICK k : LeftAt(y, k)
        BY <2>4, <2>5, <3>1 DEF ReasonOK
      <4>2. /\ k \in 1..Len(dependencies[y]) /\ dependencies[y][k] # Funct
            /\ result[dependencies[y][k]] = "WAIT"
        BY <4>1 DEF LeftAt, Reached
      <4>3. dependencies[y][k] \in TestsOf(y) /\ dependencies[y][k] \in xs
        BY <2>6, <3>1, <4>2
      <4> QED  BY <4>3
    <3> QED  BY <2>11, <3>1, <3>2 DEF Circular
  <2> QED  BY <2>3, <2>8, <2>9, <2>10, <2>11
<1> QED  BY <1>1, Invariance, ReasonsStay, PTL
==============================================================================
