---------------------------- MODULE ExactlyOnce ----------------------------
(* What the slots of an NFSv4.1 session promise a client: each call on a slot *)
(* is carried out once, after it is asked and before it is answered, and the  *)
(* answer is what came of it; or, if the client did not want its reply kept,  *)
(* that the outcome is no longer known.  A COMPOUND may carry the calls of    *)
(* several slots.                                                             *)
EXTENDS Naturals

CONSTANT Callers

VARIABLES
  phase,   \* phase[s]: the call of s is over, asked, or carried out
  calls,   \* calls[s]: how many calls s has made
  outcome, \* outcome[s]: what came of the current call
  answer   \* answer[s]: what the caller was told of it

vars == <<phase, calls, outcome, answer>>

Outcomes == {"OK", "FAILED"}

Init ==
  /\ phase = [s \in Callers |-> "idle"]
  /\ calls = [s \in Callers |-> 0]
  /\ outcome = [s \in Callers |-> "none"]
  /\ answer = [s \in Callers |-> "none"]

Ask(S) ==
  /\ \A s \in S : phase[s] = "idle"
  /\ phase' = [s \in Callers |-> IF s \in S THEN "asked" ELSE phase[s]]
  /\ calls' = [s \in Callers |-> IF s \in S THEN calls[s] + 1 ELSE calls[s]]
  /\ outcome' = [s \in Callers |-> IF s \in S THEN "none" ELSE outcome[s]]
  /\ answer' = [s \in Callers |-> IF s \in S THEN "none" ELSE answer[s]]

Execute(S) ==
  /\ \A s \in S : phase[s] = "asked"
  /\ phase' = [s \in Callers |-> IF s \in S THEN "done" ELSE phase[s]]
  /\ \E o \in [S -> Outcomes] :
       outcome' = [s \in Callers |-> IF s \in S THEN o[s] ELSE outcome[s]]
  /\ UNCHANGED <<calls, answer>>

Answer(S) ==
  /\ \A s \in S : phase[s] = "done"
  /\ phase' = [s \in Callers |-> IF s \in S THEN "idle" ELSE phase[s]]
  /\ \E a \in [S -> Outcomes \cup {"RETRY_UNCACHED_REP"}] :
       /\ \A s \in S : a[s] \in {outcome[s], "RETRY_UNCACHED_REP"}
       /\ answer' = [s \in Callers |-> IF s \in S THEN a[s] ELSE answer[s]]
  /\ UNCHANGED <<calls, outcome>>

Next == \E S \in SUBSET Callers : Ask(S) \/ Execute(S) \/ Answer(S)

Spec == Init /\ [][Next]_vars
=============================================================================
