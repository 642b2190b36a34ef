------------------------------ MODULE ProbeLease ------------------------------
(***************************************************************************)
(* What a circuit breaker promises its callers, without time, evidence or  *)
(* generations: while it is not closed at most one attempt at a time is    *)
(* let through to probe the provider, and only that attempt's verdict      *)
(* decides what happens next.                                              *)
(***************************************************************************)
CONSTANTS Attempts, NoProber

VARIABLES
  mode,    \* "Closed", "Open" or "HalfOpen"
  prober   \* the attempt probing the provider, or NoProber

vars == <<mode, prober>>

Init == mode = "Closed" /\ prober = NoProber

\* Correlated failures open the breaker.
Trip == mode = "Closed" /\ mode' = "Open" /\ UNCHANGED prober

\* One attempt is let through.
Admit(a) ==
  /\ mode # "Closed" /\ prober = NoProber
  /\ mode' = "HalfOpen" /\ prober' = a

\* The probe's verdict: the provider is back, is still failing (or the probe
\* was abandoned), or the answer says nothing about the provider.
Verdict(a) ==
  /\ prober = a
  /\ prober' = NoProber
  /\ mode' \in {"Closed", "Open", "HalfOpen"}

Next == Trip \/ \E a \in Attempts : Admit(a) \/ Verdict(a)

Spec == Init /\ [][Next]_vars
=============================================================================
