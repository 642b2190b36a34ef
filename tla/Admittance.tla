----------------------------- MODULE Admittance -----------------------------
(* Who is let in: administrators by their password and sessions, clients by their  *)
(* virtual keys and addresses. The two share no state.                             *)
EXTENDS Access, KeyPolicy

\* Nobody is let in by what was taken away: a change of the password that was carried
\* through ends the sessions before it, a revoked key stays revoked and admits no
\* request, and the limiter holds.
OnlyTheAdmittedPass ==
  /\ AccessTypeOK /\ ChangeEndsSessions
  /\ KeyTypeOK /\ RevocationSticks /\ AdmittedIsActive /\ LimiterHolds
=============================================================================
