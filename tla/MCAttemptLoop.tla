---------------------------- MODULE MCAttemptLoop ----------------------------
(* Small instances of AttemptLoop. *)
EXTENDS AttemptLoop

CONSTANTS L, M, a, b, c

T(logical, account) == [logical |-> logical, account |-> account]

\* A route with two logical targets, one of them with two accounts; the same
\* with the session's account of L in front; the two logical targets on one
\* account; and a direct request with two accounts.
SmallPlans ==
  {<<T(L, a), T(L, b), T(M, c)>>, <<T(L, b), T(M, c), T(L, a)>>,
   <<T(L, a), T(M, a)>>, <<T(None, a), T(None, b)>>}

SmallTriggers == {Trigger, {"on429", "onTimeout"}, {}}
=============================================================================
