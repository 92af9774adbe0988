---------------------------- MODULE MCHostedAuth ----------------------------
(* Constants for model checking HostedAuth.                                *)
EXTENDS HostedAuth, TLC

\* One statement that fails, or one restart, expiry, exclusion or lost answer,
\* while browsers log in, or while one logs in or out beside requests.
Failing(n, m, kinds) == [faults |-> n, mishaps |-> m, kinds |-> kinds]
MCBudgets ==
  {Failing(1, 0, {"login", "callback"}), Failing(1, 0, {"callback", "logout", "act"}),
   Failing(0, 1, {"callback"}), Failing(0, 1, {"logout", "act"}), Failing(0, 1, {"triage", "read"})}

Alike == Permutations(Calls) \cup Permutations(Identities) \cup Permutations(Browsers)
=============================================================================
