-------------------------- MODULE MCIssueLifecycle --------------------------
(* IssueLifecycle with a few concurrent calls on one issue.                *)
EXTENDS IssueLifecycle, TLC

CONSTANTS w1, w2, w3
=============================================================================
