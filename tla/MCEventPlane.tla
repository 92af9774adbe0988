---------------------------- MODULE MCEventPlane ----------------------------
(* Model values for EventPlane: envelope e1, of two events, is posted by   *)
(* two requests (one message id); envelope e2 does not decode.             *)
EXTENDS EventPlane, TLC

CONSTANTS e1, e2, r1, r2, r3, a, b, c

MCContents == [e \in Envelopes |-> IF e = e1 THEN {a, b} ELSE {c}]
MCCarries == [r \in Requests |-> IF r \in {r1, r2} THEN e1 ELSE e2]

\* Workers and stream messages are interchangeable.
Symmetry == Permutations(Workers) \cup Permutations(Messages)
=============================================================================
