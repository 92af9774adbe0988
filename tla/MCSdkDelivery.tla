---------------------------- MODULE MCSdkDelivery ---------------------------
(* Model values for SdkDelivery.                                           *)
EXTENDS SdkDelivery, TLC

\* Every routine event is context of every later urgent one.
MCNearby == {<<r, u>> \in (Events \ Urgent) \X Urgent : r < u}

\* Event 1 is larger, and too large for a keepalive flush.
MCSize == [e \in Events |-> IF e = 1 THEN 2 ELSE 1]
MCAppOptions == {Everything}
=============================================================================
