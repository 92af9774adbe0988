------------------------------ MODULE MCConsole -----------------------------
(* The parts of the console, one of them open: a list walked page by page, *)
(* the live view, the settings, or the way to a workspace.  They share the *)
(* browser and nothing that the properties look at.                        *)
EXTENDS HistoryPages, LiveObservation, SettingsPages, WorkspaceGate

CONSTANTS ann, bob  \* two organizations, by the names of their first owners

VARIABLE open  \* the part that is open

\* The first and the last event are of one group; the second group is the
\* measure of the first one in another unit.
MCGroupOf == [e \in Events |-> IF e = 4 THEN 1 ELSE e]
MCWithoutUnit == [g \in 1..3 |-> IF g = 3 THEN 3 ELSE 1]

\* A long drain, a full buffer, and failures between polls.
MCLiveBounds == {[ticks |-> 3, polls |-> 2, writes |-> 2, turns |-> 1],
                 [ticks |-> 1, polls |-> 3, writes |-> 3, turns |-> 1],
                 [ticks |-> 4, polls |-> 3, writes |-> 1, turns |-> 1]}

\* The user owns one organization and is an admin of the other.
MCMine == [o \in Organizations |-> IF o = ann THEN "owner" ELSE "admin"]
MCMember == [o \in Organizations |-> IF o = ann THEN "admin" ELSE "member"]

\* Two changes, and a change beside one of somebody else.
MCSettingsBounds == {[calls |-> 2, others |-> 0, turns |-> 2],
                     [calls |-> 1, others |-> 1, turns |-> 2]}

\* A project with two environments, and two projects of one organization.
MCHomeOf == <<1, 2, 3, 3, 4>>
MCEnvironmentsOf == <<{1, 2}, {2}, {1}, {1}, {1}>>

\* Retries of the setup, and links followed, each beside removals and failures.
MCGateBounds == {[submits |-> 3, others |-> 1, turns |-> 0],
                 [submits |-> 2, others |-> 2, turns |-> 0],
                 [submits |-> 0, others |-> 1, turns |-> 4],
                 [submits |-> 0, others |-> 2, turns |-> 3]}

\* A part that is not there stays at one of its initial states.
HistoryClosed == view = "events" /\ \A e \in Events : stored[e] = 0
LiveClosed == left = CHOOSE b \in LiveBounds : TRUE
SettingsClosed == spare = CHOOSE b \in SettingsBounds : TRUE
GateClosed == memberOf = {} /\ session /\ room = CHOOSE b \in GateBounds : TRUE

Init ==
  /\ open \in {"history", "live", "settings", "workspace"}
  /\ HistoryInit /\ (open # "history" => HistoryClosed)
  /\ LiveInit /\ (open # "live" => LiveClosed)
  /\ SettingsInit /\ (open # "settings" => SettingsClosed)
  /\ GateInit /\ (open # "workspace" => GateClosed)

Next ==
  \/ open = "history" /\ HistoryNext /\ UNCHANGED <<open, liveVars, settingsVars, gateVars>>
  \/ open = "live" /\ LiveNext /\ UNCHANGED <<open, historyVars, settingsVars, gateVars>>
  \/ open = "settings" /\ SettingsNext /\ UNCHANGED <<open, historyVars, liveVars, gateVars>>
  \/ open = "workspace" /\ GateNext /\ UNCHANGED <<open, historyVars, liveVars, settingsVars>>

Spec == Init /\ [][Next]_<<open, historyVars, liveVars, settingsVars, gateVars>>
=============================================================================
