--------------------------- MODULE IssueLifecycle ---------------------------
(***************************************************************************)
(* The lifecycle of one issue (apps/api/src/postgres-issue-lifecycle.ts):  *)
(* its row in issue_lifecycle and its rows in issue_lifecycle_history,     *)
(* written by concurrent transactions of PostgresIssueLifecycleStore.set.  *)
(*                                                                         *)
(* PostgreSQL runs them at READ COMMITTED: a statement sees what was       *)
(* committed when it starts, SELECT ... FOR UPDATE locks the rows it finds *)
(* and nothing when it finds none, INSERT ... ON CONFLICT waits for a      *)
(* transaction that inserted or locked the same key, and now() is the time *)
(* the transaction began.                                                  *)
(***************************************************************************)
EXTENDS Integers, Sequences

CONSTANTS
  Writers,    \* calls of set for the issue, one transaction each
  Statuses,   \* statuses they ask for: "open", "resolved", "ignored"
  Absent,     \* no row, or no previous status (null)
  Existing,   \* the row's status before the calls, or Absent
  NoWriter    \* nobody

ASSUME StatusesAssumption == Absent \notin Statuses /\ Existing \in Statuses \cup {Absent}
ASSUME WritersAssumption == NoWriter \notin Writers

VARIABLES
  row,      \* committed status of the issue
  history,  \* committed history rows, in the order of their ids
  lock,     \* the transaction that holds the key's row or uncommitted insert
  writer,   \* what each transaction has done
  clock     \* transactions begun so far

vars == <<row, history, lock, writer, clock>>

HistoryRow == [previous : Statuses \cup {Absent}, status : Statuses, changedAt : Nat]

TypeOK ==
  /\ row \in Statuses \cup {Absent}
  /\ history \in Seq(HistoryRow)
  /\ lock \in Writers \cup {NoWriter}
  /\ writer \in [Writers -> [pc : {"new", "begun", "selected", "written", "unchanged", "done"},
                             status : Statuses \cup {Absent},
                             previous : Statuses \cup {Absent},
                             began : Nat]]
  /\ clock \in Nat

Init ==
  /\ row = Existing
  /\ history = <<>>
  /\ lock = NoWriter
  /\ writer = [w \in Writers |-> [pc |-> "new", status |-> Absent, previous |-> Absent, began |-> 0]]
  /\ clock = 0

Begin(w) ==
  /\ writer[w].pc = "new"
  /\ clock' = clock + 1
  /\ \E status \in Statuses :
       writer' = [writer EXCEPT ![w] = [@ EXCEPT !.pc = "begun", !.status = status,
                                                 !.began = clock + 1]]
  /\ UNCHANGED <<row, history, lock>>

\* Mutant: SELECT without FOR UPDATE.
SelectUnlocked(w) ==
  /\ writer[w].pc = "begun"
  /\ row # Absent
  /\ writer' = [writer EXCEPT ![w] =
       [@ EXCEPT !.previous = row,
                 !.pc = IF row = writer[w].status THEN "unchanged" ELSE "selected"]]
  /\ UNCHANGED <<row, history, lock, clock>>

\* SELECT status ... FOR UPDATE finds the row, after its lock is free; a write of
\* the status it has returns early.
SelectRow(w) ==
  /\ writer[w].pc = "begun"
  /\ row # Absent /\ lock = NoWriter
  /\ lock' = w
  /\ writer' = [writer EXCEPT ![w] =
       [@ EXCEPT !.previous = row,
                 !.pc = IF row = writer[w].status THEN "unchanged" ELSE "selected"]]
  /\ UNCHANGED <<row, history, clock>>

\* It finds no committed row: nothing is locked.
SelectNothing(w) ==
  /\ writer[w].pc = "begun"
  /\ row = Absent
  /\ writer' = [writer EXCEPT ![w].pc = "selected"]
  /\ UNCHANGED <<row, history, lock, clock>>

\* The upsert, once no other transaction holds the key, and the insert into the
\* history; both are visible when the transaction commits.
Upsert(w) ==
  /\ writer[w].pc = "selected"
  /\ lock \in {NoWriter, w}
  /\ lock' = w
  /\ writer' = [writer EXCEPT ![w].pc = "written"]
  /\ UNCHANGED <<row, history, clock>>

Release(w) == lock' = IF lock = w THEN NoWriter ELSE lock

Logged(w) ==
  [previous |-> writer[w].previous, status |-> writer[w].status, changedAt |-> writer[w].began]

Commit(w) ==
  /\ writer[w].pc \in {"written", "unchanged"}
  /\ IF writer[w].pc = "written"
     THEN row' = writer[w].status /\ history' = Append(history, Logged(w))
     ELSE UNCHANGED <<row, history>>
  /\ Release(w)
  /\ writer' = [writer EXCEPT ![w].pc = "done"]
  /\ UNCHANGED clock

\* A statement fails or the connection is lost.
Rollback(w) ==
  /\ writer[w].pc \in {"begun", "selected", "written", "unchanged"}
  /\ Release(w)
  /\ writer' = [writer EXCEPT ![w].pc = "done"]
  /\ UNCHANGED <<row, history, clock>>

Statement(w) == SelectRow(w) \/ SelectNothing(w) \/ Upsert(w) \/ Commit(w)

Next == \E w \in Writers : Begin(w) \/ Statement(w) \/ Rollback(w)

Spec == Init /\ [][Next]_vars

-----------------------------------------------------------------------------
(* Correctness.                                                            *)

\* The status an issue has, and readers see: no row means open (ADR-043).
Status(r) == IF r = Absent THEN "open" ELSE r

\* The history explains the row: it leads from the status before the calls to
\* the status now, every row starting where the one before it ended.  A row
\* that found none is the exception; it says so with a null.
HistoryLeadsToRow ==
  /\ history # <<>> => row = history[Len(history)].status
  /\ \A i \in DOMAIN history :
       history[i].previous \in {Absent, IF i = 1 THEN Existing ELSE history[i - 1].status}

-----------------------------------------------------------------------------
(* What the documentation says and the code does not keep.                 *)

\* ADR-044 "Record a history row transactionally whenever an issue lifecycle
\* status actually changes.  Idempotent writes do not create duplicate history".
OnlyChangesAreRecorded == [][history' # history => Status(row') # Status(row)]_vars

\* ADR-044 "query it ... in reverse chronological order": the row listed first,
\* by changed_at and id, is the latest change.
ListedBefore(i, j) ==
  \/ history[i].changedAt > history[j].changedAt
  \/ history[i].changedAt = history[j].changedAt /\ i > j
LatestIsListedFirst ==
  \A i \in DOMAIN history :
    (\A j \in DOMAIN history \ {i} : ListedBefore(i, j)) => history[i].status = row
=============================================================================
