------------------------ MODULE IssueLifecycleProofs -------------------------
(***************************************************************************)
(* The history of an issue explains its status, for every number of        *)
(* concurrent writers and every set of statuses, whether the row exists    *)
(* before them or not.                                                     *)
(***************************************************************************)
EXTENDS IssueLifecycle, SequenceTheorems, TLAPS

USE StatusesAssumption, WritersAssumption

-----------------------------------------------------------------------------
(* The inductive invariant: what a transaction knows while it holds the    *)
(* lock, and what it does not while it holds none.                         *)

\* What a writer has read of the row is the row while the lock is its own.  One
\* that has selected without a lock has found nothing.
WriterOK(w) ==
  /\ writer[w].pc \notin {"new", "done"} => writer[w].status \in Statuses
  /\ writer[w].pc \in {"new", "begun"} => writer[w].previous = Absent
  /\ writer[w].pc \in {"written", "unchanged"} => lock = w
  /\ lock = w => writer[w].pc \in {"selected", "written", "unchanged"}
  /\ writer[w].pc \in {"selected", "written"} => writer[w].previous \in {Absent, row}
  /\ writer[w].pc = "selected" /\ lock # w => writer[w].previous = Absent

WritersOK == \A w \in Writers : WriterOK(w)

FirstRow == history = <<>> => row = Existing

IInv == TypeOK /\ WritersOK /\ FirstRow /\ HistoryLeadsToRow

\* The rows that a commit may add, and what they do to the history.
LEMMA CommitKeepsHistory ==
  ASSUME TypeOK, FirstRow, HistoryLeadsToRow,
         NEW h \in HistoryRow, h.previous \in {Absent, row},
         history' = Append(history, h), row' = h.status
  PROVE  HistoryLeadsToRow' /\ FirstRow' /\ history' \in Seq(HistoryRow)
<1> history \in Seq(HistoryRow)
  BY DEF TypeOK
<1>1. /\ history' \in Seq(HistoryRow)
      /\ Len(history') = Len(history) + 1
      /\ history'[Len(history) + 1] = h
      /\ \A i \in 1 .. Len(history) : history'[i] = history[i]
  BY AppendProperties
<1>2. history' # <<>> /\ DOMAIN history' = 1 .. Len(history) + 1 /\ Len(history) \in Nat
  BY <1>1, LenProperties, EmptySeq
<1>3. ASSUME NEW i \in DOMAIN history'
      PROVE  history'[i].previous \in {Absent, IF i = 1 THEN Existing ELSE history'[i - 1].status}
  <2>1. CASE i = Len(history) + 1 /\ history = <<>>
    BY <1>1, <2>1, EmptySeq DEF FirstRow
  <2>2. CASE i = Len(history) + 1 /\ history # <<>>
    <3>1. Len(history) # 0
      BY <2>2, EmptySeq
    <3>2. i # 1 /\ history'[i - 1] = history[Len(history)]
      BY <1>1, <1>2, <2>2, <3>1
    <3> QED
      BY <1>1, <2>2, <3>2 DEF HistoryLeadsToRow
  <2>3. CASE i \in 1 .. Len(history)
    <3>1. i \in DOMAIN history /\ history'[i] = history[i] /\ (i # 1 => history'[i - 1] = history[i - 1])
      BY <1>1, <1>2, <2>3, LenProperties
    <3> QED
      BY <3>1 DEF HistoryLeadsToRow
  <2> QED
    BY <1>2, <2>1, <2>2, <2>3
<1> QED
  BY <1>1, <1>2, <1>3 DEF HistoryLeadsToRow, FirstRow

LEMMA InitIInv == Init => IInv
  BY DEF Init, IInv, TypeOK, WritersOK, WriterOK, FirstRow, HistoryLeadsToRow

\* One step of one writer; the others do not hold the lock, or keep it.
LEMMA StepIInv ==
  ASSUME IInv, [Next]_vars
  PROVE  IInv'
<1> USE DEF IInv
<1>1. CASE UNCHANGED vars
  BY <1>1 DEF vars, TypeOK, WritersOK, WriterOK, FirstRow, HistoryLeadsToRow
<1>2. ASSUME NEW w \in Writers, Begin(w) PROVE IInv'
  <2> PICK status \in Statuses :
        writer' = [writer EXCEPT ![w] = [@ EXCEPT !.pc = "begun", !.status = status,
                                                  !.began = clock + 1]]
    BY <1>2 DEF Begin
  <2>1. TypeOK'
    <3> DEFINE W == [pc : {"new", "begun", "selected", "written", "unchanged", "done"},
                     status : Statuses \cup {Absent}, previous : Statuses \cup {Absent},
                     began : Nat]
               begun == [writer[w] EXCEPT !.pc = "begun", !.status = status, !.began = clock + 1]
    <3>1. writer[w] \in W /\ clock + 1 \in Nat /\ writer \in [Writers -> W]
      BY DEF TypeOK
    <3>2. begun \in W
      BY <3>1
    <3>3. writer' = [writer EXCEPT ![w] = begun]
      OBVIOUS
    <3>4. writer' \in [Writers -> W]
      <4> HIDE DEF begun, W
      <4> QED
        BY <3>1, <3>2, <3>3
    <3> QED
      BY <1>2, <3>1, <3>4 DEF Begin, TypeOK
  <2>2. WritersOK'
    BY <1>2 DEF Begin, TypeOK, WritersOK, WriterOK
  <2> QED
    BY <1>2, <2>1, <2>2 DEF Begin, FirstRow, HistoryLeadsToRow
<1>3. ASSUME NEW w \in Writers, SelectRow(w) PROVE IInv'
  <2>1. TypeOK'
    BY <1>3, ZenonT(40) DEF SelectRow, TypeOK
  <2>2. WritersOK'
    BY <1>3 DEF SelectRow, TypeOK, WritersOK, WriterOK
  <2> QED
    BY <1>3, <2>1, <2>2 DEF SelectRow, FirstRow, HistoryLeadsToRow
<1>4. ASSUME NEW w \in Writers, SelectNothing(w) PROVE IInv'
  <2>1. TypeOK'
    BY <1>4 DEF SelectNothing, TypeOK
  <2>2. WritersOK'
    BY <1>4 DEF SelectNothing, TypeOK, WritersOK, WriterOK
  <2> QED
    BY <1>4, <2>1, <2>2 DEF SelectNothing, FirstRow, HistoryLeadsToRow
<1>5. ASSUME NEW w \in Writers, Upsert(w) PROVE IInv'
  <2>1. TypeOK'
    BY <1>5 DEF Upsert, TypeOK
  <2>2. WritersOK'
    BY <1>5 DEF Upsert, TypeOK, WritersOK, WriterOK
  <2> QED
    BY <1>5, <2>1, <2>2 DEF Upsert, FirstRow, HistoryLeadsToRow
<1>6. ASSUME NEW w \in Writers, Commit(w) PROVE IInv'
  <2>1. CASE writer[w].pc = "unchanged"
    <3>1. TypeOK'
      BY <1>6, <2>1 DEF Commit, Release, TypeOK
    <3>2. WritersOK'
      BY <1>6, <2>1 DEF Commit, Release, TypeOK, WritersOK, WriterOK
    <3> QED
      BY <1>6, <2>1, <3>1, <3>2 DEF Commit, FirstRow, HistoryLeadsToRow
  <2>2. CASE writer[w].pc = "written"
    <3>1. /\ Logged(w) \in HistoryRow /\ Logged(w).previous \in {Absent, row}
          /\ Logged(w).status = writer[w].status /\ writer[w].status \in Statuses
      BY <2>2 DEF Logged, HistoryRow, TypeOK, WritersOK, WriterOK
    <3>2. history' = Append(history, Logged(w)) /\ row' = Logged(w).status
      BY <1>6, <2>2, <3>1 DEF Commit
    <3>3. HistoryLeadsToRow' /\ FirstRow' /\ history' \in Seq(HistoryRow)
      BY <3>1, <3>2, CommitKeepsHistory
    <3>4. TypeOK'
      BY <1>6, <2>2, <3>1, <3>2, <3>3, ZenonT(40) DEF Commit, Release, TypeOK
    <3>5. WritersOK'
      BY <1>6, <2>2 DEF Commit, Release, TypeOK, WritersOK, WriterOK
    <3> QED
      BY <3>3, <3>4, <3>5
  <2> QED
    BY <1>6, <2>1, <2>2 DEF Commit
<1>7. ASSUME NEW w \in Writers, Rollback(w) PROVE IInv'
  <2>1. TypeOK'
    BY <1>7 DEF Rollback, Release, TypeOK
  <2>2. WritersOK'
    BY <1>7 DEF Rollback, Release, TypeOK, WritersOK, WriterOK
  <2> QED
    BY <1>7, <2>1, <2>2 DEF Rollback, FirstRow, HistoryLeadsToRow
<1> QED
  BY <1>1, <1>2, <1>3, <1>4, <1>5, <1>6, <1>7 DEF Next, Statement

LEMMA Inductive == Spec => []IInv
<1>1. IInv /\ [Next]_vars => IInv'
  BY StepIInv
<1> QED
  BY InitIInv, <1>1, PTL DEF Spec

-----------------------------------------------------------------------------
(* The theorems.                                                           *)

\* Every state is one the types describe, whichever transactions run at once.
THEOREM TypeCorrect == Spec => []TypeOK
<1>1. IInv => TypeOK
  BY DEF IInv
<1> QED
  BY Inductive, <1>1, PTL

\* The history leads from the status before the calls to the status now,
\* whatever transactions of PostgresIssueLifecycleStore.set interleave or roll
\* back: each row starts where the one before it ended, or says that it found
\* none.
THEOREM HistoryExplainsRow == Spec => []HistoryLeadsToRow
<1>1. IInv => HistoryLeadsToRow
  BY DEF IInv
<1> QED
  BY Inductive, <1>1, PTL
=============================================================================
