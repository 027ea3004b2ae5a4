------------------------- MODULE BindingSession_proofs -------------------------
(***************************************************************************)
(* Proofs about BindingSession, for any plan length, number of generations *)
(* and receipt lengths.                                                    *)
(***************************************************************************)
EXTENDS BindingSession, WellFoundedInduction, TLAPS

(***************************************************************************)
(* The inductive invariant.                                                *)
(***************************************************************************)
Rows == [receipt : Execution!Executions \cup {NoExecution}, bytes : Nat]

TypeOK ==
    /\ execution \in Execution!Executions \cup {NoExecution}
    /\ receipt_length \in Nat
    /\ executions \in Seq(Rows) /\ receipt_bytes \in Nat /\ receipt_complete \in BOOLEAN
    /\ initializations \in Nat /\ disposals \in Nat
    /\ disposed \in BOOLEAN /\ retained \in BOOLEAN /\ disposal \in {"ok", "err"}

\* An execution that can change no more once it is closed.
ClosedIsFinal(e) ==
    /\ e.cleanup \in {"Confirmed", "TeardownFailed"} => e.closed
    /\ e.completed => e.closed

\* Nothing was acquired and nothing retained before the first execution.
OwnsWhatItStarted ==
    /\ execution = NoExecution <=> initializations = 0
    /\ execution = NoExecution => ~retained /\ receipt_complete
    /\ execution # NoExecution => ClosedIsFinal(execution)
    /\ disposed /\ execution # NoExecution => retained

\* An execution that was retained has been finished, and, if the session goes on
\* to own it, may not be replaced.
RetainedIsOver ==
    retained =>
        /\ disposed \/ execution.closed \/ execution.failed
        /\ ~disposed /\ Passed(execution) => ~receipt_complete

\* What the last row says of an execution that is closed is what it is.
RowIsNoBetter ==
    /\ retained /\ ~Omitted(Last(executions)) /\ Last(executions).receipt.closed
          => Last(executions).receipt = execution
    /\ retained /\ ~Omitted(Last(executions)) => ClosedIsFinal(Last(executions).receipt)

\* Until a receipt was omitted, every row is a receipt and is charged.
EveryRowIsCharged ==
    receipt_complete =>
        /\ \A i \in DOMAIN executions : ~Omitted(executions[i])
        /\ Charged = receipt_bytes

\* A disposal that succeeded has left nothing to be improved.
DisposalIsFinal ==
    disposed /\ execution # NoExecution /\ disposal = "ok" =>
        /\ execution.closed
        /\ receipt_complete /\ Passed(execution) => Passed(Last(executions).receipt)

SessionInductive ==
    /\ OwnsWhatItStarted
    /\ OneRowPerExecution
    /\ RetainedIsOver
    /\ RowIsNoBetter
    /\ EveryRowIsCharged
    /\ DisposalIsFinal

(***************************************************************************)
(* What the interface makes of an execution.                               *)
(***************************************************************************)
\* A failure changes nothing else.
LEMMA FailedExecution ==
    ASSUME NEW e \in Execution!Executions
    PROVE  /\ Execution!Failed(e) \in Execution!Executions
           /\ Execution!Failed(e).failed
           /\ Execution!Failed(e).completed = e.completed
           /\ Execution!Failed(e).cleanup = e.cleanup
           /\ Execution!Failed(e).closed = e.closed
           /\ Execution!Failed(e).next = e.next
BY DEF Execution!Failed, Execution!Executions

\* A cleanup attempt closes an execution, or leaves one that has not completed.
LEMMA CleanedUpExecution ==
    ASSUME NEW e \in Execution!Executions, NEW r \in Execution!CleanedUp(e)
    PROVE  /\ r \in Execution!Executions
           /\ r.failed = e.failed /\ r.completed = e.completed /\ r.next = e.next
           /\ \/ r.closed /\ r.cleanup \in {"Confirmed", "TeardownFailed"}
              \/ ~e.completed /\ r.closed = e.closed /\ r.cleanup = "Incomplete"
BY DEF Execution!CleanedUp, Execution!Executions, Execution!Cleanups

\* start_schedule.
LEMMA StartedExecution ==
    ASSUME NEW r \in Execution!StartResults
    PROVE  r \in Execution!Executions /\ ClosedIsFinal(r)
<1>1. Execution!Open \in Execution!Executions /\ ClosedIsFinal(Execution!Open)
  BY DEF Execution!Open, Execution!Executions, Execution!Cleanups, ClosedIsFinal
<1>. DEFINE f == Execution!Failed(Execution!Open)
<1>2. /\ f \in Execution!Executions /\ f.failed /\ ~f.completed
      /\ f.cleanup = "NotStarted"
  BY <1>1, FailedExecution DEF Execution!Open
<1>. HIDE DEF f
<1>3. CASE r = Execution!Open  BY <1>1, <1>3
<1>4. CASE r \in Execution!CleanedUp(f)
  BY <1>2, <1>4, CleanedUpExecution DEF ClosedIsFinal
<1>5. CASE r = [f EXCEPT !.closed = TRUE]
  BY <1>2, <1>5 DEF Execution!Executions, ClosedIsFinal
<1>. QED  BY <1>3, <1>4, <1>5 DEF Execution!StartResults, f

\* Execution::finish and Execution::cleanup: a closed execution stays as it is, and
\* any other has not completed and fails.
LEMMA FinishedExecution ==
    ASSUME NEW e \in Execution!Executions, ClosedIsFinal(e),
           NEW r \in Execution!FinishResults(e)
    PROVE  /\ r \in Execution!Executions /\ ClosedIsFinal(r)
           /\ e.closed => r = e
           /\ ~e.closed => r.failed
<1>1. CASE e.closed  BY <1>1 DEF Execution!FinishResults
<1>2. CASE ~e.closed
  <2>1. ~e.completed  BY <1>2 DEF ClosedIsFinal
  <2>2. r \in Execution!CleanedUp(Execution!Failed(e))
    BY <1>2, <2>1 DEF Execution!FinishResults
  <2>. QED  BY <1>2, <2>1, <2>2, FailedExecution, CleanedUpExecution DEF ClosedIsFinal
<1>. QED  BY <1>1, <1>2

\* Execution::advance: nothing more happens to a closed or a failed execution.
LEMMA AdvancedExecution ==
    ASSUME NEW e \in Execution!Executions, ClosedIsFinal(e),
           NEW r \in Execution!AdvanceResults(e)
    PROVE  /\ r \in Execution!Executions /\ ClosedIsFinal(r)
           /\ e.closed \/ e.failed => r = e
<1>1. CASE e.closed \/ e.failed  BY <1>1 DEF Execution!AdvanceResults
<1>2. CASE ~e.closed /\ ~e.failed
  <2>. DEFINE further == [e EXCEPT !.next = @ + 1]
              complete == [further EXCEPT !.completed = TRUE]
  <2>1. /\ further \in Execution!Executions /\ ~further.completed /\ ~further.closed
        /\ further.cleanup = e.cleanup
    BY <1>2 DEF Execution!Executions, ClosedIsFinal
  <2>2. complete \in Execution!Executions /\ complete.completed
    BY <2>1 DEF Execution!Executions
  <2>3. \/ r \in Execution!CleanedUp(Execution!Failed(e))
        \/ r \in Execution!CleanedUp(Execution!Failed(further))
        \/ r \in Execution!CleanedUp(complete)
        \/ r = further
    BY <1>2 DEF Execution!AdvanceResults
  <2>. HIDE DEF further, complete
  <2>4. CASE r \in Execution!CleanedUp(Execution!Failed(e))
    BY <1>2, <2>4, FailedExecution, CleanedUpExecution DEF ClosedIsFinal
  <2>5. CASE r \in Execution!CleanedUp(Execution!Failed(further))
    BY <1>2, <2>1, <2>5, FailedExecution, CleanedUpExecution DEF ClosedIsFinal
  <2>6. CASE r \in Execution!CleanedUp(complete)
    BY <1>2, <2>2, <2>6, CleanedUpExecution DEF ClosedIsFinal
  <2>7. CASE r = further
    BY <1>2, <2>1, <2>7 DEF ClosedIsFinal
  <2>. QED  BY <2>3, <2>4, <2>5, <2>6, <2>7
<1>. QED  BY <1>1, <1>2

\* A late arrival can only fail an execution that is open.
LEMMA LateExecution ==
    ASSUME NEW e \in Execution!Executions, ClosedIsFinal(e),
           NEW r \in Execution!LateResults(e)
    PROVE  /\ r \in Execution!Executions /\ ClosedIsFinal(r)
           /\ e.closed => r = e
           /\ r = e \/ r.failed
BY FailedExecution DEF Execution!LateResults, ClosedIsFinal

(***************************************************************************)
(* The receipts' lengths, added up.                                        *)
(***************************************************************************)
\* Induction over the naturals, on a set.
LEMMA Induction ==
    ASSUME NEW S, 0 \in S, \A n \in Nat : n \in S => n + 1 \in S
    PROVE  Nat \subseteq S
<1>. DEFINE T == Nat \ S
            Less == OpToRel(<, Nat)
<1>. SUFFICES ASSUME T # {} PROVE FALSE  OBVIOUS
<1>1. IsWellFoundedOn(Less, Nat) /\ T \subseteq Nat  BY NatLessThanWellFounded
<1>2. \A m, n \in Nat : m < n => <<m, n>> \in Less  BY DEF OpToRel
<1>. HIDE DEF T, Less
<1>3. PICK n \in T : \A m \in T : <<m, n>> \notin Less  BY <1>1, WFMin
<1>4. n \in Nat /\ n \notin S  BY <1>3 DEF T
<1>5. n # 0 /\ n - 1 \in Nat /\ n - 1 < n /\ (n - 1) + 1 = n  BY <1>4
<1>6. n - 1 \in T  BY <1>4, <1>5 DEF T
<1>. QED  BY <1>2, <1>3, <1>4, <1>5, <1>6

\* The table of partial sums that Charges chooses.
Adds(sum, rows) ==
    sum = [i \in 0..Len(rows) |-> IF i = 0 THEN 0 ELSE sum[i - 1] + Charge(rows[i])]

\* A row is charged its length, or nothing.
LEMMA ChargeType == ASSUME NEW row \in Rows PROVE Charge(row) \in Nat
BY DEF Rows, Charge

\* There is one.
LEMMA SumsExist ==
    ASSUME NEW rows \in Seq(Rows)
    PROVE  \E sum \in [0..Len(rows) -> Nat] : Adds(sum, rows)
<1>. DEFINE Upto(sum, n) ==
                sum = [i \in 0..n |-> IF i = 0 THEN 0 ELSE sum[i - 1] + Charge(rows[i])]
            S == {n \in Nat : n <= Len(rows) => \E sum \in [0..n -> Nat] : Upto(sum, n)}
<1>1. 0 \in S
  <2>1. Upto([i \in 0..0 |-> 0], 0)  OBVIOUS
  <2>. QED  BY <2>1
<1>2. ASSUME NEW n \in Nat, n \in S, n + 1 <= Len(rows)
      PROVE  \E sum \in [0..(n + 1) -> Nat] : Upto(sum, n + 1)
  <2>1. PICK sum \in [0..n -> Nat] : Upto(sum, n)  BY <1>2
  <2>2. Charge(rows[n + 1]) \in Nat
    <3>1. rows[n + 1] \in Rows  BY <1>2
    <3>. QED  BY <3>1, ChargeType
  <2>. DEFINE next == [i \in 0..(n + 1) |-> IF i = n + 1 THEN sum[n] + Charge(rows[n + 1])
                                             ELSE sum[i]]
  <2>3. next \in [0..(n + 1) -> Nat]  BY <2>1, <2>2
  <2>4. ASSUME NEW i \in 0..(n + 1)
        PROVE  next[i] = IF i = 0 THEN 0 ELSE next[i - 1] + Charge(rows[i])
    <3>1. CASE i = n + 1  BY <3>1
    <3>2. CASE i # n + 1
      <4>1. i \in 0..n  BY <3>2
      <4>2. sum[i] = IF i = 0 THEN 0 ELSE sum[i - 1] + Charge(rows[i])  BY <2>1, <4>1
      <4>3. next[i] = sum[i] /\ (i # 0 => next[i - 1] = sum[i - 1])  BY <4>1
      <4>. QED  BY <4>2, <4>3
    <3>. QED  BY <3>1, <3>2
  <2>5. next = [i \in 0..(n + 1) |-> IF i = 0 THEN 0 ELSE next[i - 1] + Charge(rows[i])]
    <3>. HIDE DEF next
    <3>. QED  BY <2>3, <2>4
  <2>. HIDE DEF next
  <2>. QED  BY <2>3, <2>5
<1>3. \A n \in Nat : n \in S => n + 1 \in S
  <2>. SUFFICES ASSUME NEW n \in Nat, n \in S PROVE n + 1 \in S  OBVIOUS
  <2>1. n + 1 <= Len(rows) => \E sum \in [0..(n + 1) -> Nat] : Upto(sum, n + 1)
    BY <1>2
  <2>2. n + 1 \in Nat  OBVIOUS
  <2>. HIDE DEF Upto
  <2>. QED  BY <2>1, <2>2
<1>. HIDE DEF S
<1>4. Len(rows) \in S  BY <1>1, <1>3, Induction
<1>. QED  BY <1>4 DEF S, Adds

\* Two tables agree as far as their rows do.
LEMMA SumsAgree ==
    ASSUME NEW r1 \in Seq(Rows), NEW r2 \in Seq(Rows), NEW s1, NEW s2,
           Adds(s1, r1), Adds(s2, r2),
           NEW k \in Nat, k <= Len(r1), k <= Len(r2),
           \A i \in 1..k : r1[i] = r2[i]
    PROVE  s1[k] = s2[k]
<1>. DEFINE S == {n \in Nat : n <= k => s1[n] = s2[n]}
<1>1. 0 \in S  BY DEF Adds
<1>2. ASSUME NEW n \in Nat, n \in S, n + 1 <= k
      PROVE  s1[n + 1] = s2[n + 1]
  <2>1. s1[n] = s2[n] /\ r1[n + 1] = r2[n + 1]  BY <1>2
  <2>2. n + 1 \in 0..Len(r1) /\ n + 1 \in 0..Len(r2) /\ n + 1 # 0 /\ (n + 1) - 1 = n
    BY <1>2
  <2>3. s1[n + 1] = s1[n] + Charge(r1[n + 1])  BY <2>2 DEF Adds
  <2>4. s2[n + 1] = s2[n] + Charge(r2[n + 1])  BY <2>2 DEF Adds
  <2>. QED  BY <2>1, <2>3, <2>4
<1>3. \A n \in Nat : n \in S => n + 1 \in S
  <2>. SUFFICES ASSUME NEW n \in Nat, n \in S PROVE n + 1 \in S  OBVIOUS
  <2>. QED  BY <1>2
<1>. HIDE DEF S
<1>4. k \in S  BY <1>1, <1>3, Induction
<1>. QED  BY <1>4 DEF S

\* So Charges is that table.
LEMMA ChargesAdd ==
    ASSUME NEW rows \in Seq(Rows)
    PROVE  Adds(Charges(rows), rows) /\ Charges(rows) \in [0..Len(rows) -> Nat]
<1>1. PICK sum \in [0..Len(rows) -> Nat] : Adds(sum, rows)  BY SumsExist
<1>2. Adds(Charges(rows), rows)  BY <1>1 DEF Charges, Adds
<1>3. \A k \in 0..Len(rows) : Charges(rows)[k] = sum[k]  BY <1>1, <1>2, SumsAgree
<1>4. Charges(rows) = [k \in 0..Len(rows) |-> Charges(rows)[k]]  BY <1>2 DEF Adds
<1>. QED  BY <1>1, <1>2, <1>3, <1>4

\* A row that is appended is added.
LEMMA ChargedAppended ==
    ASSUME NEW rows \in Seq(Rows), NEW row \in Rows
    PROVE  Charges(Append(rows, row))[Len(rows) + 1] = Charges(rows)[Len(rows)] + Charge(row)
<1>. DEFINE more == Append(rows, row)
<1>1. /\ more \in Seq(Rows) /\ Len(more) = Len(rows) + 1 /\ Len(rows) \in Nat
      /\ more[Len(rows) + 1] = row /\ \A i \in 1..Len(rows) : more[i] = rows[i]
  OBVIOUS
<1>. HIDE DEF more
<1>2. Charges(more)[Len(rows)] = Charges(rows)[Len(rows)]
  <2>1. Adds(Charges(rows), rows) /\ Adds(Charges(more), more)  BY <1>1, ChargesAdd
  <2>. QED  BY <1>1, <2>1, SumsAgree
<1>3. Charges(more)[Len(rows) + 1] = Charges(more)[Len(rows)] + Charge(row)
  <2>1. Adds(Charges(more), more)  BY <1>1, ChargesAdd
  <2>. QED  BY <1>1, <2>1 DEF Adds
<1>. QED  BY <1>2, <1>3 DEF more

\* A last row that is replaced is added in place of the old one.
LEMMA ChargedReplaced ==
    ASSUME NEW rows \in Seq(Rows), NEW row \in Rows, rows # <<>>
    PROVE  /\ Charges([rows EXCEPT ![Len(rows)] = row])[Len(rows)]
                = Charges(rows)[Len(rows)] - Charge(Last(rows)) + Charge(row)
           /\ Charge(Last(rows)) <= Charges(rows)[Len(rows)]
           /\ Charge(Last(rows)) \in Nat /\ Charge(row) \in Nat
           /\ Charges(rows)[Len(rows)] \in Nat
<1>. DEFINE other == [rows EXCEPT ![Len(rows)] = row]
            n == Len(rows)
<1>1. /\ other \in Seq(Rows) /\ Len(other) = n /\ n \in Nat /\ n > 0
      /\ other[n] = row /\ \A i \in 1..(n - 1) : other[i] = rows[i]
  OBVIOUS
<1>. HIDE DEF other, n
<1>2. Adds(Charges(other), other) /\ Adds(Charges(rows), rows)
      /\ Charges(rows) \in [0..n -> Nat]
  BY <1>1, ChargesAdd DEF n
<1>3. Charges(other)[n - 1] = Charges(rows)[n - 1]
  <2>1. /\ n - 1 \in Nat /\ n - 1 <= Len(rows) /\ n - 1 <= Len(other)
        /\ \A i \in 1..(n - 1) : other[i] = rows[i]
    BY <1>1 DEF n
  <2>. DEFINE k == n - 1
  <2>2. k \in Nat /\ k <= Len(rows) /\ k <= Len(other) /\ \A i \in 1..k : other[i] = rows[i]
    BY <2>1
  <2>. HIDE DEF k
  <2>3. other \in Seq(Rows) /\ Adds(Charges(other), other) /\ Adds(Charges(rows), rows)
    BY <1>1, <1>2
  <2>4. Charges(other)[k] = Charges(rows)[k]  BY <2>2, <2>3, SumsAgree
  <2>. QED  BY <2>4 DEF k
<1>4. Charges(other)[n] = Charges(other)[n - 1] + Charge(row)
  <2>1. n \in 0..Len(other) /\ n # 0  BY <1>1
  <2>. QED  BY <1>1, <1>2, <2>1 DEF Adds
<1>5. Charges(rows)[n] = Charges(rows)[n - 1] + Charge(rows[n])
  <2>1. n \in 0..Len(rows) /\ n # 0  BY <1>1 DEF n
  <2>. QED  BY <1>2, <2>1 DEF Adds
<1>6. Charge(rows[n]) \in Nat /\ Charge(row) \in Nat
  <2>1. rows[n] \in Rows  BY <1>1 DEF n
  <2>. QED  BY <2>1, ChargeType
<1>7. Charges(rows)[n] \in Nat /\ Charges(rows)[n - 1] \in Nat
  BY <1>1, <1>2
<1>. QED  BY <1>3, <1>4, <1>5, <1>6, <1>7 DEF other, n, Last

(***************************************************************************)
(* The invariant is inductive: one lemma per action.                       *)
(***************************************************************************)
\* A receipt has a length.
LEMMA LengthsAreNatural ==
    ASSUME TypeOK
    PROVE  ReceiptLengths \subseteq Nat /\ RowBytes \subseteq Nat /\ ErrorRowBytes \in Nat
BY BoundsAssumption DEF TypeOK, ReceiptLengths

\* retain: at most one row, of the receipt or in its place.
LEMMA Retained ==
    ASSUME TypeOK, EveryRowIsCharged,
           NEW e \in Execution!Executions, NEW n \in Nat, Retain(e, n)
    PROVE  /\ executions' \in Seq(Rows) /\ receipt_bytes' \in Nat
           /\ receipt_complete' \in BOOLEAN /\ (receipt_complete' => receipt_complete)
           /\ retained => UNCHANGED <<executions, receipt_complete>>
           /\ ~retained =>
                 /\ Len(executions') = Len(executions) + 1
                 /\ \A i \in 1..Len(executions) : executions'[i] = executions[i]
                 /\ IF Omitted(Last(executions')) THEN ~receipt_complete'
                    ELSE Last(executions').receipt = e
           /\ EveryRowIsCharged'
<1>. USE DEF TypeOK
<1>1. CASE retained
  <2>1. executions' = executions /\ receipt_bytes' = receipt_bytes
        /\ receipt_complete' = receipt_complete
    BY <1>1 DEF Retain, AlreadyRetained, evidence
  <2>2. Charged' = Charged  BY <2>1 DEF Charged
  <2>3. EveryRowIsCharged'  BY <2>1, <2>2 DEF EveryRowIsCharged
  <2>. QED  BY <1>1, <2>1, <2>3
<1>2. CASE ~retained /\ Fits(receipt_bytes + n)
  <2>. DEFINE row == Row(e, n)
  <2>1. /\ executions' = Append(executions, row) /\ receipt_bytes' = receipt_bytes + n
        /\ receipt_complete' = receipt_complete
    BY <1>2 DEF Retain, AlreadyRetained
  <2>2. row \in Rows /\ ~Omitted(row) /\ Charge(row) = n /\ row.receipt = e
    BY NoExecutionAssumption DEF Row, Rows, Omitted, Charge
  <2>. HIDE DEF row
  <2>3. /\ executions' \in Seq(Rows) /\ Len(executions') = Len(executions) + 1
        /\ \A i \in 1..Len(executions) : executions'[i] = executions[i]
        /\ Last(executions') = row
        /\ \A i \in DOMAIN executions' : i \in DOMAIN executions \/ i = Len(executions) + 1
    BY <2>1, <2>2 DEF Last
  <2>4. Charged' = Charged + n
    BY <2>1, <2>2, <2>3, ChargedAppended DEF Charged
  <2>5. EveryRowIsCharged'
    <3>. SUFFICES ASSUME receipt_complete'
                  PROVE  /\ \A i \in DOMAIN executions' : ~Omitted(executions'[i])
                         /\ Charged' = receipt_bytes'
      BY DEF EveryRowIsCharged
    <3>1. \A i \in DOMAIN executions' : ~Omitted(executions'[i])
      BY <2>1, <2>2, <2>3 DEF EveryRowIsCharged, Last
    <3>2. Charged' = receipt_bytes'
      BY <2>1, <2>4 DEF EveryRowIsCharged
    <3>. QED  BY <3>1, <3>2
  <2>. QED  BY <1>2, <2>1, <2>2, <2>3, <2>5
<1>3. CASE ~retained /\ ~Fits(receipt_bytes + n)
  <2>1. /\ executions' = Append(executions, ErrorRow) /\ receipt_bytes' = receipt_bytes
        /\ receipt_complete' = FALSE
    BY <1>3 DEF Retain, AlreadyRetained
  <2>2. ErrorRow \in Rows /\ Omitted(ErrorRow)
    BY LengthsAreNatural DEF ErrorRow, Rows, Omitted
  <2>3. /\ executions' \in Seq(Rows) /\ Len(executions') = Len(executions) + 1
        /\ \A i \in 1..Len(executions) : executions'[i] = executions[i]
        /\ Last(executions') = ErrorRow
    BY <2>1, <2>2 DEF Last
  <2>. QED  BY <1>3, <2>1, <2>2, <2>3 DEF EveryRowIsCharged
<1>. QED  BY <1>1, <1>2, <1>3

\* The session's type and ownership, of the execution alone.
LEMMA OwnedExecution ==
    ASSUME TypeOK, OwnsWhatItStarted, execution # NoExecution
    PROVE  execution \in Execution!Executions /\ ClosedIsFinal(execution)
BY DEF TypeOK, OwnsWhatItStarted

\* An execution that was retained cannot be replaced: it had passed and a receipt
\* was omitted, or it can pass no more.
LEMMA RetainedStays ==
    ASSUME TypeOK, OwnsWhatItStarted, RetainedIsOver,
           execution # NoExecution, retained, ~disposed,
           NEW e \in Execution!FinishResults(execution)
    PROVE  Passed(e) => e = execution /\ execution.closed /\ ~receipt_complete
<1>1. execution \in Execution!Executions /\ ClosedIsFinal(execution)  BY OwnedExecution
<1>2. (execution.closed => e = execution) /\ (~execution.closed => e.failed)
  BY <1>1, FinishedExecution
<1>. QED  BY <1>2 DEF RetainedIsOver, Passed

LEMMA InitializeFirstKeeps ==
    ASSUME TypeOK, SessionInductive, InitializeFirst
    PROVE  TypeOK' /\ SessionInductive'
<1>. USE DEF SessionInductive
<1>1. /\ execution = NoExecution /\ initializations = 0 /\ ~retained /\ receipt_complete
      /\ ~disposed
  BY DEF InitializeFirst, MayInitialize, OwnsWhatItStarted
<1>2. /\ execution' \in Execution!StartResults /\ receipt_length' \in RowBytes
      /\ initializations' = initializations + 1 /\ retained' = FALSE
      /\ executions' = executions /\ receipt_bytes' = receipt_bytes
      /\ receipt_complete' = receipt_complete /\ disposals' = disposals
      /\ disposed' = disposed /\ disposal' = disposal
  BY DEF InitializeFirst, Acquire, RetainedByAcquire, evidence
<1>3. /\ execution' \in Execution!Executions /\ ClosedIsFinal(execution')
      /\ execution' # NoExecution
  BY <1>2, StartedExecution, NoExecutionAssumption
<1>4. TypeOK'
  <2>1. receipt_length' \in Nat  BY <1>2, LengthsAreNatural
  <2>2. initializations' \in Nat  BY <1>2 DEF TypeOK
  <2>. QED  BY <1>2, <1>3, <2>1, <2>2 DEF TypeOK
<1>5. OwnsWhatItStarted'  BY <1>1, <1>2, <1>3 DEF OwnsWhatItStarted
<1>6. OneRowPerExecution'
  BY <1>1, <1>2, <1>3 DEF OneRowPerExecution
<1>7. RetainedIsOver' /\ RowIsNoBetter'  BY <1>2 DEF RetainedIsOver, RowIsNoBetter
<1>8. EveryRowIsCharged'
  <2>1. Charged' = Charged  BY <1>2 DEF Charged
  <2>. QED  BY <1>2, <2>1 DEF EveryRowIsCharged
<1>9. DisposalIsFinal'  BY <1>1, <1>2 DEF DisposalIsFinal
<1>. QED  BY <1>4, <1>5, <1>6, <1>7, <1>8, <1>9

LEMMA InitializeAgainKeeps ==
    ASSUME TypeOK, SessionInductive, InitializeAgain
    PROVE  TypeOK' /\ SessionInductive'
<1>. USE DEF SessionInductive
<1>1. PICK e \in Execution!FinishResults(execution), n \in ReceiptLengths :
         /\ Retain(e, n)
         /\ IF MayReplace(e) THEN Acquire
            ELSE Becomes(e, n) /\ retained' = TRUE /\ UNCHANGED initializations
  BY DEF InitializeAgain
<1>2. /\ execution # NoExecution /\ ~disposed
      /\ disposals' = disposals /\ disposed' = disposed /\ disposal' = disposal
  BY DEF InitializeAgain, MayInitialize
<1>3. /\ execution \in Execution!Executions /\ ClosedIsFinal(execution)
      /\ initializations # 0
  BY <1>2, OwnedExecution DEF OwnsWhatItStarted
<1>4. /\ e \in Execution!Executions /\ ClosedIsFinal(e) /\ e # NoExecution
      /\ (execution.closed => e = execution) /\ (~execution.closed => e.failed)
  BY <1>3, FinishedExecution, NoExecutionAssumption
<1>5. n \in Nat  BY LengthsAreNatural
<1>6. /\ executions' \in Seq(Rows) /\ receipt_bytes' \in Nat
      /\ receipt_complete' \in BOOLEAN /\ (receipt_complete' => receipt_complete)
      /\ retained => UNCHANGED <<executions, receipt_complete>>
      /\ ~retained =>
            /\ Len(executions') = Len(executions) + 1
            /\ \A i \in 1..Len(executions) : executions'[i] = executions[i]
            /\ IF Omitted(Last(executions')) THEN ~receipt_complete'
               ELSE Last(executions').receipt = e
      /\ EveryRowIsCharged'
  BY <1>1, <1>4, <1>5, Retained
<1>7. DisposalIsFinal'  BY <1>2 DEF DisposalIsFinal
<1>8. initializations \in Nat /\ executions \in Seq(Rows) /\ Len(executions) \in Nat
  BY DEF TypeOK
<1>9. CASE MayReplace(e)
  <2>1. Passed(e) /\ receipt_complete'  BY <1>9 DEF MayReplace
  <2>2. ~retained  BY <1>2, <1>6, <2>1, RetainedStays
  <2>3. /\ execution' \in Execution!StartResults /\ receipt_length' \in RowBytes
        /\ initializations' = initializations + 1 /\ retained' = FALSE
    BY <1>1, <1>9 DEF Acquire, RetainedByAcquire
  <2>4. /\ execution' \in Execution!Executions /\ ClosedIsFinal(execution')
        /\ execution' # NoExecution
    BY <2>3, StartedExecution, NoExecutionAssumption
  <2>5. TypeOK'
    <3>1. receipt_length' \in Nat  BY <2>3, LengthsAreNatural
    <3>2. initializations' \in Nat  BY <1>8, <2>3
    <3>. QED  BY <1>2, <1>6, <2>3, <2>4, <3>1, <3>2 DEF TypeOK
  <2>6. OwnsWhatItStarted'  BY <1>2, <1>8, <2>3, <2>4 DEF OwnsWhatItStarted
  <2>7. OneRowPerExecution'
    <3>1. Len(executions) = initializations - 1 /\ Len(executions') = initializations
      BY <1>2, <1>6, <1>8, <2>2 DEF OneRowPerExecution
    <3>2. ~Omitted(executions'[initializations]) /\ executions'[initializations].receipt = e
      BY <1>6, <2>1, <2>2, <3>1 DEF Last
    <3>3. ASSUME NEW i \in 1..initializations
          PROVE  ~Omitted(executions'[i]) /\ Passed(executions'[i].receipt)
      <4>1. CASE i = initializations  BY <2>1, <3>2, <4>1
      <4>2. CASE i # initializations
        <5>1. i \in 1..(initializations - 1)  BY <1>8, <4>2
        <5>2. executions'[i] = executions[i]  BY <1>6, <2>2, <3>1, <5>1
        <5>. QED  BY <5>1, <5>2 DEF OneRowPerExecution
      <4>. QED  BY <4>1, <4>2
    <3>4. initializations' - 1 = initializations  BY <1>8, <2>3
    <3>. QED  BY <2>3, <2>4, <3>1, <3>3, <3>4 DEF OneRowPerExecution
  <2>8. RetainedIsOver' /\ RowIsNoBetter'  BY <2>3 DEF RetainedIsOver, RowIsNoBetter
  <2>. QED  BY <1>6, <1>7, <2>5, <2>6, <2>7, <2>8
<1>10. CASE ~MayReplace(e)
  <2>1. /\ execution' = e /\ receipt_length' = n /\ retained' = TRUE
        /\ initializations' = initializations
    BY <1>1, <1>10 DEF Becomes
  <2>2. TypeOK'  BY <1>2, <1>4, <1>5, <1>6, <2>1 DEF TypeOK
  <2>3. OwnsWhatItStarted'  BY <1>3, <1>4, <2>1 DEF OwnsWhatItStarted
  <2>4. /\ Len(executions') = initializations
        /\ \A i \in 1..(initializations - 1) : executions'[i] = executions[i]
    BY <1>2, <1>6, <1>8 DEF OneRowPerExecution
  <2>5. OneRowPerExecution'
    BY <1>8, <2>1, <2>4 DEF OneRowPerExecution
  <2>6. RetainedIsOver'
    <3>1. e.closed \/ e.failed  BY <1>4
    <3>. QED  BY <1>10, <2>1, <3>1 DEF RetainedIsOver, MayReplace
  <2>7. RowIsNoBetter'
    <3>1. CASE retained
      BY <1>4, <1>6, <2>1, <3>1 DEF RowIsNoBetter
    <3>2. CASE ~retained
      BY <1>4, <1>6, <2>1, <3>2 DEF RowIsNoBetter
    <3>. QED  BY <3>1, <3>2
  <2>. QED  BY <1>6, <1>7, <2>2, <2>3, <2>5, <2>6, <2>7
<1>. QED  BY <1>9, <1>10

\* What advance and a late arrival may do: nothing to an execution that is
\* closed, and nothing to its evidence.
LEMMA EvidenceKept ==
    ASSUME TypeOK, SessionInductive, execution # NoExecution,
           NEW e \in Execution!Executions, ClosedIsFinal(e), NEW n \in Nat,
           Becomes(e, n), UNCHANGED <<evidence, counts, flags>>,
           execution.closed => e = execution,
           retained => e = execution \/ e.failed
    PROVE  TypeOK' /\ SessionInductive'
<1>. USE DEF SessionInductive
<1>1. /\ execution' = e /\ receipt_length' = n
      /\ executions' = executions /\ receipt_bytes' = receipt_bytes
      /\ receipt_complete' = receipt_complete
      /\ initializations' = initializations /\ disposals' = disposals
      /\ disposed' = disposed /\ retained' = retained /\ disposal' = disposal
  BY DEF Becomes, evidence, counts, flags
<1>2. e # NoExecution  BY NoExecutionAssumption
<1>3. TypeOK'  BY <1>1 DEF TypeOK
<1>4. OwnsWhatItStarted'  BY <1>1, <1>2 DEF OwnsWhatItStarted
<1>5. OneRowPerExecution'  BY <1>1, <1>2 DEF OneRowPerExecution
<1>6. RetainedIsOver'  BY <1>1 DEF RetainedIsOver, Passed
<1>7. RowIsNoBetter'
  BY <1>1 DEF RowIsNoBetter
<1>8. EveryRowIsCharged'
  <2>1. Charged' = Charged  BY <1>1 DEF Charged
  <2>. QED  BY <1>1, <2>1 DEF EveryRowIsCharged
<1>9. DisposalIsFinal'  BY <1>1, <1>2 DEF DisposalIsFinal
<1>. QED  BY <1>3, <1>4, <1>5, <1>6, <1>7, <1>8, <1>9

LEMMA AdvanceKeeps ==
    ASSUME TypeOK, SessionInductive, Advance
    PROVE  TypeOK' /\ SessionInductive'
<1>1. PICK e \in Execution!AdvanceResults(execution), n \in ReceiptLengths : Becomes(e, n)
  BY DEF Advance
<1>2. execution # NoExecution /\ ~disposed /\ UNCHANGED <<evidence, counts, flags>>
  BY DEF Advance
<1>3. execution \in Execution!Executions /\ ClosedIsFinal(execution)
  BY <1>2, OwnedExecution DEF SessionInductive
<1>4. /\ e \in Execution!Executions /\ ClosedIsFinal(e)
      /\ execution.closed \/ execution.failed => e = execution
  BY <1>3, AdvancedExecution
<1>5. retained => execution.closed \/ execution.failed
  BY <1>2 DEF SessionInductive, RetainedIsOver
<1>6. n \in Nat  BY LengthsAreNatural
<1>. QED  BY <1>1, <1>2, <1>4, <1>5, <1>6, EvidenceKept

LEMMA LateArrivalKeeps ==
    ASSUME TypeOK, SessionInductive, LateArrival
    PROVE  TypeOK' /\ SessionInductive'
<1>1. PICK e \in Execution!LateResults(execution), n \in ReceiptLengths : Becomes(e, n)
  BY DEF LateArrival
<1>2. execution # NoExecution /\ UNCHANGED <<evidence, counts, flags>>
  BY DEF LateArrival
<1>3. execution \in Execution!Executions /\ ClosedIsFinal(execution)
  BY <1>2, OwnedExecution DEF SessionInductive
<1>4. /\ e \in Execution!Executions /\ ClosedIsFinal(e)
      /\ execution.closed => e = execution
      /\ e = execution \/ e.failed
  BY <1>3, LateExecution
<1>5. n \in Nat  BY LengthsAreNatural
<1>. QED  BY <1>1, <1>2, <1>4, <1>5, EvidenceKept

LEMMA DisposeNothingKeeps ==
    ASSUME TypeOK, SessionInductive, DisposeNothing
    PROVE  TypeOK' /\ SessionInductive'
<1>. USE DEF SessionInductive
<1>1. /\ execution = NoExecution
      /\ execution' = execution /\ receipt_length' = receipt_length
      /\ executions' = executions /\ receipt_bytes' = receipt_bytes
      /\ receipt_complete' = receipt_complete
      /\ initializations' = initializations /\ disposals' = disposals + 1
      /\ disposed' = TRUE /\ retained' = retained /\ disposal' = disposal
  BY DEF DisposeNothing, evidence
<1>2. ~retained  BY <1>1 DEF OwnsWhatItStarted
<1>3. TypeOK'
  <2>1. disposals' \in Nat  BY <1>1 DEF TypeOK
  <2>. QED  BY <1>1, <2>1 DEF TypeOK
<1>4. OwnsWhatItStarted'  BY <1>1 DEF OwnsWhatItStarted
<1>5. OneRowPerExecution'  BY <1>1 DEF OneRowPerExecution
<1>6. RetainedIsOver' /\ RowIsNoBetter'  BY <1>1, <1>2 DEF RetainedIsOver, RowIsNoBetter
<1>7. EveryRowIsCharged'
  <2>1. Charged' = Charged  BY <1>1 DEF Charged
  <2>. QED  BY <1>1, <2>1 DEF EveryRowIsCharged
<1>8. DisposalIsFinal'  BY <1>1 DEF DisposalIsFinal
<1>. QED  BY <1>3, <1>4, <1>5, <1>6, <1>7, <1>8

LEMMA DisposeKeeps ==
    ASSUME TypeOK, SessionInductive, NEW reentrant \in BOOLEAN, Dispose(reentrant)
    PROVE  TypeOK' /\ SessionInductive'
<1>. USE DEF SessionInductive
<1>1. PICK e \in IF reentrant THEN {execution} ELSE Execution!FinishResults(execution),
           n \in ReceiptLengths :
         /\ Becomes(e, n)
         /\ Retain(e, n)
         /\ disposal' = IF ~reentrant /\ Released(e) /\ receipt_complete'
                        THEN "ok" ELSE "err"
  BY DEF Dispose
<1>2. /\ execution # NoExecution /\ ~disposed
      /\ disposed' = TRUE /\ disposals' = disposals + 1
      /\ retained' = TRUE /\ initializations' = initializations
      /\ execution' = e /\ receipt_length' = n
  BY <1>1 DEF Dispose, Becomes
<1>3. /\ execution \in Execution!Executions /\ ClosedIsFinal(execution)
      /\ initializations # 0
  BY <1>2, OwnedExecution DEF OwnsWhatItStarted
<1>4. /\ e \in Execution!Executions /\ ClosedIsFinal(e) /\ e # NoExecution
      /\ execution.closed => e = execution
  <2>1. CASE reentrant  BY <1>1, <1>3, <2>1, NoExecutionAssumption
  <2>2. CASE ~reentrant
    <3>1. e \in Execution!FinishResults(execution)  BY <2>2
    <3>. QED  BY <1>3, <3>1, FinishedExecution, NoExecutionAssumption
  <2>. QED  BY <2>1, <2>2
<1>5. n \in Nat  BY LengthsAreNatural
<1>6. /\ executions' \in Seq(Rows) /\ receipt_bytes' \in Nat
      /\ receipt_complete' \in BOOLEAN /\ (receipt_complete' => receipt_complete)
      /\ retained => UNCHANGED <<executions, receipt_complete>>
      /\ ~retained =>
            /\ Len(executions') = Len(executions) + 1
            /\ \A i \in 1..Len(executions) : executions'[i] = executions[i]
            /\ IF Omitted(Last(executions')) THEN ~receipt_complete'
               ELSE Last(executions').receipt = e
      /\ EveryRowIsCharged'
  BY <1>1, <1>4, <1>5, Retained
<1>7. initializations \in Nat /\ executions \in Seq(Rows) /\ Len(executions) \in Nat
  BY DEF TypeOK
<1>8. TypeOK'
  <2>1. disposals' \in Nat  BY <1>2 DEF TypeOK
  <2>2. disposal' \in {"ok", "err"}  BY <1>1
  <2>. QED  BY <1>2, <1>4, <1>5, <1>6, <2>1, <2>2 DEF TypeOK
<1>9. OwnsWhatItStarted'  BY <1>2, <1>3, <1>4 DEF OwnsWhatItStarted
<1>10. OneRowPerExecution'
  <2>1. /\ Len(executions') = initializations
        /\ \A i \in 1..(initializations - 1) : executions'[i] = executions[i]
    BY <1>2, <1>6, <1>7 DEF OneRowPerExecution
  <2>. QED  BY <1>2, <1>7, <2>1 DEF OneRowPerExecution
<1>11. RetainedIsOver'  BY <1>2 DEF RetainedIsOver
<1>12. RowIsNoBetter'
  <2>1. CASE retained  BY <1>2, <1>4, <1>6, <2>1 DEF RowIsNoBetter
  <2>2. CASE ~retained  BY <1>2, <1>4, <1>6, <2>2 DEF RowIsNoBetter
  <2>. QED  BY <2>1, <2>2
<1>13. DisposalIsFinal'
  <2>. SUFFICES ASSUME disposal' = "ok"
                PROVE  /\ e.closed
                       /\ receipt_complete' /\ Passed(e) => Passed(Last(executions').receipt)
    BY <1>2 DEF DisposalIsFinal
  <2>1. ~reentrant /\ Released(e) /\ receipt_complete'  BY <1>1
  <2>2. e.closed  BY <1>4, <2>1 DEF Released, ClosedIsFinal
  <2>3. ASSUME Passed(e) PROVE Passed(Last(executions').receipt)
    <3>1. e \in Execution!FinishResults(execution)  BY <2>1
    <3>2. ~retained  BY <1>2, <1>6, <2>1, <2>3, <3>1, RetainedStays
    <3>. QED  BY <1>6, <2>1, <2>3, <3>2
  <2>. QED  BY <2>2, <2>3
<1>. QED  BY <1>6, <1>8, <1>9, <1>10, <1>11, <1>12, <1>13

\* retry_cleanup on a session that owns an execution: the last row stays, or is
\* replaced by the receipt as it is now.
LEMMA RetriedCleanup ==
    ASSUME TypeOK, SessionInductive, RetryCleanup
    PROVE  \E e \in Execution!FinishResults(execution), n \in Nat :
              /\ execution' = e /\ receipt_length' = n
              /\ e \in Execution!Executions /\ ClosedIsFinal(e) /\ e # NoExecution
              /\ execution.closed => e = execution
              /\ \/ /\ executions' = [executions EXCEPT ![Len(executions)] = Row(e, n)]
                    /\ receipt_bytes' = Uncharged(Last(executions)) + n
                    /\ receipt_complete' = receipt_complete
                 \/ /\ executions' = executions /\ receipt_bytes' = receipt_bytes
                    /\ receipt_complete' = (receipt_complete /\ e.cleanup # "Confirmed")
<1>1. PICK e \in Execution!FinishResults(execution), n \in ReceiptLengths :
         /\ Becomes(e, n)
         /\ \/ /\ executions' = ReplaceAt(executions, Len(executions), RefreshedRow(e, n))
               /\ receipt_bytes' = Uncharged(Last(executions)) + n
               /\ UNCHANGED receipt_complete
            \/ /\ receipt_complete' = (receipt_complete /\ e.cleanup # "Confirmed")
               /\ UNCHANGED <<executions, receipt_bytes>>
  BY DEF RetryCleanup
<1>2. execution \in Execution!Executions /\ ClosedIsFinal(execution)
  BY OwnedExecution DEF RetryCleanup, SessionInductive
<1>3. /\ e \in Execution!Executions /\ ClosedIsFinal(e) /\ e # NoExecution
      /\ execution.closed => e = execution
  BY <1>2, FinishedExecution, NoExecutionAssumption
<1>4. n \in Nat  BY LengthsAreNatural
<1>5. execution' = e /\ receipt_length' = n  BY <1>1 DEF Becomes
<1>6. \/ /\ executions' = [executions EXCEPT ![Len(executions)] = Row(e, n)]
         /\ receipt_bytes' = Uncharged(Last(executions)) + n
         /\ receipt_complete' = receipt_complete
      \/ /\ executions' = executions /\ receipt_bytes' = receipt_bytes
         /\ receipt_complete' = (receipt_complete /\ e.cleanup # "Confirmed")
  BY <1>1 DEF ReplaceAt, RefreshedRow
<1>. QED  BY <1>3, <1>4, <1>5, <1>6

\* While it is disposed a session has a row for each execution.
LEMMA DisposedRows ==
    ASSUME TypeOK, SessionInductive, disposed, execution # NoExecution
    PROVE  /\ retained /\ initializations \in Nat \ {0}
           /\ Len(executions) = initializations
           /\ executions \in Seq(Rows) /\ executions # <<>>
           /\ Last(executions) = executions[initializations]
           /\ Last(executions) \in Rows
<1>. USE DEF SessionInductive
<1>1. retained /\ initializations \in Nat \ {0} /\ executions \in Seq(Rows)
  BY DEF OwnsWhatItStarted, TypeOK
<1>2. Len(executions) = initializations  BY <1>1 DEF OneRowPerExecution
<1>. QED  BY <1>1, <1>2 DEF Last

LEMMA RetryCleanupKeeps ==
    ASSUME TypeOK, SessionInductive, RetryCleanup
    PROVE  TypeOK' /\ SessionInductive'
<1>. USE DEF SessionInductive
<1>1. PICK e \in Execution!FinishResults(execution), n \in Nat :
              /\ execution' = e /\ receipt_length' = n
              /\ e \in Execution!Executions /\ ClosedIsFinal(e) /\ e # NoExecution
              /\ execution.closed => e = execution
              /\ \/ /\ executions' = [executions EXCEPT ![Len(executions)] = Row(e, n)]
                    /\ receipt_bytes' = Uncharged(Last(executions)) + n
                    /\ receipt_complete' = receipt_complete
                 \/ /\ executions' = executions /\ receipt_bytes' = receipt_bytes
                    /\ receipt_complete' = (receipt_complete /\ e.cleanup # "Confirmed")
  BY RetriedCleanup
<1>2. /\ execution # NoExecution /\ disposed
      /\ initializations' = initializations /\ disposals' = disposals
      /\ disposed' = disposed /\ retained' = retained /\ disposal' = disposal
  BY DEF RetryCleanup, DisposalAfterRetry, counts
<1>3. /\ retained /\ initializations \in Nat \ {0}
      /\ Len(executions) = initializations
      /\ executions \in Seq(Rows) /\ executions # <<>>
      /\ Last(executions) = executions[initializations]
      /\ Last(executions) \in Rows
  BY <1>2, DisposedRows
<1>4. OwnsWhatItStarted'  BY <1>1, <1>2, <1>3 DEF OwnsWhatItStarted
<1>5. RetainedIsOver'  BY <1>2 DEF RetainedIsOver
<1>6. CASE /\ executions' = [executions EXCEPT ![Len(executions)] = Row(e, n)]
           /\ receipt_bytes' = Uncharged(Last(executions)) + n
           /\ receipt_complete' = receipt_complete
  <2>. DEFINE row == Row(e, n)
  <2>1. row \in Rows /\ ~Omitted(row) /\ Charge(row) = n /\ row.receipt = e
    BY <1>1 DEF Row, Rows, Omitted, Charge
  <2>. HIDE DEF row
  <2>2. executions' = [executions EXCEPT ![Len(executions)] = row]  BY <1>6 DEF row
  <2>3. /\ executions' \in Seq(Rows) /\ Len(executions') = Len(executions)
        /\ executions'[initializations] = row
        /\ \A i \in 1..(initializations - 1) : executions'[i] = executions[i]
    BY <1>3, <2>1, <2>2
  <2>4. Last(executions') = row  BY <1>3, <2>3 DEF Last
  <2>5. Uncharged(Last(executions)) \in Nat
    BY <1>3 DEF Uncharged, Rows, TypeOK
  <2>6. TypeOK'
    <3>1. receipt_bytes' \in Nat /\ receipt_complete' \in BOOLEAN
      BY <1>6, <2>5 DEF TypeOK
    <3>. QED  BY <1>1, <1>2, <2>3, <3>1 DEF TypeOK
  <2>7. OneRowPerExecution'
    BY <1>1, <1>2, <1>3, <2>3 DEF OneRowPerExecution
  <2>8. RowIsNoBetter'  BY <1>1, <1>2, <2>1, <2>4 DEF RowIsNoBetter
  <2>9. EveryRowIsCharged'
    <3>. SUFFICES ASSUME receipt_complete'
                  PROVE  /\ \A i \in DOMAIN executions' : ~Omitted(executions'[i])
                         /\ Charged' = receipt_bytes'
      BY DEF EveryRowIsCharged
    <3>1. /\ \A i \in DOMAIN executions : ~Omitted(executions[i])
          /\ Charged = receipt_bytes
      BY <1>6 DEF EveryRowIsCharged
    <3>2. \A i \in DOMAIN executions' : ~Omitted(executions'[i])
      BY <1>3, <2>1, <2>2, <2>3, <3>1
    <3>3. Charge(Last(executions)) = Last(executions).bytes
      BY <1>3, <3>1 DEF Charge
    <3>4. /\ Charged' = Charged - Charge(Last(executions)) + n
          /\ Charge(Last(executions)) <= Charged
          /\ Charge(Last(executions)) \in Nat /\ Charged \in Nat
      <4>1. /\ Charges([executions EXCEPT ![Len(executions)] = row])[Len(executions)]
                   = Charges(executions)[Len(executions)] - Charge(Last(executions)) + Charge(row)
            /\ Charge(Last(executions)) <= Charges(executions)[Len(executions)]
            /\ Charge(Last(executions)) \in Nat
            /\ Charges(executions)[Len(executions)] \in Nat
        BY <1>3, <2>1, ChargedReplaced
      <4>. QED  BY <2>1, <2>2, <2>3, <4>1 DEF Charged
    <3>5. receipt_bytes' = Uncharged(Last(executions)) + n  BY <1>6
    <3>. QED  BY <3>1, <3>2, <3>3, <3>4, <3>5 DEF Uncharged
  <2>10. DisposalIsFinal'
    BY <1>1, <1>2, <2>1, <2>4 DEF DisposalIsFinal
  <2>. QED  BY <1>4, <1>5, <2>6, <2>7, <2>8, <2>9, <2>10
<1>7. CASE /\ executions' = executions /\ receipt_bytes' = receipt_bytes
           /\ receipt_complete' = (receipt_complete /\ e.cleanup # "Confirmed")
  <2>1. TypeOK'  BY <1>1, <1>2, <1>7 DEF TypeOK
  <2>2. OneRowPerExecution'  BY <1>1, <1>2, <1>7 DEF OneRowPerExecution
  <2>3. RowIsNoBetter'  BY <1>1, <1>2, <1>7 DEF RowIsNoBetter
  <2>4. EveryRowIsCharged'
    <3>1. Charged' = Charged  BY <1>7 DEF Charged
    <3>. QED  BY <1>7, <3>1 DEF EveryRowIsCharged
  <2>5. DisposalIsFinal'  BY <1>1, <1>2, <1>7 DEF DisposalIsFinal, Passed
  <2>. QED  BY <1>4, <1>5, <2>1, <2>2, <2>3, <2>4, <2>5
<1>. QED  BY <1>1, <1>6, <1>7

\* A session that has owned no execution.
LEMMA FreshSession ==
    ASSUME execution = NoExecution, receipt_length = 0, executions = <<>>,
           receipt_bytes = 0, receipt_complete = TRUE, initializations = 0,
           disposals \in Nat, disposed \in BOOLEAN, retained = FALSE, disposal = "ok"
    PROVE  TypeOK /\ SessionInductive
<1>1. TypeOK
  <2>1. execution \in Execution!Executions \cup {NoExecution}  OBVIOUS
  <2>2. executions \in Seq(Rows)  OBVIOUS
  <2>3. initializations \in Nat /\ disposals \in Nat  OBVIOUS
  <2>. QED  BY <2>1, <2>2, <2>3 DEF TypeOK
<1>2. /\ OwnsWhatItStarted /\ OneRowPerExecution
      /\ RetainedIsOver /\ RowIsNoBetter /\ DisposalIsFinal
  BY DEF OwnsWhatItStarted, OneRowPerExecution, RetainedIsOver, RowIsNoBetter,
         DisposalIsFinal
<1>3. EveryRowIsCharged
  <2>1. executions \in Seq(Rows) /\ Len(executions) = 0  OBVIOUS
  <2>2. Adds(Charges(executions), executions)  BY <2>1, ChargesAdd
  <2>3. Charged = 0  BY <2>1, <2>2 DEF Charged, Adds
  <2>. QED  BY <2>3 DEF EveryRowIsCharged
<1>. QED  BY <1>1, <1>2, <1>3 DEF SessionInductive

LEMMA InitSession ==
    ASSUME Init
    PROVE  TypeOK /\ SessionInductive
BY FreshSession DEF Init

LEMMA StutteringSession ==
    ASSUME TypeOK, SessionInductive, UNCHANGED vars
    PROVE  TypeOK' /\ SessionInductive'
<1>1. /\ execution' = execution /\ receipt_length' = receipt_length
      /\ executions' = executions /\ receipt_bytes' = receipt_bytes
      /\ receipt_complete' = receipt_complete
      /\ initializations' = initializations /\ disposals' = disposals
      /\ disposed' = disposed /\ retained' = retained /\ disposal' = disposal
  BY DEF vars, evidence, counts, flags
<1>2. TypeOK'  BY <1>1 DEF TypeOK
<1>3. Charged' = Charged  BY <1>1 DEF Charged
<1>4. SessionInductive'
  BY <1>1, <1>3 DEF SessionInductive, OwnsWhatItStarted, OneRowPerExecution,
     RetainedIsOver, RowIsNoBetter, EveryRowIsCharged, DisposalIsFinal
<1>. QED  BY <1>2, <1>4

\* The session's invariant: every call of every interleaving with late arrivals,
\* retries and reentrant disposals keeps it.
THEOREM SessionInvariantHolds == Spec => [](TypeOK /\ SessionInductive)
<1>1. Init => TypeOK /\ SessionInductive  BY InitSession
<1>2. TypeOK /\ SessionInductive /\ [Next]_vars => TypeOK' /\ SessionInductive'
  BY InitializeFirstKeeps, InitializeAgainKeeps, AdvanceKeeps, DisposeNothingKeeps,
     DisposeKeeps, RetryCleanupKeeps, LateArrivalKeeps, StutteringSession
     DEF Next
<1>. QED  BY <1>1, <1>2, PTL DEF Spec

(***************************************************************************)
(* What follows.                                                           *)
(***************************************************************************)
\* "Prior incomplete executions cannot create another SUT": one row per execution
\* that was acquired, and all but the last one's say that it passed.
THEOREM EveryGenerationHasItsRow == Spec => []OneRowPerExecution
<1>1. SessionInductive => OneRowPerExecution  BY DEF SessionInductive
<1>. QED  BY <1>1, SessionInvariantHolds, PTL

\* A row that says that an execution ended says what it is; so fully_completed,
\* which reads the rows alone, tells the truth of the execution and of the bytes.
LEMMA HonestRows ==
    ASSUME TypeOK, SessionInductive
    PROVE  FullyCompletedIsHonest
<1>. USE DEF SessionInductive
<1>1. RowsClaimNoMore
  <2>. SUFFICES ASSUME retained, ~Omitted(Last(executions)),
                       Last(executions).receipt.cleanup = "Confirmed"
                PROVE  Last(executions).receipt = execution
    BY DEF RowsClaimNoMore, Passed
  <2>1. Last(executions).receipt.closed  BY DEF RowIsNoBetter, ClosedIsFinal
  <2>. QED  BY <2>1 DEF RowIsNoBetter
<1>2. ASSUME FullyCompleted
      PROVE  /\ Len(executions) = initializations
             /\ Passed(execution) /\ execution.closed
             /\ Charged = receipt_bytes
  <2>1. disposed /\ execution # NoExecution /\ receipt_complete
    BY <1>2 DEF FullyCompleted, OwnsWhatItStarted, TypeOK
  <2>2. /\ retained /\ Len(executions) = initializations /\ initializations \in Nat \ {0}
        /\ executions \in Seq(Rows) /\ Last(executions) = executions[initializations]
    BY <2>1, DisposedRows
  <2>3. ~Omitted(Last(executions)) /\ Passed(Last(executions).receipt)
    BY <1>2, <2>2 DEF FullyCompleted
  <2>4. Last(executions).receipt.closed  BY <2>2, <2>3 DEF RowIsNoBetter, ClosedIsFinal, Passed
  <2>5. Last(executions).receipt = execution  BY <2>2, <2>3, <2>4 DEF RowIsNoBetter
  <2>. QED  BY <2>1, <2>2, <2>3, <2>4, <2>5 DEF EveryRowIsCharged
<1>. QED  BY <1>1, <1>2 DEF FullyCompletedIsHonest

\* fully_completed and what a retained row claims are the truth.
THEOREM CompletionIsHonest == Spec => []FullyCompletedIsHonest
BY HonestRows, SessionInvariantHolds, PTL

\* "Retry updates retained ownership": a retry that confirms the cleanup leaves the
\* receipt as it is now in the last row, or says that the receipts are incomplete.
THEOREM RetriesAreRetained == Spec => RetryUpdatesTheRow
<1>. DEFINE Updated == RetryCleanup /\ execution'.cleanup = "Confirmed" /\ receipt_complete'
                          => Last(executions').receipt = execution'
<1>1. ASSUME TypeOK, SessionInductive, RetryCleanup,
             execution'.cleanup = "Confirmed", receipt_complete'
      PROVE  Last(executions').receipt = execution'
  <2>1. PICK e \in Execution!FinishResults(execution), n \in Nat :
              /\ execution' = e /\ receipt_length' = n
              /\ e \in Execution!Executions /\ ClosedIsFinal(e) /\ e # NoExecution
              /\ execution.closed => e = execution
              /\ \/ /\ executions' = [executions EXCEPT ![Len(executions)] = Row(e, n)]
                    /\ receipt_bytes' = Uncharged(Last(executions)) + n
                    /\ receipt_complete' = receipt_complete
                 \/ /\ executions' = executions /\ receipt_bytes' = receipt_bytes
                    /\ receipt_complete' = (receipt_complete /\ e.cleanup # "Confirmed")
    BY <1>1, RetriedCleanup
  <2>2. executions \in Seq(Rows) /\ executions # <<>>
    BY <1>1, DisposedRows DEF RetryCleanup
  <2>3. executions' = [executions EXCEPT ![Len(executions)] = Row(e, n)]
    BY <1>1, <2>1
  <2>. QED  BY <2>1, <2>2, <2>3 DEF Last, Row
<1>2. TypeOK /\ SessionInductive => [Updated]_vars  BY <1>1
<1>. QED  BY <1>2, SessionInvariantHolds, PTL DEF RetryUpdatesTheRow

\* "... without changing the original replay failure into success": no retry and no
\* late arrival turns a session that was disposed incomplete into a complete one.
THEOREM FailureStays == Spec => FailureIsSticky
<1>. DEFINE Sticky == disposed /\ ~FullyCompleted => ~FullyCompleted'
<1>1. ASSUME TypeOK, SessionInductive, disposed, RetryCleanup, FullyCompleted'
      PROVE  FullyCompleted
  <2>. USE DEF SessionInductive
  <2>1. PICK e \in Execution!FinishResults(execution), n \in Nat :
              /\ execution' = e /\ receipt_length' = n
              /\ e \in Execution!Executions /\ ClosedIsFinal(e) /\ e # NoExecution
              /\ execution.closed => e = execution
              /\ \/ /\ executions' = [executions EXCEPT ![Len(executions)] = Row(e, n)]
                    /\ receipt_bytes' = Uncharged(Last(executions)) + n
                    /\ receipt_complete' = receipt_complete
                 \/ /\ executions' = executions /\ receipt_bytes' = receipt_bytes
                    /\ receipt_complete' = (receipt_complete /\ e.cleanup # "Confirmed")
    BY <1>1, RetriedCleanup
  <2>2. /\ execution # NoExecution /\ disposed
        /\ initializations' = initializations /\ disposal' = disposal
    BY <1>1 DEF RetryCleanup, DisposalAfterRetry, counts
  <2>3. /\ retained /\ initializations \in Nat \ {0}
        /\ Len(executions) = initializations
        /\ executions \in Seq(Rows) /\ executions # <<>>
        /\ Last(executions) = executions[initializations]
        /\ Last(executions) \in Rows
    BY <1>1, <2>2, DisposedRows
  <2>4. /\ disposal = "ok" /\ receipt_complete /\ receipt_complete'
        /\ \A i \in DOMAIN executions' :
              ~Omitted(executions'[i]) /\ Passed(executions'[i].receipt)
    BY <1>1, <2>1, <2>2 DEF FullyCompleted
  <2>5. execution.closed /\ e = execution
    BY <1>1, <2>1, <2>2, <2>4 DEF DisposalIsFinal
  <2>6. CASE executions' = executions
    BY <2>2, <2>3, <2>4, <2>6 DEF FullyCompleted
  <2>7. CASE executions' = [executions EXCEPT ![Len(executions)] = Row(e, n)]
    <3>1. /\ executions'[initializations] = Row(e, n)
          /\ \A i \in 1..(initializations - 1) : executions'[i] = executions[i]
          /\ DOMAIN executions' = 1..initializations /\ DOMAIN executions = 1..initializations
      BY <2>3, <2>7
    <3>2. Passed(execution)  BY <2>3, <2>4, <2>5, <3>1 DEF Row
    <3>3. Passed(Last(executions).receipt)
      BY <1>1, <2>2, <2>4, <3>2 DEF DisposalIsFinal
    <3>4. \A i \in DOMAIN executions : ~Omitted(executions[i])
      BY <1>1, <2>4 DEF EveryRowIsCharged
    <3>5. ASSUME NEW i \in DOMAIN executions
          PROVE  ~Omitted(executions[i]) /\ Passed(executions[i].receipt)
      <4>1. CASE i = initializations  BY <2>3, <3>3, <3>4, <4>1
      <4>2. CASE i # initializations
        <5>1. i \in 1..(initializations - 1)  BY <2>3, <3>1, <4>2
        <5>. QED  BY <2>4, <3>1, <5>1
      <4>. QED  BY <4>1, <4>2
    <3>. QED  BY <2>2, <2>3, <2>4, <3>5 DEF FullyCompleted
  <2>. QED  BY <2>1, <2>6, <2>7
<1>2. ASSUME disposed, LateArrival \/ UNCHANGED vars
      PROVE  FullyCompleted' = FullyCompleted
  <2>1. /\ disposed' = disposed /\ initializations' = initializations
        /\ disposal' = disposal /\ receipt_complete' = receipt_complete
        /\ executions' = executions
    BY <1>2 DEF LateArrival, vars, evidence, counts, flags
  <2>. QED  BY <2>1 DEF FullyCompleted
<1>3. TypeOK /\ SessionInductive /\ [Next]_vars => [Sticky]_vars
  <2>1. ASSUME disposed, Next PROVE RetryCleanup \/ LateArrival
    BY <2>1 DEF Next, InitializeFirst, InitializeAgain, MayInitialize, Advance,
       DisposeNothing, Dispose
  <2>. QED  BY <1>1, <1>2, <2>1
<1>. QED  BY <1>3, SessionInvariantHolds, PTL DEF Spec, FailureIsSticky

(***************************************************************************)
(* How far the execution is.                                               *)
(***************************************************************************)
\* An execution says that it completed only at the end of the plan.
CompletedThePlan == execution # NoExecution /\ execution.completed => execution.next = PlanLength

\* A call acquires the next execution, which waits for its first interval or failed,
\* in place of one that has run the plan; or leaves the execution where it is.
Renews ==
    /\ initializations' = initializations + 1 /\ execution' # NoExecution
    /\ execution'.failed \/ execution'.next = 0
    /\ execution # NoExecution => execution.next = PlanLength

Stands == initializations' = initializations /\ execution'.next = execution.next

Advances ==
    /\ initializations' = initializations
    /\ ~execution.closed /\ ~execution'.failed => execution'.next = execution.next + 1

\* A started execution has run nothing.
LEMMA StartedAtTheBeginning ==
    ASSUME NEW r \in Execution!StartResults
    PROVE  ~r.completed /\ r.next = 0
<1>1. /\ Execution!Open \in Execution!Executions
      /\ ~Execution!Open.completed /\ Execution!Open.next = 0
  BY DEF Execution!Open, Execution!Executions, Execution!Cleanups
<1>. DEFINE f == Execution!Failed(Execution!Open)
<1>2. f \in Execution!Executions /\ ~f.completed /\ f.next = 0
  BY <1>1, FailedExecution
<1>. HIDE DEF f
<1>3. CASE r = Execution!Open  BY <1>1, <1>3
<1>4. CASE r \in Execution!CleanedUp(f)  BY <1>2, <1>4, CleanedUpExecution
<1>5. CASE r = [f EXCEPT !.closed = TRUE]
  BY <1>2, <1>5 DEF Execution!Executions
<1>. QED  BY <1>3, <1>4, <1>5 DEF Execution!StartResults, f

\* Neither stopping nor a late arrival moves an execution.
LEMMA StoppedWhereItIs ==
    ASSUME NEW e \in Execution!Executions, ClosedIsFinal(e),
           NEW r \in Execution!FinishResults(e) \cup Execution!LateResults(e)
    PROVE  r.completed = e.completed /\ r.next = e.next
<1>1. CASE r \in Execution!LateResults(e)
  BY <1>1, FailedExecution DEF Execution!LateResults
<1>2. CASE r \in Execution!FinishResults(e) /\ e.closed
  BY <1>2 DEF Execution!FinishResults
<1>3. CASE r \in Execution!FinishResults(e) /\ ~e.closed
  <2>1. ~e.completed  BY <1>3 DEF ClosedIsFinal
  <2>2. r \in Execution!CleanedUp(Execution!Failed(e))
    BY <1>3, <2>1 DEF Execution!FinishResults
  <2>. QED  BY <2>2, FailedExecution, CleanedUpExecution
<1>. QED  BY <1>1, <1>2, <1>3

\* advance: an interval further, or failed; and completed at the end of the plan.
LEMMA AdvancedByOne ==
    ASSUME NEW e \in Execution!Executions, ClosedIsFinal(e),
           NEW r \in Execution!AdvanceResults(e)
    PROVE  /\ ~e.closed /\ ~r.failed => r.next = e.next + 1
           /\ e.closed \/ e.failed => r = e
           /\ r.completed => e.completed \/ r.next = PlanLength
<1>1. CASE e.closed \/ e.failed  BY <1>1 DEF Execution!AdvanceResults
<1>2. CASE ~e.closed /\ ~e.failed
  <2>. DEFINE further == [e EXCEPT !.next = @ + 1]
              complete == [further EXCEPT !.completed = TRUE]
  <2>1. /\ further \in Execution!Executions /\ ~further.completed
        /\ further.next = e.next + 1
    BY <1>2 DEF Execution!Executions, ClosedIsFinal
  <2>2. complete \in Execution!Executions /\ complete.next = e.next + 1
    BY <2>1 DEF Execution!Executions
  <2>3. ~e.completed  BY <1>2 DEF ClosedIsFinal
  <2>4. \/ r \in Execution!CleanedUp(Execution!Failed(e))
        \/ r \in Execution!CleanedUp(Execution!Failed(further))
        \/ r \in Execution!CleanedUp(complete) /\ further.next = PlanLength
        \/ r = further
    BY <1>2 DEF Execution!AdvanceResults
  <2>. HIDE DEF further, complete
  <2>5. CASE r \in Execution!CleanedUp(Execution!Failed(e))
    BY <1>2, <2>3, <2>5, FailedExecution, CleanedUpExecution
  <2>6. CASE r \in Execution!CleanedUp(Execution!Failed(further))
    BY <1>2, <2>1, <2>6, FailedExecution, CleanedUpExecution
  <2>7. CASE r \in Execution!CleanedUp(complete) /\ further.next = PlanLength
    BY <1>2, <2>1, <2>2, <2>7, CleanedUpExecution
  <2>8. CASE r = further  BY <1>2, <2>1, <2>8
  <2>. QED  BY <2>4, <2>5, <2>6, <2>7, <2>8
<1>. QED  BY <1>1, <1>2

LEMMA InitializationProgress ==
    ASSUME TypeOK, SessionInductive, CompletedThePlan, InitializeFirst \/ InitializeAgain
    PROVE  CompletedThePlan' /\ (Renews \/ Stands)
<1>1. ASSUME Acquire
      PROVE  /\ CompletedThePlan' /\ initializations' = initializations + 1
             /\ execution' # NoExecution /\ execution'.next = 0
  <2>1. execution' \in Execution!StartResults /\ initializations' = initializations + 1
    BY <1>1 DEF Acquire
  <2>2. execution' # NoExecution  BY <2>1, StartedExecution, NoExecutionAssumption
  <2>. QED  BY <2>1, <2>2, StartedAtTheBeginning DEF CompletedThePlan
<1>2. CASE InitializeFirst  BY <1>1, <1>2 DEF InitializeFirst, Renews
<1>3. CASE InitializeAgain
  <2>1. PICK e \in Execution!FinishResults(execution), n \in ReceiptLengths :
           IF MayReplace(e) THEN Acquire
           ELSE Becomes(e, n) /\ retained' = TRUE /\ UNCHANGED initializations
    BY <1>3 DEF InitializeAgain
  <2>2. /\ execution \in Execution!Executions /\ ClosedIsFinal(execution)
        /\ execution # NoExecution
    BY <1>3, OwnedExecution DEF InitializeAgain, SessionInductive
  <2>3. e.completed = execution.completed /\ e.next = execution.next
    BY <2>2, StoppedWhereItIs
  <2>4. CASE MayReplace(e)
    <3>1. execution.completed  BY <2>3, <2>4 DEF MayReplace, Passed
    <3>2. execution.next = PlanLength  BY <2>2, <3>1 DEF CompletedThePlan
    <3>. QED  BY <1>1, <2>1, <2>4, <3>2 DEF Renews
  <2>5. CASE ~MayReplace(e)
    <3>1. execution' = e /\ initializations' = initializations  BY <2>1, <2>5 DEF Becomes
    <3>. QED  BY <2>2, <2>3, <3>1 DEF CompletedThePlan, Stands
  <2>. QED  BY <2>4, <2>5
<1>. QED  BY <1>2, <1>3

LEMMA AdvanceProgress ==
    ASSUME TypeOK, SessionInductive, CompletedThePlan, Advance
    PROVE  CompletedThePlan' /\ Advances
<1>1. PICK e \in Execution!AdvanceResults(execution) : execution' = e
  BY DEF Advance, Becomes
<1>2. execution # NoExecution /\ initializations' = initializations  BY DEF Advance, counts
<1>3. execution \in Execution!Executions /\ ClosedIsFinal(execution)
  BY <1>2, OwnedExecution DEF SessionInductive
<1>4. /\ ~execution.closed /\ ~e.failed => e.next = execution.next + 1
      /\ execution.closed \/ execution.failed => e = execution
      /\ e.completed => execution.completed \/ e.next = PlanLength
  BY <1>3, AdvancedByOne
<1>5. execution.completed => execution.closed  BY <1>3 DEF ClosedIsFinal
<1>. QED  BY <1>1, <1>2, <1>4, <1>5 DEF CompletedThePlan, Advances

\* The calls that end an execution, and the arrivals between them, move nothing.
LEMMA EndingProgress ==
    ASSUME TypeOK, SessionInductive, CompletedThePlan,
           DisposeNothing \/ Dispose(FALSE) \/ RetryCleanup \/ LateArrival
    PROVE  CompletedThePlan' /\ Stands
<1>1. CASE DisposeNothing  BY <1>1 DEF DisposeNothing, CompletedThePlan, Stands
<1>2. CASE Dispose(FALSE) \/ RetryCleanup \/ LateArrival
  <2>1. PICK e \in Execution!FinishResults(execution) \cup Execution!LateResults(execution) :
           execution' = e
    BY <1>2 DEF Dispose, RetryCleanup, LateArrival, Becomes
  <2>2. execution # NoExecution /\ initializations' = initializations
    BY <1>2 DEF Dispose, RetryCleanup, LateArrival, counts
  <2>3. execution \in Execution!Executions /\ ClosedIsFinal(execution)
    BY <2>2, OwnedExecution DEF SessionInductive
  <2>. QED  BY <2>1, <2>2, <2>3, StoppedWhereItIs DEF CompletedThePlan, Stands
<1>. QED  BY <1>1, <1>2

\* What fully_completed found stays so: whatever is retried or arrives late.
AllPassed ==
    /\ execution # NoExecution /\ Passed(execution) /\ execution.closed
    /\ Len(executions) = initializations
    /\ \A i \in DOMAIN executions : ~Omitted(executions[i]) /\ Passed(executions[i].receipt)

LEMMA CompletedPassed ==
    ASSUME TypeOK, SessionInductive, FullyCompleted
    PROVE  AllPassed
<1>1. /\ Len(executions) = initializations /\ Passed(execution) /\ execution.closed
  BY HonestRows DEF FullyCompletedIsHonest
<1>2. execution # NoExecution
  BY DEF FullyCompleted, SessionInductive, OwnsWhatItStarted, TypeOK
<1>. QED  BY <1>1, <1>2 DEF AllPassed, FullyCompleted

LEMMA PassedStays ==
    ASSUME TypeOK, SessionInductive, AllPassed, LateArrival \/ RetryCleanup
    PROVE  AllPassed'
<1>1. /\ execution # NoExecution /\ execution.closed /\ Passed(execution)
      /\ execution \in Execution!Executions /\ ClosedIsFinal(execution)
  BY OwnedExecution DEF AllPassed, SessionInductive
<1>2. CASE LateArrival
  <2>1. PICK e \in Execution!LateResults(execution) : execution' = e
    BY <1>2 DEF LateArrival, Becomes
  <2>2. execution' = execution  BY <1>1, <2>1, LateExecution
  <2>3. executions' = executions /\ initializations' = initializations
    BY <1>2 DEF LateArrival, evidence, counts
  <2>. QED  BY <2>2, <2>3 DEF AllPassed
<1>3. CASE RetryCleanup
  <2>1. PICK e \in Execution!FinishResults(execution), n \in Nat :
              /\ execution' = e /\ receipt_length' = n
              /\ e \in Execution!Executions /\ ClosedIsFinal(e) /\ e # NoExecution
              /\ execution.closed => e = execution
              /\ \/ /\ executions' = [executions EXCEPT ![Len(executions)] = Row(e, n)]
                    /\ receipt_bytes' = Uncharged(Last(executions)) + n
                    /\ receipt_complete' = receipt_complete
                 \/ /\ executions' = executions /\ receipt_bytes' = receipt_bytes
                    /\ receipt_complete' = (receipt_complete /\ e.cleanup # "Confirmed")
    BY <1>3, RetriedCleanup
  <2>2. /\ execution' = execution /\ initializations' = initializations
        /\ \/ executions' = [executions EXCEPT ![Len(executions)] = Row(execution, n)]
           \/ executions' = executions
    BY <1>1, <1>3, <2>1 DEF RetryCleanup, counts
  <2>3. CASE executions' = executions  BY <2>2, <2>3 DEF AllPassed
  <2>4. CASE executions' = [executions EXCEPT ![Len(executions)] = Row(execution, n)]
    <3>1. executions \in Seq(Rows)  BY DEF TypeOK
    <3>2. /\ Len(executions') = Len(executions) /\ DOMAIN executions' = DOMAIN executions
          /\ \A i \in DOMAIN executions : executions'[i] = executions[i]
                                          \/ executions'[i] = Row(execution, n)
      BY <2>4, <3>1
    <3>3. ~Omitted(Row(execution, n)) /\ Row(execution, n).receipt = execution
      BY <1>1 DEF Omitted, Row
    <3>. QED  BY <1>1, <2>2, <3>2, <3>3 DEF AllPassed
  <2>. QED  BY <2>2, <2>3, <2>4
<1>. QED  BY <1>2, <1>3


LEMMA EndingKeeps ==
    ASSUME TypeOK, SessionInductive,
           DisposeNothing \/ Dispose(FALSE) \/ RetryCleanup \/ LateArrival
    PROVE  TypeOK' /\ SessionInductive'
BY DisposeNothingKeeps, DisposeKeeps, RetryCleanupKeeps, LateArrivalKeeps

=============================================================================
