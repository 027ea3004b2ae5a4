---------------------------- MODULE BindingSession ----------------------------
(***************************************************************************)
(* schedule_binding::BindingSession (src/src/schedule_binding.rs): the     *)
(* owner of one schedule::Execution after another on one connection, and   *)
(* the keeper of their receipts.  The execution it owns is the abstract    *)
(* one of ExecutionInterface, which Scheduler implements.                  *)
(*                                                                         *)
(* Calls that return early and change nothing are stuttering steps.        *)
(***************************************************************************)
EXTENDS Integers, Sequences, SequencesExt

CONSTANTS
    PlanLength,          \* Schedule.steps.len()
    NoExecution,         \* BindingSession.execution is None
    MaxInitializations,  \* 64 in the code
    MaxReceiptBytes,     \* 16 MiB in the code
    RowBytes,            \* lengths a serialized receipt may have
    ErrorRowBytes        \* length of the row kept in place of an oversized one

ASSUME BoundsAssumption ==
    /\ {PlanLength, MaxInitializations, MaxReceiptBytes, ErrorRowBytes} \subseteq Nat
    /\ RowBytes \subseteq Nat

VARIABLES
    execution,          \* the owned execution, or NoExecution
    receipt_length,     \* what execution.receipt() would serialize to
    executions,         \* retained rows
    receipt_bytes,
    initializations, disposals,
    disposed, retained, receipt_complete,
    disposal            \* what dispose returned: "ok" or "err"

evidence == <<executions, receipt_bytes, receipt_complete>>
counts   == <<initializations, disposals>>
flags    == <<disposed, retained, disposal>>
vars     == <<execution, receipt_length, evidence, counts, flags>>

Execution == INSTANCE ExecutionInterface
                 WITH length <- PlanLength, started <- TRUE, x <- execution

ASSUME NoExecutionAssumption == NoExecution \notin Execution!Executions

Passed(e) == ~e.failed /\ e.completed /\ e.cleanup = "Confirmed"

Row(e, bytes) == [receipt |-> e, bytes |-> bytes]
ErrorRow      == [receipt |-> NoExecution, bytes |-> ErrorRowBytes]
Omitted(row)  == row.receipt = NoExecution

Init ==
    /\ execution = NoExecution
    /\ receipt_length = 0
    /\ executions = <<>> /\ receipt_bytes = 0 /\ receipt_complete = TRUE
    /\ initializations = 0 /\ disposals = 0
    /\ disposed = FALSE /\ retained = FALSE /\ disposal = "ok"

\* Until the execution is closed a call may change the length of its receipt: it
\* records more, and a confirmed cleanup clears the actors that remained.
ReceiptLengths == IF execution.closed THEN {receipt_length} ELSE RowBytes

Becomes(e, n) == execution' = e /\ receipt_length' = n

\* retain: one row per execution, as of its first retention.
AlreadyRetained_Forgotten == FALSE
AlreadyRetained == retained

Fits(bytes) == bytes <= MaxReceiptBytes

Retain(e, n) ==
    IF AlreadyRetained THEN UNCHANGED evidence
    ELSE IF Fits(receipt_bytes + n)
    THEN /\ executions' = Append(executions, Row(e, n))
         /\ receipt_bytes' = receipt_bytes + n
         /\ UNCHANGED receipt_complete
    ELSE /\ executions' = Append(executions, ErrorRow)
         /\ receipt_complete' = FALSE
         /\ UNCHANGED receipt_bytes

(***************************************************************************)
(* initialize.                                                             *)
(***************************************************************************)
RetainedByAcquire_NotReset == execution # NoExecution
RetainedByAcquire == FALSE

Acquire ==
    /\ execution' \in Execution!StartResults
    /\ receipt_length' \in RowBytes
    /\ initializations' = initializations + 1
    /\ retained' = RetainedByAcquire

MayInitialize == ~disposed /\ initializations < MaxInitializations

MayReplace_Finished(e) == ~e.failed /\ e.completed /\ receipt_complete'
MayReplace(e) == Passed(e) /\ receipt_complete'

InitializeFirst ==
    /\ MayInitialize
    /\ execution = NoExecution
    /\ Acquire
    /\ UNCHANGED <<evidence, disposals, disposed, disposal>>

\* finish fails an unfinished execution; that one stays owned, and retained.
InitializeAgain ==
    /\ MayInitialize
    /\ execution # NoExecution
    /\ \E e \in Execution!FinishResults(execution), n \in ReceiptLengths :
          /\ Retain(e, n)
          /\ IF MayReplace(e) THEN Acquire
             ELSE Becomes(e, n) /\ retained' = TRUE /\ UNCHANGED initializations
    /\ UNCHANGED <<disposals, disposed, disposal>>

(***************************************************************************)
(* The other calls.                                                        *)
(***************************************************************************)
Advance ==
    /\ ~disposed /\ execution # NoExecution
    /\ \E e \in Execution!AdvanceResults(execution), n \in ReceiptLengths : Becomes(e, n)
    /\ UNCHANGED <<evidence, counts, flags>>

Released(e) == e.cleanup = "Confirmed"

\* dispose: its result is decided once.  Inside a scheduler callback the
\* execution refuses to be cleaned up and the call fails.
DisposeNothing ==
    /\ ~disposed /\ execution = NoExecution
    /\ disposed' = TRUE /\ disposals' = disposals + 1
    /\ UNCHANGED <<execution, receipt_length, evidence, initializations,
                   retained, disposal>>

Dispose(reentrant) ==
    /\ ~disposed /\ execution # NoExecution
    /\ disposed' = TRUE /\ disposals' = disposals + 1
    /\ \E e \in IF reentrant THEN {execution} ELSE Execution!FinishResults(execution),
          n \in ReceiptLengths :
          /\ Becomes(e, n)
          /\ Retain(e, n)
          /\ disposal' = IF ~reentrant /\ Released(e) /\ receipt_complete'
                         THEN "ok" ELSE "err"
    /\ retained' = TRUE
    /\ UNCHANGED initializations

\* retry_cleanup: once the cleanup is confirmed the last row is replaced, if
\* the new one fits.  The length of the old one is subtracted, saturating.
DisposalAfterRetry_Reset == "ok"
DisposalAfterRetry == disposal

Uncharged(row) == IF row.bytes > receipt_bytes THEN 0 ELSE receipt_bytes - row.bytes

RefreshedRow_Stale(e, n) == Row(Last(executions).receipt, n)
RefreshedRow(e, n) == Row(e, n)

RetryCleanup ==
    /\ disposed /\ execution # NoExecution
    /\ \E e \in Execution!FinishResults(execution), n \in ReceiptLengths :
          LET total == Uncharged(Last(executions)) + n IN
          /\ Becomes(e, n)
          /\ IF e.cleanup = "Confirmed" /\ Fits(total)
             THEN /\ executions' = ReplaceAt(executions, Len(executions), RefreshedRow(e, n))
                  /\ receipt_bytes' = total
                  /\ UNCHANGED receipt_complete
             ELSE /\ receipt_complete' = (receipt_complete /\ e.cleanup # "Confirmed")
                  /\ UNCHANGED <<executions, receipt_bytes>>
    /\ disposal' = DisposalAfterRetry
    /\ UNCHANGED <<counts, disposed, retained>>

\* A thread of the execution arrives without a permit between two calls.
LateArrival ==
    /\ execution # NoExecution
    /\ \E e \in Execution!LateResults(execution), n \in ReceiptLengths : Becomes(e, n)
    /\ UNCHANGED <<evidence, counts, flags>>

Next ==
    \/ InitializeFirst
    \/ InitializeAgain
    \/ Advance
    \/ DisposeNothing
    \/ \E reentrant \in BOOLEAN : Dispose(reentrant)
    \/ RetryCleanup
    \/ LateArrival

Spec == Init /\ [][Next]_vars

FullyCompleted ==
    /\ disposed /\ initializations > 0 /\ disposal = "ok" /\ receipt_complete
    /\ executions # <<>>
    /\ \A i \in DOMAIN executions : ~Omitted(executions[i]) /\ Passed(executions[i].receipt)

(***************************************************************************)
(* Properties.                                                             *)
(***************************************************************************)
\* "Prior incomplete executions cannot create another SUT": every execution
\* acquired but the current one has exactly one row, which says that it passed;
\* and the current one has a row once it is retained.
OneRowPerExecution ==
    /\ Len(executions) = initializations
                         - IF execution = NoExecution \/ retained THEN 0 ELSE 1
    /\ \A i \in 1..(initializations - 1) :
          ~Omitted(executions[i]) /\ Passed(executions[i].receipt)

\* "Retry updates retained ownership": when a retry has confirmed the cleanup,
\* the retained row is the receipt of the execution as it is now, unless the
\* session says that its receipt is incomplete.
RetryUpdatesTheRow ==
    [][RetryCleanup /\ execution'.cleanup = "Confirmed" /\ receipt_complete'
          => Last(executions').receipt = execution']_vars

\* "... without changing the original replay failure into success": a disposed
\* session that has not fully completed never does.
FailureIsSticky == [][disposed /\ ~FullyCompleted => ~FullyCompleted']_vars

\* fully_completed is the truth: every generation passed, the last one is
\* closed, and every receipt was kept and charged.  What a retained row claims
\* to be finished is finished, too: a row that was retained early is at worst
\* out of date, never too good.
Charge(row) == IF Omitted(row) THEN 0 ELSE row.bytes

Charges(rows) ==
    LET sum[i \in 0..Len(rows)] == IF i = 0 THEN 0 ELSE sum[i - 1] + Charge(rows[i])
    IN  sum

Charged == Charges(executions)[Len(executions)]

RowsClaimNoMore ==
    retained /\ execution # NoExecution /\ ~Omitted(Last(executions)) =>
        LET row == Last(executions).receipt IN
        /\ row.cleanup = "Confirmed" => execution.cleanup = "Confirmed"
        /\ Passed(row) => Passed(execution)

FullyCompletedIsHonest ==
    /\ RowsClaimNoMore
    /\ FullyCompleted =>
          /\ Len(executions) = initializations
          /\ Passed(execution) /\ execution.closed
          /\ Charged = receipt_bytes

\* "Session evidence is bounded to ... 16 MiB."
EvidenceIsBounded == Charged <= MaxReceiptBytes

=============================================================================
