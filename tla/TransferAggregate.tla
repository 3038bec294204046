-------------------------- MODULE TransferAggregate --------------------------
(***************************************************************************)
(* The transfer aggregate: its lifecycle state, the guards of its          *)
(* operations and the event handler (transfer.aggregate.ts).  The three    *)
(* legs are symmetric, so startDebit, startCredit and startCompensation    *)
(* are one operator over the leg, and so are markDebited, complete and     *)
(* markCompensated.  Attempt counters and timestamps are left out.         *)
(***************************************************************************)
EXTENDS Integers

Legs == {"debit", "credit", "compensation"}

TransferStatus ==
    {"INITIATED", "DEBIT_IN_PROGRESS", "DEBITED", "CREDIT_IN_PROGRESS", "COMPLETED",
     "FAILED", "COMPENSATION_IN_PROGRESS", "COMPENSATED"}

Stages == {"DEBIT", "CREDIT"}

\* "NONE" stands for an undefined status or failureStage.
TransferState == [status : TransferStatus \cup {"NONE"}, failureStage : Stages \cup {"NONE"}]

NewTransfer == [status |-> "NONE", failureStage |-> "NONE"]

\* when: how an event of the transfer stream changes the state.  stage is read
\* for TransferFailed only.
TransferWhen(tr, eventType, stage) ==
    CASE eventType = "TransferInitiated" ->
           [status |-> "INITIATED", failureStage |-> "NONE"]
      [] eventType = "TransferDebitStarted" ->
           [status |-> "DEBIT_IN_PROGRESS", failureStage |-> "NONE"]
      [] eventType = "TransferDebited" ->
           [tr EXCEPT !.status = "DEBITED"]
      [] eventType = "TransferCreditStarted" ->
           [status |-> "CREDIT_IN_PROGRESS", failureStage |-> "NONE"]
      [] eventType = "TransferCompleted" ->
           [tr EXCEPT !.status = "COMPLETED"]
      [] eventType = "TransferFailed" ->
           [status |-> "FAILED", failureStage |-> stage]
      [] eventType = "TransferCompensationStarted" ->
           [tr EXCEPT !.status = "COMPENSATION_IN_PROGRESS"]
      [] eventType = "TransferCompensated" ->
           [tr EXCEPT !.status = "COMPENSATED"]

-----------------------------------------------------------------------------
(* initiate *)

CanInitiate(tr, source, destination, amountMinorUnits) ==
    /\ tr.status = "NONE"
    /\ source # destination
    /\ amountMinorUnits > 0

Initiated(tr) == TransferWhen(tr, "TransferInitiated", "NONE")

-----------------------------------------------------------------------------
(* startDebit, startCredit, startCompensation *)

CanStart(tr, leg) ==
    CASE leg = "debit"  -> tr.status \in {"INITIATED", "DEBIT_IN_PROGRESS"}
      [] leg = "credit" -> tr.status \in {"DEBITED", "CREDIT_IN_PROGRESS"}
      [] leg = "compensation" ->
           /\ tr.status \in {"FAILED", "COMPENSATION_IN_PROGRESS"}
           /\ tr.failureStage = "CREDIT"

Started(tr, leg) ==
    TransferWhen(tr, CASE leg = "debit"        -> "TransferDebitStarted"
                       [] leg = "credit"       -> "TransferCreditStarted"
                       [] leg = "compensation" -> "TransferCompensationStarted", "NONE")

-----------------------------------------------------------------------------
(* markDebited, complete, markCompensated *)

\* Mutant: the status guard is missing.
AdvancesFromAnywhere(tr, leg) == TRUE

CanAdvance(tr, leg) ==
    tr.status = CASE leg = "debit"        -> "DEBIT_IN_PROGRESS"
                  [] leg = "credit"       -> "CREDIT_IN_PROGRESS"
                  [] leg = "compensation" -> "COMPENSATION_IN_PROGRESS"

Advanced(tr, leg) ==
    TransferWhen(tr, CASE leg = "debit"        -> "TransferDebited"
                       [] leg = "credit"       -> "TransferCompleted"
                       [] leg = "compensation" -> "TransferCompensated", "NONE")

-----------------------------------------------------------------------------
(* fail: accepted in either IN_PROGRESS status, whatever the stage. *)

CanFail(tr) == tr.status \in {"DEBIT_IN_PROGRESS", "CREDIT_IN_PROGRESS"}

Failed(tr, stage) == TransferWhen(tr, "TransferFailed", stage)

-----------------------------------------------------------------------------
\* An operation of the aggregate in state tr may raise an event of this type.
CanRaise(tr, eventType) ==
    CASE eventType = "TransferInitiated"           -> tr.status = "NONE"
      [] eventType = "TransferDebitStarted"        -> CanStart(tr, "debit")
      [] eventType = "TransferDebited"             -> CanAdvance(tr, "debit")
      [] eventType = "TransferCreditStarted"       -> CanStart(tr, "credit")
      [] eventType = "TransferCompleted"           -> CanAdvance(tr, "credit")
      [] eventType = "TransferFailed"              -> CanFail(tr)
      [] eventType = "TransferCompensationStarted" -> CanStart(tr, "compensation")
      [] eventType = "TransferCompensated"         -> CanAdvance(tr, "compensation")
=============================================================================
