-------------------------- MODULE SchedulerContract --------------------------
(***************************************************************************)
(* The scheduler and the handlers keep the contract of PlanContract: the   *)
(* terms of a plan are read off its row, the journal is the table of       *)
(* bookings, and a plan is in dispute from a request that wrote its row    *)
(* while a pass held a copy until the next edit of it.                     *)
(***************************************************************************)
EXTENDS Scheduler

DueDate == [t \in DOMAIN templates |-> templates[t].nextDue]

(* A finished plan owes nothing, whatever credit its row still has. *)
OwedBy(rt) ==
    IF ~ rt.limited THEN -1
    ELSE IF rt.remaining > 0 THEN OutstandingCents(rt) ELSE 0

Owed == [t \in DOMAIN templates |-> OwedBy(templates[t])]

Contract == INSTANCE PlanContract WITH
                Plans <- TemplateIds, due <- DueDate, owed <- Owed,
                journal <- transactions, disputed <- raced

(* Passes over stale copies, failures in the middle, restarts and requests *)
(* in any order look to the user like the steps of the contract: whatever  *)
(* is booked is the occurrence that was due, for what was owed, together   *)
(* with the date and the sum moving on, and touches no other plan.         *)
PlanContractKept == Contract!Spec
=============================================================================
