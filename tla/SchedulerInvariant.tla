------------------------- MODULE SchedulerInvariant -------------------------
(***************************************************************************)
(* The inductive invariant behind the scheduler's safety properties: what  *)
(* the properties themselves do not say about credits, about the copies a  *)
(* pass holds and about the bookings already made, and each step needs.    *)
(***************************************************************************)
EXTENDS Scheduler

(* A copy is the row, unless the user has written the row meanwhile; the   *)
(* loop only keeps copies that have an installment to book.                *)
CopiesFresh ==
    \A t \in DOMAIN pending :
        /\ HasInstallmentsLeft(pending[t])
        /\ t \notin raced => t \in DOMAIN templates /\ pending[t] = templates[t]

(* What was booked for a template lies before its due date, and before     *)
(* that of the copy, unless the user set it back.                          *)
BookedBeforeDue ==
    \A i \in DOMAIN transactions :
        LET t == transactions[i].template
        IN  /\ t <= lastTemplate
            /\ IsRecurring(i) /\ t \notin rewound =>
                 /\ t \in DOMAIN templates => transactions[i].date < templates[t].nextDue
                 /\ t \in DOMAIN pending => transactions[i].date < pending[t].nextDue

(* Nothing is paid for a template that does not exist yet. *)
UnpaidBeforeCreation == \A t \in TemplateIds : t > lastTemplate => paid[t] = 0

(* The instant of a pass is not ahead of the clock, and no copy it holds   *)
(* is due after that instant.                                              *)
PassInTime ==
    /\ asOf # NoPass => \E shift \in UtcShifts : asOf.utc <= UtcDate(shift)
    /\ \A t \in DOMAIN pending : pending[t].nextDue <= asOf.utc

(* A pass's copies never run ahead of the database or behind it unless the *)
(* user writes under it, and all of the above holds together.              *)
InductiveInvariant ==
    /\ CopiesFresh
    /\ BookedBeforeDue
    /\ UnpaidBeforeCreation
    /\ PassInTime
=============================================================================
