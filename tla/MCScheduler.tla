---------------------------- MODULE MCScheduler ----------------------------
(* The scheduler for TLC: a monthly plan of two installments first due on  *)
(* 31 January, whose second date is 3 March, a weekly plan and an endless  *)
(* weekly template, over days that catch up to two occurrences at once.    *)
EXTENDS SchedulerInvariant, SchedulerContract

CONSTANTS rent, giro           \* a category and an account

PlanRequest ==
    [amount |-> 3, category |-> rent, account |-> giro, interval |-> "monthly",
     nextDue |-> 20260131, active |-> TRUE, limited |-> TRUE, remaining |-> 2]
WeeklyPlanRequest ==
    [PlanRequest EXCEPT !.amount = 2, !.interval = "weekly", !.nextDue = 20260224]
EndlessRequest ==
    [WeeklyPlanRequest EXCEPT !.limited = FALSE, !.remaining = 0]
EmptyPlanRequest == [PlanRequest EXCEPT !.remaining = 0]
NegativeRequest == [PlanRequest EXCEPT !.amount = -1]

MCRequests == {PlanRequest, WeeklyPlanRequest, EndlessRequest, EmptyPlanRequest, NegativeRequest}
MCDays == {20260131, 20260303, 20260305}
MCUtcShifts == {-1, 0, 1}
=============================================================================
