----------------------------- MODULE MCOverview -----------------------------
(* The overview for TLC: a single template and the days of two months,     *)
(* so that a forecast ends in a short and in a long month.                 *)
EXTENDS Overview, MCScheduler

MCOverviewRequests == {PlanRequest, WeeklyPlanRequest, EndlessRequest}
MCOverviewDays == {20260225, 20260303}
MCOverviewShifts == {0}
=============================================================================
