----------------------------- MODULE MCDueDates -----------------------------
(* Due dates for TLC: every day of the winter 2023/24, with a leap         *)
(* February, followed to March 2104, past the February of 2100, which is   *)
(* no leap year.                                                           *)
EXTENDS DueDates

MCFirstDueDates ==
    {d \in 20231201..20240331 : d \in Dates}

MCHorizon == 21040301
MCShortHorizon == 20250401
=============================================================================
