------------------------------ MODULE MCLedger ------------------------------
(* The ledger for TLC: three default categories, two requests at once, and *)
(* bookings on both sides of the ends of a month and of a year.            *)
EXTENDS Ledger

MCSeededTypes == <<"expense", "expense", "income">>
MCAmounts == {-1, 2}
MCBookingDates == {20251231, 20260101, 20260201}
=============================================================================
