------------------------------ MODULE MCBrowser ------------------------------
(* A page for TLC, opened just before the turn of a year.                  *)
EXTENDS BrowserPage

MCFirstMonths == {[year |-> 2026, month |-> 12]}
=============================================================================
