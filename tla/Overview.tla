------------------------------ MODULE Overview ------------------------------
(***************************************************************************)
(* The overview page beside the scheduler and the user's requests.  The    *)
(* handler GetOverview puts it together from separate queries: the total   *)
(* balance, the accounts' balances, the list of bookings and the forecast  *)
(* of what is still to be booked this month.  Between any two of them the  *)
(* scheduler may book and the user may write.                              *)
(*                                                                         *)
(* A sum is represented by the bookings it is made of; bookings are only   *)
(* appended here, so that these are the first so many.  The list's limit   *)
(* of 200 rows, and the names that are looked up last, are left out.       *)
(***************************************************************************)
EXTENDS SettingsPage

VARIABLES
    page,            \* what the handler has read so far, or the page that is shown
    touched          \* history: the templates not left alone since the forecast, or in a race then

overviewVars == <<vars, settings, page, touched>>

(* Mistake: the forecast is read before the bookings. *)
ReadOrderForecastFirst == <<"forecast", "total", "accounts", "list">>

ReadOrder == <<"total", "accounts", "list", "forecast">>

(* `shown' is how many of the bookings some sum or list of the page        *)
(* contains, `bookedBefore' how many there were at the forecast, and        *)
(* `until' the end of the month it is about.                               *)
NoPage ==
    [read |-> Len(ReadOrder), shown |-> 0, upcoming |-> {}, until |-> 0, bookedBefore |-> 0]

OverviewInit == SettingsInit /\ page = NoPage /\ touched = {}

(***************************************************************************)
(* The forecast                                                            *)
(***************************************************************************)
(* Mistake: every month has 31 days. *)
EndOfMonth31(day) == DateOf(YearOf(day), MonthOf(day), 31)

EndOfMonth(day) == DateOf(YearOf(day), MonthOf(day), DaysIn(YearOf(day), MonthOf(day)))

(* Mistake: the last installment forecast in full. *)
OccurrenceInFull(t, rt) == [template |-> t, date |-> rt.nextDue, amount |-> rt.amount]

Occurrence(t, rt) == [template |-> t, date |-> rt.nextDue, amount |-> NextAmountCents(rt)]

(* The loop works on a copy, which it advances and counts down as a pass   *)
(* does its own.                                                           *)
ForecastOf(t, until) ==
    LET from[rt \in Template] ==
            IF rt.nextDue <= until /\ HasInstallmentsLeft(rt)
            THEN {Occurrence(t, rt)} \cup from[CopyAfterBooking(rt)]
            ELSE {}
    IN  from[templates[t]]

ListUpcomingRecurring(until) ==
    UNION {ForecastOf(t, until) : t \in {u \in DOMAIN templates : templates[u].active}}

(***************************************************************************)
(* GetOverview                                                             *)
(***************************************************************************)
(* A request takes the place of the page before, shown or given up after a  *)
(* query that failed.                                                      *)
Requested ==
    /\ phase # "down"
    /\ page' = [NoPage EXCEPT !.read = 0]
    /\ UNCHANGED <<vars, settings, touched>>

Reads(what) ==
    /\ phase # "down"
    /\ page.read < Len(ReadOrder) /\ ReadOrder[page.read + 1] = what
    /\ UNCHANGED <<vars, settings>>

ReadBookings(what) ==
    /\ Reads(what)
    /\ page' = [page EXCEPT !.read = @ + 1, !.shown = Len(transactions)]
    /\ UNCHANGED touched

ReadTotal    == ReadBookings("total")
ReadAccounts == ReadBookings("accounts")
ReadList     == ReadBookings("list")

ReadForecast ==
    /\ Reads("forecast")
    /\ page' = [page EXCEPT !.read = @ + 1, !.upcoming = ListUpcomingRecurring(EndOfMonth(today)),
                            !.until = EndOfMonth(today), !.bookedBefore = Len(transactions)]
    /\ touched' = raced

GetOverview == Requested \/ ReadTotal \/ ReadAccounts \/ ReadList \/ ReadForecast

(***************************************************************************)
(* Everything else                                                         *)
(***************************************************************************)
SchedulerActs ==
    /\ PassStep \/ Start \/ TickerFires \/ ReceiveTick \/ DayPasses
    /\ UNCHANGED <<settings, page, touched>>

(* A page that was being put together is never shown. *)
ProcessExits ==
    /\ Exit
    /\ page' = IF page.read = Len(ReadOrder) THEN page ELSE NoPage
    /\ UNCHANGED <<settings, touched>>

Written ==
    {t \in DOMAIN templates \cup DOMAIN templates' :
        \/ t \notin DOMAIN templates \cap DOMAIN templates'
        \/ templates[t] # templates'[t]}

UserActs ==
    /\ SettingsStep
    /\ touched' = touched \cup Written
    /\ UNCHANGED page

OverviewNext == GetOverview \/ SchedulerActs \/ ProcessExits \/ UserActs

OverviewSpec == OverviewInit /\ [][OverviewNext]_overviewVars

(***************************************************************************)
(* Properties                                                              *)
(***************************************************************************)
PageTypeOK ==
    /\ SettingsTypeOK
    /\ page.read \in 0..Len(ReadOrder)
    /\ {page.shown, page.bookedBefore} \subseteq 0..Len(transactions)
    /\ page.upcoming \subseteq [template : TemplateIds, date : Dates, amount : Nat]
    /\ page.until \in Dates \cup {0}
    /\ touched \subseteq TemplateIds

(* "Not-yet-booked recurring bookings ... (not part of the balance)"       *)
(* (README.md): whatever is booked while the page is being put together,   *)
(* no entry it shows as pending is also in its total, in an account's      *)
(* balance or in the list.                                                 *)
OccurrenceOf(i) ==
    [template |-> transactions[i].template, date |-> transactions[i].date,
     amount |-> transactions[i].amount]

PendingNotBooked ==
    \A o \in page.upcoming, i \in DOMAIN transactions :
        /\ i <= page.shown /\ IsRecurring(i)
        /\ transactions[i].template = o.template /\ transactions[i].date = o.date
        => o.template \in rewound

(* The forecast comes true: of a template that no pass was holding an old  *)
(* copy of at the forecast, and that no request has changed since, exactly *)
(* what the page announced up to the due date reached is booked, with the  *)
(* same dates and amounts, however often a pass fails or is begun anew.    *)
BookedSince(t) ==
    {OccurrenceOf(i) : i \in {j \in DOMAIN transactions :
        /\ j > page.bookedBefore /\ IsRecurring(j)
        /\ transactions[j].template = t /\ transactions[j].date <= page.until}}

ForecastComesTrue ==
    page.until # 0 =>
        \A t \in DOMAIN templates \ touched :
            BookedSince(t) = {o \in page.upcoming : o.template = t /\ o.date < templates[t].nextDue}
=============================================================================
