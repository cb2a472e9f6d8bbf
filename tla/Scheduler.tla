------------------------------ MODULE Scheduler ------------------------------
(***************************************************************************)
(* The recurring-bookings scheduler running beside the HTTP handlers.      *)
(*                                                                         *)
(* A pass lists the active templates that are due and then books them one  *)
(* occurrence at a time, each in a database transaction of its own, from   *)
(* the copies it listed.  Between any two of these steps a handler may     *)
(* change or delete the very templates the pass still holds, a step may    *)
(* fail, and the process may exit.  A pass runs when the process starts    *)
(* and whenever the 24-hour ticker fires.                                  *)
(***************************************************************************)
EXTENDS RecurringStore

CONSTANTS
    Days,            \* the dates the clock shows, in the server's time zone
    UtcShifts,       \* the days by which the UTC date can differ from that date
    Requests,        \* what the user may send to create or edit a template
    ExtraAmounts,    \* the extra payments the user may enter, in cents
    MaxEdits,        \* bound: requests of the user that change the database
    MaxFaults        \* bound: failed database calls, and exits of the process

ASSUME SchedulerAssumption ==
    /\ Days \subseteq {day \in Dates : YearOf(day) > 0} /\ Days # {}
    /\ UtcShifts \subseteq {-1, 0, 1}
    /\ Requests \subseteq Request
    /\ ExtraAmounts \subseteq Nat
    /\ MaxEdits \in Nat /\ MaxFaults \in Nat

VARIABLES
    today,           \* the date the clock shows
    phase,           \* "down", "waiting" for the ticker, "listing" or "booking"
    asOf,            \* the instant the pass was given: its local and its UTC date
    pending,         \* the pass's copies of the templates it still has to book
    current,         \* the one it is catching up, 0 when it is between two
    ticker,          \* "none" before the first pass ends, then "empty" or "full"
    edits, faults    \* how much of the bounds is used up

pass == <<phase, asOf, pending, current, ticker>>

(* History, for the properties only: per template, what has been booked and *)
(* what its user agreed to pay in all (both from the last edit on, the sum  *)
(* booked before being part of both); the templates written by the user     *)
(* while a pass held a copy of them, and not edited since; and those whose  *)
(* due date the user ever set back to a day already booked.                 *)
VARIABLES paid, agreed, raced, rewound

history == <<paid, agreed, raced, rewound>>

vars == <<store, today, pass, edits, faults, history>>

NoCopies == [t \in {} |-> {}]
NoPass == [local |-> 0, utc |-> 0]
Instants == [local : Dates, utc : Dates] \cup {NoPass}

UtcDate(shift) == AddDate(today, 0, 0, shift)

Init ==
    /\ StoreInit
    /\ today \in Days
    /\ phase = "down" /\ asOf = NoPass
    /\ pending = NoCopies /\ current = 0 /\ ticker = "none"
    /\ edits = 0 /\ faults = 0
    /\ paid = [t \in TemplateIds |-> 0] /\ agreed = [t \in TemplateIds |-> 0]
    /\ raced = {} /\ rewound = {}

(***************************************************************************)
(* The pass                                                                *)
(***************************************************************************)

(* runOnce reads the clock; the pass works with that instant to its end.   *)
BeginPass ==
    /\ phase' = "listing"
    /\ \E shift \in UtcShifts : asOf' = [local |-> today, utc |-> UtcDate(shift)]
    /\ UNCHANGED <<pending, current>>

(* Mistake: a pass cut short ends Run before the ticker is made. *)
EndPassWithoutTicker ==
    /\ phase' = "waiting"
    /\ asOf' = NoPass
    /\ pending' = NoCopies
    /\ current' = 0
    /\ UNCHANGED ticker

(* The end of the pass, finished or not.  After the first, Run creates the *)
(* ticker.                                                                 *)
EndPass ==
    /\ phase' = "waiting"
    /\ asOf' = NoPass
    /\ pending' = NoCopies
    /\ current' = 0
    /\ ticker' = IF ticker = "none" THEN "empty" ELSE ticker

(* The condition of the loop, which compares the due date, midnight UTC,   *)
(* with the instant, while the query compared it with the local date.      *)
StillDue(rt) == rt.nextDue <= asOf.utc /\ HasInstallmentsLeft(rt)

GoOnWith(t, copies) ==
    IF DOMAIN copies = {}
    THEN EndPass
    ELSE /\ phase' = "booking"
         /\ pending' = copies
         /\ current' = IF t \in DOMAIN copies THEN t ELSE 0
         /\ UNCHANGED <<asOf, ticker>>

(* Templates are taken in the order of the query, by due date and id, and  *)
(* each is caught up before the next.                                      *)
IsNext(t) ==
    /\ t \in DOMAIN pending
    /\ IF current \in DOMAIN pending
       THEN t = current
       ELSE \A u \in DOMAIN pending :
               \/ pending[t].nextDue < pending[u].nextDue
               \/ pending[t].nextDue = pending[u].nextDue /\ t <= u

List ==
    /\ phase = "listing"
    /\ GoOnWith(0, [t \in {u \in ActiveDue(asOf.local) : StillDue(templates[u])} |-> templates[t]])
    /\ UNCHANGED <<store, today, edits, faults, history>>

(* Mistake: the loop tests the due date it has just booked. *)
CopiesAfterBookingLate(t) ==
    LET rt == CopyAfterBooking(pending[t])
    IN  [u \in {v \in DOMAIN pending : v = t => StillDue(pending[t]) /\ HasInstallmentsLeft(rt)} |->
            IF u = t THEN rt ELSE pending[u]]

CopiesAfterBooking(t) ==
    LET rt == CopyAfterBooking(pending[t])
    IN  [u \in {v \in DOMAIN pending : v = t => StillDue(rt)} |->
            IF u = t THEN rt ELSE pending[u]]

Book(t) ==
    /\ phase = "booking"
    /\ IsNext(t)
    /\ BookRecurringOccurrence(t, pending[t])
    /\ GoOnWith(t, CopiesAfterBooking(t))
    /\ paid' = [paid EXCEPT ![t] = @ + NextAmountCents(pending[t])]
    /\ UNCHANGED <<today, edits, faults, agreed, raced, rewound>>

(* A booking whose category or account is gone violates a foreign key; any *)
(* database call may fail besides.  The pass gives up, with the bookings   *)
(* made so far, and the process waits for the next tick.                   *)
PassFails ==
    /\ phase \in {"listing", "booking"}
    /\ \/ /\ \E t \in DOMAIN pending : IsNext(t) /\ ~ ReferencesExist(pending[t])
          /\ UNCHANGED faults
       \/ /\ faults < MaxFaults
          /\ faults' = faults + 1
    /\ EndPass
    /\ UNCHANGED <<store, today, edits, history>>

(***************************************************************************)
(* The process and its clock                                               *)
(***************************************************************************)
Start ==
    /\ phase = "down"
    /\ BeginPass
    /\ UNCHANGED <<store, today, ticker, edits, faults, history>>

(* The ticker's channel holds one tick: one that comes during a pass waits. *)
TickerFires ==
    /\ ticker = "empty"
    /\ ticker' = "full"
    /\ UNCHANGED <<store, today, phase, asOf, pending, current, edits, faults, history>>

ReceiveTick ==
    /\ phase = "waiting" /\ ticker = "full"
    /\ ticker' = "empty"
    /\ BeginPass
    /\ UNCHANGED <<store, today, edits, faults, history>>

(* A crash, or a shutdown, which does not wait for the scheduler. *)
Exit ==
    /\ phase # "down" /\ faults < MaxFaults
    /\ faults' = faults + 1
    /\ phase' = "down" /\ asOf' = NoPass
    /\ pending' = NoCopies /\ current' = 0 /\ ticker' = "none"
    /\ UNCHANGED <<store, today, edits, history>>

DayPasses ==
    /\ \E day \in Days : day > today /\ today' = day
    /\ UNCHANGED <<store, pass, edits, faults, history>>

(***************************************************************************)
(* The user, through the HTTP handlers                                     *)
(***************************************************************************)
UserEdits ==
    /\ phase # "down"
    /\ edits < MaxEdits
    /\ edits' = edits + 1
    /\ UNCHANGED <<today, pass, faults>>

RacedIfHeld(t) == IF t \in DOMAIN pending THEN raced \cup {t} ELSE raced

(* A recurring booking of t dated on or after a day. *)
BookedFrom(t, date) ==
    \E row \in BookedRows : row.source = "recurring" /\ row.template = t /\ row.date >= date

UserCreates(req) ==
    /\ UserEdits
    /\ CreateRecurringTemplate(req)
    /\ agreed' = [agreed EXCEPT ![lastTemplate'] = OutstandingCents(NewTemplate(req))]
    /\ UNCHANGED <<paid, raced, rewound>>

UserUpdates(t, req) ==
    /\ UserEdits
    /\ UpdateRecurringTemplate(t, req)
    /\ agreed' = [agreed EXCEPT ![t] = paid[t] + OutstandingCents(EditedTemplate(templates[t], req))]
    /\ raced' = IF t \in DOMAIN pending THEN raced \cup {t} ELSE raced \ {t}
    /\ rewound' = IF BookedFrom(t, req.nextDue) THEN rewound \cup {t} ELSE rewound
    /\ UNCHANGED paid

UserDeletes(t) ==
    /\ UserEdits
    /\ DeleteRecurringTemplate(t)
    /\ raced' = RacedIfHeld(t)
    /\ UNCHANGED <<paid, agreed, rewound>>

(* The payment is dated today, as the dialog proposes. *)
UserPaysExtra(t, cents) ==
    /\ UserEdits
    /\ AddExtraPayment(t, cents, today)
    /\ paid' = [paid EXCEPT ![t] = @ + cents]
    /\ raced' = RacedIfHeld(t)
    /\ UNCHANGED <<agreed, rewound>>

UserDeletesCategory(c) == UserEdits /\ DeleteCategory(c) /\ UNCHANGED history
UserDeletesAccount(a)  == UserEdits /\ DeleteAccount(a) /\ UNCHANGED history

(***************************************************************************)
(* The specification                                                       *)
(***************************************************************************)
PassStep == List \/ (\E t \in TemplateIds : Book(t)) \/ PassFails

UserStep ==
    \/ \E req \in Requests : UserCreates(req)
    \/ \E t \in TemplateIds, req \in Requests : UserUpdates(t, req)
    \/ \E t \in TemplateIds : UserDeletes(t)
    \/ \E t \in TemplateIds, cents \in ExtraAmounts : UserPaysExtra(t, cents)
    \/ \E c \in Category : UserDeletesCategory(c)
    \/ \E a \in Account : UserDeletesAccount(a)

Next == PassStep \/ Start \/ TickerFires \/ ReceiveTick \/ Exit \/ DayPasses \/ UserStep

Spec == Init /\ [][Next]_vars

(* The goroutine runs on, the ticker keeps firing, and the deployment      *)
(* starts the process again after an exit.  Nothing makes the user act or  *)
(* the day pass.                                                           *)
Fairness ==
    /\ WF_vars(PassStep)
    /\ WF_vars(Start)
    /\ WF_vars(TickerFires)
    /\ WF_vars(ReceiveTick)

FairSpec == Spec /\ Fairness

(***************************************************************************)
(* Properties                                                              *)
(***************************************************************************)

(* Every row has the type its column declares, the copies a pass holds are *)
(* templates that once existed, and no pass is under way while the process *)
(* is down or waiting.                                                     *)
PassTypeOK ==
    /\ phase \in {"down", "waiting", "listing", "booking"}
    /\ asOf \in Instants
    /\ phase \in {"listing", "booking"} => asOf # NoPass
    /\ DOMAIN pending \subseteq 1..lastTemplate
    /\ pending \in [DOMAIN pending -> Template]
    /\ phase # "booking" => DOMAIN pending = {}
    /\ current \in 0..MaxTemplates
    /\ ticker \in {"none", "empty", "full"}

HistoryTypeOK ==
    /\ paid \in [TemplateIds -> Int] /\ agreed \in [TemplateIds -> Int]
    /\ raced \subseteq TemplateIds /\ rewound \subseteq TemplateIds

TypeOK ==
    /\ StoreTypeOK /\ PassTypeOK /\ HistoryTypeOK
    /\ today \in Days
    /\ edits \in 0..MaxEdits /\ faults \in 0..MaxFaults

(* No occurrence is booked twice, whatever the order of passes, edits,     *)
(* failures and restarts, unless the user has set the due date back to a   *)
(* day already booked: the insert and the advance of next_due_date are one *)
(* database transaction (bookRecurringOccurrence).                         *)
IsRecurring(i) == transactions[i].source = "recurring"

BookedOnce ==
    \A i, j \in DOMAIN transactions :
        /\ i # j
        /\ IsRecurring(i) /\ IsRecurring(j)
        /\ transactions[i].template = transactions[j].template
        /\ transactions[i].date = transactions[j].date
        => transactions[i].template \in rewound

(* An installment plan the user did not touch in the middle of a pass over *)
(* it adds up: what was booked and what is still open are the sum agreed,  *)
(* and when no installment is left exactly that sum was booked, over any   *)
(* sequence of extra payments, catch-ups, failures and edits.              *)
PlanConserved ==
    \A t \in DOMAIN templates \ raced :
        templates[t].limited =>
            IF templates[t].remaining > 0
            THEN paid[t] + OutstandingCents(templates[t]) = agreed[t]
            ELSE paid[t] = agreed[t]

(* No occurrence is booked before its day has come, in the server's zone   *)
(* or in UTC, whichever is ahead.                                          *)
NeverBookedAhead ==
    \A row \in BookedRows :
        row.source = "recurring" =>
            row.date <= today \/ \E shift \in UtcShifts : row.date <= UtcDate(shift)

(* No occurrence is lost: the due date of a template moves only when its   *)
(* user edits it, or by one interval together with the booking of the date *)
(* it leaves; for every template the user did not write under a running    *)
(* pass.                                                                   *)
BookedInThisStep(t, date) ==
    /\ Len(transactions') = Len(transactions) + 1
    /\ LET row == transactions'[Len(transactions')]
       IN  row.template = t /\ row.date = date /\ row.source = "recurring"

NoOccurrenceLost ==
    [][\A t \in (DOMAIN templates \cap DOMAIN templates') \ raced :
         templates'[t].nextDue # templates[t].nextDue =>
             \/ /\ BookedInThisStep(t, templates[t].nextDue)
                /\ templates'[t].nextDue = Advance(templates[t])
             \/ \E req \in Requests : UserUpdates(t, req)]_vars

(* Whatever is due is caught up in the end, all missed occurrences of it,  *)
(* once the user stops editing and the failures stop: a failed or killed   *)
(* pass is made good by the next tick or the next start.                   *)
Overdue(t) ==
    /\ t \in DOMAIN templates
    /\ templates[t].active
    /\ templates[t].nextDue <= today
    /\ \A shift \in UtcShifts : templates[t].nextDue <= UtcDate(shift)

OverdueIsBooked == \A t \in TemplateIds : Overdue(t) ~> ~ Overdue(t)

(* An extra payment "reduces the open balance: whole installments are      *)
(* dropped from the end of the plan" (README.md): so the plan costs what   *)
(* was agreed and no more, whenever the payment is made.                   *)
NeverOverpaid ==
    \A t \in DOMAIN templates : templates[t].limited => paid[t] <= agreed[t]
=============================================================================
