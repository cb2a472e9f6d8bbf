-------------------------- MODULE RecurringTemplate --------------------------
(***************************************************************************)
(* A row of recurring_templates and the pure functions over it: what is    *)
(* still to be paid, what the next booking costs, and how one booking, one *)
(* extra payment and one edit change the row.                              *)
(*                                                                         *)
(* remaining_count is NULL for an unlimited template: `limited' says       *)
(* whether it is set, and `remaining' is its value (0 where it is NULL).   *)
(***************************************************************************)
EXTENDS Calendar

CONSTANTS Category, Account    \* the rows a template can refer to

(* The handler's bound on the number of installments a request may ask for. *)
MaxRecurringCount == 600

Template ==
    [amount : Nat, category : Category, account : Account, interval : Intervals,
     nextDue : Dates, active : BOOLEAN, limited : BOOLEAN, remaining : Int, credit : Nat]

(* What the HTTP API receives, before parse() has looked at it. *)
Request ==
    [amount : Int, category : Category, account : Account, interval : Intervals,
     nextDue : Dates, active : BOOLEAN, limited : BOOLEAN, remaining : Int]

(* Mistake: the sign of the amount is not checked. *)
AcceptedAnyAmount(req) == req.limited => req.remaining \in 1..MaxRecurringCount

(* The checks of recurringTemplateRequest.parse: a negative amount or a    *)
(* count outside 1..600 is refused.  Zero is a valid amount.               *)
Accepted(req) ==
    /\ req.amount >= 0
    /\ req.limited => req.remaining \in 1..MaxRecurringCount

(***************************************************************************)
(* Reading a row                                                           *)
(***************************************************************************)
OutstandingCents(rt) == rt.remaining * rt.amount - rt.credit

(* Mistake: the credit taken off whichever installment comes next. *)
NextAmountCentsAtOnce(rt) ==
    IF rt.limited /\ rt.credit < rt.amount THEN rt.amount - rt.credit ELSE rt.amount

NextAmountCents(rt) ==
    IF rt.limited /\ rt.remaining = 1 /\ rt.credit < rt.amount
    THEN rt.amount - rt.credit
    ELSE rt.amount

Advance(rt) == NextDueDate(rt.interval, rt.nextDue)

HasInstallmentsLeft(rt) == ~ rt.limited \/ rt.remaining > 0

(***************************************************************************)
(* Writing a row                                                           *)
(***************************************************************************)

(* A new row: credit_cents has its default, 0. *)
NewTemplate(req) ==
    [amount |-> req.amount, category |-> req.category, account |-> req.account,
     interval |-> req.interval, nextDue |-> req.nextDue, active |-> req.active,
     limited |-> req.limited, remaining |-> IF req.limited THEN req.remaining ELSE 0,
     credit |-> 0]

(* Mistake: the credit is kept whatever the plan becomes. *)
KeptCreditAlways(credit, req) == credit

(* An edit replaces every editable field.  The credit is kept as long as   *)
(* the plan stays limited and the credit is less than the new installment. *)
KeptCredit(credit, req) == IF ~ req.limited \/ credit >= req.amount THEN 0 ELSE credit

EditedTemplate(row, req) == [NewTemplate(req) EXCEPT !.credit = KeptCredit(row.credit, req)]

(* Mistake: the plan is deactivated by the count of the copy. *)
RowAfterBookingByCopy(row, rt) ==
    LET counted == rt.limited /\ row.limited
    IN  [row EXCEPT !.nextDue   = Advance(rt),
                    !.remaining = IF counted THEN @ - 1 ELSE @,
                    !.active    = @ /\ (counted => rt.remaining - 1 > 0)]

(* The two UPDATEs of bookRecurringOccurrence.  Which one runs, and the    *)
(* date, come from rt, the template as the pass read it; the count is that *)
(* of the row, and NULL - 1 is NULL.                                       *)
RowAfterBooking(row, rt) ==
    LET counted == rt.limited /\ row.limited
    IN  [row EXCEPT !.nextDue   = Advance(rt),
                    !.remaining = IF counted THEN @ - 1 ELSE @,
                    !.active    = @ /\ (counted => row.remaining - 1 > 0)]

(* What the pass does to its own copy after a booking. *)
CopyAfterBooking(rt) ==
    [rt EXCEPT !.nextDue   = Advance(rt),
               !.remaining = IF rt.limited THEN @ - 1 ELSE @]

ExtraPaymentValid(rt, cents) ==
    /\ rt.limited
    /\ cents > 0
    /\ cents <= OutstandingCents(rt)
    /\ rt.amount > 0

(* Mistakes: installments dropped for this payment only, whatever credit   *)
(* there is from earlier ones; and the payment taken for the next one due. *)
RowAfterExtraPaymentAlone(row, cents) ==
    LET remaining == row.remaining - cents \div row.amount
    IN  [row EXCEPT !.remaining = remaining,
                    !.credit    = (row.credit + cents) % row.amount,
                    !.active    = @ /\ remaining > 0]
RowAfterExtraPaymentAdvancing(row, cents) ==
    LET credit    == row.credit + cents
        remaining == row.remaining - credit \div row.amount
    IN  [row EXCEPT !.remaining = remaining,
                    !.credit    = credit % row.amount,
                    !.nextDue   = Advance(row),
                    !.active    = @ /\ remaining > 0]

(* Whole installments are dropped from the end of the plan, the remainder  *)
(* is kept as credit, and a plan without installments is deactivated.      *)
RowAfterExtraPayment(row, cents) ==
    LET credit    == row.credit + cents
        remaining == row.remaining - credit \div row.amount
    IN  [row EXCEPT !.remaining = remaining,
                    !.credit    = credit % row.amount,
                    !.active    = @ /\ remaining > 0]
=============================================================================
