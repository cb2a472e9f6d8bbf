------------------------ MODULE RecurringStoreProofs ------------------------
(***************************************************************************)
(* First, what the functions over a template row return and preserve, for  *)
(* every row: their types, and that one extra payment, or one booking,     *)
(* changes what is left to pay by exactly the amount booked.  Then, that   *)
(* every operation of the store preserves the types of the tables, their   *)
(* foreign keys, and what must hold of every row: credits below one        *)
(* installment, and no active plan without installments.                   *)
(***************************************************************************)
EXTENDS RecurringStore, BasicLemmas

LEMMA TemplateFields ==
    ASSUME NEW rt \in Template
    PROVE  /\ rt.amount \in Nat /\ rt.credit \in Nat /\ rt.remaining \in Int
           /\ rt.category \in Category /\ rt.account \in Account
           /\ rt.interval \in Intervals /\ rt.nextDue \in Dates /\ rt.nextDue \in Nat
           /\ rt.active \in BOOLEAN /\ rt.limited \in BOOLEAN
BY DEF Template, Dates

LEMMA NewTemplateType ==
    ASSUME NEW req \in Request, Accepted(req)
    PROVE  NewTemplate(req) \in Template
BY DEF Request, Accepted, NewTemplate, Template

LEMMA EditedTemplateType ==
    ASSUME NEW row \in Template, NEW req \in Request, Accepted(req)
    PROVE  EditedTemplate(row, req) \in Template
<1>1. KeptCredit(row.credit, req) \in Nat
  BY TemplateFields DEF KeptCredit
<1> QED BY <1>1, NewTemplateType DEF EditedTemplate, Template

(* Advance() of any template is a date after its due date. *)
LEMMA AdvanceForward ==
    ASSUME NEW rt \in Template
    PROVE  /\ Advance(rt) \in Dates /\ Advance(rt) \in Nat
           /\ Advance(rt) > rt.nextDue
<1>1. rt.interval \in Intervals /\ rt.nextDue \in Dates
  BY TemplateFields
<1>2. Advance(rt) \in Dates /\ Advance(rt) > rt.nextDue
  BY <1>1, NextDueDateForward DEF Advance
<1> QED BY <1>2 DEF Dates

LEMMA NextAmountType ==
    ASSUME NEW rt \in Template
    PROVE  NextAmountCents(rt) \in Nat
BY TemplateFields DEF NextAmountCents

(* A row stays one when some of its fields get new values of their type. *)
LEMMA CopyFields ==
    ASSUME NEW row \in Template, NEW due \in Dates, NEW remaining \in Int
    PROVE  [row EXCEPT !.nextDue = due, !.remaining = remaining] \in Template
BY DEF Template

LEMMA BookedFields ==
    ASSUME NEW row \in Template, NEW due \in Dates, NEW remaining \in Int,
           NEW active \in BOOLEAN
    PROVE  [row EXCEPT !.nextDue = due, !.remaining = remaining, !.active = active] \in Template
BY DEF Template

LEMMA PaidFields ==
    ASSUME NEW row \in Template, NEW remaining \in Int, NEW credit \in Nat,
           NEW active \in BOOLEAN
    PROVE  [row EXCEPT !.remaining = remaining, !.credit = credit, !.active = active] \in Template
BY DEF Template

LEMMA RowAfterBookingType ==
    ASSUME NEW row \in Template, NEW rt \in Template
    PROVE  RowAfterBooking(row, rt) \in Template
<1> DEFINE counted   == rt.limited /\ row.limited
           remaining == IF counted THEN row.remaining - 1 ELSE row.remaining
           active    == row.active /\ (counted => row.remaining - 1 > 0)
<1>1. remaining \in Int /\ active \in BOOLEAN /\ Advance(rt) \in Dates
  BY TemplateFields, AdvanceForward
<1>2. RowAfterBooking(row, rt) =
        [row EXCEPT !.nextDue = Advance(rt), !.remaining = remaining, !.active = active]
  BY DEF RowAfterBooking
<1> HIDE DEF remaining, active
<1>3. [row EXCEPT !.nextDue = Advance(rt), !.remaining = remaining, !.active = active] \in Template
  BY <1>1, BookedFields, Zenon
<1> QED BY <1>2, <1>3

LEMMA CopyAfterBookingType ==
    ASSUME NEW rt \in Template
    PROVE  CopyAfterBooking(rt) \in Template
<1> DEFINE remaining == IF rt.limited THEN rt.remaining - 1 ELSE rt.remaining
<1>1. remaining \in Int /\ Advance(rt) \in Dates
  BY TemplateFields, AdvanceForward
<1>2. CopyAfterBooking(rt) = [rt EXCEPT !.nextDue = Advance(rt), !.remaining = remaining]
  BY DEF CopyAfterBooking
<1> HIDE DEF remaining
<1> QED BY <1>1, <1>2, CopyFields

(* Division with remainder, over the amount of an installment. *)
LEMMA WholeInstallments ==
    ASSUME NEW amount \in Nat, amount > 0, NEW credit \in Nat
    PROVE  /\ credit \div amount \in Nat /\ credit % amount \in 0..(amount - 1)
           /\ credit = amount * (credit \div amount) + (credit % amount)
<1>1. credit \div amount \in Nat
  BY Z3
<1>2. credit % amount \in 0..(amount - 1)
  BY Z3
<1>3. credit = amount * (credit \div amount) + (credit % amount)
  BY Z3
<1> QED BY <1>1, <1>2, <1>3

(* AddExtraPayment conserves the plan: the open balance falls by exactly   *)
(* the payment, the new credit is less than an installment, the count does *)
(* not become negative, and when it becomes zero nothing is left to pay.   *)
THEOREM ExtraPaymentConserves ==
    ASSUME NEW row \in Template, NEW cents \in Nat, ExtraPaymentValid(row, cents)
    PROVE  LET after == RowAfterExtraPayment(row, cents)
           IN  /\ after \in Template
               /\ OutstandingCents(after) + cents = OutstandingCents(row)
               /\ after.credit < after.amount /\ after.limited
               /\ after.remaining >= 0
               /\ after.remaining = 0 => OutstandingCents(after) = 0
               /\ after.active => after.remaining > 0
<1> DEFINE amount == row.amount
           total  == row.credit + cents
           whole  == total \div amount
           rest   == total % amount
           after  == RowAfterExtraPayment(row, cents)
<1>1. /\ amount \in Nat /\ amount > 0 /\ total \in Nat
      /\ row.credit \in Nat /\ row.remaining \in Int /\ row.limited
      /\ total <= row.remaining * amount
  BY TemplateFields DEF ExtraPaymentValid, OutstandingCents
<1>2. whole \in Nat /\ rest \in 0..(amount - 1) /\ total = amount * whole + rest
  BY <1>1, WholeInstallments
<1>3. /\ after \in Template
      /\ after.amount = amount /\ after.limited
      /\ after.credit = rest /\ after.remaining = row.remaining - whole
      /\ after.active => after.remaining > 0
  <2> DEFINE left   == row.remaining - whole
             active == row.active /\ left > 0
  <2>1. left \in Int /\ rest \in Nat /\ active \in BOOLEAN
    <3>1. active \in BOOLEAN
      OBVIOUS
    <3> HIDE DEF total, whole, rest, amount
    <3>2. left \in Int /\ rest \in Nat
      BY <1>1, <1>2
    <3> QED BY <3>1, <3>2
  <2>2. after = [row EXCEPT !.remaining = left, !.credit = rest, !.active = active]
    BY DEF RowAfterExtraPayment
  <2>3. active => left > 0
    OBVIOUS
  <2> HIDE DEF left, active, rest, after
  <2>4. after \in Template /\ after.active = active
    BY <2>1, <2>2, PaidFields DEF Template
  <2>5. after.amount = row.amount /\ after.limited = row.limited
        /\ after.credit = rest /\ after.remaining = left
    BY <2>1, <2>2 DEF Template
  <2> QED BY <1>1, <2>3, <2>4, <2>5 DEF left
<1>4. row.credit + cents = total
  OBVIOUS
<1> HIDE DEF amount, total, whole, rest, after
<1>5. amount * whole + rest <= row.remaining * amount
  BY <1>1, <1>2
<1>6. whole <= row.remaining
  BY <1>1, <1>2, <1>5
<1>7. (row.remaining - whole) * amount - rest = row.remaining * amount - total
  BY <1>1, <1>2
<1>8. OutstandingCents(after) + cents = OutstandingCents(row)
  <2>1. OutstandingCents(after) = row.remaining * amount - total
    BY <1>3, <1>7 DEF OutstandingCents
  <2>2. OutstandingCents(row) = row.remaining * amount - row.credit
    BY DEF OutstandingCents, amount
  <2> QED BY <1>1, <1>4, <2>1, <2>2
<1>9. after.remaining = 0 => OutstandingCents(after) = 0
  <2> HAVE after.remaining = 0
  <2>1. rest = 0
    BY <1>1, <1>2, <1>3, <1>5
  <2> QED BY <1>1, <1>3, <2>1 DEF OutstandingCents
<1> QED BY <1>1, <1>2, <1>3, <1>6, <1>8, <1>9 DEF after

(* A booking from a fresh copy conserves the plan as long as installments  *)
(* are left, and the last one costs all that was still open.               *)
THEOREM BookingConserves ==
    ASSUME NEW row \in Template, row.limited, row.remaining > 0,
           row.credit > 0 => row.credit < row.amount
    PROVE  LET after == RowAfterBooking(row, row)
           IN  /\ after.remaining = row.remaining - 1
               /\ after.remaining > 0 =>
                    OutstandingCents(after) + NextAmountCents(row) = OutstandingCents(row)
               /\ after.remaining = 0 => NextAmountCents(row) = OutstandingCents(row)
<1> DEFINE after == RowAfterBooking(row, row)
<1>1. row.amount \in Nat /\ row.credit \in Nat /\ row.remaining \in Int
  BY TemplateFields
<1>2. /\ after.remaining = row.remaining - 1
      /\ after.amount = row.amount /\ after.credit = row.credit
  BY DEF RowAfterBooking, Template
<1> HIDE DEF after
<1>3. ASSUME after.remaining > 0
      PROVE  OutstandingCents(after) + NextAmountCents(row) = OutstandingCents(row)
  <2>1. NextAmountCents(row) = row.amount
    BY <1>1, <1>2, <1>3 DEF NextAmountCents
  <2>2. (row.remaining - 1) * row.amount + row.amount = row.remaining * row.amount
    BY <1>1
  <2> QED BY <1>1, <1>2, <2>1, <2>2 DEF OutstandingCents
<1>4. ASSUME after.remaining = 0
      PROVE  NextAmountCents(row) = OutstandingCents(row)
  <2>1. row.remaining = 1
    BY <1>1, <1>2, <1>4
  <2>2. NextAmountCents(row) = row.amount - row.credit
    BY <1>1, <2>1 DEF NextAmountCents
  <2> QED BY <1>1, <2>1, <2>2 DEF OutstandingCents
<1> QED BY <1>2, <1>3, <1>4 DEF after

(***************************************************************************)
(* The operations of the store                                             *)
(***************************************************************************)
RowsSound == ActiveHasInstallments /\ CreditBounded

StoreInvariant == StoreTypeOK /\ RowsSound /\ NothingDangles

(* One row, seen on its own. *)
RowSound(row) ==
    /\ row.active => HasInstallmentsLeft(row)
    /\ row.credit > 0 => row.limited /\ row.credit < row.amount

LEMMA RowsSoundByRow == RowsSound <=> \A t \in DOMAIN templates : RowSound(templates[t])
BY DEF RowsSound, ActiveHasInstallments, CreditBounded, RowSound

LEMMA NewTemplateSound ==
    ASSUME NEW req \in Request, Accepted(req)
    PROVE  RowSound(NewTemplate(req))
BY DEF Request, Accepted, NewTemplate, RowSound, HasInstallmentsLeft

LEMMA EditedTemplateSound ==
    ASSUME NEW row \in Template, NEW req \in Request, Accepted(req)
    PROVE  RowSound(EditedTemplate(row, req))
<1> DEFINE new == NewTemplate(req)
           row2 == EditedTemplate(row, req)
<1>1. /\ row2.active = new.active /\ row2.limited = req.limited
      /\ row2.remaining = new.remaining /\ row2.amount = req.amount
      /\ new.limited = req.limited /\ row2.credit = KeptCredit(row.credit, req)
  BY DEF EditedTemplate, NewTemplate
<1>2. row.credit \in Nat /\ req.amount \in Int /\ req.limited \in BOOLEAN
  BY TemplateFields DEF Request
<1>3. row2.credit > 0 => row2.limited /\ row2.credit < row2.amount
  BY <1>1, <1>2 DEF KeptCredit
<1>4. new.active => HasInstallmentsLeft(new)
  BY NewTemplateSound DEF RowSound
<1>5. row2.active => HasInstallmentsLeft(row2)
  BY <1>1, <1>4 DEF HasInstallmentsLeft
<1> QED BY <1>3, <1>5 DEF RowSound

LEMMA RowAfterBookingSound ==
    ASSUME NEW row \in Template, NEW rt \in Template, RowSound(row)
    PROVE  RowSound(RowAfterBooking(row, rt))
<1> DEFINE after == RowAfterBooking(row, rt)
           counted == rt.limited /\ row.limited
<1>1. /\ after.limited = row.limited /\ after.credit = row.credit /\ after.amount = row.amount
      /\ after.remaining = IF counted THEN row.remaining - 1 ELSE row.remaining
      /\ after.active => row.active /\ (counted => row.remaining - 1 > 0)
  BY DEF RowAfterBooking, Template
<1>2. row.remaining \in Int
  BY TemplateFields
<1> HIDE DEF after
<1>3. ASSUME after.active PROVE HasInstallmentsLeft(after)
  BY <1>1, <1>2, <1>3 DEF RowSound, HasInstallmentsLeft
<1>4. after.credit > 0 => after.limited /\ after.credit < after.amount
  BY <1>1 DEF RowSound
<1> QED BY <1>3, <1>4 DEF RowSound, after

LEMMA RowAfterExtraPaymentSound ==
    ASSUME NEW row \in Template, NEW cents \in Nat, ExtraPaymentValid(row, cents)
    PROVE  /\ RowAfterExtraPayment(row, cents) \in Template
           /\ RowSound(RowAfterExtraPayment(row, cents))
BY ExtraPaymentConserves DEF RowSound, HasInstallmentsLeft

(***************************************************************************)
(* The tables after each operation                                         *)
(***************************************************************************)
RefersTo(row, cats, accs) == row.category \in cats /\ row.account \in accs

LEMMA NothingDanglesByTable ==
    NothingDangles <=>
      /\ \A i \in DOMAIN transactions : RefersTo(transactions[i], categories, accounts)
      /\ \A t \in DOMAIN templates : RefersTo(templates[t], categories, accounts)
BY DEF NothingDangles, BookedRows, TemplateRows, ReferencesExist, RefersTo

LEMMA StoreInitInvariant == StoreInit => StoreInvariant
<1> SUFFICES ASSUME StoreInit PROVE StoreInvariant
  OBVIOUS
<1>1. DOMAIN templates = {} /\ DOMAIN transactions = {}
  BY DEF StoreInit
<1>2. StoreTypeOK
  BY <1>1, MaxTemplatesAssumption DEF StoreInit, StoreTypeOK
<1>3. RowsSound
  BY <1>1, RowsSoundByRow
<1>4. NothingDangles
  BY <1>1, NothingDanglesByTable
<1> QED BY <1>2, <1>3, <1>4 DEF StoreInvariant

(* Appending a row that refers to existing rows keeps the log well-formed. *)
LEMMA AppendRow ==
    ASSUME transactions \in Seq(Transaction), NEW row \in Transaction,
           \A i \in DOMAIN transactions : RefersTo(transactions[i], categories, accounts),
           RefersTo(row, categories, accounts),
           transactions' = Append(transactions, row), UNCHANGED <<categories, accounts>>
    PROVE  /\ transactions' \in Seq(Transaction)
           /\ \A i \in DOMAIN transactions' : RefersTo(transactions'[i], categories', accounts')
<1>1. transactions' \in Seq(Transaction)
  OBVIOUS
<1>2. /\ DOMAIN transactions' = 1..(Len(transactions) + 1)
      /\ transactions'[Len(transactions) + 1] = row
      /\ \A i \in 1..Len(transactions) : transactions'[i] = transactions[i]
      /\ DOMAIN transactions = 1..Len(transactions) /\ Len(transactions) \in Nat
  OBVIOUS
<1>3. ASSUME NEW i \in DOMAIN transactions' PROVE RefersTo(transactions'[i], categories', accounts')
  <2>1. CASE i = Len(transactions) + 1
    BY <1>2, <2>1
  <2>2. CASE i \in 1..Len(transactions)
    BY <1>2, <2>2
  <2> QED BY <1>2, <1>3, <2>1, <2>2
<1> QED BY <1>1, <1>3

(* A table of sound, well-typed rows that refer to existing rows, whatever *)
(* operation produced it, beside unchanged or appended bookings.           *)
LEMMA StoreInvariantByRow ==
    ASSUME categories' \subseteq Category, accounts' \subseteq Account,
           lastTemplate' \in 0..MaxTemplates, DOMAIN templates' \subseteq 1..lastTemplate',
           templates' = [t \in DOMAIN templates' |-> templates'[t]],
           \A t \in DOMAIN templates' : /\ templates'[t] \in Template
                                        /\ RowSound(templates'[t])
                                        /\ RefersTo(templates'[t], categories', accounts'),
           transactions' \in Seq(Transaction),
           \A i \in DOMAIN transactions' : RefersTo(transactions'[i], categories', accounts')
    PROVE  StoreInvariant'
<1>1. StoreTypeOK'
  BY DEF StoreTypeOK
<1>2. RowsSound'
  BY DEF RowsSound, ActiveHasInstallments, CreditBounded, RowSound
<1>3. NothingDangles'
  BY DEF NothingDangles, BookedRows, TemplateRows, ReferencesExist, RefersTo
<1> QED BY <1>1, <1>2, <1>3 DEF StoreInvariant

(* What the invariant gives, row by row. *)
LEMMA StoreFacts ==
    ASSUME StoreInvariant
    PROVE  /\ categories \subseteq Category /\ accounts \subseteq Account
           /\ lastTemplate \in 0..MaxTemplates /\ DOMAIN templates \subseteq 1..lastTemplate
           /\ \A t \in DOMAIN templates : /\ templates[t] \in Template
                                          /\ RowSound(templates[t])
                                          /\ RefersTo(templates[t], categories, accounts)
           /\ transactions \in Seq(Transaction)
           /\ \A i \in DOMAIN transactions : RefersTo(transactions[i], categories, accounts)
BY RowsSoundByRow, NothingDanglesByTable DEF StoreInvariant, StoreTypeOK

LEMMA CreatePreserves ==
    ASSUME StoreInvariant, NEW req \in Request, CreateRecurringTemplate(req)
    PROVE  StoreInvariant'
<1> DEFINE new == lastTemplate'
<1>1. /\ Accepted(req) /\ RefersTo(req, categories, accounts)
      /\ lastTemplate < MaxTemplates /\ new = lastTemplate + 1
      /\ UNCHANGED <<categories, accounts, transactions>>
  BY DEF CreateRecurringTemplate, ReferencesExist, RefersTo
<1>2. templates' = [t \in DOMAIN templates \cup {new} |->
                       IF t = new THEN NewTemplate(req) ELSE templates[t]]
  BY DEF CreateRecurringTemplate
<1>3. /\ NewTemplate(req) \in Template /\ RowSound(NewTemplate(req))
      /\ RefersTo(NewTemplate(req), categories, accounts)
  BY <1>1, NewTemplateType, NewTemplateSound DEF NewTemplate, RefersTo
<1>4. lastTemplate' \in 0..MaxTemplates /\ DOMAIN templates' \subseteq 1..lastTemplate'
  BY <1>1, <1>2, StoreFacts, MaxTemplatesAssumption
<1>5. ASSUME NEW t \in DOMAIN templates'
      PROVE  /\ templates'[t] \in Template /\ RowSound(templates'[t])
             /\ RefersTo(templates'[t], categories', accounts')
  <2>1. CASE t = new
    BY <1>1, <1>2, <1>3, <2>1
  <2>2. CASE t # new
    BY <1>1, <1>2, <1>5, <2>2, StoreFacts
  <2> QED BY <2>1, <2>2
<1> QED BY <1>1, <1>2, <1>4, <1>5, StoreFacts, StoreInvariantByRow

LEMMA UpdatePreserves ==
    ASSUME StoreInvariant, NEW t, NEW req \in Request, UpdateRecurringTemplate(t, req)
    PROVE  StoreInvariant'
<1> DEFINE row == EditedTemplate(templates[t], req)
<1>1. /\ t \in DOMAIN templates /\ Accepted(req) /\ RefersTo(req, categories, accounts)
      /\ templates' = [templates EXCEPT ![t] = row]
      /\ UNCHANGED <<categories, accounts, lastTemplate, transactions>>
  BY DEF UpdateRecurringTemplate, ReferencesExist, RefersTo
<1>2. templates[t] \in Template
  BY <1>1, StoreFacts
<1>3. row \in Template /\ RowSound(row) /\ RefersTo(row, categories, accounts)
  <2>1. row.category = req.category /\ row.account = req.account
    BY DEF EditedTemplate, NewTemplate
  <2> QED BY <1>1, <1>2, <2>1, EditedTemplateType, EditedTemplateSound DEF RefersTo
<1> HIDE DEF row
<1>4. templates' = [u \in DOMAIN templates |-> IF u = t THEN row ELSE templates[u]]
  BY <1>1
<1>5. ASSUME NEW u \in DOMAIN templates'
      PROVE  /\ templates'[u] \in Template /\ RowSound(templates'[u])
             /\ RefersTo(templates'[u], categories', accounts')
  BY <1>1, <1>3, <1>4, <1>5, StoreFacts
<1> QED BY <1>1, <1>4, <1>5, StoreFacts, StoreInvariantByRow

LEMMA DeletePreserves ==
    ASSUME StoreInvariant, NEW t, DeleteRecurringTemplate(t)
    PROVE  StoreInvariant'
<1>1. /\ templates' = [u \in DOMAIN templates \ {t} |-> templates[u]]
      /\ UNCHANGED <<categories, accounts, lastTemplate, transactions>>
  BY DEF DeleteRecurringTemplate
<1>2. ASSUME NEW u \in DOMAIN templates'
      PROVE  /\ templates'[u] \in Template /\ RowSound(templates'[u])
             /\ RefersTo(templates'[u], categories', accounts')
  BY <1>1, <1>2, StoreFacts
<1> QED BY <1>1, <1>2, StoreFacts, StoreInvariantByRow

LEMMA ExtraPaymentPreserves ==
    ASSUME StoreInvariant, NEW t, NEW cents \in Nat, NEW date \in Dates,
           AddExtraPayment(t, cents, date)
    PROVE  StoreInvariant'
<1> DEFINE row  == RowAfterExtraPayment(templates[t], cents)
           paid == ExtraPaymentRow(t, cents, date)
<1>1. /\ t \in DOMAIN templates /\ ExtraPaymentValid(templates[t], cents)
      /\ transactions' = Append(transactions, paid)
      /\ templates' = [templates EXCEPT ![t] = row]
      /\ UNCHANGED <<categories, accounts, lastTemplate>>
  BY DEF AddExtraPayment
<1>2. /\ templates[t] \in Template /\ RefersTo(templates[t], categories, accounts)
      /\ t \in TemplateIds
  BY <1>1, StoreFacts, MaxTemplatesAssumption DEF TemplateIds
<1>3. row \in Template /\ RowSound(row)
  BY <1>1, <1>2, RowAfterExtraPaymentSound
<1>4. RefersTo(row, categories, accounts)
  BY <1>2 DEF RefersTo, RowAfterExtraPayment, Template
<1>5. paid \in Transaction /\ RefersTo(paid, categories, accounts)
  BY <1>2, TemplateFields DEF ExtraPaymentRow, Transaction, RefersTo
<1> HIDE DEF row, paid
<1>6. /\ transactions' \in Seq(Transaction)
      /\ \A i \in DOMAIN transactions' : RefersTo(transactions'[i], categories', accounts')
  BY <1>1, <1>5, StoreFacts, AppendRow
<1>7. templates' = [u \in DOMAIN templates |-> IF u = t THEN row ELSE templates[u]]
  BY <1>1
<1>8. ASSUME NEW u \in DOMAIN templates'
      PROVE  /\ templates'[u] \in Template /\ RowSound(templates'[u])
             /\ RefersTo(templates'[u], categories', accounts')
  BY <1>1, <1>3, <1>4, <1>7, <1>8, StoreFacts
<1> QED BY <1>1, <1>6, <1>7, <1>8, StoreFacts, StoreInvariantByRow

LEMMA BookingPreserves ==
    ASSUME StoreInvariant, NEW t \in TemplateIds, NEW rt \in Template,
           BookRecurringOccurrence(t, rt)
    PROVE  StoreInvariant'
<1> DEFINE booked == BookingRow(t, rt)
<1>1. /\ RefersTo(rt, categories, accounts)
      /\ transactions' = Append(transactions, booked)
      /\ templates' = [u \in DOMAIN templates |->
                          IF u = t THEN RowAfterBooking(templates[u], rt) ELSE templates[u]]
      /\ UNCHANGED <<categories, accounts, lastTemplate>>
  BY DEF BookRecurringOccurrence, ReferencesExist, RefersTo
<1>2. booked \in Transaction /\ RefersTo(booked, categories, accounts)
  BY <1>1, TemplateFields, NextAmountType DEF BookingRow, Transaction, RefersTo
<1> HIDE DEF booked
<1>3. /\ transactions' \in Seq(Transaction)
      /\ \A i \in DOMAIN transactions' : RefersTo(transactions'[i], categories', accounts')
  BY <1>1, <1>2, StoreFacts, AppendRow
<1>4. ASSUME NEW u \in DOMAIN templates'
      PROVE  /\ templates'[u] \in Template /\ RowSound(templates'[u])
             /\ RefersTo(templates'[u], categories', accounts')
  <2> DEFINE row == RowAfterBooking(templates[u], rt)
  <2>1. /\ u \in DOMAIN templates /\ templates[u] \in Template /\ RowSound(templates[u])
        /\ RefersTo(templates[u], categories, accounts)
    BY <1>1, <1>4, StoreFacts
  <2>2. row \in Template /\ RowSound(row)
    BY <2>1, RowAfterBookingType, RowAfterBookingSound
  <2>3. RefersTo(row, categories, accounts)
    BY <2>1 DEF RefersTo, RowAfterBooking, Template
  <2>4. templates'[u] = IF u = t THEN row ELSE templates[u]
    BY <1>1, <2>1
  <2> QED BY <1>1, <2>1, <2>2, <2>3, <2>4
<1> QED BY <1>1, <1>3, <1>4, StoreFacts, StoreInvariantByRow

(* The RESTRICTs of the schema are what keeps the references intact. *)
LEMMA DeleteCategoryPreserves ==
    ASSUME StoreInvariant, NEW c, DeleteCategory(c)
    PROVE  StoreInvariant'
<1>1. /\ \A row \in BookedRows \cup TemplateRows : row.category # c
      /\ categories' = categories \ {c}
      /\ UNCHANGED <<accounts, templates, lastTemplate, transactions>>
  BY DEF DeleteCategory
<1>2. NothingDangles'
  BY <1>1 DEF StoreInvariant, NothingDangles, BookedRows, TemplateRows, ReferencesExist
<1>3. StoreTypeOK' /\ RowsSound'
  BY <1>1 DEF StoreInvariant, StoreTypeOK, RowsSound, ActiveHasInstallments, CreditBounded
<1> QED BY <1>2, <1>3 DEF StoreInvariant

LEMMA DeleteAccountPreserves ==
    ASSUME StoreInvariant, NEW a, DeleteAccount(a)
    PROVE  StoreInvariant'
<1>1. /\ \A row \in BookedRows \cup TemplateRows : row.account # a
      /\ accounts' = accounts \ {a}
      /\ UNCHANGED <<categories, templates, lastTemplate, transactions>>
  BY DEF DeleteAccount
<1>2. NothingDangles'
  BY <1>1 DEF StoreInvariant, NothingDangles, BookedRows, TemplateRows, ReferencesExist
<1>3. StoreTypeOK' /\ RowsSound'
  BY <1>1 DEF StoreInvariant, StoreTypeOK, RowsSound, ActiveHasInstallments, CreditBounded
<1> QED BY <1>2, <1>3 DEF StoreInvariant
=============================================================================
