--------------------------- MODULE RecurringStore ---------------------------
(***************************************************************************)
(* The part of the SQLite database that recurring bookings live in, and    *)
(* the store operations over it.  The store has one connection             *)
(* (SetMaxOpenConns(1)), and an open transaction holds it, so that every   *)
(* operation below is one atomic step of the database.  An operation that  *)
(* the code refuses, or the database rolls back, changes nothing: it is    *)
(* disabled here.                                                          *)
(***************************************************************************)
EXTENDS RecurringTemplate, Sequences

CONSTANT MaxTemplates          \* bound: how many templates are ever created

ASSUME MaxTemplatesAssumption == MaxTemplates \in Nat

VARIABLES
    categories, accounts,      \* the rows of those tables, by id
    templates,                 \* id -> row of recurring_templates, for the ids that exist
    lastTemplate,              \* the AUTOINCREMENT counter: an id is never used again
    transactions               \* the rows of transactions, in the order of insertion

store == <<categories, accounts, templates, lastTemplate, transactions>>

TemplateIds == 1..MaxTemplates

(* `template' is not a column: it says which template a row was booked for. *)
Transaction ==
    [template : TemplateIds, amount : Nat, date : Dates, category : Category,
     account : Account, source : {"manual", "recurring"}]

StoreTypeOK ==
    /\ categories \subseteq Category
    /\ accounts \subseteq Account
    /\ lastTemplate \in 0..MaxTemplates
    /\ DOMAIN templates \subseteq 1..lastTemplate
    /\ templates \in [DOMAIN templates -> Template]
    /\ transactions \in Seq(Transaction)

StoreInit ==
    /\ categories = Category
    /\ accounts = Account
    /\ templates = [t \in {} |-> {}]
    /\ lastTemplate = 0
    /\ transactions = <<>>

(* The foreign keys of a row that is inserted or updated. *)
ReferencesExist(row) == row.category \in categories /\ row.account \in accounts

CreateRecurringTemplate(req) ==
    /\ lastTemplate < MaxTemplates
    /\ Accepted(req)
    /\ ReferencesExist(req)
    /\ lastTemplate' = lastTemplate + 1
    /\ templates' = [t \in DOMAIN templates \cup {lastTemplate'} |->
                        IF t = lastTemplate' THEN NewTemplate(req) ELSE templates[t]]
    /\ UNCHANGED <<categories, accounts, transactions>>

UpdateRecurringTemplate(t, req) ==
    /\ t \in DOMAIN templates
    /\ Accepted(req)
    /\ ReferencesExist(req)
    /\ templates' = [templates EXCEPT ![t] = EditedTemplate(@, req)]
    /\ UNCHANGED <<categories, accounts, lastTemplate, transactions>>

DeleteRecurringTemplate(t) ==
    /\ t \in DOMAIN templates
    /\ templates' = [u \in DOMAIN templates \ {t} |-> templates[u]]
    /\ UNCHANGED <<categories, accounts, lastTemplate, transactions>>

(* AddExtraPayment reads the row, inserts the payment and updates the row  *)
(* in one database transaction.                                            *)
ExtraPaymentRow(t, cents, date) ==
    [template |-> t, amount |-> cents, date |-> date, category |-> templates[t].category,
     account |-> templates[t].account, source |-> "manual"]

AddExtraPayment(t, cents, date) ==
    /\ t \in DOMAIN templates
    /\ ExtraPaymentValid(templates[t], cents)
    /\ transactions' = Append(transactions, ExtraPaymentRow(t, cents, date))
    /\ templates' = [templates EXCEPT ![t] = RowAfterExtraPayment(@, cents)]
    /\ UNCHANGED <<categories, accounts, lastTemplate>>

(* bookRecurringOccurrence, given the template rt as the pass knows it.    *)
(* The UPDATE names a row that may have been deleted since: it then        *)
(* changes nothing, and the booking stands.                                *)
BookingRow(t, rt) ==
    [template |-> t, amount |-> NextAmountCents(rt), date |-> rt.nextDue,
     category |-> rt.category, account |-> rt.account, source |-> "recurring"]

(* Mistake: insert and update are not one database transaction. *)
BookRecurringOccurrenceInTwo(t, rt) ==
    /\ ReferencesExist(rt)
    /\ transactions' = Append(transactions, BookingRow(t, rt))
    /\ \/ templates' = [u \in DOMAIN templates |->
                           IF u = t THEN RowAfterBooking(templates[u], rt) ELSE templates[u]]
       \/ UNCHANGED templates
    /\ UNCHANGED <<categories, accounts, lastTemplate>>

BookRecurringOccurrence(t, rt) ==
    /\ ReferencesExist(rt)
    /\ transactions' = Append(transactions, BookingRow(t, rt))
    /\ templates' = [u \in DOMAIN templates |->
                        IF u = t THEN RowAfterBooking(templates[u], rt) ELSE templates[u]]
    /\ UNCHANGED <<categories, accounts, lastTemplate>>

(* ON DELETE RESTRICT: a category or account in use stays. *)
BookedRows == {transactions[i] : i \in DOMAIN transactions}
TemplateRows == {templates[t] : t \in DOMAIN templates}

(* Mistake: only bookings keep a category from being deleted. *)
DeleteCategoryUnbooked(c) ==
    /\ c \in categories
    /\ \A row \in BookedRows : row.category # c
    /\ categories' = categories \ {c}
    /\ UNCHANGED <<accounts, templates, lastTemplate, transactions>>

DeleteCategory(c) ==
    /\ c \in categories
    /\ \A row \in BookedRows \cup TemplateRows : row.category # c
    /\ categories' = categories \ {c}
    /\ UNCHANGED <<accounts, templates, lastTemplate, transactions>>

DeleteAccount(a) ==
    /\ a \in accounts
    /\ \A row \in BookedRows \cup TemplateRows : row.account # a
    /\ accounts' = accounts \ {a}
    /\ UNCHANGED <<categories, templates, lastTemplate, transactions>>

(* The query of the scheduler: the active templates due on or before a day. *)
ActiveDue(day) == {t \in DOMAIN templates : templates[t].active /\ templates[t].nextDue <= day}

(***************************************************************************)
(* Properties of the tables                                                *)
(***************************************************************************)

(* A plan with nothing left to pay is never active, even when a pass books *)
(* it from a copy made before the user paid it off: an active row without  *)
(* installments would stay in the list of due templates for ever.          *)
ActiveHasInstallments ==
    \A t \in DOMAIN templates : templates[t].active => HasInstallmentsLeft(templates[t])

(* The foreign keys hold for the bookings made from stale copies too:      *)
(* nothing refers to a category or account that was deleted in between.    *)
NothingDangles ==
    \A row \in BookedRows \cup TemplateRows : ReferencesExist(row)

(* Only a plan has a credit, and it is less than one installment           *)
(* ("always < AmountCents", recurring.go:38).                              *)
CreditBounded ==
    \A t \in DOMAIN templates :
        templates[t].credit > 0 =>
            templates[t].limited /\ templates[t].credit < templates[t].amount
=============================================================================
