------------------------------- MODULE Ledger -------------------------------
(***************************************************************************)
(* Accounts, categories and bookings as the user keeps them, and the sums  *)
(* the overview and the month view show.  Handlers run concurrently; every *)
(* statement is atomic (one connection), but the creation of an account or *)
(* a category is two statements: it reads the position after the last row  *)
(* and then inserts the new one.  Names, colours and icons are left out;   *)
(* so are the templates, whose references RecurringStore models.           *)
(***************************************************************************)
EXTENDS Calendar, FiniteSetsExt

CONSTANTS
    Clients,         \* requests under way at once
    SeededTypes,     \* the types of the default categories, in their order
    Amounts, BookingDates,  \* what the user enters
    MaxWrites        \* bound: requests that write

ASSUME LedgerAssumption ==
    /\ SeededTypes \in [DOMAIN SeededTypes -> {"income", "expense"}]
    /\ DOMAIN SeededTypes \subseteq Nat \ {0} /\ IsFiniteSet(DOMAIN SeededTypes)
    /\ \A n \in DOMAIN SeededTypes : 1..n \subseteq DOMAIN SeededTypes
    /\ Amounts \subseteq Int
    /\ BookingDates \subseteq Dates /\ IsFiniteSet(BookingDates)  \* of four-digit years
    /\ MaxWrites \in Nat

CategoryTypes == {"income", "expense"}
TableNames == {"accounts", "categories"}

VARIABLES
    position,        \* table -> id -> position, for the rows that exist
    lastId,          \* table -> its AUTOINCREMENT counter
    types,           \* category id -> "income" or "expense"
    bookings,        \* id -> row of transactions
    lastBooking,
    request,         \* client -> the creation it has under way, or Idle
    follows,         \* history: table -> pairs of rows <<x, y>>, x there when y was asked for
    writes

vars == <<position, lastId, types, bookings, lastBooking, request, follows, writes>>

Idle == [table |-> "none"]

Ids(table) == DOMAIN position[table]

Booking ==
    [amount : Nat, date : Dates, category : Nat, account : Nat,
     source : {"manual", "recurring"}]

Init ==
    /\ position = [table \in TableNames |->
                      IF table = "categories"
                      THEN [id \in DOMAIN SeededTypes |-> id - 1] ELSE [id \in {} |-> 0]]
    /\ lastId = [table \in TableNames |->
                    IF table = "categories" THEN Cardinality(DOMAIN SeededTypes) ELSE 0]
    /\ types = SeededTypes
    /\ bookings = [id \in {} |-> 0] /\ lastBooking = 0
    /\ request = [c \in Clients |-> Idle]
    /\ follows = [table \in TableNames |-> {}]
    /\ writes = 0

Write == writes < MaxWrites /\ writes' = writes + 1

(***************************************************************************)
(* CreateAccount and CreateCategory                                        *)
(***************************************************************************)

(* Mistake: the number of rows taken for the position after the last. *)
PositionByCount(table) == Cardinality(Ids(table))

(* COALESCE(MAX(position) + 1, 0) *)
NextPosition(table) ==
    IF Ids(table) = {} THEN 0 ELSE Max({position[table][id] : id \in Ids(table)}) + 1

ReadPosition(c, table) ==
    /\ request[c] = Idle
    /\ Write
    /\ request' = [request EXCEPT ![c] =
                      [table |-> table, position |-> NextPosition(table), seen |-> Ids(table)]]
    /\ UNCHANGED <<position, lastId, types, bookings, lastBooking, follows>>

InsertRow(c) ==
    /\ request[c] # Idle
    /\ LET table == request[c].table
           id    == lastId[table] + 1
       IN  /\ position' = [position EXCEPT ![table] =
                              [x \in Ids(table) \cup {id} |->
                                  IF x = id THEN request[c].position ELSE position[table][x]]]
           /\ lastId' = [lastId EXCEPT ![table] = id]
           /\ IF table = "categories"
              THEN \E type \in CategoryTypes :
                      types' = [x \in DOMAIN types \cup {id} |-> IF x = id THEN type ELSE types[x]]
              ELSE UNCHANGED types
           /\ follows' = [follows EXCEPT ![table] = @ \cup {<<x, id>> : x \in request[c].seen}]
    /\ request' = [request EXCEPT ![c] = Idle]
    /\ UNCHANGED <<bookings, lastBooking, writes>>

(* The INSERT fails. *)
CreateFails(c) ==
    /\ request[c] # Idle
    /\ request' = [request EXCEPT ![c] = Idle]
    /\ UNCHANGED <<position, lastId, types, bookings, lastBooking, follows, writes>>

(***************************************************************************)
(* Editing and deleting them: ON DELETE RESTRICT keeps a row in use        *)
(***************************************************************************)
BookingRows == {bookings[b] : b \in DOMAIN bookings}

(* Its name and icon, which are left out. *)
UpdateAccount(id) ==
    /\ id \in Ids("accounts")
    /\ Write
    /\ UNCHANGED <<position, lastId, types, bookings, lastBooking, request, follows>>

UpdateCategory(id, type) ==
    /\ id \in Ids("categories")
    /\ Write
    /\ types' = [types EXCEPT ![id] = type]
    /\ UNCHANGED <<position, lastId, bookings, lastBooking, request, follows>>

RowDeleted(table, id) ==
    /\ id \in Ids(table)
    /\ Write
    /\ position' = [position EXCEPT ![table] = [x \in Ids(table) \ {id} |-> position[table][x]]]
    /\ UNCHANGED <<lastId, bookings, lastBooking, request, follows>>

(* Mistake: the foreign keys are not enforced. *)
DeleteAccountInUse(id) ==
    /\ RowDeleted("accounts", id)
    /\ UNCHANGED types

DeleteAccount(id) ==
    /\ \A row \in BookingRows : row.account # id
    /\ RowDeleted("accounts", id)
    /\ UNCHANGED types

DeleteCategory(id) ==
    /\ \A row \in BookingRows : row.category # id
    /\ RowDeleted("categories", id)
    /\ types' = [x \in DOMAIN types \ {id} |-> types[x]]

(***************************************************************************)
(* Bookings                                                                *)
(***************************************************************************)

(* Mistake: the sign of the amount is not checked. *)
AcceptableAnyAmount(amount, category, account) ==
    category \in Ids("categories") /\ account \in Ids("accounts")

(* What parse() and the foreign keys let through. *)
Acceptable(amount, category, account) ==
    /\ amount >= 0
    /\ category \in Ids("categories") /\ account \in Ids("accounts")

InsertBooking(row) ==
    /\ lastBooking' = lastBooking + 1
    /\ bookings' = [b \in DOMAIN bookings \cup {lastBooking'} |->
                       IF b = lastBooking' THEN row ELSE bookings[b]]

(* By the user, or ("recurring") by the scheduler. *)
CreateTransaction(amount, date, category, account, source) ==
    /\ Acceptable(amount, category, account)
    /\ Write
    /\ InsertBooking([amount |-> amount, date |-> date, category |-> category,
                      account |-> account, source |-> source])
    /\ UNCHANGED <<position, lastId, types, request, follows>>

(* Where it came from is not changed. *)
UpdateBooking(b, amount, date, category, account) ==
    bookings' = [bookings EXCEPT ![b] =
                    [@ EXCEPT !.amount = amount, !.date = date,
                              !.category = category, !.account = account]]

UpdateTransaction(b, amount, date, category, account) ==
    /\ b \in DOMAIN bookings
    /\ Acceptable(amount, category, account)
    /\ Write
    /\ UpdateBooking(b, amount, date, category, account)
    /\ UNCHANGED <<position, lastId, types, lastBooking, request, follows>>

DeleteTransaction(b) ==
    /\ b \in DOMAIN bookings
    /\ Write
    /\ bookings' = [x \in DOMAIN bookings \ {b} |-> bookings[x]]
    /\ UNCHANGED <<position, lastId, types, lastBooking, request, follows>>

(***************************************************************************)
(* The sums                                                                *)
(***************************************************************************)
Joined == {b \in DOMAIN bookings : bookings[b].category \in Ids("categories")}

Signed(b) ==
    IF bookings[b].category \in DOMAIN types /\ types[bookings[b].category] = "income"
    THEN bookings[b].amount ELSE - bookings[b].amount

AccountBalance(account) ==
    SumFunction([b \in {x \in DOMAIN bookings : bookings[x].account = account} |-> Signed(b)])

TotalBalance == SumFunction([b \in Joined |-> Signed(b)])

MonthStart(year, month) == DateOf(year, month, 1)
MonthEnd(year, month) == AddDate(MonthStart(year, month), 0, 1, 0)

(* Mistake: the first day of the next month taken in. *)
InMonthInclusive(b, year, month) ==
    MonthStart(year, month) <= bookings[b].date /\ bookings[b].date <= MonthEnd(year, month)

InMonth(b, year, month) ==
    MonthStart(year, month) <= bookings[b].date /\ bookings[b].date < MonthEnd(year, month)

OfMonth(year, month, type) ==
    {b \in Joined : InMonth(b, year, month) /\ types[bookings[b].category] = type}

MonthSum(year, month, type) ==
    SumFunction([b \in OfMonth(year, month, type) |-> bookings[b].amount])

MonthBalance(year, month) == MonthSum(year, month, "income") - MonthSum(year, month, "expense")

(***************************************************************************)
(* The specification                                                       *)
(***************************************************************************)
RowStep ==
    \/ \E c \in Clients, table \in TableNames : ReadPosition(c, table)
    \/ \E c \in Clients : InsertRow(c) \/ CreateFails(c)
    \/ \E id \in Ids("categories"), type \in CategoryTypes : UpdateCategory(id, type)
    \/ \E id \in Ids("accounts") : UpdateAccount(id) \/ DeleteAccount(id)
    \/ \E id \in Ids("categories") : DeleteCategory(id)

BookingStep ==
    \/ \E amount \in Amounts, date \in BookingDates, category \in Ids("categories"),
          account \in Ids("accounts"), source \in {"manual", "recurring"} :
          CreateTransaction(amount, date, category, account, source)
    \/ \E b \in DOMAIN bookings, amount \in Amounts, date \in BookingDates,
          category \in Ids("categories"), account \in Ids("accounts") :
          UpdateTransaction(b, amount, date, category, account)
    \/ \E b \in DOMAIN bookings : DeleteTransaction(b)

Next == RowStep \/ BookingStep

Spec == Init /\ [][Next]_vars

(***************************************************************************)
(* Properties                                                              *)
(***************************************************************************)
TypeOK ==
    /\ \A table \in TableNames :
          /\ Ids(table) \subseteq 1..lastId[table]
          /\ \A id \in Ids(table) : position[table][id] \in Nat
    /\ types \in [Ids("categories") -> CategoryTypes]
    /\ DOMAIN bookings \subseteq 1..lastBooking
    /\ bookings \in [DOMAIN bookings -> Booking]
    /\ writes \in 0..MaxWrites

ListedBefore(table, x, y) ==
    \/ position[table][x] < position[table][y]
    \/ position[table][x] = position[table][y] /\ x < y

(* An account or category is listed after every one that was there when it *)
(* was asked for, whatever else is being created or deleted at that moment *)
(* and whichever of those rows were deleted before.                        *)
ListedInOrderOfRequests ==
    \A table \in TableNames : \A pair \in follows[table] :
        pair[1] \in Ids(table) /\ pair[2] \in Ids(table) => ListedBefore(table, pair[1], pair[2])

(* The balance of the overview is the sum of its accounts' balances, and   *)
(* the sum of all months' balances: no edit, retyped category or deletion  *)
(* makes a booking count in one of them and not in the other, or twice.    *)
AccountsAddUp ==
    TotalBalance = SumFunction([account \in Ids("accounts") |-> AccountBalance(account)])

MonthsOfBookings == {<<YearOf(d), MonthOf(d)>> : d \in BookingDates}

MonthsAddUp ==
    TotalBalance = SumFunction([m \in MonthsOfBookings |-> MonthBalance(m[1], m[2])])

(* "inserts a new account, placed after all existing ones" (accounts.go:95, *)
(* and categories.go:90).                                                   *)
PlacedAfterAll ==
    [][\A table \in TableNames : \A x \in Ids(table), y \in DOMAIN position'[table] \ Ids(table) :
         ListedBefore(table, x, y)']_vars
=============================================================================
