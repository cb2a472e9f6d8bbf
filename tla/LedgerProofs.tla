---------------------------- MODULE LedgerProofs ----------------------------
(***************************************************************************)
(* The ledger, for any number of clients, rows, bookings and dates:        *)
(*   LedgerTypes       rows keep their types                               *)
(*   OrderOfRequests   the lists are in the order of the requests          *)
(*   AccountsSumUp, MonthsSumUp                                            *)
(*                     the overview's balance is the sum of the accounts'  *)
(*                     and of the months' balances                         *)
(* The inductive invariant adds to the types what every row and every      *)
(* request under way has to do with the ids and positions handed out.      *)
(***************************************************************************)
EXTENDS Ledger, BasicLemmas

(***************************************************************************)
(* The invariant                                                           *)
(***************************************************************************)
Creation(table) ==
    [table : {table}, position : Nat, seen : SUBSET (1..lastId[table])]

TablesTyped ==
    /\ DOMAIN position = TableNames
    /\ lastId \in [TableNames -> Nat]
    /\ \A table \in TableNames :
          /\ Ids(table) \subseteq 1..lastId[table]
          /\ \A id \in Ids(table) : position[table][id] \in Nat
    /\ types \in [Ids("categories") -> CategoryTypes]
    /\ writes \in 0..MaxWrites

(* What a creation has read lies before the position it will use. *)
RequestsTyped ==
    /\ DOMAIN request = Clients
    /\ \A c \in Clients : request[c] # Idle => \E table \in TableNames :
          /\ request[c] \in Creation(table)
          /\ \A x \in request[c].seen \cap Ids(table) : position[table][x] < request[c].position

FollowsOrdered ==
    /\ DOMAIN follows = TableNames
    /\ \A table \in TableNames :
          /\ follows[table] \subseteq (1..lastId[table]) \X (1..lastId[table])
          /\ \A pair \in follows[table] :
                pair[1] \in Ids(table) /\ pair[2] \in Ids(table)
                  => ListedBefore(table, pair[1], pair[2])

(* The foreign keys, and the dates as they are entered. *)
LedgerRow ==
    [amount : Nat, date : BookingDates, category : Ids("categories"), account : Ids("accounts"),
     source : {"manual", "recurring"}]

BookingsTyped ==
    /\ lastBooking \in Nat
    /\ DOMAIN bookings \subseteq 1..lastBooking
    /\ bookings \in [DOMAIN bookings -> LedgerRow]

LedgerInvariant == TablesTyped /\ RequestsTyped /\ FollowsOrdered /\ BookingsTyped

(***************************************************************************)
(* What the steps do                                                       *)
(***************************************************************************)
LEMMA Tables == TableNames = {"accounts", "categories"} /\ "none" \notin TableNames
BY DEF TableNames

LEMMA WriteTypes ==
    ASSUME TablesTyped, Write
    PROVE  writes' \in 0..MaxWrites
BY LedgerAssumption DEF TablesTyped, Write

LEMMA CreationFields ==
    ASSUME NEW table \in TableNames, NEW r \in Creation(table)
    PROVE  /\ r.table = table /\ r.position \in Nat /\ r.seen \subseteq 1..lastId[table]
           /\ r # Idle
<1>1. r.table = table /\ r.position \in Nat /\ r.seen \subseteq 1..lastId[table]
  BY DEF Creation
<1>2. Idle.table = "none"
  BY DEF Idle
<1> QED BY <1>1, <1>2, Tables

(* The table a creation is about. *)
LEMMA CreationOf ==
    ASSUME RequestsTyped, NEW c \in Clients, request[c] # Idle
    PROVE  /\ request[c].table \in TableNames
           /\ request[c] \in Creation(request[c].table)
           /\ \A x \in request[c].seen \cap Ids(request[c].table) :
                 position[request[c].table][x] < request[c].position
<1>1. PICK table \in TableNames :
         /\ request[c] \in Creation(table)
         /\ \A x \in request[c].seen \cap Ids(table) : position[table][x] < request[c].position
  BY DEF RequestsTyped
<1>2. request[c].table = table
  BY <1>1, CreationFields
<1> QED BY <1>1, <1>2

(* The row an insert adds: a new id, and the position read before. *)
RowInserted(c, table, id) ==
    /\ table \in TableNames /\ request[c] # Idle /\ request[c] \in Creation(table)
    /\ id \in Nat /\ id > lastId[table] /\ id \notin Ids(table)
    /\ DOMAIN position' = TableNames
    /\ DOMAIN position'[table] = Ids(table) \cup {id}
    /\ \A x \in Ids(table) : position'[table][x] = position[table][x]
    /\ position'[table][id] = request[c].position
    /\ lastId' \in [TableNames -> Nat] /\ lastId'[table] = id
    /\ \A u \in TableNames : u # table => position'[u] = position[u] /\ lastId'[u] = lastId[u]
    /\ follows' = [follows EXCEPT ![table] = @ \cup {<<x, id>> : x \in request[c].seen}]
    /\ request' = [request EXCEPT ![c] = Idle]
    /\ UNCHANGED <<bookings, lastBooking, writes>>

LEMMA InsertFacts ==
    ASSUME LedgerInvariant, NEW c \in Clients, InsertRow(c)
    PROVE  RowInserted(c, request[c].table, lastId[request[c].table] + 1)
<1> DEFINE table == request[c].table
           id == lastId[table] + 1
<1>1. request[c] # Idle /\ table \in TableNames /\ request[c] \in Creation(table)
  BY CreationOf DEF InsertRow, LedgerInvariant
<1>2. /\ position' = [position EXCEPT ![table] =
                         [x \in Ids(table) \cup {id} |->
                             IF x = id THEN request[c].position ELSE position[table][x]]]
      /\ lastId' = [lastId EXCEPT ![table] = id]
      /\ follows' = [follows EXCEPT ![table] = @ \cup {<<x, id>> : x \in request[c].seen}]
      /\ request' = [request EXCEPT ![c] = Idle]
      /\ UNCHANGED <<bookings, lastBooking, writes>>
  BY DEF InsertRow
<1>3. /\ lastId \in [TableNames -> Nat] /\ DOMAIN position = TableNames
      /\ Ids(table) \subseteq 1..lastId[table]
  BY <1>1 DEF LedgerInvariant, TablesTyped
<1>4. id \in Nat /\ id > lastId[table] /\ id \notin Ids(table)
  BY <1>1, <1>3
<1>5. /\ DOMAIN position' = TableNames
      /\ position'[table] = [x \in Ids(table) \cup {id} |->
                                IF x = id THEN request[c].position ELSE position[table][x]]
      /\ \A u \in TableNames : u # table => position'[u] = position[u]
  BY <1>1, <1>2, <1>3
<1>6. /\ lastId' \in [TableNames -> Nat] /\ lastId'[table] = id
      /\ \A u \in TableNames : u # table => lastId'[u] = lastId[u]
  BY <1>1, <1>2, <1>3, <1>4
<1>7. /\ DOMAIN position'[table] = Ids(table) \cup {id}
      /\ \A x \in Ids(table) : position'[table][x] = position[table][x]
      /\ position'[table][id] = request[c].position
  BY <1>4, <1>5
<1> QED BY <1>1, <1>2, <1>4, <1>5, <1>6, <1>7 DEF RowInserted

LEMMA DeleteFacts ==
    ASSUME LedgerInvariant, NEW table \in TableNames, NEW id, RowDeleted(table, id)
    PROVE  /\ DOMAIN position' = TableNames
           /\ DOMAIN position'[table] = Ids(table) \ {id}
           /\ \A x \in Ids(table) \ {id} : position'[table][x] = position[table][x]
           /\ \A u \in TableNames : u # table => position'[u] = position[u]
           /\ writes' \in 0..MaxWrites
           /\ UNCHANGED <<lastId, bookings, lastBooking, request, follows>>
<1>1. DOMAIN position = TableNames
  BY DEF LedgerInvariant, TablesTyped
<1> QED BY <1>1, WriteTypes DEF RowDeleted, LedgerInvariant

(* An insert and a deletion keep the rows typed. *)
LEMMA InsertKeepsTables ==
    ASSUME LedgerInvariant, NEW c \in Clients, InsertRow(c)
    PROVE  TablesTyped'
<1> DEFINE table == request[c].table
           id == lastId[table] + 1
<1>1. /\ table \in TableNames /\ request[c] \in Creation(table) /\ id \in Nat /\ id > lastId[table]
      /\ DOMAIN position' = TableNames
      /\ DOMAIN position'[table] = Ids(table) \cup {id}
      /\ \A x \in Ids(table) : position'[table][x] = position[table][x]
      /\ position'[table][id] = request[c].position
      /\ lastId' \in [TableNames -> Nat] /\ lastId'[table] = id
      /\ \A u \in TableNames : u # table => position'[u] = position[u] /\ lastId'[u] = lastId[u]
      /\ UNCHANGED writes
  <2>1. RowInserted(c, table, id)
    BY InsertFacts
  <2> HIDE DEF table, id
  <2> QED BY <2>1 DEF RowInserted
<1>2. IF table = "categories"
      THEN \E type \in CategoryTypes :
              types' = [x \in DOMAIN types \cup {id} |-> IF x = id THEN type ELSE types[x]]
      ELSE UNCHANGED types
  BY DEF InsertRow
<1>3. request[c].position \in Nat
  BY <1>1, CreationFields
<1> HIDE DEF table, id
<1>4. /\ lastId \in [TableNames -> Nat] /\ types \in [Ids("categories") -> CategoryTypes]
      /\ writes \in 0..MaxWrites
      /\ \A u \in TableNames : /\ Ids(u) \subseteq 1..lastId[u]
                               /\ \A x \in Ids(u) : position[u][x] \in Nat
  BY DEF LedgerInvariant, TablesTyped
<1>5. ASSUME NEW u \in TableNames
      PROVE  /\ DOMAIN position'[u] \subseteq 1..lastId'[u]
             /\ \A x \in DOMAIN position'[u] : position'[u][x] \in Nat
  <2>1. CASE u = table
    <3>1. Ids(table) \subseteq 1..lastId[table] /\ lastId[table] \in Nat
      BY <1>1, <1>4
    <3>2. DOMAIN position'[table] \subseteq 1..id
      BY <1>1, <3>1
    <3> QED BY <1>1, <1>3, <1>4, <2>1, <3>2
  <2>2. CASE u # table
    BY <1>1, <1>4, <2>2 DEF Ids
  <2> QED BY <2>1, <2>2
<1>6. types' \in [DOMAIN position'["categories"] -> CategoryTypes]
  <2>1. CASE table = "categories"
    BY <1>1, <1>2, <1>4, <2>1
  <2>2. CASE table # "categories"
    BY <1>1, <1>2, <1>4, <2>2, Tables DEF Ids
  <2> QED BY <2>1, <2>2
<1> QED BY <1>1, <1>4, <1>5, <1>6 DEF TablesTyped, Ids

LEMMA TablesStep ==
    ASSUME LedgerInvariant, [Next]_vars
    PROVE  TablesTyped'
<1> USE DEF LedgerInvariant
<1>1. ASSUME UNCHANGED <<position, lastId, types>>, writes' \in 0..MaxWrites PROVE TablesTyped'
  BY <1>1 DEF TablesTyped, Ids
<1>2. writes \in 0..MaxWrites
  BY DEF TablesTyped
<1>3. ASSUME NEW c \in Clients, NEW table \in TableNames, ReadPosition(c, table) PROVE TablesTyped'
  BY <1>1, <1>3, WriteTypes DEF ReadPosition
<1>4. ASSUME NEW c \in Clients, CreateFails(c) PROVE TablesTyped'
  BY <1>1, <1>2, <1>4 DEF CreateFails
<1>5. ASSUME NEW id \in Ids("categories"), NEW type \in CategoryTypes, UpdateCategory(id, type)
      PROVE  TablesTyped'
  <2>1. types' = [types EXCEPT ![id] = type] /\ UNCHANGED <<position, lastId>>
    BY <1>5 DEF UpdateCategory
  <2>2. types' \in [Ids("categories") -> CategoryTypes]
    BY <2>1 DEF TablesTyped
  <2> QED BY <1>5, <2>1, <2>2, WriteTypes DEF UpdateCategory, TablesTyped, Ids
<1>6. ASSUME NEW id \in Ids("accounts"), UpdateAccount(id) PROVE TablesTyped'
  BY <1>1, <1>6, WriteTypes DEF UpdateAccount
<1>7. ASSUME NEW id, NEW table \in TableNames, RowDeleted(table, id),
             types' \in [DOMAIN position'["categories"] -> CategoryTypes]
      PROVE  TablesTyped'
  <2>1. /\ DOMAIN position' = TableNames
        /\ DOMAIN position'[table] = Ids(table) \ {id}
        /\ \A x \in Ids(table) \ {id} : position'[table][x] = position[table][x]
        /\ \A u \in TableNames : u # table => position'[u] = position[u]
        /\ writes' \in 0..MaxWrites /\ UNCHANGED lastId
    BY <1>7, DeleteFacts
  <2>2. ASSUME NEW u \in TableNames
        PROVE  /\ DOMAIN position'[u] \subseteq 1..lastId'[u]
               /\ \A x \in DOMAIN position'[u] : position'[u][x] \in Nat
    <3>1. CASE u = table
      BY <2>1, <3>1 DEF TablesTyped
    <3>2. CASE u # table
      BY <2>1, <3>2 DEF TablesTyped, Ids
    <3> QED BY <3>1, <3>2
  <2> QED BY <1>7, <2>1, <2>2 DEF TablesTyped, Ids
<1>8. ASSUME NEW id \in Ids("accounts"), DeleteAccount(id) PROVE TablesTyped'
  <2>1. RowDeleted("accounts", id) /\ UNCHANGED types
    BY <1>8 DEF DeleteAccount
  <2>2. position'["categories"] = position["categories"]
    BY <2>1, DeleteFacts, Tables
  <2> QED BY <1>7, <2>1, <2>2, Tables DEF TablesTyped, Ids
<1>9. ASSUME NEW id \in Ids("categories"), DeleteCategory(id) PROVE TablesTyped'
  <2>1. RowDeleted("categories", id) /\ types' = [x \in DOMAIN types \ {id} |-> types[x]]
    BY <1>9 DEF DeleteCategory
  <2>2. DOMAIN position'["categories"] = Ids("categories") \ {id}
    BY <2>1, DeleteFacts, Tables
  <2> QED BY <1>7, <2>1, <2>2, Tables DEF TablesTyped
<1>10. CASE BookingStep
  BY <1>1, <1>10, WriteTypes DEF BookingStep, CreateTransaction, UpdateTransaction, DeleteTransaction
<1>11. CASE UNCHANGED vars
  BY <1>1, <1>2, <1>11 DEF vars
<1> QED BY <1>3, <1>4, <1>5, <1>6, <1>8, <1>9, <1>10, <1>11, InsertKeepsTables DEF Next, RowStep

(***************************************************************************)
(* The order of the lists                                                  *)
(***************************************************************************)

(* Ids are never given twice and positions never change. *)
RowsKept ==
    \A u \in TableNames :
       /\ lastId'[u] \in Nat /\ lastId'[u] >= lastId[u]
       /\ \A x \in 1..lastId[u] :
             x \in DOMAIN position'[u] => x \in Ids(u) /\ position'[u][x] = position[u][x]

LEMMA RowsKeptStep ==
    ASSUME LedgerInvariant, [Next]_vars
    PROVE  RowsKept
<1>1. /\ lastId \in [TableNames -> Nat]
      /\ \A u \in TableNames : lastId[u] \in Nat /\ Ids(u) \subseteq 1..lastId[u]
  BY DEF LedgerInvariant, TablesTyped
<1>2. ASSUME UNCHANGED <<position, lastId>> PROVE RowsKept
  BY <1>1, <1>2 DEF RowsKept, Ids
<1>3. ASSUME NEW c \in Clients, InsertRow(c) PROVE RowsKept
  <2> DEFINE table == request[c].table
             id == lastId[table] + 1
  <2>1. RowInserted(c, table, id)
    BY <1>3, InsertFacts
  <2> HIDE DEF table, id
  <2>2. /\ table \in TableNames /\ id \in Nat /\ id > lastId[table] /\ lastId'[table] = id
        /\ DOMAIN position'[table] = Ids(table) \cup {id}
        /\ \A x \in Ids(table) : position'[table][x] = position[table][x]
        /\ \A u \in TableNames : u # table => position'[u] = position[u] /\ lastId'[u] = lastId[u]
    BY <2>1 DEF RowInserted
  <2> SUFFICES ASSUME NEW u \in TableNames
               PROVE  /\ lastId'[u] \in Nat /\ lastId'[u] >= lastId[u]
                      /\ \A x \in 1..lastId[u] :
                            x \in DOMAIN position'[u] => x \in Ids(u) /\ position'[u][x] = position[u][x]
    BY DEF RowsKept
  <2>3. CASE u = table
    BY <1>1, <2>2, <2>3
  <2>4. CASE u # table
    BY <1>1, <2>2, <2>4 DEF Ids
  <2> QED BY <2>3, <2>4
<1>4. ASSUME NEW table \in TableNames, NEW id, RowDeleted(table, id) PROVE RowsKept
  <2>1. /\ DOMAIN position'[table] = Ids(table) \ {id}
        /\ \A x \in Ids(table) \ {id} : position'[table][x] = position[table][x]
        /\ \A u \in TableNames : u # table => position'[u] = position[u]
        /\ UNCHANGED lastId
    BY <1>4, DeleteFacts
  <2> SUFFICES ASSUME NEW u \in TableNames
               PROVE  /\ lastId'[u] \in Nat /\ lastId'[u] >= lastId[u]
                      /\ \A x \in 1..lastId[u] :
                            x \in DOMAIN position'[u] => x \in Ids(u) /\ position'[u][x] = position[u][x]
    BY DEF RowsKept
  <2>2. CASE u = table
    BY <1>1, <2>1, <2>2
  <2>3. CASE u # table
    BY <1>1, <2>1, <2>3 DEF Ids
  <2> QED BY <2>2, <2>3
<1>5. CASE RowStep
  BY <1>2, <1>3, <1>4, <1>5, Tables
     DEF RowStep, ReadPosition, CreateFails, UpdateCategory, UpdateAccount, DeleteAccount, DeleteCategory
<1>6. CASE BookingStep
  BY <1>2, <1>6 DEF BookingStep, CreateTransaction, UpdateTransaction, DeleteTransaction
<1> QED BY <1>2, <1>5, <1>6 DEF Next, vars

LEMMA NextPositionIsLast ==
    ASSUME TablesTyped, NEW table \in TableNames
    PROVE  /\ NextPosition(table) \in Nat
           /\ \A x \in Ids(table) : position[table][x] < NextPosition(table)
<1> DEFINE S == {position[table][x] : x \in Ids(table)}
<1>1. /\ lastId[table] \in Nat /\ Ids(table) \subseteq 1..lastId[table]
      /\ \A x \in Ids(table) : position[table][x] \in Nat
  BY DEF TablesTyped
<1>2. CASE Ids(table) = {}
  BY <1>2 DEF NextPosition
<1>3. CASE Ids(table) # {}
  <2>1. IsFiniteSet(1..lastId[table])
    BY <1>1, FS_Interval
  <2>2. IsFiniteSet(Ids(table))
    BY <1>1, <2>1, FS_Subset
  <2>3. IsFiniteSet(S)
    BY <2>2, FiniteImage
  <2>4. S \in SUBSET Int /\ S \in SUBSET Nat /\ S # {}
    BY <1>1, <1>3
  <2>5. Max(S) \in S /\ \A p \in S : p <= Max(S)
    <3> HIDE DEF S
    <3> QED BY <2>3, <2>4, GreatestOf
  <2>6. NextPosition(table) = Max(S) + 1
    BY <1>3 DEF NextPosition
  <2>7. \A x \in Ids(table) : position[table][x] \in S
    OBVIOUS
  <2> DEFINE m == Max(S)
  <2>8. m \in Nat /\ \A p \in S : p <= m
    BY <2>4, <2>5
  <2>9. \A x \in Ids(table) : position[table][x] \in Nat /\ position[table][x] <= m
    BY <2>4, <2>7, <2>8
  <2>10. NextPosition(table) = m + 1
    BY <2>6
  <2> HIDE DEF m, S
  <2> QED BY <2>8, <2>9, <2>10
<1> QED BY <1>2, <1>3

(* A creation and the rows it has read, at the next moment. *)
ReadyNext(d) ==
    request'[d] # Idle => \E table \in TableNames :
       /\ request'[d] \in [table : {table}, position : Nat, seen : SUBSET (1..lastId'[table])]
       /\ \A x \in request'[d].seen \cap DOMAIN position'[table] :
             position'[table][x] < request'[d].position

LEMMA RequestsStep ==
    ASSUME LedgerInvariant, [Next]_vars
    PROVE  RequestsTyped'
<1>1. RowsKept /\ lastId \in [TableNames -> Nat] /\ DOMAIN request = Clients
  BY RowsKeptStep DEF LedgerInvariant, TablesTyped, RequestsTyped
<1>2. ASSUME NEW d \in Clients, request'[d] = request[d] PROVE ReadyNext(d)
  <2> SUFFICES ASSUME request[d] # Idle PROVE ReadyNext(d)
    BY <1>2 DEF ReadyNext
  <2> DEFINE table == request[d].table
  <2>1. /\ table \in TableNames /\ request[d] \in Creation(table)
        /\ \A x \in request[d].seen \cap Ids(table) : position[table][x] < request[d].position
    BY CreationOf DEF LedgerInvariant
  <2>2. request[d].seen \subseteq 1..lastId[table] /\ request[d].position \in Nat
    BY <2>1, CreationFields
  <2> HIDE DEF table
  <2>3. lastId'[table] \in Nat /\ lastId'[table] >= lastId[table] /\ lastId[table] \in Nat
    BY <1>1, <2>1 DEF RowsKept
  <2>4. request[d].seen \subseteq 1..lastId'[table]
    BY <2>2, <2>3
  <2>5. request[d] \in [table : {table}, position : Nat, seen : SUBSET (1..lastId'[table])]
    BY <2>1, <2>4 DEF Creation
  <2>6. \A x \in request[d].seen \cap DOMAIN position'[table] :
           position'[table][x] < request[d].position
    BY <1>1, <2>1, <2>2 DEF RowsKept
  <2> QED BY <1>2, <2>1, <2>5, <2>6 DEF ReadyNext
<1>3. ASSUME NEW d \in Clients, request'[d] = Idle PROVE ReadyNext(d)
  BY <1>3 DEF ReadyNext
<1>4. ASSUME NEW c \in Clients, NEW table \in TableNames, ReadPosition(c, table)
      PROVE  DOMAIN request' = Clients /\ \A d \in Clients : ReadyNext(d)
  <2> DEFINE r == [table |-> table, position |-> NextPosition(table), seen |-> Ids(table)]
  <2>1. request' = [request EXCEPT ![c] = r] /\ UNCHANGED <<position, lastId>>
    BY <1>4 DEF ReadPosition
  <2>2. /\ NextPosition(table) \in Nat /\ Ids(table) \subseteq 1..lastId[table]
        /\ \A x \in Ids(table) : position[table][x] < NextPosition(table)
    BY NextPositionIsLast DEF LedgerInvariant, TablesTyped
  <2>3. ReadyNext(c)
    BY <1>1, <2>1, <2>2 DEF ReadyNext, Ids
  <2> HIDE DEF r
  <2> QED BY <1>1, <1>2, <2>1, <2>3
<1>5. ASSUME UNCHANGED request
      PROVE  DOMAIN request' = Clients /\ \A d \in Clients : ReadyNext(d)
  BY <1>1, <1>2, <1>5
<1>6. ASSUME NEW c \in Clients, InsertRow(c) \/ CreateFails(c)
      PROVE  DOMAIN request' = Clients /\ \A d \in Clients : ReadyNext(d)
  <2>1. request' = [request EXCEPT ![c] = Idle]
    BY <1>6 DEF InsertRow, CreateFails
  <2> QED BY <1>1, <1>2, <1>3, <2>1
<1>7. DOMAIN request' = Clients /\ \A d \in Clients : ReadyNext(d)
  <2>1. CASE RowStep
    BY <1>4, <1>5, <1>6, <2>1
       DEF RowStep, UpdateCategory, UpdateAccount, DeleteAccount, DeleteCategory, RowDeleted
  <2>2. CASE BookingStep
    BY <1>5, <2>2 DEF BookingStep, CreateTransaction, UpdateTransaction, DeleteTransaction
  <2> QED BY <1>5, <2>1, <2>2 DEF Next, vars
<1> QED BY <1>7 DEF RequestsTyped, ReadyNext, Creation, Ids

LEMMA FollowsStep ==
    ASSUME LedgerInvariant, [Next]_vars
    PROVE  FollowsOrdered'
<1>1. RowsKept /\ lastId \in [TableNames -> Nat]
  BY RowsKeptStep DEF LedgerInvariant, TablesTyped
<1> DEFINE Ordered(u, pair) ==
             /\ pair \in (1..lastId'[u]) \X (1..lastId'[u])
             /\ pair[1] \in DOMAIN position'[u] /\ pair[2] \in DOMAIN position'[u]
                  => \/ position'[u][pair[1]] < position'[u][pair[2]]
                     \/ position'[u][pair[1]] = position'[u][pair[2]] /\ pair[1] < pair[2]
<1>2. ASSUME NEW u \in TableNames, NEW pair \in follows[u] PROVE Ordered(u, pair)
  <2>1. /\ pair \in (1..lastId[u]) \X (1..lastId[u])
        /\ pair[1] \in Ids(u) /\ pair[2] \in Ids(u) => ListedBefore(u, pair[1], pair[2])
    BY DEF LedgerInvariant, FollowsOrdered
  <2>2. pair[1] \in 1..lastId[u] /\ pair[2] \in 1..lastId[u] /\ pair = <<pair[1], pair[2]>>
    BY <2>1
  <2>3. lastId'[u] \in Nat /\ lastId'[u] >= lastId[u] /\ lastId[u] \in Nat
    BY <1>1 DEF RowsKept
  <2>4. pair \in (1..lastId'[u]) \X (1..lastId'[u])
    BY <2>2, <2>3
  <2>5. \A x \in 1..lastId[u] :
           x \in DOMAIN position'[u] => x \in Ids(u) /\ position'[u][x] = position[u][x]
    BY <1>1 DEF RowsKept
  <2> QED BY <2>1, <2>2, <2>4, <2>5 DEF ListedBefore
<1>3. SUFFICES /\ DOMAIN follows' = TableNames
               /\ \A u \in TableNames : \A pair \in follows'[u] : Ordered(u, pair)
  <2> HIDE DEF Ordered
  <2>1. ASSUME NEW u \in TableNames, NEW pair \in follows'[u] PROVE Ordered(u, pair)
    BY <1>3
  <2> QED BY <1>3, <2>1 DEF Ordered, FollowsOrdered, ListedBefore, Ids
<1>4. DOMAIN follows = TableNames
  BY DEF LedgerInvariant, FollowsOrdered
<1>5. CASE UNCHANGED follows
  <2> HIDE DEF Ordered
  <2> QED BY <1>2, <1>4, <1>5
<1>6. ASSUME NEW c \in Clients, InsertRow(c)
      PROVE  /\ DOMAIN follows' = TableNames
             /\ \A u \in TableNames : \A pair \in follows'[u] : Ordered(u, pair)
  <2> DEFINE table == request[c].table
             id == lastId[table] + 1
  <2>1. RowInserted(c, table, id)
    BY <1>6, InsertFacts
  <2>2. \A x \in request[c].seen \cap Ids(table) : position[table][x] < request[c].position
    BY <2>1, CreationOf DEF RowInserted, LedgerInvariant
  <2> HIDE DEF table, id
  <2>3. /\ table \in TableNames /\ id \in Nat /\ id > lastId[table] /\ lastId'[table] = id
        /\ DOMAIN position'[table] = Ids(table) \cup {id}
        /\ \A x \in Ids(table) : position'[table][x] = position[table][x]
        /\ position'[table][id] = request[c].position /\ request[c] \in Creation(table)
        /\ follows' = [follows EXCEPT ![table] = @ \cup {<<x, id>> : x \in request[c].seen}]
    BY <2>1 DEF RowInserted
  <2>4. request[c].seen \subseteq 1..lastId[table] /\ lastId[table] \in Nat
    BY <1>1, <2>3, CreationFields
  <2>5. ASSUME NEW x \in request[c].seen PROVE Ordered(table, <<x, id>>)
    <3>1. x \in 1..id /\ id \in 1..id /\ x # id
      BY <2>3, <2>4
    <3>2. x \in Ids(table) => position'[table][x] < position'[table][id]
      BY <2>2, <2>3
    <3> QED BY <2>3, <3>1, <3>2
  <2>6. DOMAIN follows' = TableNames
    BY <1>4, <2>3
  <2>7. ASSUME NEW u \in TableNames, NEW pair \in follows'[u]
        PROVE  pair \in follows[u] \/ (u = table /\ \E x \in request[c].seen : pair = <<x, id>>)
    BY <1>4, <2>3
  <2> HIDE DEF Ordered
  <2> QED BY <1>2, <2>5, <2>6, <2>7
<1>7. CASE RowStep
  <2> HIDE DEF Ordered
  <2> QED BY <1>5, <1>6, <1>7
     DEF RowStep, ReadPosition, CreateFails, UpdateCategory, UpdateAccount, DeleteAccount,
         DeleteCategory, RowDeleted
<1>8. CASE BookingStep
  <2> HIDE DEF Ordered
  <2> QED BY <1>5, <1>8 DEF BookingStep, CreateTransaction, UpdateTransaction, DeleteTransaction
<1> HIDE DEF Ordered
<1> QED BY <1>5, <1>7, <1>8 DEF Next, vars

(***************************************************************************)
(* The foreign keys                                                        *)
(***************************************************************************)
RowWith(categories, accounts) ==
    [amount : Nat, date : BookingDates, category : categories, account : accounts,
     source : {"manual", "recurring"}]

(* What the bookings refer to stays while they do. *)
ReferencesStay ==
    \A b \in DOMAIN bookings :
       /\ bookings[b].category \in DOMAIN position'["categories"]
       /\ bookings[b].account \in DOMAIN position'["accounts"]

LEMMA ReferencesNow ==
    ASSUME BookingsTyped, NEW b \in DOMAIN bookings
    PROVE  /\ bookings[b] \in RowWith(Ids("categories"), Ids("accounts"))
           /\ bookings[b].category \in Ids("categories") /\ bookings[b].account \in Ids("accounts")
<1>1. bookings[b] \in LedgerRow
  BY DEF BookingsTyped
<1> QED BY <1>1 DEF LedgerRow, RowWith

LEMMA ReferencesStayStep ==
    ASSUME LedgerInvariant, RowStep
    PROVE  ReferencesStay /\ UNCHANGED <<bookings, lastBooking>>
<1>1. \A b \in DOMAIN bookings :
         bookings[b].category \in Ids("categories") /\ bookings[b].account \in Ids("accounts")
  BY ReferencesNow DEF LedgerInvariant
<1>2. ASSUME UNCHANGED <<position, bookings, lastBooking>>
      PROVE  ReferencesStay /\ UNCHANGED <<bookings, lastBooking>>
  BY <1>1, <1>2 DEF ReferencesStay, Ids
<1>3. ASSUME NEW c \in Clients, InsertRow(c)
      PROVE  ReferencesStay /\ UNCHANGED <<bookings, lastBooking>>
  <2> DEFINE table == request[c].table
             id == lastId[table] + 1
  <2>1. RowInserted(c, table, id)
    BY <1>3, InsertFacts
  <2> HIDE DEF table, id
  <2>2. \A u \in TableNames : Ids(u) \subseteq DOMAIN position'[u]
    BY <2>1 DEF RowInserted, Ids
  <2> QED BY <1>1, <2>1, <2>2, Tables DEF ReferencesStay, RowInserted
<1>4. ASSUME NEW id \in Ids("accounts"), DeleteAccount(id)
      PROVE  ReferencesStay /\ UNCHANGED <<bookings, lastBooking>>
  <2>1. RowDeleted("accounts", id) /\ \A b \in DOMAIN bookings : bookings[b].account # id
    BY <1>4 DEF DeleteAccount, BookingRows
  <2>2. /\ DOMAIN position'["accounts"] = Ids("accounts") \ {id}
        /\ position'["categories"] = position["categories"]
        /\ UNCHANGED <<bookings, lastBooking>>
    BY <2>1, DeleteFacts, Tables
  <2> QED BY <1>1, <2>1, <2>2 DEF ReferencesStay, Ids
<1>5. ASSUME NEW id \in Ids("categories"), DeleteCategory(id)
      PROVE  ReferencesStay /\ UNCHANGED <<bookings, lastBooking>>
  <2>1. RowDeleted("categories", id) /\ \A b \in DOMAIN bookings : bookings[b].category # id
    BY <1>5 DEF DeleteCategory, BookingRows
  <2>2. /\ DOMAIN position'["categories"] = Ids("categories") \ {id}
        /\ position'["accounts"] = position["accounts"]
        /\ UNCHANGED <<bookings, lastBooking>>
    BY <2>1, DeleteFacts, Tables
  <2> QED BY <1>1, <2>1, <2>2 DEF ReferencesStay, Ids
<1> QED BY <1>2, <1>3, <1>4, <1>5
        DEF RowStep, ReadPosition, CreateFails, UpdateCategory, UpdateAccount

LEMMA AcceptableRow ==
    ASSUME NEW amount \in Amounts, NEW date \in BookingDates, NEW category, NEW account,
           NEW source \in {"manual", "recurring"}, Acceptable(amount, category, account)
    PROVE  [amount |-> amount, date |-> date, category |-> category, account |-> account,
            source |-> source] \in RowWith(Ids("categories"), Ids("accounts"))
<1>1. amount \in Nat
  BY LedgerAssumption DEF Acceptable
<1> QED BY <1>1 DEF Acceptable, RowWith

LEMMA BookingsStep ==
    ASSUME LedgerInvariant, [Next]_vars
    PROVE  BookingsTyped'
<1> DEFINE Row == RowWith(Ids("categories"), Ids("accounts"))
<1>1. /\ lastBooking \in Nat /\ DOMAIN bookings \subseteq 1..lastBooking
      /\ bookings \in [DOMAIN bookings -> Row]
  BY DEF LedgerInvariant, BookingsTyped, LedgerRow, RowWith
<1>2. ASSUME UNCHANGED position, lastBooking' \in Nat, DOMAIN bookings' \subseteq 1..lastBooking',
             bookings' \in [DOMAIN bookings' -> Row]
      PROVE  BookingsTyped'
  BY <1>2 DEF BookingsTyped, LedgerRow, RowWith, Ids
<1>3. CASE RowStep
  <2>1. ReferencesStay /\ UNCHANGED <<bookings, lastBooking>>
    BY <1>3, ReferencesStayStep
  <2>2. ASSUME NEW b \in DOMAIN bookings
        PROVE  bookings[b] \in RowWith(DOMAIN position'["categories"], DOMAIN position'["accounts"])
    <3>1. /\ bookings[b].category \in DOMAIN position'["categories"]
          /\ bookings[b].account \in DOMAIN position'["accounts"]
      BY <2>1 DEF ReferencesStay
    <3>2. bookings[b] \in RowWith(Ids("categories"), Ids("accounts"))
      BY ReferencesNow DEF LedgerInvariant
    <3> QED BY <3>1, <3>2 DEF RowWith
  <2> QED BY <1>1, <2>1, <2>2 DEF BookingsTyped, LedgerRow, RowWith, Ids
<1> HIDE DEF Row
<1>4. ASSUME NEW amount \in Amounts, NEW date \in BookingDates, NEW category, NEW account,
             NEW source \in {"manual", "recurring"},
             CreateTransaction(amount, date, category, account, source)
      PROVE  BookingsTyped'
  <2> DEFINE row == [amount |-> amount, date |-> date, category |-> category,
                     account |-> account, source |-> source]
  <2>1. row \in Row
    BY <1>4, AcceptableRow DEF CreateTransaction, Row
  <2>2. /\ lastBooking' = lastBooking + 1 /\ UNCHANGED position
        /\ bookings' = [b \in DOMAIN bookings \cup {lastBooking'} |->
                           IF b = lastBooking' THEN row ELSE bookings[b]]
    BY <1>4 DEF CreateTransaction, InsertBooking
  <2> HIDE DEF row
  <2>3. lastBooking' \in Nat /\ DOMAIN bookings' \subseteq 1..lastBooking'
    BY <1>1, <2>2
  <2>4. bookings' \in [DOMAIN bookings' -> Row]
    BY <1>1, <2>1, <2>2
  <2> QED BY <1>2, <2>2, <2>3, <2>4
<1>5. ASSUME NEW b \in DOMAIN bookings, NEW amount \in Amounts, NEW date \in BookingDates,
             NEW category, NEW account, UpdateTransaction(b, amount, date, category, account)
      PROVE  BookingsTyped'
  <2> DEFINE row == [bookings[b] EXCEPT !.amount = amount, !.date = date,
                                        !.category = category, !.account = account]
  <2>1. bookings[b] \in Row /\ bookings[b].source \in {"manual", "recurring"}
    BY <1>1 DEF Row, RowWith
  <2>2. row \in Row
    <3>1. amount \in Nat /\ category \in Ids("categories") /\ account \in Ids("accounts")
      BY <1>5, LedgerAssumption DEF UpdateTransaction, Acceptable
    <3> QED BY <2>1, <3>1 DEF Row, RowWith
  <2>3. bookings' = [bookings EXCEPT ![b] = row] /\ UNCHANGED <<position, lastBooking>>
    BY <1>5 DEF UpdateTransaction, UpdateBooking
  <2> HIDE DEF row
  <2> QED BY <1>1, <1>2, <2>2, <2>3
<1>6. ASSUME NEW b \in DOMAIN bookings, DeleteTransaction(b) PROVE BookingsTyped'
  <2>1. bookings' = [x \in DOMAIN bookings \ {b} |-> bookings[x]] /\ UNCHANGED <<position, lastBooking>>
    BY <1>6 DEF DeleteTransaction
  <2> QED BY <1>1, <1>2, <2>1
<1>7. CASE BookingStep
  BY <1>4, <1>5, <1>6, <1>7 DEF BookingStep
<1>8. CASE UNCHANGED vars
  BY <1>1, <1>2, <1>8 DEF vars
<1> QED BY <1>3, <1>7, <1>8 DEF Next

(* The default categories have the first ids. *)
LEMMA LedgerInit ==
    ASSUME Init
    PROVE  LedgerInvariant
<1> DEFINE D == DOMAIN SeededTypes
<1>1. IsFiniteSet(D) /\ Cardinality(D) \in Nat /\ D \subseteq Nat \ {0}
  BY LedgerAssumption, FS_CardinalityType
<1>2. D \subseteq 1..Cardinality(D)
  <2> SUFFICES ASSUME NEW n \in D PROVE n <= Cardinality(D)
    BY <1>1
  <2>1. n \in Nat /\ 1..n \subseteq D
    BY LedgerAssumption
  <2>2. IsFiniteSet(1..n) /\ Cardinality(1..n) = n
    BY <2>1, FS_Interval
  <2> HIDE DEF D
  <2>3. Cardinality(1..n) <= Cardinality(D)
    BY <1>1, <2>1, FS_Subset
  <2> QED BY <2>2, <2>3
<1>3. /\ DOMAIN position = TableNames /\ position["accounts"] = [id \in {} |-> 0]
      /\ position["categories"] = [id \in D |-> id - 1]
      /\ DOMAIN lastId = TableNames /\ lastId["accounts"] = 0
      /\ lastId["categories"] = Cardinality(D) /\ lastId \in [TableNames -> Nat]
  BY <1>1, Tables DEF Init
<1>4. Ids("categories") = D /\ Ids("accounts") = {}
  BY <1>3 DEF Ids
<1>5. \A id \in D : position["categories"][id] \in Nat
  BY <1>1, <1>3
<1> HIDE DEF D
<1>6. TablesTyped
  <2>1. types \in [D -> CategoryTypes]
    BY LedgerAssumption DEF Init, D, CategoryTypes
  <2>2. writes \in 0..MaxWrites
    BY LedgerAssumption DEF Init
  <2> QED BY <1>2, <1>3, <1>4, <1>5, <2>1, <2>2, Tables DEF TablesTyped
<1>7. RequestsTyped
  BY DEF Init, RequestsTyped
<1>8. FollowsOrdered
  BY DEF Init, FollowsOrdered
<1>9. BookingsTyped
  BY DEF Init, BookingsTyped
<1> QED BY <1>6, <1>7, <1>8, <1>9 DEF LedgerInvariant

(* The whole invariant holds in every reachable state. *)
LEMMA LedgerSound == Spec => []LedgerInvariant
<1>1. Init => LedgerInvariant
  BY LedgerInit
<1>2. LedgerInvariant /\ [Next]_vars => LedgerInvariant'
  BY TablesStep, RequestsStep, FollowsStep, BookingsStep DEF LedgerInvariant
<1> QED BY <1>1, <1>2, PTL DEF Spec

(***************************************************************************)
(* The theorems                                                            *)
(***************************************************************************)

(* Accounts, categories and bookings keep their types and their ids, under *)
(* any interleaving of the requests.                                       *)
THEOREM LedgerTypes == Spec => []TypeOK
<1>1. LedgerInvariant => TypeOK
  <2> SUFFICES ASSUME LedgerInvariant PROVE bookings \in [DOMAIN bookings -> Booking]
    BY DEF LedgerInvariant, TablesTyped, BookingsTyped, TypeOK
  <2>1. Ids("categories") \subseteq Nat /\ Ids("accounts") \subseteq Nat /\ BookingDates \subseteq Dates
    BY LedgerAssumption, Tables DEF LedgerInvariant, TablesTyped
  <2>2. bookings \in [DOMAIN bookings -> LedgerRow]
    BY DEF LedgerInvariant, BookingsTyped
  <2>3. LedgerRow \subseteq Booking
    BY <2>1 DEF LedgerRow, Booking
  <2> QED BY <2>2, <2>3
<1> QED BY <1>1, LedgerSound, PTL

(* CreateAccount and CreateCategory read the position after the last row   *)
(* and insert later; whatever is created or deleted meanwhile, the new row *)
(* is listed after every row that was there when it was asked for.         *)
THEOREM OrderOfRequests == Spec => []ListedInOrderOfRequests
<1>1. LedgerInvariant => ListedInOrderOfRequests
  BY DEF LedgerInvariant, FollowsOrdered, ListedInOrderOfRequests
<1> QED BY <1>1, LedgerSound, PTL

(***************************************************************************)
(* The sums                                                                *)
(***************************************************************************)
SignedAmounts == [b \in DOMAIN bookings |-> Signed(b)]

LEMMA BookingFacts ==
    ASSUME LedgerInvariant
    PROVE  /\ IsFiniteSet(DOMAIN bookings) /\ Joined = DOMAIN bookings
           /\ \A b \in DOMAIN bookings :
                 /\ bookings[b].amount \in Nat /\ bookings[b].date \in BookingDates
                 /\ bookings[b].category \in DOMAIN types
                 /\ types[bookings[b].category] \in {"income", "expense"}
                 /\ bookings[b].account \in Ids("accounts")
                 /\ Signed(b) \in Int
<1>1. lastBooking \in Nat /\ DOMAIN bookings \subseteq 1..lastBooking
  BY DEF LedgerInvariant, BookingsTyped
<1>2. IsFiniteSet(DOMAIN bookings)
  <2>1. IsFiniteSet(1..lastBooking)
    BY <1>1, FS_Interval
  <2> QED BY <1>1, <2>1, FS_Subset
<1>3. types \in [Ids("categories") -> {"income", "expense"}]
  BY DEF LedgerInvariant, TablesTyped, CategoryTypes
<1>4. ASSUME NEW b \in DOMAIN bookings
      PROVE  /\ bookings[b].amount \in Nat /\ bookings[b].date \in BookingDates
             /\ bookings[b].category \in Ids("categories")
             /\ bookings[b].account \in Ids("accounts")
  <2>1. bookings[b] \in RowWith(Ids("categories"), Ids("accounts"))
    BY ReferencesNow DEF LedgerInvariant
  <2> QED BY <2>1 DEF RowWith
<1> QED BY <1>2, <1>3, <1>4 DEF Joined, Signed

LEMMA FiniteAccounts ==
    ASSUME LedgerInvariant
    PROVE  IsFiniteSet(Ids("accounts"))
<1>1. lastId["accounts"] \in Nat /\ Ids("accounts") \subseteq 1..lastId["accounts"]
  BY Tables DEF LedgerInvariant, TablesTyped
<1>2. IsFiniteSet(1..lastId["accounts"])
  BY <1>1, FS_Interval
<1> QED BY <1>1, <1>2, FS_Subset

(* The overview's balance, and the sum over some of the bookings. *)
LEMMA TotalIsSum ==
    ASSUME LedgerInvariant
    PROVE  /\ TotalBalance = SumFunctionOnSet(SignedAmounts, DOMAIN bookings)
           /\ \A T \in SUBSET DOMAIN bookings :
                 /\ IsFiniteSet(T) /\ SumFunctionOnSet(SignedAmounts, T) \in Int
                 /\ SumFunction([b \in T |-> Signed(b)]) = SumFunctionOnSet(SignedAmounts, T)
<1>1. /\ IsFiniteSet(DOMAIN bookings) /\ Joined = DOMAIN bookings
      /\ \A b \in DOMAIN bookings : Signed(b) \in Int
  BY BookingFacts
<1>2. TotalBalance = SumFunctionOnSet(SignedAmounts, DOMAIN bookings)
  BY <1>1 DEF TotalBalance, SumFunction, SignedAmounts
<1>3. ASSUME NEW T \in SUBSET DOMAIN bookings
      PROVE  /\ IsFiniteSet(T) /\ SumFunctionOnSet(SignedAmounts, T) \in Int
             /\ SumFunction([b \in T |-> Signed(b)]) = SumFunctionOnSet(SignedAmounts, T)
  <2> DEFINE g == [b \in T |-> Signed(b)]
  <2>1. IsFiniteSet(T)
    BY <1>1, FS_Subset
  <2>2. /\ \A b \in T : SignedAmounts[b] \in Int /\ g[b] = SignedAmounts[b]
        /\ SumFunction(g) = SumFunctionOnSet(g, T)
    BY <1>1 DEF SignedAmounts, SumFunction
  <2> HIDE DEF g
  <2>3. SumFunctionOnSet(g, T) = SumFunctionOnSet(SignedAmounts, T)
    BY <2>1, <2>2, SumSame
  <2>4. SumFunctionOnSet(SignedAmounts, T) \in Int
    BY <2>1, <2>2, SumType
  <2> QED BY <2>1, <2>2, <2>3, <2>4 DEF g
<1> QED BY <1>2, <1>3

LEMMA BalanceByAccount ==
    ASSUME LedgerInvariant
    PROVE  AccountsAddUp
<1> DEFINE k == [b \in DOMAIN bookings |-> bookings[b].account]
           h == [account \in Ids("accounts") |-> AccountBalance(account)]
<1>1. /\ IsFiniteSet(DOMAIN bookings) /\ IsFiniteSet(Ids("accounts"))
      /\ \A b \in DOMAIN bookings : SignedAmounts[b] \in Int /\ k[b] \in Ids("accounts")
  BY BookingFacts, FiniteAccounts DEF SignedAmounts
<1>2. ASSUME NEW a \in Ids("accounts")
      PROVE  \E T \in SUBSET DOMAIN bookings : /\ \A b \in DOMAIN bookings : b \in T <=> k[b] = a
                                               /\ h[a] = SumFunctionOnSet(SignedAmounts, T)
  <2> DEFINE T == {b \in DOMAIN bookings : bookings[b].account = a}
  <2>1. (\A b \in DOMAIN bookings : b \in T <=> k[b] = a) /\ T \in SUBSET DOMAIN bookings
    OBVIOUS
  <2>2. h[a] = SumFunction([b \in T |-> Signed(b)])
    BY DEF AccountBalance
  <2> HIDE DEF T, h, k
  <2> QED BY <2>1, <2>2, TotalIsSum
<1> HIDE DEF k, h
<1>3. SumFunctionOnSet(SignedAmounts, DOMAIN bookings) = SumFunctionOnSet(h, Ids("accounts"))
  <2>1. Grouped(DOMAIN bookings, Ids("accounts"), SignedAmounts, k, h)
    <3>1. \A a \in Ids("accounts") :
             \E T \in SUBSET DOMAIN bookings : /\ \A b \in DOMAIN bookings : b \in T <=> k[b] = a
                                               /\ h[a] = SumFunctionOnSet(SignedAmounts, T)
      BY <1>2
    <3> QED BY <1>1, <3>1 DEF Grouped
  <2> QED BY <2>1, SumGrouped
<1>4. SumFunction([account \in Ids("accounts") |-> AccountBalance(account)])
        = SumFunctionOnSet(h, Ids("accounts"))
  BY DEF h, SumFunction
<1> QED BY <1>3, <1>4, TotalIsSum DEF AccountsAddUp

(* A month's balance is the sum over its bookings: income counts as it is, *)
(* expenses with the other sign.                                           *)
LEMMA BalanceOfMonth ==
    ASSUME LedgerInvariant, NEW year \in Nat, NEW month \in 1..12, NEW T,
           T = {b \in DOMAIN bookings : /\ YearOf(bookings[b].date) = year
                                        /\ MonthOf(bookings[b].date) = month}
    PROVE  MonthBalance(year, month) = SumFunctionOnSet(SignedAmounts, T)
<1> DEFINE k == [b \in T |-> types[bookings[b].category]]
           Of(type) == {b \in T : k[b] = type}
           h == [type \in {"income", "expense"} |-> SumFunctionOnSet(SignedAmounts, Of(type))]
           amounts(type) == [b \in Of(type) |-> bookings[b].amount]
<1>1. /\ T \in SUBSET DOMAIN bookings /\ IsFiniteSet(T)
      /\ \A b \in T : /\ bookings[b].amount \in Nat /\ k[b] \in {"income", "expense"}
                      /\ SignedAmounts[b] \in Int
                      /\ SignedAmounts[b] = IF k[b] = "income" THEN bookings[b].amount
                                                               ELSE - bookings[b].amount
  <2>1. T \in SUBSET DOMAIN bookings
    OBVIOUS
  <2>2. IsFiniteSet(T)
    BY <2>1, TotalIsSum
  <2> QED BY <2>1, <2>2, BookingFacts DEF SignedAmounts, Signed
<1>2. ASSUME NEW type \in {"income", "expense"}
      PROVE  /\ OfMonth(year, month, type) = Of(type)
             /\ MonthSum(year, month, type) = SumFunctionOnSet(amounts(type), Of(type))
             /\ IsFiniteSet(Of(type)) /\ h[type] \in Int
  <2>1. ASSUME NEW b \in DOMAIN bookings
        PROVE  InMonth(b, year, month) <=> b \in T
    <3>1. bookings[b].date \in Dates
      BY BookingFacts, LedgerAssumption
    <3> QED BY <3>1, MonthBounds DEF InMonth, MonthStart, MonthEnd
  <2>2. OfMonth(year, month, type) = Of(type)
    BY <1>1, <2>1, BookingFacts DEF OfMonth
  <2>3. MonthSum(year, month, type) = SumFunctionOnSet(amounts(type), Of(type))
    BY <2>2 DEF MonthSum, SumFunction
  <2>4. Of(type) \in SUBSET DOMAIN bookings
    BY <1>1
  <2>5. IsFiniteSet(Of(type)) /\ SumFunctionOnSet(SignedAmounts, Of(type)) \in Int
    <3> HIDE DEF Of
    <3> QED BY <2>4, TotalIsSum
  <2> QED BY <2>2, <2>3, <2>5
<1>3. h["income"] = MonthSum(year, month, "income")
  <2> DEFINE S == Of("income")
             g == amounts("income")
  <2>1. \A b \in S : g[b] \in Int /\ SignedAmounts[b] = g[b]
    BY <1>1
  <2>2. IsFiniteSet(S) /\ MonthSum(year, month, "income") = SumFunctionOnSet(g, S)
    BY <1>2
  <2>3. h["income"] = SumFunctionOnSet(SignedAmounts, S)
    OBVIOUS
  <2> HIDE DEF S, g, h
  <2> QED BY <2>1, <2>2, <2>3, SumSame
<1>4. h["expense"] = - MonthSum(year, month, "expense")
  <2> DEFINE S == Of("expense")
             g == amounts("expense")
  <2>1. \A b \in S : g[b] \in Int /\ SignedAmounts[b] = - g[b]
    BY <1>1
  <2>2. IsFiniteSet(S) /\ MonthSum(year, month, "expense") = SumFunctionOnSet(g, S)
    BY <1>2
  <2>3. h["expense"] = SumFunctionOnSet(SignedAmounts, S)
    OBVIOUS
  <2> HIDE DEF S, g, h
  <2>4. SumFunctionOnSet(SignedAmounts, S) = - SumFunctionOnSet(g, S)
    BY <2>1, <2>2, SumNegated
  <2> QED BY <2>2, <2>3, <2>4
<1>5. SumFunctionOnSet(SignedAmounts, T) = SumFunctionOnSet(h, {"income", "expense"})
  <2> DEFINE K == {"income", "expense"}
  <2>1. IsFiniteSet(K)
    <3>1. IsFiniteSet({"income"})
      BY FS_Singleton
    <3>2. IsFiniteSet({"income"} \cup {"expense"}) /\ {"income"} \cup {"expense"} = K
      BY <3>1, FS_AddElement
    <3> QED BY <3>2
  <2>2. /\ \A b \in T : SignedAmounts[b] \in Int /\ k[b] \in K
        /\ \A type \in K : h[type] = SumFunctionOnSet(SignedAmounts, Of(type))
        /\ \A type \in K : Of(type) \in SUBSET T /\ \A b \in T : b \in Of(type) <=> k[b] = type
    BY <1>1
  <2> HIDE DEF h, k, K, Of
  <2>3. SumFunctionOnSet(SignedAmounts, T) = SumFunctionOnSet(h, K)
    <3>1. Grouped(T, K, SignedAmounts, k, h)
      BY <1>1, <2>1, <2>2 DEF Grouped
    <3> QED BY <3>1, SumGrouped
  <2> QED BY <2>3 DEF K
<1>6. h["income"] \in Int /\ h["expense"] \in Int
  BY <1>2
<1>7. MonthSum(year, month, "expense") \in Int
  <2> DEFINE S == Of("expense")
             g == amounts("expense")
  <2>1. \A b \in S : g[b] \in Int
    BY <1>1
  <2>2. IsFiniteSet(S) /\ MonthSum(year, month, "expense") = SumFunctionOnSet(g, S)
    BY <1>2
  <2> HIDE DEF S, g
  <2> QED BY <2>1, <2>2, SumType
<1> HIDE DEF h
<1>8. SumFunctionOnSet(h, {"income", "expense"}) = h["income"] + h["expense"]
  BY <1>6, SumOfTwo
<1> QED BY <1>3, <1>4, <1>5, <1>6, <1>7, <1>8 DEF MonthBalance

LEMMA BalanceByMonth ==
    ASSUME LedgerInvariant
    PROVE  MonthsAddUp
<1> DEFINE k == [b \in DOMAIN bookings |-> <<YearOf(bookings[b].date), MonthOf(bookings[b].date)>>]
           h == [m \in MonthsOfBookings |-> MonthBalance(m[1], m[2])]
           months == [d \in BookingDates |-> <<YearOf(d), MonthOf(d)>>]
<1>1. IsFiniteSet(MonthsOfBookings)
  <2>1. MonthsOfBookings = {months[d] : d \in BookingDates} /\ IsFiniteSet(BookingDates)
    BY LedgerAssumption DEF MonthsOfBookings
  <2> HIDE DEF months
  <2> QED BY <2>1, FiniteImage
<1>2. /\ IsFiniteSet(DOMAIN bookings)
      /\ \A b \in DOMAIN bookings : SignedAmounts[b] \in Int /\ k[b] \in MonthsOfBookings
  BY BookingFacts DEF SignedAmounts, MonthsOfBookings
<1>3. ASSUME NEW m \in MonthsOfBookings
      PROVE  \E T \in SUBSET DOMAIN bookings : /\ \A b \in DOMAIN bookings : b \in T <=> k[b] = m
                                               /\ h[m] = SumFunctionOnSet(SignedAmounts, T)
  <2>1. PICK d \in BookingDates : m = <<YearOf(d), MonthOf(d)>>
    BY DEF MonthsOfBookings
  <2>2. YearOf(d) \in Nat /\ MonthOf(d) \in 1..12
    BY LedgerAssumption, PartsOfDate
  <2> DEFINE T == {b \in DOMAIN bookings : /\ YearOf(bookings[b].date) = YearOf(d)
                                           /\ MonthOf(bookings[b].date) = MonthOf(d)}
  <2>3. (\A b \in DOMAIN bookings : b \in T <=> k[b] = m) /\ T \in SUBSET DOMAIN bookings
    BY <2>1
  <2>4. MonthBalance(YearOf(d), MonthOf(d)) = SumFunctionOnSet(SignedAmounts, T)
    BY <2>2, BalanceOfMonth
  <2>5. h[m] = MonthBalance(YearOf(d), MonthOf(d))
    BY <2>1
  <2> HIDE DEF T, h, k
  <2> QED BY <2>3, <2>4, <2>5
<1> HIDE DEF k, h
<1>4. SumFunctionOnSet(SignedAmounts, DOMAIN bookings) = SumFunctionOnSet(h, MonthsOfBookings)
  <2>1. Grouped(DOMAIN bookings, MonthsOfBookings, SignedAmounts, k, h)
    <3>1. \A m \in MonthsOfBookings :
             \E T \in SUBSET DOMAIN bookings : /\ \A b \in DOMAIN bookings : b \in T <=> k[b] = m
                                               /\ h[m] = SumFunctionOnSet(SignedAmounts, T)
      BY <1>3
    <3> QED BY <1>1, <1>2, <3>1 DEF Grouped
  <2> QED BY <2>1, SumGrouped
<1>5. SumFunction([m \in MonthsOfBookings |-> MonthBalance(m[1], m[2])])
        = SumFunctionOnSet(h, MonthsOfBookings)
  BY DEF h, SumFunction
<1> QED BY <1>4, <1>5, TotalIsSum DEF MonthsAddUp

(* The balance of the overview is the sum of its accounts' balances: no    *)
(* booking is left out, counted twice or counted for an account that is    *)
(* gone, whatever is edited, retyped or deleted.                           *)
THEOREM AccountsSumUp == Spec => []AccountsAddUp
<1>1. LedgerInvariant => AccountsAddUp
  BY BalanceByAccount
<1> QED BY <1>1, LedgerSound, PTL

(* It is also the sum of the balances of all months that have bookings: a  *)
(* booking lies in exactly one of the half-open months MonthSummary asks   *)
(* for.                                                                    *)
THEOREM MonthsSumUp == Spec => []MonthsAddUp
<1>1. LedgerInvariant => MonthsAddUp
  BY BalanceByMonth
<1> QED BY <1>1, LedgerSound, PTL
=============================================================================
