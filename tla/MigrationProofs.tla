--------------------------- MODULE MigrationProofs ---------------------------
(***************************************************************************)
(* Opening any file of this or an earlier release, cut short any number of *)
(* times, keeps the rows and ends with the whole schema.                   *)
(***************************************************************************)
EXTENDS Migration, TLAPS

LEMMA Statements ==
    /\ DOMAIN Tables = 1..6 /\ Len(Tables) = 6
    /\ DOMAIN Columns = 1..2 /\ Len(Columns) = 2
    /\ \A i \in 1..6 : Tables[i] \in TableSet /\ Tables[i] \notin ColumnSet
    /\ \A s \in TableSet : \E i \in 1..6 : s = Tables[i]
    /\ Columns[1] = "remaining_count" /\ Columns[2] = "credit_cents"
    /\ ColumnSet = {"remaining_count", "credit_cents"}
<1>1. DOMAIN Tables = 1..6 /\ Len(Tables) = 6 /\ DOMAIN Columns = 1..2 /\ Len(Columns) = 2
  BY DEF Tables, Columns
<1>2. ColumnSet = {"remaining_count", "credit_cents"}
  BY DEF Columns, ColumnSet
<1>3. \A i \in 1..6 : Tables[i] \notin ColumnSet
  BY <1>2 DEF Tables
<1>4. Columns[1] = "remaining_count" /\ Columns[2] = "credit_cents"
  BY DEF Columns
<1> QED BY <1>1, <1>2, <1>3, <1>4 DEF TableSet

(* The statements before the next one have been executed; while seeding,   *)
(* exactly the defaults before the next one are there.                     *)
Executed(n) ==
    /\ \A i \in 1..6 : i < n => Tables[i] \in objects
    /\ \A i \in 1..2 : 6 + i < n => Columns[i] \in objects

Progress ==
    /\ phase = "migrating" => step \in 1..9 /\ Executed(step)
    /\ phase \in {"seeding", "serving"} => Executed(9)
    /\ phase = "seeding" =>
          /\ step \in Defaults
          /\ categories = [c \in CategoryNames |-> IF c \in 1..(step - 1) THEN 1 ELSE 0]

Inv == TypeOK /\ Progress

LEMMA ValuesHaveTypes ==
    ASSUME NEW values \in ColumnValues
    PROVE  DOMAIN values = ColumnSet /\ \A c \in ColumnSet : values[c] \in ValuesOf(c)
BY DEF ColumnValues

LEMMA DefaultsHaveTypes == \A c \in ColumnSet : ColumnDefault(c) \in ValuesOf(c)
BY DEF ColumnDefault, ValuesOf

LEMMA InitInv == Init => Inv
<1> SUFFICES ASSUME Init PROVE Inv
  OBVIOUS
<1>1. Progress
  BY DEF Init, Progress
<1>2. categories \in [CategoryNames -> Nat]
  BY DEF Init, NoCategories, SeededCategories
<1>3. CASE objects = {} /\ templates = [t \in {} |-> {}]
  BY <1>1, <1>2, <1>3, MigrationAssumption DEF Init, Inv, TypeOK, RowsTypeOK
<1>4. ASSUME NEW columns \in {{}, {"remaining_count"}, ColumnSet}, NEW ids \in SUBSET TemplateId,
             NEW values \in [ids -> ColumnValues],
             objects = TableSet \cup columns,
             templates = [t \in ids |-> [c \in columns |-> values[t][c]]]
      PROVE  Inv
  <2>1. columns \subseteq ColumnSet /\ objects \cap ColumnSet = columns
        /\ objects \subseteq TableSet \cup ColumnSet
    BY <1>4, Statements
  <2>2. ASSUME NEW t \in ids
        PROVE  /\ DOMAIN templates[t] = columns
               /\ \A c \in columns : templates[t][c] \in ValuesOf(c)
    <3>1. templates[t] = [c \in columns |-> values[t][c]]
      BY <1>4
    <3>2. values[t] \in ColumnValues
      OBVIOUS
    <3>3. \A c \in ColumnSet : values[t][c] \in ValuesOf(c)
      BY <3>2, ValuesHaveTypes
    <3> QED BY <2>1, <3>1, <3>3
  <2>3. DOMAIN templates = ids
    BY <1>4
  <2>4. phase = "down" /\ step = 1 /\ edits = 0 /\ faults = 0
    BY DEF Init
  <2> QED BY <1>1, <1>2, <2>1, <2>2, <2>3, <2>4, MigrationAssumption DEF Inv, TypeOK, RowsTypeOK
<1> QED BY <1>3, <1>4 DEF Init

LEMMA SameRows ==
    ASSUME RowsTypeOK, templates' = templates, objects' \cap ColumnSet = objects \cap ColumnSet
    PROVE  RowsTypeOK'
BY DEF RowsTypeOK

LEMMA StartKeeps ==
    ASSUME Inv, Start
    PROVE  Inv'
<1>1. RowsTypeOK'
  BY SameRows DEF Inv, TypeOK, Start, rows
<1> QED BY <1>1 DEF Inv, TypeOK, Progress, Executed, Start, rows

LEMMA CreateKeeps ==
    ASSUME Inv, CreateTable
    PROVE  Inv'
<1>1. /\ phase = "migrating" /\ step \in 1..6
      /\ objects' = objects \cup {Tables[step]} /\ step' = step + 1
      /\ UNCHANGED <<templates, categories, phase, edits, faults>>
  BY Statements DEF CreateTable, rows
<1>2. objects' \cap ColumnSet = objects \cap ColumnSet /\ objects' \subseteq TableSet \cup ColumnSet
  BY <1>1, Statements DEF Inv, TypeOK
<1>3. TypeOK'
  <2>1. RowsTypeOK'
    BY <1>1, <1>2, SameRows DEF Inv, TypeOK
  <2> QED BY <1>1, <1>2, <2>1 DEF Inv, TypeOK
<1>4. Executed(step)
  BY <1>1 DEF Inv, Progress
<1>5. Executed(step)'
  <2>1. ASSUME NEW i \in 1..6, i < step + 1 PROVE Tables[i] \in objects'
    BY <1>1, <1>4, <2>1 DEF Executed
  <2>2. ASSUME NEW i \in 1..2 PROVE ~ (6 + i < step + 1)
    BY <1>1
  <2> QED BY <1>1, <2>1, <2>2 DEF Executed
<1> QED BY <1>1, <1>3, <1>5 DEF Inv, Progress

(* The step that makes sure of a column, and what it leaves of the rows. *)
LEMMA AddColumnFacts ==
    ASSUME Inv, AddNextColumn
    PROVE  /\ phase = "migrating" /\ phase' = phase
           /\ step \in 7..8 /\ step' = step + 1
           /\ NextColumn = Columns[step - 6] /\ NextColumn \in ColumnSet
           /\ objects' = objects \cup {NextColumn}
           /\ DOMAIN templates' = DOMAIN templates
           /\ \A t \in DOMAIN templates :
                 /\ DOMAIN templates'[t] = DOMAIN templates[t] \cup {NextColumn}
                 /\ \A c \in DOMAIN templates[t] : templates'[t][c] = templates[t][c]
                 /\ \A c \in DOMAIN templates'[t] : templates'[t][c] \in ValuesOf(c)
           /\ UNCHANGED <<categories, edits, faults>>
<1>1. /\ phase = "migrating" /\ step \in 7..8
      /\ NextColumn = Columns[step - 6] /\ NextColumn \in ColumnSet
  <2>1. phase = "migrating" /\ step \in Nat /\ step - 6 \in 1..2
    BY Statements DEF AddNextColumn, Inv, TypeOK
  <2> QED BY <2>1, Statements DEF NextColumn
<1>2. /\ phase' = phase /\ step' = step + 1 /\ objects' = objects \cup {NextColumn}
      /\ templates' = IF NextColumn \in objects THEN templates ELSE WithColumn(NextColumn)
      /\ UNCHANGED <<categories, edits, faults>>
  BY DEF AddNextColumn, AddColumn
<1>3. \A t \in DOMAIN templates : /\ DOMAIN templates[t] = objects \cap ColumnSet
                                  /\ \A c \in DOMAIN templates[t] : templates[t][c] \in ValuesOf(c)
  BY DEF Inv, TypeOK, RowsTypeOK
<1>4. CASE NextColumn \in objects
  BY <1>1, <1>2, <1>3, <1>4
<1>5. CASE NextColumn \notin objects
  <2>1. templates' = WithColumn(NextColumn)
    BY <1>2, <1>5
  <2>2. ColumnDefault(NextColumn) \in ValuesOf(NextColumn)
    BY <1>1, DefaultsHaveTypes
  <2>3. DOMAIN templates' = DOMAIN templates
    BY <2>1 DEF WithColumn
  <2>4. ASSUME NEW t \in DOMAIN templates
        PROVE  templates'[t] = [c \in DOMAIN templates[t] \cup {NextColumn} |->
                    IF c = NextColumn THEN ColumnDefault(NextColumn) ELSE templates[t][c]]
    BY <2>1 DEF WithColumn
  <2>5. \A t \in DOMAIN templates : NextColumn \notin DOMAIN templates[t]
    BY <1>3, <1>5
  <2>6. ASSUME NEW t \in DOMAIN templates
        PROVE  /\ DOMAIN templates'[t] = DOMAIN templates[t] \cup {NextColumn}
               /\ \A c \in DOMAIN templates[t] : templates'[t][c] = templates[t][c]
               /\ \A c \in DOMAIN templates'[t] : templates'[t][c] \in ValuesOf(c)
    <3>1. templates'[t] = [c \in DOMAIN templates[t] \cup {NextColumn} |->
                    IF c = NextColumn THEN ColumnDefault(NextColumn) ELSE templates[t][c]]
      BY <2>4
    <3>2. DOMAIN templates'[t] = DOMAIN templates[t] \cup {NextColumn}
      BY <3>1
    <3>3. ASSUME NEW c \in DOMAIN templates[t]
          PROVE  templates'[t][c] = templates[t][c] /\ templates[t][c] \in ValuesOf(c)
      BY <1>3, <2>5, <3>1
    <3>4. templates'[t][NextColumn] \in ValuesOf(NextColumn)
      BY <2>2, <3>1
    <3> QED BY <3>2, <3>3, <3>4
  <2> QED BY <1>1, <1>2, <2>3, <2>6
<1> QED BY <1>1, <1>2, <1>4, <1>5

LEMMA AddColumnKeeps ==
    ASSUME Inv, AddNextColumn
    PROVE  Inv'
<1> USE AddColumnFacts
<1>1. TypeOK'
  <2>1. \A t \in DOMAIN templates : DOMAIN templates[t] = objects \cap ColumnSet
    BY DEF Inv, TypeOK, RowsTypeOK
  <2>2. \A t \in DOMAIN templates : DOMAIN templates'[t] = objects' \cap ColumnSet
    BY <2>1
  <2>3. RowsTypeOK'
    BY <2>2 DEF Inv, TypeOK, RowsTypeOK
  <2>4. step' \in Nat /\ objects' \subseteq TableSet \cup ColumnSet
    BY DEF Inv, TypeOK
  <2> QED BY <2>3, <2>4 DEF Inv, TypeOK
<1>2. Executed(step)
  BY DEF Inv, Progress
<1>3. Executed(step)'
  <2>1. ASSUME NEW i \in 1..6 PROVE Tables[i] \in objects'
    BY <1>2 DEF Executed
  <2>2. ASSUME NEW i \in 1..2, 6 + i < step + 1 PROVE Columns[i] \in objects'
    <3>1. CASE 6 + i < step
      BY <1>2, <3>1 DEF Executed
    <3>2. CASE i = step - 6
      BY <3>2
    <3> QED BY <2>2, <3>1, <3>2
  <2> QED BY <2>1, <2>2 DEF Executed
<1> QED BY <1>1, <1>3 DEF Inv, Progress

LEMMA CountKeeps ==
    ASSUME Inv, CountCategories
    PROVE  Inv'
<1>1. /\ phase = "migrating" /\ step = 9 /\ step' = 1
      /\ phase' = IF categories = NoCategories THEN "seeding" ELSE "serving"
      /\ UNCHANGED <<objects, templates, categories, edits, faults>>
  BY Statements DEF CountCategories, SeedIfEmpty, rows
<1>2. Executed(9)
  BY <1>1 DEF Inv, Progress
<1>3. Executed(9)'
  BY <1>1, <1>2 DEF Executed
<1>4. phase' = "seeding" => /\ 1 \in Defaults
                            /\ categories = [c \in CategoryNames |-> IF c \in 1..(1 - 1) THEN 1 ELSE 0]
  BY <1>1, MigrationAssumption DEF NoCategories, Defaults
<1>5. TypeOK'
  <2>1. RowsTypeOK'
    BY <1>1, SameRows DEF Inv, TypeOK
  <2> QED BY <1>1, <2>1 DEF Inv, TypeOK
<1>6. CASE phase' = "seeding"
  <2>1. categories' = [c \in CategoryNames |-> IF c \in 1..(step' - 1) THEN 1 ELSE 0]
    BY <1>1, <1>4, <1>6
  <2> QED BY <1>1, <1>3, <1>4, <1>5, <1>6, <2>1 DEF Inv, Progress
<1>7. CASE phase' = "serving"
  BY <1>3, <1>5, <1>7 DEF Inv, Progress
<1> QED BY <1>1, <1>6, <1>7

LEMMA SeedFacts ==
    ASSUME Inv, SeedDefault
    PROVE  /\ phase = "seeding" /\ step \in Defaults
           /\ categories = [c \in CategoryNames |-> IF c \in 1..(step - 1) THEN 1 ELSE 0]
           /\ categories' = [c \in CategoryNames |-> IF c \in 1..step THEN 1 ELSE 0]
           /\ UNCHANGED <<objects, templates, edits, faults>>
<1>1. /\ phase = "seeding" /\ step \in Defaults
      /\ categories = [c \in CategoryNames |-> IF c \in 1..(step - 1) THEN 1 ELSE 0]
      /\ categories' = [categories EXCEPT ![step] = @ + 1]
      /\ UNCHANGED <<objects, templates, edits, faults>>
  BY DEF Inv, Progress, SeedDefault
<1>2. step \in CategoryNames /\ CategoryNames \subseteq Int /\ step \in Nat
  BY <1>1, MigrationAssumption DEF CategoryNames, Defaults, OwnCategory
<1>3. categories' = [c \in CategoryNames |-> IF c = step THEN categories[step] + 1 ELSE categories[c]]
  BY <1>1, <1>2
<1>4. categories[step] = 0
  BY <1>1, <1>2
<1>5. ASSUME NEW c \in CategoryNames
      PROVE  (IF c = step THEN categories[step] + 1 ELSE categories[c]) = (IF c \in 1..step THEN 1 ELSE 0)
  <2>1. categories[c] = IF c \in 1..(step - 1) THEN 1 ELSE 0
    BY <1>1
  <2>2. c \in Int
    BY <1>2
  <2>3. CASE c = step
    <3>1. c \in 1..step
      BY <1>1, <1>2, <2>3 DEF Defaults
    <3> QED BY <1>4, <2>3, <3>1
  <2>4. CASE c # step
    <3>1. c \in 1..(step - 1) <=> c \in 1..step
      BY <1>2, <2>2, <2>4
    <3> QED BY <2>1, <2>4, <3>1
  <2> QED BY <2>3, <2>4
<1> QED BY <1>1, <1>3, <1>5

LEMMA SeedKeeps ==
    ASSUME Inv, SeedDefault
    PROVE  Inv'
<1> USE SeedFacts
<1>1. step \in Nat /\ DefaultCount \in Nat /\ step <= DefaultCount /\ step >= 1
  BY MigrationAssumption DEF Defaults
<1>2. TypeOK'
  <2>1. RowsTypeOK'
    BY SameRows DEF Inv, TypeOK
  <2>2. categories' \in [CategoryNames -> Nat]
    OBVIOUS
  <2>3. phase' \in {"seeding", "serving"} /\ step' \in Nat
    BY <1>1 DEF SeedDefault
  <2> QED BY <2>1, <2>2, <2>3 DEF Inv, TypeOK
<1>3. Executed(9)
  BY DEF Inv, Progress
<1>4. Executed(9)'
  BY <1>3 DEF Executed
<1>5. CASE step = DefaultCount
  BY <1>2, <1>4, <1>5 DEF Inv, Progress, SeedDefault
<1>6. CASE step # DefaultCount
  <2>1. step' = step + 1 /\ phase' = "seeding"
    BY <1>6 DEF SeedDefault
  <2>2. step + 1 \in Defaults /\ (step + 1) - 1 = step
    BY <1>1, <1>6 DEF Defaults
  <2> QED BY <1>2, <1>4, <2>1, <2>2 DEF Inv, Progress
<1> QED BY <1>5, <1>6

LEMMA ExitKeeps ==
    ASSUME Inv, Exit
    PROVE  Inv'
<1>1. RowsTypeOK'
  BY SameRows DEF Inv, TypeOK, Exit, rows
<1>2. faults' \in 0..MaxFaults
  BY MigrationAssumption DEF Inv, TypeOK, Exit
<1> QED BY <1>1, <1>2 DEF Inv, TypeOK, Progress, Exit, rows

LEMMA UserKeeps ==
    ASSUME Inv, UserStep
    PROVE  Inv'
<1>1. phase = "serving" /\ UNCHANGED <<objects, phase, step, faults>> /\ edits' \in 0..MaxEdits
  <2>1. UserEdits
    BY DEF UserStep, UserSavesTemplate, UserDeletesTemplate, UserCreatesCategory, UserDeletesCategory
  <2> QED BY <2>1, MigrationAssumption DEF UserEdits, Inv, TypeOK
<1>2. Executed(9) /\ objects = TableSet \cup ColumnSet /\ objects \cap ColumnSet = ColumnSet
  <2>1. Executed(9)
    BY <1>1 DEF Inv, Progress
  <2>2. TableSet \subseteq objects
    BY <2>1, Statements DEF Executed
  <2>3. ColumnSet \subseteq objects
    <3>1. Columns[1] \in objects /\ Columns[2] \in objects
      BY <2>1 DEF Executed
    <3> QED BY <3>1, Statements
  <2> QED BY <2>1, <2>2, <2>3 DEF Inv, TypeOK
<1>3. Executed(9)'
  BY <1>1, <1>2 DEF Executed
<1>4. ASSUME NEW t \in TemplateId, UserSavesTemplate(t) PROVE TypeOK'
  <2>1. PICK values \in ColumnValues :
           templates' = [u \in DOMAIN templates \cup {t} |-> IF u = t THEN values ELSE templates[u]]
    BY <1>4 DEF UserSavesTemplate
  <2>2. DOMAIN values = ColumnSet /\ \A c \in ColumnSet : values[c] \in ValuesOf(c)
    BY ValuesHaveTypes
  <2>3. categories' = categories
    BY <1>4 DEF UserSavesTemplate
  <2>4. RowsTypeOK'
    BY <1>1, <1>2, <2>1, <2>2 DEF Inv, TypeOK, RowsTypeOK
  <2> QED BY <1>1, <2>3, <2>4 DEF Inv, TypeOK
<1>5. ASSUME NEW t \in TemplateId, UserDeletesTemplate(t) PROVE TypeOK'
  <2>1. templates' = [u \in DOMAIN templates \ {t} |-> templates[u]] /\ categories' = categories
    BY <1>5 DEF UserDeletesTemplate
  <2>2. RowsTypeOK'
    BY <1>1, <2>1 DEF Inv, TypeOK, RowsTypeOK
  <2> QED BY <1>1, <2>1, <2>2 DEF Inv, TypeOK
<1>6. ASSUME UserCreatesCategory PROVE TypeOK'
  <2>1. categories' = [categories EXCEPT ![OwnCategory] = @ + 1] /\ templates' = templates
    BY <1>6 DEF UserCreatesCategory
  <2>2. RowsTypeOK'
    BY <1>1, <2>1, SameRows DEF Inv, TypeOK
  <2>3. categories' \in [CategoryNames -> Nat]
    <3>1. OwnCategory \in CategoryNames
      BY DEF CategoryNames
    <3>2. categories[OwnCategory] \in Nat /\ categories[OwnCategory] + 1 \in Nat
      BY <3>1 DEF Inv, TypeOK
    <3> QED BY <2>1, <3>2 DEF Inv, TypeOK
  <2> QED BY <1>1, <2>2, <2>3 DEF Inv, TypeOK
<1>7. ASSUME NEW c \in CategoryNames, UserDeletesCategory(c) PROVE TypeOK'
  <2>1. /\ categories' = [categories EXCEPT ![c] = @ - 1] /\ templates' = templates
        /\ categories[c] > 0
    BY <1>7 DEF UserDeletesCategory
  <2>2. RowsTypeOK'
    BY <1>1, <2>1, SameRows DEF Inv, TypeOK
  <2>3. categories' \in [CategoryNames -> Nat]
    <3>1. categories[c] \in Nat /\ categories[c] - 1 \in Nat
      BY <2>1 DEF Inv, TypeOK
    <3> QED BY <2>1, <3>1 DEF Inv, TypeOK
  <2> QED BY <1>1, <2>2, <2>3 DEF Inv, TypeOK
<1>8. TypeOK'
  BY <1>4, <1>5, <1>6, <1>7, Zenon DEF UserStep
<1> QED BY <1>1, <1>3, <1>8 DEF Inv, Progress

LEMMA InvStep == Inv /\ [Next]_vars => Inv'
<1>1. Inv /\ UNCHANGED vars => Inv'
  <2> SUFFICES ASSUME Inv, UNCHANGED vars PROVE Inv'
    OBVIOUS
  <2>1. RowsTypeOK'
    BY SameRows DEF Inv, TypeOK, vars, rows
  <2> QED BY <2>1 DEF Inv, TypeOK, Progress, Executed, vars, rows
<1> QED BY <1>1, StartKeeps, CreateKeeps, AddColumnKeeps, CountKeeps, SeedKeeps, ExitKeeps, UserKeeps
        DEF Next, Opening

(* Tables, columns and the values in them keep their types through every   *)
(* statement of opening, and through exits between them.                   *)
THEOREM MigrationTypes == Spec => []TypeOK
<1>1. Inv => TypeOK
  BY DEF Inv
<1> QED BY <1>1, InitInv, InvStep, PTL DEF Spec

(* A process that serves has the whole schema, whatever file it opened and *)
(* however often opening it was cut short.                                 *)
THEOREM SchemaComplete == Spec => []ServesCompleteSchema
<1>1. Inv => ServesCompleteSchema
  <2> SUFFICES ASSUME Inv, phase = "serving"
               PROVE  /\ objects = TableSet \cup ColumnSet
                      /\ \A t \in DOMAIN templates : DOMAIN templates[t] = ColumnSet
    BY DEF Inv, ServesCompleteSchema
  <2>1. Executed(9)
    BY DEF Inv, Progress
  <2>2. TableSet \subseteq objects
    BY <2>1, Statements DEF Executed
  <2>3. Columns[1] \in objects /\ Columns[2] \in objects
    BY <2>1 DEF Executed
  <2>4. objects = TableSet \cup ColumnSet
    BY <2>2, <2>3, Statements DEF Inv, TypeOK
  <2>5. objects \cap ColumnSet = ColumnSet
    BY <2>4
  <2> QED BY <2>4, <2>5 DEF Inv, TypeOK, RowsTypeOK
<1> QED BY <1>1, InitInv, InvStep, PTL DEF Spec

(* Opening the file, or exiting in the middle of it, loses no row and      *)
(* changes no value.                                                       *)
THEOREM OpeningKeepsRows == Spec => MigrationKeepsRows
<1> DEFINE Kept == phase # "serving" =>
             /\ \A t \in DOMAIN templates :
                   /\ t \in DOMAIN templates'
                   /\ \A c \in DOMAIN templates[t] :
                         c \in DOMAIN templates'[t] /\ templates'[t][c] = templates[t][c]
             /\ \A c \in CategoryNames : categories'[c] >= categories[c]
<1>1. ASSUME Inv, [Next]_vars PROVE Kept
  <2>1. \A c \in CategoryNames : categories[c] \in Nat
    BY <1>1 DEF Inv, TypeOK
  <2>2. CASE UNCHANGED rows
    BY <2>1, <2>2 DEF rows
  <2>3. CASE AddNextColumn
    BY <1>1, <2>1, <2>3, AddColumnFacts
  <2>4. CASE SeedDefault
    <3>1. templates' = templates
      BY <1>1, <2>4, SeedFacts
    <3>2. ASSUME NEW c \in CategoryNames PROVE categories'[c] >= categories[c]
      <4>1. /\ categories[c] = IF c \in 1..(step - 1) THEN 1 ELSE 0
            /\ categories'[c] = IF c \in 1..step THEN 1 ELSE 0
            /\ step \in Defaults
        BY <1>1, <2>4, SeedFacts
      <4> QED BY <4>1, MigrationAssumption DEF Defaults
    <3> QED BY <3>1, <3>2
  <2>5. CASE UserStep
    BY <2>5 DEF UserStep, UserSavesTemplate, UserDeletesTemplate, UserCreatesCategory,
                UserDeletesCategory, UserEdits
  <2> QED BY <1>1, <2>2, <2>3, <2>4, <2>5
          DEF Next, Opening, Start, CreateTable, CountCategories, Exit, vars
<1>2. Spec => [][Kept]_vars
  BY <1>1, InitInv, InvStep, PTL DEF Spec
<1> QED BY <1>2 DEF MigrationKeepsRows

(* The defaults go into an empty table only, each once and in order. *)
THEOREM DefaultsIntoEmptyTable == Spec => DefaultsNeverMixIn
<1> DEFINE InOrder ==
             \A d \in Defaults :
                 categories'[d] > categories[d] =>
                     categories = [c \in CategoryNames |-> IF c \in 1..(d - 1) THEN 1 ELSE 0]
<1>1. ASSUME Inv, [Next]_vars PROVE InOrder
  <2>1. /\ \A d \in Defaults : d \in CategoryNames /\ d # OwnCategory /\ d \in Nat
        /\ \A c \in CategoryNames : categories[c] \in Nat
        /\ categories \in [CategoryNames -> Nat]
    BY <1>1, MigrationAssumption DEF Inv, TypeOK, CategoryNames, Defaults, OwnCategory
  <2>2. CASE UNCHANGED categories
    BY <2>1, <2>2
  <2>3. CASE SeedDefault
    <3>1. ASSUME NEW d \in Defaults, categories'[d] > categories[d] PROVE d = step
      BY <1>1, <2>1, <2>3, <3>1, SeedFacts DEF Defaults
    <3> QED BY <1>1, <2>3, <3>1, SeedFacts
  <2>4. CASE UserCreatesCategory
    <3>1. categories' = [categories EXCEPT ![OwnCategory] = @ + 1]
      BY <2>4 DEF UserCreatesCategory
    <3> QED BY <2>1, <3>1
  <2>5. ASSUME NEW c \in CategoryNames, UserDeletesCategory(c) PROVE InOrder
    <3>1. categories' = [categories EXCEPT ![c] = @ - 1]
      BY <2>5 DEF UserDeletesCategory
    <3> QED BY <2>1, <3>1
  <2> QED BY <1>1, <2>2, <2>3, <2>4, <2>5
          DEF Next, Opening, Start, CreateTable, AddNextColumn, CountCategories, Exit, UserStep,
              UserSavesTemplate, UserDeletesTemplate, vars, rows
<1>2. Spec => [][InOrder]_vars
  BY <1>1, InitInv, InvStep, PTL DEF Spec
<1> QED BY <1>2, PTL DEF DefaultsNeverMixIn
=============================================================================
