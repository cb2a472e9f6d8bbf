----------------------------- MODULE Migration -----------------------------
(***************************************************************************)
(* database.Open on the file an earlier start, or an earlier release, has  *)
(* left behind: migrate() runs its statements one by one, each committed   *)
(* by itself, and then seeds the default categories into an empty table.   *)
(* The process may exit between any two statements; a statement that fails *)
(* makes main exit too.  While the process serves, the user writes rows.   *)
(***************************************************************************)
EXTENDS Integers, Sequences

CONSTANTS
    DefaultCount,    \* how many default categories there are
    TemplateId,      \* rows of recurring_templates
    Counts, Credits, \* what the two added columns may hold
    Null,            \* SQL's NULL
    MaxEdits,        \* bound: rows the user writes or deletes
    MaxFaults        \* bound: exits of the process

ASSUME MigrationAssumption ==
    /\ DefaultCount \in Nat \ {0}
    /\ Null \notin Nat
    /\ Counts \subseteq Nat /\ Credits \subseteq Nat
    /\ MaxEdits \in Nat /\ MaxFaults \in Nat

VARIABLES
    objects,         \* the tables, indexes and added columns in the file
    templates,       \* id -> its added columns -> their values
    categories,      \* how many rows there are per category name
    phase,           \* "down", "migrating", "seeding" or "serving"
    step,            \* the statement of migrate, or the default, that is next
    edits, faults

rows == <<templates, categories>>
vars == <<objects, rows, phase, step, edits, faults>>

Tables  == <<"accounts", "categories", "transactions", "idx_transactions_date",
             "idx_transactions_account", "recurring_templates">>
Columns == <<"remaining_count", "credit_cents">>

TableSet  == {Tables[i] : i \in DOMAIN Tables}
ColumnSet == {Columns[i] : i \in DOMAIN Columns}

Defaults == 1..DefaultCount
OwnCategory == 0                 \* every category the user makes
CategoryNames == Defaults \cup {OwnCategory}

(* Mistake: a column added without its default. *)
ColumnDefaultNull(column) == Null

ColumnDefault(column) == IF column = "credit_cents" THEN 0 ELSE Null
ValuesOf(column) == IF column = "credit_cents" THEN Credits \cup {0} ELSE Counts \cup {Null}
ColumnValues == {v \in [ColumnSet -> Credits \cup {0} \cup Counts \cup {Null}] :
                    \A c \in ColumnSet : v[c] \in ValuesOf(c)}

NoCategories == [c \in CategoryNames |-> 0]
SeededCategories == [c \in CategoryNames |-> IF c \in Defaults THEN 1 ELSE 0]

(* A new file, or one of this release or of the two before, with at most   *)
(* the rows those could write.                                             *)
Init ==
    /\ \/ objects = {} /\ templates = [t \in {} |-> {}] /\ categories = NoCategories
       \/ \E columns \in {{}, {"remaining_count"}, ColumnSet}, ids \in SUBSET TemplateId :
             /\ objects = TableSet \cup columns
             /\ \E values \in [ids -> ColumnValues] :
                   templates = [t \in ids |-> [c \in columns |-> values[t][c]]]
             /\ categories = SeededCategories
    /\ phase = "down" /\ step = 1
    /\ edits = 0 /\ faults = 0

(***************************************************************************)
(* Opening                                                                 *)
(***************************************************************************)
Start ==
    /\ phase = "down"
    /\ phase' = "migrating" /\ step' = 1
    /\ UNCHANGED <<objects, rows, edits, faults>>

(* CREATE TABLE (or INDEX) IF NOT EXISTS. *)
CreateTable ==
    /\ phase = "migrating" /\ step \in DOMAIN Tables
    /\ objects' = objects \cup {Tables[step]}
    /\ step' = step + 1
    /\ UNCHANGED <<rows, phase, edits, faults>>

(* ALTER TABLE ADD COLUMN gives every row the column's default; it is an   *)
(* error where the column exists.  columnExists is asked first, and nobody *)
(* else writes the file in between, so that the two are one step.          *)
WithColumn(column) ==
    [t \in DOMAIN templates |->
        [c \in DOMAIN templates[t] \cup {column} |->
            IF c = column THEN ColumnDefault(column) ELSE templates[t][c]]]

NextColumn == Columns[step - Len(Tables)]

(* Mistakes: ADD COLUMN without asking first fails when it is there; an    *)
(* error that is passed over; a column dropped and added anew.             *)
AddColumnUnasked ==
    IF NextColumn \in objects
    THEN phase' = "down" /\ UNCHANGED <<objects, templates, step>>
    ELSE /\ objects' = objects \cup {NextColumn}
         /\ templates' = WithColumn(NextColumn)
         /\ step' = step + 1
         /\ UNCHANGED phase
AddColumnOrNot ==
    /\ step' = step + 1
    /\ \/ UNCHANGED <<objects, templates>>
       \/ objects' = objects \cup {NextColumn} /\ templates' = WithColumn(NextColumn)
    /\ UNCHANGED phase
AddColumnAnew ==
    /\ objects' = objects \cup {NextColumn}
    /\ templates' = WithColumn(NextColumn)
    /\ step' = step + 1
    /\ UNCHANGED phase

AddColumn ==
    /\ objects' = objects \cup {NextColumn}
    /\ templates' = IF NextColumn \in objects THEN templates ELSE WithColumn(NextColumn)
    /\ step' = step + 1
    /\ UNCHANGED phase

AddNextColumn ==
    /\ phase = "migrating" /\ step - Len(Tables) \in DOMAIN Columns
    /\ AddColumn
    /\ UNCHANGED <<categories, edits, faults>>

(* Mistake: the defaults are inserted at every start. *)
SeedAlways == phase' = "seeding"

(* The defaults are inserted if there is no category at all. *)
SeedIfEmpty == phase' = IF categories = NoCategories THEN "seeding" ELSE "serving"

CountCategories ==
    /\ phase = "migrating" /\ step = Len(Tables) + Len(Columns) + 1
    /\ SeedIfEmpty
    /\ step' = 1
    /\ UNCHANGED <<objects, rows, edits, faults>>

SeedDefault ==
    /\ phase = "seeding"
    /\ categories' = [categories EXCEPT ![step] = @ + 1]
    /\ IF step = DefaultCount
       THEN phase' = "serving" /\ step' = 1
       ELSE step' = step + 1 /\ UNCHANGED phase
    /\ UNCHANGED <<objects, templates, edits, faults>>

(* A crash, a shutdown, or a statement that fails: main exits. *)
Exit ==
    /\ phase # "down" /\ faults < MaxFaults
    /\ faults' = faults + 1
    /\ phase' = "down" /\ step' = 1
    /\ UNCHANGED <<objects, rows, edits>>

(***************************************************************************)
(* The user, while the process serves                                      *)
(***************************************************************************)
UserEdits ==
    /\ phase = "serving" /\ edits < MaxEdits
    /\ edits' = edits + 1
    /\ UNCHANGED <<objects, phase, step, faults>>

UserSavesTemplate(t) ==
    /\ UserEdits
    /\ categories # NoCategories
    /\ \E values \in ColumnValues :
          templates' = [u \in DOMAIN templates \cup {t} |->
                           IF u = t THEN values ELSE templates[u]]
    /\ UNCHANGED categories

UserDeletesTemplate(t) ==
    /\ UserEdits
    /\ t \in DOMAIN templates
    /\ templates' = [u \in DOMAIN templates \ {t} |-> templates[u]]
    /\ UNCHANGED categories

UserCreatesCategory ==
    /\ UserEdits
    /\ categories' = [categories EXCEPT ![OwnCategory] = @ + 1]
    /\ UNCHANGED templates

(* Any category that nothing refers to; the templates' rows refer to some. *)
UserDeletesCategory(c) ==
    /\ UserEdits
    /\ categories[c] > 0
    /\ categories' = [categories EXCEPT ![c] = @ - 1]
    /\ DOMAIN templates # {} => categories' # NoCategories
    /\ UNCHANGED templates

Opening == Start \/ CreateTable \/ AddNextColumn \/ CountCategories \/ SeedDefault

UserStep ==
    \/ \E t \in TemplateId : UserSavesTemplate(t) \/ UserDeletesTemplate(t)
    \/ UserCreatesCategory
    \/ \E c \in CategoryNames : UserDeletesCategory(c)

Next == Opening \/ Exit \/ UserStep

Spec == Init /\ [][Next]_vars

(* The deployment starts the process again after an exit. *)
FairSpec == Spec /\ WF_vars(Opening)

(***************************************************************************)
(* Properties                                                              *)
(***************************************************************************)
RowsTypeOK ==
    /\ DOMAIN templates \subseteq TemplateId
    /\ \A t \in DOMAIN templates :
          /\ DOMAIN templates[t] = objects \cap ColumnSet
          /\ \A c \in DOMAIN templates[t] : templates[t][c] \in ValuesOf(c)

TypeOK ==
    /\ objects \subseteq TableSet \cup ColumnSet
    /\ RowsTypeOK
    /\ categories \in [CategoryNames -> Nat]
    /\ phase \in {"down", "migrating", "seeding", "serving"}
    /\ step \in Nat
    /\ edits \in 0..MaxEdits /\ faults \in 0..MaxFaults

(* Whatever file it opened, and however often it was cut short before, a   *)
(* process that serves finds every table and column its queries name, in   *)
(* every row.                                                              *)
ServesCompleteSchema ==
    phase = "serving" =>
        /\ objects = TableSet \cup ColumnSet
        /\ \A t \in DOMAIN templates : DOMAIN templates[t] = ColumnSet

(* "No destructive migrations" (database.go:9): neither opening the file   *)
(* nor an exit in the middle of it loses a row or changes a value in one.  *)
MigrationKeepsRows ==
    [][phase # "serving" =>
         /\ \A t \in DOMAIN templates :
               /\ t \in DOMAIN templates'
               /\ \A c \in DOMAIN templates[t] :
                     c \in DOMAIN templates'[t] /\ templates'[t][c] = templates[t][c]
         /\ \A c \in CategoryNames : categories'[c] >= categories[c]]_vars

(* Defaults are never mixed in with a user's categories, and none comes    *)
(* twice: each follows those before it into a table that was empty.        *)
DefaultsNeverMixIn ==
    [][\A d \in Defaults :
         categories'[d] > categories[d] =>
             categories = [c \in CategoryNames |-> IF c \in 1..(d - 1) THEN 1 ELSE 0]]_vars

(* A file that can be opened once can be opened again: however often the   *)
(* process exits, a later start gets as far as serving.                    *)
ServesAgain == phase = "down" ~> phase = "serving"

(* "defaultCategories seeds a predefined ... set of German household       *)
(* categories on first run" (categories.go:32-33): until the user has      *)
(* written anything, all of them are there.                                *)
SeededInFull == phase = "serving" /\ edits = 0 => categories = SeededCategories
=============================================================================
