----------------------------- MODULE PlanContract -----------------------------
(***************************************************************************)
(* What the recurring bookings promise their user, without the tables, the *)
(* passes, the copies and the failures it takes to keep it: each plan has  *)
(* a date it is due on and a sum it still owes; the journal only grows, by *)
(* occurrences and by payments; and each of them is entered and accounted  *)
(* for in one indivisible step.                                            *)
(*                                                                         *)
(* A plan the user changes while it is being booked is in dispute until    *)
(* the user changes it again: of it, but of no other plan, the contract    *)
(* promises nothing.                                                       *)
(***************************************************************************)
EXTENDS Integers, Sequences

CONSTANT Plans

VARIABLES
    due,             \* plan -> the date of its next occurrence, for the plans there are
    owed,            \* plan -> what is still to be booked of it, or Endless
    journal,         \* what was booked, in that order, each for a `template', a plan
    disputed         \* the plans in dispute

terms == <<due, owed>>
vars == <<due, owed, journal, disputed>>

Endless == -1
Sums == Nat \cup {Endless}

Init ==
    /\ due = [t \in {} |-> 0] /\ owed = [t \in {} |-> 0]
    /\ journal = <<>> /\ disputed = {}

(* `after' is `before' for every plan but t. *)
SameBut(t, before, after) ==
    /\ DOMAIN after \ {t} = DOMAIN before \ {t}
    /\ \A u \in DOMAIN before \ {t} : after[u] = before[u]

(* The terms of t, and of no other plan, change; t then is or is no plan. *)
TermsChange(t, isPlan) ==
    /\ SameBut(t, due, due') /\ SameBut(t, owed, owed')
    /\ IF isPlan THEN t \in DOMAIN due' /\ t \in DOMAIN owed' /\ owed'[t] \in Sums
                 ELSE t \notin DOMAIN due' /\ t \notin DOMAIN owed'

DisputeMayBegin(t) == disputed' = disputed \/ disputed' = disputed \cup {t}

(* One entry, for t, is added to the journal. *)
Entry == journal'[Len(journal')]

Enter(t) ==
    /\ Len(journal') = Len(journal) + 1
    /\ journal' = Append(journal, Entry)
    /\ Entry.template = t

(* What is entered is taken off what is owed, to the cent. *)
TakenOff(t) ==
    owed' = [owed EXCEPT ![t] = IF @ = Endless THEN Endless ELSE @ - Entry.amount]

Agree(t) ==
    /\ TermsChange(t, TRUE)
    /\ DisputeMayBegin(t) \/ disputed' = disputed \ {t}
    /\ UNCHANGED journal

Cancel(t) ==
    /\ TermsChange(t, FALSE)
    /\ DisputeMayBegin(t)
    /\ UNCHANGED journal

(* An extra payment: never more than is owed, and nobody's next date moves. *)
Pay(t) ==
    /\ t \in DOMAIN owed
    /\ Enter(t) /\ 0 < Entry.amount /\ Entry.amount <= owed[t]
    /\ TakenOff(t)
    /\ DisputeMayBegin(t)
    /\ UNCHANGED due

(* The occurrence that is due, which is then due at a later date.  A plan   *)
(* is never booked beyond what it owes.                                    *)
Book(t) ==
    /\ t \in DOMAIN due \ disputed
    /\ Enter(t) /\ Entry.date = due[t]
    /\ owed[t] = Endless \/ Entry.amount <= owed[t]
    /\ TakenOff(t)
    /\ SameBut(t, due, due') /\ t \in DOMAIN due' /\ due'[t] > due[t]
    /\ UNCHANGED disputed

BookDisputed(t) ==
    /\ t \in disputed
    /\ Enter(t)
    /\ TermsChange(t, t \in DOMAIN due)
    /\ UNCHANGED disputed

Next == \E t \in Plans : Agree(t) \/ Cancel(t) \/ Pay(t) \/ Book(t) \/ BookDisputed(t)

Spec == Init /\ [][Next]_vars
=============================================================================
