----------------------------- MODULE SettingsPage -----------------------------
(***************************************************************************)
(* The settings page of the browser, beside the scheduler.  It shows the   *)
(* templates as they were when it last asked for them, and a template is   *)
(* written back as a whole: by the "active" box with every other field as  *)
(* it was loaded, by the form with those the user did not change.  What    *)
(* the scheduler booked in the meantime is overwritten.                    *)
(*                                                                         *)
(* A request is one step here, from the click to the new list; that a list *)
(* may come late is the same as asking for it earlier.                     *)
(***************************************************************************)
EXTENDS Scheduler

VARIABLES
    listed,          \* the templates as loaded, by id
    checked,         \* those whose "active" box is checked
    form,            \* the template the form is editing, as it was loaded, or NoForm
    setBack          \* history: due dates written from an older list, or entered anew

settings == <<listed, checked, form, setBack>>
settingsVars == <<vars, settings>>

NoForm == [id |-> 0]

SettingsInit ==
    /\ Init
    /\ listed = NoCopies /\ checked = {} /\ form = NoForm /\ setBack = {}

(***************************************************************************)
(* Looking                                                                 *)
(***************************************************************************)
(* Once the bound on requests is used up nothing depends on the page, and  *)
(* it is left as it is.                                                    *)
InUse == phase # "down" /\ edits < MaxEdits

Reload ==
    /\ listed' = templates'
    /\ checked' = {t \in DOMAIN templates' : templates'[t].active}

LoadRecurringSettings ==
    /\ InUse
    /\ UNCHANGED vars
    /\ Reload
    /\ UNCHANGED <<form, setBack>>

StartRecurringEdit(t) ==
    /\ InUse
    /\ t \in DOMAIN listed
    /\ form' = [id |-> t, copy |-> listed[t]]
    /\ UNCHANGED <<vars, listed, checked, setBack>>

CancelEdit ==
    /\ InUse
    /\ form' = NoForm
    /\ UNCHANGED <<vars, listed, checked, setBack>>

(***************************************************************************)
(* Writing                                                                 *)
(***************************************************************************)

(* A template as a request: the credit is not part of it. *)
Body(rt, active) ==
    [amount |-> rt.amount, category |-> rt.category, account |-> rt.account,
     interval |-> rt.interval, nextDue |-> rt.nextDue, active |-> active,
     limited |-> rt.limited, remaining |-> rt.remaining]

(* Mistake: the form sends an empty count for a single installment. *)
FormBodyOnceEndless(rt) ==
    IF rt.limited /\ rt.remaining = 1
    THEN [Body(rt, rt.active) EXCEPT !.interval = "monthly", !.limited = FALSE, !.remaining = 0]
    ELSE Body(rt, rt.active)

(* The form shows a plan with one installment left as a single booking,    *)
(* and sends that back as a monthly plan of one.                           *)
FormBody(rt) ==
    IF rt.limited /\ rt.remaining = 1
    THEN [Body(rt, rt.active) EXCEPT !.interval = "monthly"]
    ELSE Body(rt, rt.active)

WriteBack(t, rt, req) ==
    /\ UserUpdates(t, req)
    /\ setBack' = IF rt.nextDue = templates[t].nextDue /\ req.nextDue = rt.nextDue
                  THEN setBack ELSE setBack \cup {t}

(* The list is not loaded again after it. *)
Toggle(t) ==
    /\ t \in DOMAIN listed
    /\ WriteBack(t, listed[t], Body(listed[t], t \notin checked))
    /\ checked' = (checked \ {t}) \cup ({t} \ checked)
    /\ UNCHANGED <<listed, form>>

(* The request fails, or is refused: for a finished plan, for a template   *)
(* or a category that is gone.  The box stays as clicked.                  *)
ToggleFails(t) ==
    /\ InUse
    /\ t \in DOMAIN listed
    /\ checked' = (checked \ {t}) \cup ({t} \ checked)
    /\ UNCHANGED <<vars, listed, form, setBack>>

(* The user enters new values, or leaves the form as it came up.  Whether  *)
(* the template is active is not in the form: it is sent as loaded.        *)
SaveEdit(req) ==
    /\ form # NoForm
    /\ WriteBack(form.id, form.copy, req)
    /\ form' = NoForm
    /\ Reload

Entered(req) == [req EXCEPT !.active = form.copy.active]

AddTemplate(req) ==
    /\ form = NoForm
    /\ UserCreates([req EXCEPT !.active = TRUE])
    /\ Reload
    /\ UNCHANGED <<form, setBack>>

DeleteTemplate(t) ==
    /\ t \in DOMAIN listed
    /\ UserDeletes(t)
    /\ Reload
    /\ UNCHANGED <<form, setBack>>

(* Offered, and limited, by what was open when the list was loaded. *)
PayExtra(t, cents) ==
    /\ t \in DOMAIN listed
    /\ listed[t].limited /\ cents <= OutstandingCents(listed[t])
    /\ UserPaysExtra(t, cents)
    /\ Reload
    /\ UNCHANGED <<form, setBack>>

SettingsStep ==
    \/ LoadRecurringSettings \/ CancelEdit
    \/ \E t \in TemplateIds : StartRecurringEdit(t) \/ Toggle(t) \/ ToggleFails(t)
    \/ \E req \in Requests : AddTemplate(req) \/ (form # NoForm /\ SaveEdit(Entered(req)))
    \/ form # NoForm /\ SaveEdit(FormBody(form.copy))
    \/ \E t \in TemplateIds : DeleteTemplate(t)
    \/ \E t \in TemplateIds, cents \in ExtraAmounts : PayExtra(t, cents)
    \/ \E c \in Category : UserDeletesCategory(c) /\ UNCHANGED settings
    \/ \E a \in Account : UserDeletesAccount(a) /\ UNCHANGED settings

SettingsNext ==
    \/ SettingsStep
    \/ (PassStep \/ Start \/ TickerFires \/ ReceiveTick \/ Exit \/ DayPasses) /\ UNCHANGED settings

SettingsSpec == SettingsInit /\ [][SettingsNext]_settingsVars

(***************************************************************************)
(* Properties                                                              *)
(***************************************************************************)

SettingsTypeOK ==
    /\ DOMAIN listed \subseteq 1..lastTemplate /\ listed \in [DOMAIN listed -> Template]
    /\ checked \subseteq DOMAIN listed
    /\ form # NoForm => form.id \in 1..lastTemplate /\ form.copy \in Template
    /\ setBack \subseteq TemplateIds

(* However often the page toggles, edits and pays from an old list while a *)
(* pass books, an occurrence is booked a second time only if the page has  *)
(* put back a due date loaded before the booking (or the user entered one  *)
(* anew): a list that is old in any other field does no such harm.         *)
BookedTwiceOnlyIfSetBack ==
    \A i, j \in DOMAIN transactions :
        /\ i # j
        /\ IsRecurring(i) /\ IsRecurring(j)
        /\ transactions[i].template = transactions[j].template
        /\ transactions[i].date = transactions[j].date
        => transactions[i].template \in setBack

(* Written back from a list that is up to date, a template keeps all that  *)
(* the page does not show or the user did not touch: the credit, the count *)
(* and the date survive the way through the box or the form, and the box   *)
(* shows what was written, also after clicks that failed.  Only a last     *)
(* installment's interval, which nothing uses any more, becomes monthly.   *)
AsWritten(row) ==
    [row EXCEPT !.interval = IF row.limited /\ row.remaining = 1 THEN "monthly" ELSE @]

UntouchedIsKept ==
    [][edits' # edits =>
         \A t \in DOMAIN templates :
            /\ t \in DOMAIN listed /\ listed[t] = templates[t] /\ Toggle(t)
                  => templates'[t] = [templates[t] EXCEPT !.active = t \in checked']
            /\ form = [id |-> t, copy |-> templates[t]] /\ SaveEdit(FormBody(form.copy))
                  => templates'[t] = AsWritten(templates[t])]_settingsVars
=============================================================================
