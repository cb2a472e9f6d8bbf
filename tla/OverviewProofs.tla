--------------------------- MODULE OverviewProofs ---------------------------
(***************************************************************************)
(* The settings page and the overview beside the scheduler, where the user *)
(* may enter any request (Requests = Request):                             *)
(*   SettingsActAsUser      what the page sends are requests of a user     *)
(*   TwiceOnlyIfSetBack     it is to blame for an occurrence booked twice  *)
(*   WrittenBackWhole       what it does not show survives box and form    *)
(*   OverviewTypes          what the overview shows has its type           *)
(*   PendingIsNotBooked     what it announces is not in its sums           *)
(*   AnnouncedIsBooked      what it announces is what will be booked       *)
(***************************************************************************)
EXTENDS Overview, SchedulerProofs

(***************************************************************************)
(* What the page sends                                                     *)
(***************************************************************************)
LEMMA BodyIsRequest ==
    ASSUME NEW rt \in Template, NEW active \in BOOLEAN
    PROVE  Body(rt, active) \in Request /\ FormBody(rt) \in Request
BY DEF Body, FormBody, Template, Request, Intervals

LEMMA LastOfTypes ==
    ASSUME Sound
    PROVE  /\ lastTemplate \in 0..MaxTemplates /\ MaxTemplates \in Nat
           /\ DOMAIN templates \subseteq 1..lastTemplate
           /\ templates \in [DOMAIN templates -> Template]
           /\ DOMAIN templates \subseteq TemplateIds
BY RowTypes, MaxTemplatesAssumption DEF Sound, TypeOK, StoreTypeOK, TemplateIds

(* An edit, with what it means for the due dates set back. *)
EditWritten(t, req) ==
    /\ UserUpdates(t, req)
    /\ \/ req.nextDue = templates[t].nextDue /\ UNCHANGED setBack
       \/ setBack' = setBack \cup {t}

LEMMA WrittenAsEdit ==
    ASSUME Sound, NEW t, NEW rt, NEW req, WriteBack(t, rt, req)
    PROVE  t \in TemplateIds /\ EditWritten(t, req)
<1>1. t \in DOMAIN templates
  BY DEF WriteBack, UserUpdates, UpdateRecurringTemplate
<1>2. t \in TemplateIds
  BY <1>1, LastOfTypes
<1>3. CASE rt.nextDue = templates[t].nextDue /\ req.nextDue = rt.nextDue
  BY <1>2, <1>3 DEF WriteBack, EditWritten
<1>4. CASE ~ (rt.nextDue = templates[t].nextDue /\ req.nextDue = rt.nextDue)
  BY <1>2, <1>4 DEF WriteBack, EditWritten
<1> QED BY <1>3, <1>4

(* The page writes back by the box, and by the form as the user filled it  *)
(* in or as it came up.                                                    *)
PageEdit == \E t \in TemplateIds, req \in Requests : EditWritten(t, req)

LEMMA ToggleIsEdit ==
    ASSUME Sound, SettingsTypeOK, Requests = Request, NEW t, Toggle(t)
    PROVE  PageEdit
<1> DEFINE req == Body(listed[t], t \notin checked)
<1>1. listed[t] \in Template
  BY DEF Toggle, SettingsTypeOK
<1>2. req \in Requests
  BY <1>1, BodyIsRequest
<1>3. WriteBack(t, listed[t], req)
  BY DEF Toggle
<1> HIDE DEF req
<1>4. t \in TemplateIds /\ EditWritten(t, req)
  BY <1>3, WrittenAsEdit
<1> QED BY <1>2, <1>4 DEF PageEdit

LEMMA SaveIsEdit ==
    ASSUME Sound, NEW req \in Requests, SaveEdit(req)
    PROVE  PageEdit
<1>1. WriteBack(form.id, form.copy, req)
  BY DEF SaveEdit
<1>2. form.id \in TemplateIds /\ EditWritten(form.id, req)
  BY <1>1, WrittenAsEdit
<1> QED BY <1>2 DEF PageEdit

LEMMA FormRequests ==
    ASSUME SettingsTypeOK, Requests = Request, form # NoForm
    PROVE  /\ FormBody(form.copy) \in Requests
           /\ \A req \in Requests : Entered(req) \in Requests
<1>1. form.copy \in Template
  BY DEF SettingsTypeOK
<1>2. form.copy.active \in BOOLEAN
  BY <1>1 DEF Template
<1>3. FormBody(form.copy) \in Requests
  BY <1>1, BodyIsRequest
<1>4. ASSUME NEW req \in Requests PROVE Entered(req) \in Requests
  BY <1>2 DEF Entered, Request
<1> QED BY <1>3, <1>4

(* The steps of the page, by what they do to the database: nothing, a      *)
(* request other than an edit, or an edit.                                 *)
Looking == UNCHANGED <<vars, setBack>>

OtherRequest ==
    /\ UNCHANGED setBack
    /\ \/ \E req \in Requests : UserCreates(req)
       \/ \E t \in TemplateIds : UserDeletes(t)
       \/ \E t \in TemplateIds, cents \in ExtraAmounts : UserPaysExtra(t, cents)
       \/ \E c \in Category : UserDeletesCategory(c)
       \/ \E a \in Account : UserDeletesAccount(a)

LEMMA PageStepKinds ==
    ASSUME Sound, SettingsTypeOK, Requests = Request, SettingsStep
    PROVE  Looking \/ OtherRequest \/ PageEdit
<1>1. LoadRecurringSettings \/ CancelEdit => Looking
  BY DEF LoadRecurringSettings, CancelEdit, Looking
<1>2. ASSUME NEW t, StartRecurringEdit(t) \/ ToggleFails(t) PROVE Looking
  BY <1>2 DEF StartRecurringEdit, ToggleFails, Looking
<1>3. ASSUME NEW t, Toggle(t) PROVE PageEdit
  BY <1>3, ToggleIsEdit
<1>4. ASSUME NEW req \in Requests, AddTemplate(req) PROVE OtherRequest
  <2>1. [req EXCEPT !.active = TRUE] \in Requests
    BY DEF Request
  <2>2. UserCreates([req EXCEPT !.active = TRUE]) /\ UNCHANGED setBack
    BY <1>4 DEF AddTemplate
  <2> QED BY <2>1, <2>2 DEF OtherRequest
<1>5. ASSUME NEW req \in Requests, form # NoForm, SaveEdit(Entered(req)) PROVE PageEdit
  <2>1. Entered(req) \in Requests
    BY <1>5, FormRequests
  <2> QED BY <1>5, <2>1, SaveIsEdit
<1>6. ASSUME form # NoForm, SaveEdit(FormBody(form.copy)) PROVE PageEdit
  <2>1. FormBody(form.copy) \in Requests
    BY <1>6, FormRequests
  <2> QED BY <1>6, <2>1, SaveIsEdit
<1>7. ASSUME NEW t \in TemplateIds, DeleteTemplate(t) PROVE OtherRequest
  BY <1>7 DEF DeleteTemplate, OtherRequest
<1>8. ASSUME NEW t \in TemplateIds, NEW cents \in ExtraAmounts, PayExtra(t, cents)
      PROVE  OtherRequest
  BY <1>8 DEF PayExtra, OtherRequest
<1>9. ASSUME NEW c \in Category, UserDeletesCategory(c), UNCHANGED settings PROVE OtherRequest
  BY <1>9 DEF OtherRequest, settings
<1>10. ASSUME NEW a \in Account, UserDeletesAccount(a), UNCHANGED settings PROVE OtherRequest
  BY <1>10 DEF OtherRequest, settings
<1> QED BY <1>1, <1>2, <1>3, <1>4, <1>5, <1>6, <1>7, <1>8, <1>9, <1>10 DEF SettingsStep

LEMMA PageActsAsUser ==
    ASSUME Sound, SettingsTypeOK, Requests = Request, [SettingsNext]_settingsVars
    PROVE  [Next]_vars
<1>1. CASE SettingsStep
  <2>1. Looking => UNCHANGED vars
    BY DEF Looking
  <2>2. PageEdit => Next
    BY DEF PageEdit, EditWritten, Next, UserStep
  <2>3. OtherRequest => Next
    BY DEF OtherRequest, Next, UserStep
  <2> QED BY <1>1, <2>1, <2>2, <2>3, PageStepKinds
<1>2. CASE (PassStep \/ Start \/ TickerFires \/ ReceiveTick \/ Exit \/ DayPasses) /\ UNCHANGED settings
  BY <1>2 DEF Next
<1>3. CASE UNCHANGED settingsVars
  BY <1>3 DEF settingsVars
<1> QED BY <1>1, <1>2, <1>3 DEF SettingsNext

(***************************************************************************)
(* What the page holds keeps its type                                      *)
(***************************************************************************)

(* Rows may be deleted, ids are never used again. *)
LEMMA IdsGrow ==
    ASSUME Sound, [Next]_vars
    PROVE  lastTemplate' \in Nat /\ lastTemplate \in Nat /\ lastTemplate' >= lastTemplate
<1>1. lastTemplate \in Nat
  BY LastOfTypes
<1>2. ASSUME NEW t \in TemplateIds, BookStep(t) PROVE UNCHANGED lastTemplate
  BY <1>2, BookStepFacts
<1>3. ASSUME NEW req \in Requests, UserCreates(req) PROVE lastTemplate' = lastTemplate + 1
  BY <1>3 DEF UserCreates, CreateRecurringTemplate
<1>4. ASSUME NEW t, NEW req, UserUpdates(t, req) \/ UserDeletes(t) PROVE UNCHANGED lastTemplate
  BY <1>4 DEF UserUpdates, UserDeletes, UpdateRecurringTemplate, DeleteRecurringTemplate
<1>5. ASSUME NEW t, NEW cents, UserPaysExtra(t, cents) PROVE UNCHANGED lastTemplate
  BY <1>5 DEF UserPaysExtra, AddExtraPayment
<1>6. QuietStep \/ ListStep => UNCHANGED lastTemplate
  BY DEF QuietStep, ListStep, rows
<1>7. lastTemplate' = lastTemplate \/ lastTemplate' = lastTemplate + 1
  BY <1>2, <1>3, <1>4, <1>5, <1>6, StepKinds
<1> QED BY <1>1, <1>7

LoadedTypes ==
    /\ DOMAIN templates \subseteq 1..lastTemplate
    /\ templates \in [DOMAIN templates -> Template]

LEMMA SoundLoads == Sound => LoadedTypes
BY LastOfTypes DEF LoadedTypes

(* The list is loaded anew or stays, and the form is opened on a template  *)
(* of the list.                                                            *)
ListKept == listed' = listed /\ checked' \subseteq DOMAIN listed
ListReloaded == listed' = templates' /\ checked' \subseteq DOMAIN templates'
FormStep ==
    \/ form' \in {form, NoForm}
    \/ \E t \in DOMAIN listed : form' = [id |-> t, copy |-> listed[t]]

LEMMA ReloadLists == Reload => ListReloaded
BY DEF Reload, ListReloaded

LEMMA PageSteps ==
    ASSUME SettingsTypeOK, [SettingsNext]_settingsVars
    PROVE  (ListKept \/ ListReloaded) /\ FormStep
<1> DEFINE Goal == (ListKept \/ ListReloaded) /\ FormStep
<1>1. checked \subseteq DOMAIN listed
  BY DEF SettingsTypeOK
<1>2. UNCHANGED settings => Goal
  BY <1>1 DEF settings, ListKept, FormStep
<1>3. LoadRecurringSettings \/ CancelEdit => Goal
  BY <1>1, ReloadLists DEF LoadRecurringSettings, CancelEdit, ListKept, FormStep
<1>4. ASSUME NEW t, StartRecurringEdit(t) PROVE Goal
  BY <1>1, <1>4 DEF StartRecurringEdit, ListKept, FormStep
<1>5. ASSUME NEW t, Toggle(t) \/ ToggleFails(t) PROVE Goal
  BY <1>1, <1>5 DEF Toggle, ToggleFails, ListKept, FormStep
<1>6. ASSUME NEW req, SaveEdit(req) PROVE Goal
  BY <1>6, ReloadLists DEF SaveEdit, FormStep
<1>7. ASSUME NEW t, NEW x, AddTemplate(x) \/ DeleteTemplate(t) \/ PayExtra(t, x) PROVE Goal
  BY <1>7, ReloadLists DEF AddTemplate, DeleteTemplate, PayExtra, FormStep
<1>8. UNCHANGED settingsVars => Goal
  BY <1>2 DEF settingsVars
<1> HIDE DEF Goal
<1>9. SettingsStep => Goal
  BY <1>2, <1>3, <1>4, <1>5, <1>6, <1>7 DEF SettingsStep
<1>10. Goal
  BY <1>2, <1>8, <1>9 DEF SettingsNext
<1> QED BY <1>10 DEF Goal

(* The history is that of an edit, or does not change. *)
LEMMA RewindSteps ==
    ASSUME Sound, SettingsTypeOK, Requests = Request, [SettingsNext]_settingsVars
    PROVE  PageEdit \/ UNCHANGED <<rewound, setBack>>
<1>1. OtherRequest => UNCHANGED <<rewound, setBack>>
  BY DEF OtherRequest, UserCreates, UserDeletes, UserPaysExtra, UserDeletesCategory,
         UserDeletesAccount, history
<1>2. Looking \/ UNCHANGED settingsVars => UNCHANGED <<rewound, setBack>>
  BY DEF Looking, settingsVars, vars, history, settings
<1>3. PassStep => UNCHANGED rewound
  BY DEF PassStep, List, Book, PassFails, history
<1>4. Start \/ TickerFires \/ ReceiveTick \/ Exit \/ DayPasses => UNCHANGED rewound
  BY DEF Start, TickerFires, ReceiveTick, Exit, DayPasses, history
<1>5. UNCHANGED settings => UNCHANGED setBack
  BY DEF settings
<1> QED BY <1>1, <1>2, <1>3, <1>4, <1>5, PageStepKinds DEF SettingsNext

LEMMA SettingsTypeStep ==
    ASSUME Sound, SettingsTypeOK, Requests = Request, [SettingsNext]_settingsVars
    PROVE  SettingsTypeOK'
<1>1. [Next]_vars
  BY PageActsAsUser
<1>2. Sound'
  BY <1>1, SoundStep
<1>3. /\ DOMAIN templates' \subseteq 1..lastTemplate'
      /\ templates' \in [DOMAIN templates' -> Template]
  <2>1. LoadedTypes'
    BY <1>2, SoundLoads, PTL
  <2> QED BY <2>1 DEF LoadedTypes
<1>4. \A t \in 1..lastTemplate : t \in 1..lastTemplate'
  BY <1>1, IdsGrow
<1>5. /\ DOMAIN listed \subseteq 1..lastTemplate /\ listed \in [DOMAIN listed -> Template]
      /\ form # NoForm => form.id \in 1..lastTemplate /\ form.copy \in Template
  BY DEF SettingsTypeOK
<1>6. /\ DOMAIN listed' \subseteq 1..lastTemplate' /\ listed' \in [DOMAIN listed' -> Template]
      /\ checked' \subseteq DOMAIN listed'
  <2>1. CASE ListKept
    BY <1>4, <1>5, <2>1 DEF ListKept
  <2>2. CASE ListReloaded
    BY <1>3, <2>2 DEF ListReloaded
  <2> QED BY <2>1, <2>2, PageSteps
<1>7. form' # NoForm => form'.id \in 1..lastTemplate' /\ form'.copy \in Template
  <2>1. CASE form' \in {form, NoForm}
    BY <1>4, <1>5, <2>1
  <2>2. CASE \E t \in DOMAIN listed : form' = [id |-> t, copy |-> listed[t]]
    BY <1>4, <1>5, <2>2
  <2> QED BY <2>1, <2>2, PageSteps DEF FormStep
<1>8. setBack' \subseteq TemplateIds
  BY RewindSteps DEF PageEdit, EditWritten, SettingsTypeOK
<1> QED BY <1>6, <1>7, <1>8 DEF SettingsTypeOK, NoForm

(***************************************************************************)
(* Only a due date put back books twice                                    *)
(***************************************************************************)

(* A template saved with the due date it has lies after all its bookings,  *)
(* so the edit sets nothing back.                                          *)
LEMMA SetBackStep ==
    ASSUME Sound, BookedBeforeDue, SettingsTypeOK, Requests = Request,
           rewound \subseteq setBack, [SettingsNext]_settingsVars
    PROVE  rewound' \subseteq setBack'
<1>1. ASSUME NEW t \in TemplateIds, NEW req \in Requests, EditWritten(t, req)
      PROVE  rewound' \subseteq setBack'
  <2>1. /\ t \in DOMAIN templates
        /\ rewound' = IF BookedFrom(t, req.nextDue) THEN rewound \cup {t} ELSE rewound
    BY <1>1 DEF EditWritten, UserUpdates, UpdateRecurringTemplate
  <2>2. CASE setBack' = setBack \cup {t}
    BY <2>1, <2>2
  <2>3. CASE req.nextDue = templates[t].nextDue /\ UNCHANGED setBack
    <3>1. ASSUME NEW i \in DOMAIN transactions, transactions[i].source = "recurring",
                 transactions[i].template = t, t \notin rewound
          PROVE  ~ (transactions[i].date >= req.nextDue)
      <4>1. transactions[i].date < templates[t].nextDue
        BY <2>1, <3>1 DEF BookedBeforeDue, IsRecurring
      <4>2. transactions[i] \in Transaction /\ templates[t] \in Template
        BY <2>1, RowTypes
      <4>3. transactions[i].date \in Nat /\ templates[t].nextDue \in Nat
        BY <4>2 DEF Transaction, Template, Dates
      <4> QED BY <2>3, <4>1, <4>3
    <3>2. t \notin rewound => ~ BookedFrom(t, req.nextDue)
      BY <3>1 DEF BookedFrom, BookedRows
    <3> QED BY <2>1, <2>3, <3>2
  <2> QED BY <1>1, <2>2, <2>3 DEF EditWritten
<1>2. UNCHANGED <<rewound, setBack>> => rewound' \subseteq setBack'
  OBVIOUS
<1> QED BY <1>1, <1>2, RewindSteps DEF PageEdit

(* Everything that must hold together beside the page. *)
PageInvariant ==
    /\ Sound /\ BookedBeforeDue /\ BookedOnce
    /\ SettingsTypeOK
    /\ rewound \subseteq setBack

LEMMA PageInit == SettingsInit => PageInvariant
<1> SUFFICES ASSUME SettingsInit PROVE PageInvariant
  OBVIOUS
<1>1. Sound /\ DOMAIN transactions = {} /\ rewound = {} /\ lastTemplate = 0
  BY SoundInit DEF SettingsInit, Init, StoreInit
<1>2. BookedBeforeDue /\ BookedOnce
  BY <1>1 DEF BookedBeforeDue, BookedOnce
<1>3. DOMAIN listed = {} /\ listed = [t \in {} |-> {}] /\ checked = {} /\ setBack = {}
      /\ form = NoForm
  BY DEF SettingsInit, NoCopies
<1>4. SettingsTypeOK
  BY <1>3 DEF SettingsTypeOK
<1> QED BY <1>1, <1>2, <1>3, <1>4 DEF PageInvariant

LEMMA PageStep ==
    ASSUME PageInvariant, Requests = Request, [SettingsNext]_settingsVars
    PROVE  PageInvariant'
<1>1. [Next]_vars
  BY PageActsAsUser DEF PageInvariant
<1> QED BY <1>1, SoundStep, BeforeDueStep, OnceStep, SettingsTypeStep, SetBackStep
        DEF PageInvariant

(* Where a user may send any request, the page makes no use of the server  *)
(* that the scheduler's theorems do not already allow for: boxes, forms    *)
(* and old lists included, its runs are runs of the scheduler beside some  *)
(* user, and what is proved of those holds beside the page.                *)
THEOREM SettingsActAsUser ==
    ASSUME Requests = Request
    PROVE  SettingsSpec => Spec
<1>1. SettingsInit => PageInvariant /\ Init
  BY PageInit DEF SettingsInit
<1>2. PageInvariant /\ [SettingsNext]_settingsVars => PageInvariant'
  BY PageStep
<1>3. PageInvariant /\ [SettingsNext]_settingsVars => [Next]_vars
  BY PageActsAsUser DEF PageInvariant
<1> QED BY <1>1, <1>2, <1>3, PTL DEF SettingsSpec, Spec

(* An occurrence is booked twice only for a template whose due date the    *)
(* page has put back from an older list, or the user entered anew: the     *)
(* box, a payment, a new count or a new amount from an old list do not.    *)
THEOREM TwiceOnlyIfSetBack ==
    ASSUME Requests = Request
    PROVE  SettingsSpec => []BookedTwiceOnlyIfSetBack
<1>1. SettingsInit => PageInvariant
  BY PageInit
<1>2. PageInvariant /\ [SettingsNext]_settingsVars => PageInvariant'
  BY PageStep
<1>3. PageInvariant => BookedTwiceOnlyIfSetBack
  BY DEF PageInvariant, BookedOnce, BookedTwiceOnlyIfSetBack
<1> QED BY <1>1, <1>2, <1>3, PTL DEF SettingsSpec

(***************************************************************************)
(* What the page does not show                                             *)
(***************************************************************************)

(* Only a plan has a count: remaining_count is NULL in the other rows. *)
Uncounted(row) == ~ row.limited => row.remaining = 0

CountsOfPlans == \A t \in DOMAIN templates : Uncounted(templates[t])

LEMMA CountsStep ==
    ASSUME Sound, CountsOfPlans, [Next]_vars
    PROVE  CountsOfPlans'
<1>1. \A t \in DOMAIN templates : templates[t] \in Template /\ Uncounted(templates[t])
  BY RowTypes DEF CountsOfPlans
<1>2. ASSUME UNCHANGED templates PROVE CountsOfPlans'
  BY <1>1, <1>2 DEF CountsOfPlans, Uncounted
<1>3. ASSUME NEW t, DOMAIN templates' \subseteq DOMAIN templates \cup {t},
             \A u \in DOMAIN templates' : u # t => templates'[u] = templates[u],
             t \in DOMAIN templates' => Uncounted(templates'[t])
      PROVE  CountsOfPlans'
  BY <1>1, <1>3 DEF CountsOfPlans, Uncounted
<1>4. ASSUME NEW t \in TemplateIds, BookStep(t) PROVE CountsOfPlans'
  <2>1. /\ DOMAIN templates' = DOMAIN templates
        /\ \A u \in DOMAIN templates : u # t => templates'[u] = templates[u]
        /\ t \in DOMAIN templates => templates'[t] = RowAfterBooking(templates[t], pending[t])
    BY <1>4, BookStepFacts
  <2>2. t \in DOMAIN templates => Uncounted(templates'[t])
    BY <1>1, <2>1 DEF RowAfterBooking, Template, Uncounted
  <2> QED BY <1>3, <2>1, <2>2
<1>5. ASSUME NEW req \in Requests, UserCreates(req) PROVE CountsOfPlans'
  <2> DEFINE new == lastTemplate'
  <2>1. templates' = [t \in DOMAIN templates \cup {new} |->
                         IF t = new THEN NewTemplate(req) ELSE templates[t]]
    BY <1>5 DEF UserCreates, CreateRecurringTemplate
  <2>2. Uncounted(NewTemplate(req))
    BY DEF NewTemplate, Uncounted
  <2> HIDE DEF new
  <2> QED BY <1>3, <2>1, <2>2
<1>6. ASSUME NEW t \in TemplateIds, NEW req \in Requests, UserUpdates(t, req) PROVE CountsOfPlans'
  <2>1. templates' = [templates EXCEPT ![t] = EditedTemplate(templates[t], req)]
    BY <1>6 DEF UserUpdates, UpdateRecurringTemplate
  <2>2. Uncounted(EditedTemplate(templates[t], req))
    BY DEF EditedTemplate, NewTemplate, Uncounted
  <2> QED BY <1>3, <2>1, <2>2
<1>7. ASSUME NEW t \in TemplateIds, UserDeletes(t) PROVE CountsOfPlans'
  <2>1. templates' = [u \in DOMAIN templates \ {t} |-> templates[u]]
    BY <1>7 DEF UserDeletes, DeleteRecurringTemplate
  <2> QED BY <1>3, <2>1
<1>8. ASSUME NEW t \in TemplateIds, NEW cents \in ExtraAmounts, UserPaysExtra(t, cents)
      PROVE  CountsOfPlans'
  <2>1. /\ templates' = [templates EXCEPT ![t] = RowAfterExtraPayment(templates[t], cents)]
        /\ t \in DOMAIN templates /\ templates[t].limited
    BY <1>8 DEF UserPaysExtra, AddExtraPayment, ExtraPaymentValid
  <2>2. Uncounted(RowAfterExtraPayment(templates[t], cents))
    BY <1>1, <2>1 DEF RowAfterExtraPayment, Template, Uncounted
  <2> QED BY <1>3, <2>1, <2>2
<1>9. QuietStep \/ ListStep => UNCHANGED templates
  BY DEF QuietStep, ListStep, rows
<1> QED BY <1>2, <1>4, <1>5, <1>6, <1>7, <1>8, <1>9, StepKinds

(* A row sent back as it is, but for its box. *)
LEMMA SentBack ==
    ASSUME NEW row \in Template, RowSound(row), Uncounted(row), NEW active \in BOOLEAN
    PROVE  /\ EditedTemplate(row, Body(row, active)) = [row EXCEPT !.active = active]
           /\ EditedTemplate(row, FormBody(row)) = AsWritten(row)
<1>1. /\ row.amount \in Nat /\ row.credit \in Nat /\ row.remaining \in Int
      /\ row.limited \in BOOLEAN /\ row.active \in BOOLEAN
  BY TemplateFields
<1>2. KeptCredit(row.credit, Body(row, active)) = row.credit
  BY <1>1 DEF KeptCredit, Body, RowSound
<1>3. KeptCredit(row.credit, FormBody(row)) = row.credit
  BY <1>1 DEF KeptCredit, FormBody, Body, RowSound
<1>4. (IF row.limited THEN row.remaining ELSE 0) = row.remaining
  BY DEF Uncounted
<1>5. EditedTemplate(row, Body(row, active)) = [row EXCEPT !.active = active]
  BY <1>2, <1>4 DEF EditedTemplate, NewTemplate, Body, Template
<1>6. EditedTemplate(row, FormBody(row)) = AsWritten(row)
  <2>1. CASE row.limited /\ row.remaining = 1
    <3>1. FormBody(row) = [Body(row, row.active) EXCEPT !.interval = "monthly"]
      BY <2>1 DEF FormBody
    <3>2. EditedTemplate(row, FormBody(row)) = [row EXCEPT !.interval = "monthly"]
      BY <1>3, <1>4, <3>1 DEF EditedTemplate, NewTemplate, Body, Template
    <3>3. AsWritten(row) = [row EXCEPT !.interval = "monthly"]
      BY <2>1 DEF AsWritten
    <3> QED BY <3>2, <3>3
  <2>2. CASE ~ (row.limited /\ row.remaining = 1)
    BY <1>3, <1>4, <2>2 DEF EditedTemplate, NewTemplate, FormBody, Body, AsWritten, Template
  <2> QED BY <2>1, <2>2
<1> QED BY <1>5, <1>6

KeepsUntouched ==
    \A t \in DOMAIN templates :
       /\ t \in DOMAIN listed /\ listed[t] = templates[t] /\ Toggle(t)
             => templates'[t] = [templates[t] EXCEPT !.active = t \in checked']
       /\ form = [id |-> t, copy |-> templates[t]] /\ SaveEdit(FormBody(form.copy))
             => templates'[t] = AsWritten(templates[t])

LEMMA UntouchedStep ==
    ASSUME Sound, CountsOfPlans
    PROVE  KeepsUntouched
<1> SUFFICES ASSUME NEW t \in DOMAIN templates
             PROVE  /\ t \in DOMAIN listed /\ listed[t] = templates[t] /\ Toggle(t)
                         => templates'[t] = [templates[t] EXCEPT !.active = t \in checked']
                    /\ form = [id |-> t, copy |-> templates[t]] /\ SaveEdit(FormBody(form.copy))
                         => templates'[t] = AsWritten(templates[t])
  BY DEF KeepsUntouched
<1> DEFINE row == templates[t]
<1>1. row \in Template /\ RowSound(row) /\ Uncounted(row)
  BY SoundHasSoundRows DEF SoundRows, CountsOfPlans
<1>2. ASSUME NEW rt, NEW req, WriteBack(t, rt, req) PROVE templates'[t] = EditedTemplate(row, req)
  BY <1>2 DEF WriteBack, UserUpdates, UpdateRecurringTemplate
<1>3. ASSUME listed[t] = row, Toggle(t)
      PROVE  templates'[t] = [row EXCEPT !.active = t \in checked']
  <2>1. /\ WriteBack(t, row, Body(row, t \notin checked))
        /\ checked' = (checked \ {t}) \cup ({t} \ checked)
    BY <1>3 DEF Toggle
  <2>2. templates'[t] = EditedTemplate(row, Body(row, t \notin checked))
    BY <1>2, <2>1
  <2>3. (t \in checked') = (t \notin checked)
    BY <2>1
  <2> DEFINE active == t \notin checked
  <2>4. active \in BOOLEAN
    OBVIOUS
  <2> HIDE DEF active
  <2>5. EditedTemplate(row, Body(row, active)) = [row EXCEPT !.active = active]
    BY <1>1, <2>4, SentBack
  <2> QED BY <2>2, <2>3, <2>5 DEF active
<1>4. ASSUME form = [id |-> t, copy |-> row], SaveEdit(FormBody(form.copy))
      PROVE  templates'[t] = AsWritten(row)
  <2>1. form.id = t /\ form.copy = row
    BY <1>4
  <2>2. WriteBack(t, row, FormBody(row))
    BY <1>4, <2>1 DEF SaveEdit
  <2> QED BY <1>1, <1>2, <2>2, SentBack
<1> QED BY <1>3, <1>4

(* The page's box and form leave alone what they do not show and what the  *)
(* user did not change: credit, count, amount and due date of a template   *)
(* written back from an up-to-date list are those of its row.              *)
THEOREM WrittenBackWhole ==
    ASSUME Requests = Request
    PROVE  SettingsSpec => UntouchedIsKept
<1> DEFINE Inv == PageInvariant /\ CountsOfPlans
<1>1. SettingsInit => Inv
  <2>1. SettingsInit => CountsOfPlans
    BY DEF SettingsInit, Init, StoreInit, CountsOfPlans
  <2> QED BY <2>1, PageInit
<1>2. Inv /\ [SettingsNext]_settingsVars => Inv'
  <2> SUFFICES ASSUME Inv, [SettingsNext]_settingsVars PROVE Inv'
    OBVIOUS
  <2>1. [Next]_vars
    BY PageActsAsUser DEF PageInvariant
  <2>2. CountsOfPlans'
    BY <2>1, CountsStep DEF PageInvariant
  <2> QED BY <2>2, PageStep
<1>3. Inv /\ [SettingsNext]_settingsVars => [edits' # edits => KeepsUntouched]_settingsVars
  BY UntouchedStep DEF PageInvariant
<1>4. SettingsSpec => [][edits' # edits => KeepsUntouched]_settingsVars
  BY <1>1, <1>2, <1>3, PTL DEF SettingsSpec
<1> QED BY <1>4 DEF UntouchedIsKept, KeepsUntouched

(***************************************************************************)
(* The forecast.  Its loop is a recursive function of the copy it has      *)
(* reached, which ends because every copy is due later than the one before.*)
(***************************************************************************)
ForecastTable(g, t, until) ==
    g = [rt \in Template |->
            IF rt.nextDue <= until /\ HasInstallmentsLeft(rt)
            THEN {Occurrence(t, rt)} \cup g[CopyAfterBooking(rt)]
            ELSE {}]

UpcomingFrom(t, until, rt) == (CHOOSE g : ForecastTable(g, t, until))[rt]

LEMMA ForecastIsUpcoming ==
    ASSUME NEW t, NEW until
    PROVE  ForecastOf(t, until) = UpcomingFrom(t, until, templates[t])
BY DEF ForecastOf, UpcomingFrom, ForecastTable

LEMMA NextCopy ==
    ASSUME NEW rt \in Template
    PROVE  /\ CopyAfterBooking(rt) \in Template
           /\ CopyAfterBooking(rt).nextDue > rt.nextDue
<1>1. CopyAfterBooking(rt).nextDue = Advance(rt)
  BY DEF CopyAfterBooking, Template
<1> QED BY <1>1, CopyAfterBookingType, AdvanceForward

(* The templates at most so many days before the end of the forecast. *)
Within(n, until) == {rt \in Template : rt.nextDue + n > until}

LEMMA WithinFacts ==
    ASSUME NEW until \in Nat, NEW n \in Nat
    PROVE  /\ \A rt \in Within(0, until) : rt \in Template /\ ~ (rt.nextDue <= until)
           /\ \A rt \in Within(n, until) : rt \in Within(n + 1, until)
           /\ \A rt \in Within(n + 1, until) : CopyAfterBooking(rt) \in Within(n, until)
           /\ Within(until + 1, until) = Template
<1>1. ASSUME NEW rt \in Template
      PROVE  /\ rt.nextDue \in Nat /\ CopyAfterBooking(rt).nextDue \in Nat
             /\ CopyAfterBooking(rt).nextDue > rt.nextDue
             /\ CopyAfterBooking(rt) \in Template
  BY NextCopy, TemplateFields
<1> QED BY <1>1 DEF Within

LEMMA ForecastTableExists ==
    ASSUME NEW t, NEW until \in Nat
    PROVE  \E g : ForecastTable(g, t, until)
<1> DEFINE UpTo(n, g) == g = [rt \in Within(n, until) |->
                                IF rt.nextDue <= until /\ HasInstallmentsLeft(rt)
                                THEN {Occurrence(t, rt)} \cup g[CopyAfterBooking(rt)]
                                ELSE {}]
           Good == {n \in Nat : \E g : UpTo(n, g)}
<1>1. 0 \in Good
  <2> DEFINE g == [rt \in Within(0, until) |-> {}]
  <2>1. UpTo(0, g)
    BY WithinFacts
  <2> QED BY <2>1
<1>2. ASSUME NEW n \in Nat, n \in Good PROVE n + 1 \in Good
  <2>1. PICK g : UpTo(n, g)
    BY <1>2
  <2> DEFINE h == [rt \in Within(n + 1, until) |->
                     IF rt.nextDue <= until /\ HasInstallmentsLeft(rt)
                     THEN {Occurrence(t, rt)} \cup g[CopyAfterBooking(rt)]
                     ELSE {}]
  <2>2. ASSUME NEW rt \in Within(n, until) PROVE rt \in Within(n + 1, until) /\ h[rt] = g[rt]
    <3>1. rt \in Within(n + 1, until)
      BY WithinFacts
    <3>2. g[rt] = IF rt.nextDue <= until /\ HasInstallmentsLeft(rt)
                  THEN {Occurrence(t, rt)} \cup g[CopyAfterBooking(rt)]
                  ELSE {}
      BY <2>1
    <3> QED BY <3>1, <3>2
  <2>3. UpTo(n + 1, h)
    <3> SUFFICES ASSUME NEW rt \in Within(n + 1, until)
                 PROVE  g[CopyAfterBooking(rt)] = h[CopyAfterBooking(rt)]
      OBVIOUS
    <3>1. CopyAfterBooking(rt) \in Within(n, until)
      BY WithinFacts
    <3> HIDE DEF h
    <3> QED BY <2>2, <3>1
  <2> HIDE DEF UpTo, h
  <2> QED BY <2>3
<1>3. until + 1 \in Good
  <2> HIDE DEF Good
  <2>1. Nat \subseteq Good
    BY <1>1, <1>2, InductionOnNat
  <2> QED BY <2>1
<1>4. PICK g : UpTo(until + 1, g)
  BY <1>3
<1>5. Within(until + 1, until) = Template
  BY WithinFacts
<1>6. ForecastTable(g, t, until)
  BY <1>4, <1>5 DEF ForecastTable
<1> QED BY <1>6

LEMMA UpcomingUnrolls ==
    ASSUME NEW t, NEW until \in Nat, NEW rt \in Template
    PROVE  UpcomingFrom(t, until, rt) =
             IF rt.nextDue <= until /\ HasInstallmentsLeft(rt)
             THEN {Occurrence(t, rt)} \cup UpcomingFrom(t, until, CopyAfterBooking(rt))
             ELSE {}
<1> DEFINE g == CHOOSE h : ForecastTable(h, t, until)
<1>1. ForecastTable(g, t, until)
  BY ForecastTableExists, Zenon
<1>2. g = [row \in Template |->
              IF row.nextDue <= until /\ HasInstallmentsLeft(row)
              THEN {Occurrence(t, row)} \cup g[CopyAfterBooking(row)]
              ELSE {}]
  BY <1>1, Zenon DEF ForecastTable
<1> HIDE DEF g
<1>3. g[rt] = IF rt.nextDue <= until /\ HasInstallmentsLeft(rt)
              THEN {Occurrence(t, rt)} \cup g[CopyAfterBooking(rt)]
              ELSE {}
  BY <1>2
<1> QED BY <1>3 DEF UpcomingFrom, g

(* What is announced from a copy on is due on its date or later, and not   *)
(* after the end of the forecast.                                          *)
Announced(o, t, until, rt) ==
    /\ o \in [template : {t}, date : Dates, amount : Nat]
    /\ rt.nextDue <= o.date /\ o.date <= until

LEMMA UpcomingLater ==
    ASSUME NEW t, NEW until \in Nat, NEW rt \in Template
    PROVE  \A o \in UpcomingFrom(t, until, rt) : Announced(o, t, until, rt)
<1> DEFINE Fine(row) == \A o \in UpcomingFrom(t, until, row) : Announced(o, t, until, row)
           Good == {n \in Nat : \A row \in Within(n, until) : Fine(row)}
<1>1. 0 \in Good
  <2>1. ASSUME NEW row \in Within(0, until) PROVE Fine(row)
    <3>1. row \in Template /\ ~ (row.nextDue <= until)
      BY WithinFacts
    <3>2. UpcomingFrom(t, until, row) = {}
      BY <3>1, UpcomingUnrolls
    <3> QED BY <3>2
  <2> QED BY <2>1
<1>2. ASSUME NEW n \in Nat, n \in Good PROVE n + 1 \in Good
  <2>1. ASSUME NEW row \in Within(n + 1, until) PROVE Fine(row)
    <3> DEFINE copy == CopyAfterBooking(row)
    <3>1. row \in Template /\ copy \in Within(n, until)
      BY WithinFacts DEF Within
    <3>2. Fine(copy)
      BY <1>2, <3>1
    <3>3. /\ copy.nextDue > row.nextDue /\ copy.nextDue \in Nat /\ row.nextDue \in Nat
          /\ row.nextDue \in Dates /\ NextAmountCents(row) \in Nat
      BY <3>1, NextCopy, TemplateFields, NextAmountType
    <3> HIDE DEF copy
    <3>4. ASSUME NEW o \in UpcomingFrom(t, until, copy) PROVE Announced(o, t, until, row)
      <4>1. Announced(o, t, until, copy)
        BY <3>2
      <4>2. o.date \in Nat
        BY <4>1 DEF Announced, Dates
      <4> QED BY <3>3, <4>1, <4>2 DEF Announced
    <3>5. row.nextDue <= until => Announced(Occurrence(t, row), t, until, row)
      BY <3>3 DEF Announced, Occurrence
    <3>6. UpcomingFrom(t, until, row) =
            IF row.nextDue <= until /\ HasInstallmentsLeft(row)
            THEN {Occurrence(t, row)} \cup UpcomingFrom(t, until, copy)
            ELSE {}
      BY <3>1, UpcomingUnrolls DEF copy
    <3> QED BY <3>4, <3>5, <3>6
  <2> QED BY <2>1
<1>3. until + 1 \in Good
  <2> HIDE DEF Good
  <2>1. Nat \subseteq Good
    BY <1>1, <1>2, InductionOnNat
  <2> QED BY <2>1
<1>4. Within(until + 1, until) = Template
  BY WithinFacts
<1> QED BY <1>3, <1>4

LEMMA EndOfMonthIsDate ==
    ASSUME NEW day \in Dates
    PROVE  EndOfMonth(day) \in Dates /\ EndOfMonth(day) \in Nat /\ EndOfMonth(day) # 0
<1>1. /\ YearOf(day) \in Nat /\ MonthOf(day) \in 1..12
      /\ DaysIn(YearOf(day), MonthOf(day)) \in 28..31
  BY PartsOfDate, DaysInRange
<1>2. DaysIn(YearOf(day), MonthOf(day)) \in 1..DaysIn(YearOf(day), MonthOf(day))
  BY <1>1
<1>3. EndOfMonth(day) \in Dates
  BY <1>1, <1>2, PartsMakeDate DEF EndOfMonth
<1>4. 0 \notin Dates
  BY DEF Dates, MonthOf
<1> QED BY <1>3, <1>4 DEF Dates

(***************************************************************************)
(* The overview's steps are the page's, or only look                       *)
(***************************************************************************)
LEMMA OverviewActsAsPage ==
    ASSUME [OverviewNext]_overviewVars
    PROVE  [SettingsNext]_settingsVars
<1>1. GetOverview => UNCHANGED settingsVars
  BY DEF GetOverview, Requested, ReadTotal, ReadAccounts, ReadList, ReadForecast, ReadBookings,
         Reads, settingsVars
<1>2. SchedulerActs \/ ProcessExits \/ UserActs => SettingsNext
  BY DEF SchedulerActs, ProcessExits, UserActs, SettingsNext
<1>3. UNCHANGED overviewVars => UNCHANGED settingsVars
  BY DEF overviewVars, settingsVars
<1> QED BY <1>1, <1>2, <1>3 DEF OverviewNext

(* Only users use up the bound on their requests. *)
LEMMA SchedulerStepKinds ==
    ASSUME Sound, [Next]_vars, UNCHANGED edits
    PROVE  QuietStep \/ ListStep \/ \E t \in TemplateIds : BookStep(t)
<1>1. edits \in Nat
  BY SchedulerAssumption DEF Sound, TypeOK
<1>2. ~ UserEdits
  BY <1>1 DEF UserEdits
<1>3. /\ ~ \E req \in Requests : UserCreates(req)
      /\ ~ \E t \in TemplateIds, req \in Requests : UserUpdates(t, req)
      /\ ~ \E t \in TemplateIds : UserDeletes(t)
      /\ ~ \E t \in TemplateIds, cents \in ExtraAmounts : UserPaysExtra(t, cents)
  BY <1>2 DEF UserCreates, UserUpdates, UserDeletes, UserPaysExtra
<1> QED BY <1>3, StepKinds

LEMMA SchedulerKeepsEdits ==
    ASSUME PassStep \/ Start \/ TickerFires \/ ReceiveTick \/ Exit \/ DayPasses
    PROVE  UNCHANGED edits
<1>1. PassStep => UNCHANGED edits
  BY DEF PassStep, List, Book, PassFails
<1>2. Start \/ TickerFires \/ ReceiveTick \/ DayPasses \/ Exit => UNCHANGED edits
  BY DEF Start, TickerFires, ReceiveTick, DayPasses, Exit
<1> QED BY <1>1, <1>2

(* A user's request may enter a payment, which is not a recurring booking, *)
(* and leaves the pass as it is.                                           *)
LEMMA UserEnters ==
    ASSUME Sound, SettingsTypeOK, Requests = Request, SettingsStep
    PROVE  /\ UNCHANGED pending
           /\ \/ UNCHANGED transactions
              \/ \E row \in Transaction : /\ row.source = "manual"
                                          /\ transactions' = Append(transactions, row)
           /\ rewound \subseteq rewound'
<1> DEFINE Goal == /\ UNCHANGED pending
                   /\ \/ UNCHANGED transactions
                      \/ \E row \in Transaction : /\ row.source = "manual"
                                                  /\ transactions' = Append(transactions, row)
                   /\ rewound \subseteq rewound'
<1>1. Looking => Goal
  BY DEF Looking, vars, store, pass, history
<1>2. PageEdit => Goal
  BY DEF PageEdit, EditWritten, UserUpdates, UserEdits, UpdateRecurringTemplate, pass
<1>3. ASSUME OtherRequest PROVE Goal
  <2>1. ASSUME NEW req, UserCreates(req) PROVE Goal
    BY <2>1 DEF UserCreates, UserEdits, CreateRecurringTemplate, pass
  <2>2. ASSUME NEW t, UserDeletes(t) PROVE Goal
    BY <2>2 DEF UserDeletes, UserEdits, DeleteRecurringTemplate, pass
  <2>3. ASSUME NEW t \in TemplateIds, NEW cents \in ExtraAmounts, UserPaysExtra(t, cents) PROVE Goal
    <3> DEFINE row == ExtraPaymentRow(t, cents, today)
    <3>1. t \in DOMAIN templates /\ transactions' = Append(transactions, row)
      BY <2>3 DEF UserPaysExtra, AddExtraPayment
    <3>2. templates[t] \in Template /\ today \in Dates /\ cents \in Nat
      BY <3>1, RowTypes, SchedulerAssumption DEF Sound, TypeOK
    <3>3. row \in Transaction /\ row.source = "manual"
      BY <3>2 DEF ExtraPaymentRow, Transaction, Template
    <3>4. UNCHANGED <<pending, rewound>>
      BY <2>3 DEF UserPaysExtra, UserEdits, pass
    <3> HIDE DEF row
    <3> QED BY <3>1, <3>3, <3>4
  <2>4. ASSUME NEW c, UserDeletesCategory(c) \/ UserDeletesAccount(c) PROVE Goal
    BY <2>4 DEF UserDeletesCategory, UserDeletesAccount, UserEdits, DeleteCategory, DeleteAccount,
                pass, history
  <2> HIDE DEF Goal
  <2> QED BY <1>3, <2>1, <2>2, <2>3, <2>4 DEF OtherRequest
<1> HIDE DEF Goal
<1>4. Goal
  BY <1>1, <1>2, <1>3, PageStepKinds
<1> QED BY <1>4 DEF Goal

(***************************************************************************)
(* Bookings are only appended                                              *)
(***************************************************************************)
JournalGrows ==
    /\ transactions' \in Seq(Transaction)
    /\ Len(transactions) \in Nat /\ Len(transactions') \in Nat
    /\ Len(transactions) <= Len(transactions')
    /\ DOMAIN transactions = 1..Len(transactions)
    /\ DOMAIN transactions' = 1..Len(transactions')
    /\ \A i \in 1..Len(transactions) : transactions'[i] = transactions[i]
    /\ rewound \subseteq rewound'

LEMMA JournalAppends ==
    ASSUME transactions \in Seq(Transaction), rewound \subseteq rewound',
           \/ UNCHANGED transactions
           \/ \E row \in Transaction : transactions' = Append(transactions, row)
    PROVE  JournalGrows
<1>1. CASE UNCHANGED transactions
  BY <1>1 DEF JournalGrows
<1>2. ASSUME NEW row \in Transaction, transactions' = Append(transactions, row)
      PROVE  JournalGrows
  <2>1. transactions' \in Seq(Transaction)
    BY <1>2
  <2> QED BY <1>2, <2>1, AppendFacts DEF JournalGrows
<1> QED BY <1>1, <1>2

LEMMA JournalStep ==
    ASSUME Sound, SettingsTypeOK, Requests = Request, [SettingsNext]_settingsVars
    PROVE  JournalGrows
<1>1. transactions \in Seq(Transaction)
  BY RowTypes
<1>2. CASE SettingsStep
  BY <1>1, <1>2, UserEnters, JournalAppends
<1>3. ASSUME QuietStep \/ ListStep PROVE JournalGrows
  BY <1>1, <1>3, JournalAppends DEF QuietStep, ListStep, rows
<1>4. ASSUME NEW t \in TemplateIds, BookStep(t) PROVE JournalGrows
  BY <1>1, <1>4, BookStepFacts, JournalAppends
<1>5. CASE ~ SettingsStep
  <2>1. UNCHANGED edits
    <3>1. UNCHANGED settingsVars => UNCHANGED edits
      BY DEF settingsVars, vars
    <3> QED BY <1>5, <3>1, SchedulerKeepsEdits DEF SettingsNext
  <2> QED BY <1>3, <1>4, <2>1, PageActsAsUser, SchedulerStepKinds
<1> QED BY <1>2, <1>5

(***************************************************************************)
(* One booking, announced and then made                                    *)
(***************************************************************************)
EntryOf(row) == [template |-> row.template, date |-> row.date, amount |-> row.amount]

Counts(row, t, until) == row.source = "recurring" /\ row.template = t /\ row.date <= until

BookedOf(journal, t, before, until) ==
    {EntryOf(journal[i]) : i \in {j \in DOMAIN journal : j > before /\ Counts(journal[j], t, until)}}

LEMMA BookedIsSince ==
    ASSUME NEW t
    PROVE  BookedSince(t) = BookedOf(transactions, t, page.bookedBefore, page.until)
BY DEF BookedSince, BookedOf, OccurrenceOf, EntryOf, Counts, IsRecurring

LEMMA NothingBookedYet ==
    ASSUME NEW journal \in Seq(Transaction), NEW t, NEW until
    PROVE  BookedOf(journal, t, Len(journal), until) = {}
BY DEF BookedOf

LEMMA BookedOfAppend ==
    ASSUME NEW journal \in Seq(Transaction), NEW row \in Transaction, NEW t, NEW until,
           NEW before \in 0..Len(journal)
    PROVE  BookedOf(Append(journal, row), t, before, until) =
             BookedOf(journal, t, before, until)
               \cup (IF Counts(row, t, until) THEN {EntryOf(row)} ELSE {})
<1> DEFINE longer == Append(journal, row)
           n == Len(journal)
<1>1. /\ n \in Nat /\ DOMAIN journal = 1..n /\ DOMAIN longer = 1..(n + 1)
      /\ longer[n + 1] = row /\ \A i \in 1..n : longer[i] = journal[i]
      /\ n + 1 > before
  OBVIOUS
<1> HIDE DEF longer, n
<1>2. ASSUME NEW e \in BookedOf(longer, t, before, until)
      PROVE  e \in BookedOf(journal, t, before, until)
               \cup (IF Counts(row, t, until) THEN {EntryOf(row)} ELSE {})
  <2>1. PICK i \in DOMAIN longer : /\ i > before /\ Counts(longer[i], t, until)
                                   /\ e = EntryOf(longer[i])
    BY <1>2 DEF BookedOf
  <2>2. CASE i = n + 1
    BY <1>1, <2>1, <2>2
  <2>3. CASE i \in 1..n
    BY <1>1, <2>1, <2>3 DEF BookedOf
  <2> QED BY <1>1, <2>1, <2>2, <2>3
<1>3. ASSUME NEW e \in BookedOf(journal, t, before, until) PROVE e \in BookedOf(longer, t, before, until)
  <2>1. PICK i \in DOMAIN journal : /\ i > before /\ Counts(journal[i], t, until)
                                    /\ e = EntryOf(journal[i])
    BY <1>3 DEF BookedOf
  <2> QED BY <1>1, <2>1 DEF BookedOf
<1>4. Counts(row, t, until) => EntryOf(row) \in BookedOf(longer, t, before, until)
  BY <1>1 DEF BookedOf
<1> QED BY <1>2, <1>3, <1>4 DEF longer

(* The page's announcement for one template, against its row and what was  *)
(* booked since: what lies ahead is what the row would still book, what    *)
(* lies behind is what was booked.                                         *)
AheadOf(t, rt, upcoming) == {o \in upcoming : o.template = t /\ o.date >= rt.nextDue}
BehindOf(t, rt, upcoming) == {o \in upcoming : o.template = t /\ o.date < rt.nextDue}

StillToBook(t, rt, until) == IF rt.active THEN UpcomingFrom(t, until, rt) ELSE {}

Kept(t, rt, journal, pg) ==
    /\ AheadOf(t, rt, pg.upcoming) = StillToBook(t, rt, pg.until)
    /\ BookedOf(journal, t, pg.bookedBefore, pg.until) = BehindOf(t, rt, pg.upcoming)

(* A pass goes on from the row, and stops where the forecast stops.        *)
LEMMA RestAfterBooking ==
    ASSUME NEW t, NEW until \in Nat, NEW rt \in Template, rt.active, HasInstallmentsLeft(rt)
    PROVE  StillToBook(t, RowAfterBooking(rt, rt), until)
             = UpcomingFrom(t, until, CopyAfterBooking(rt))
<1> DEFINE row == RowAfterBooking(rt, rt)
           copy == CopyAfterBooking(rt)
<1>1. CASE HasInstallmentsLeft(copy)
  <2>1. copy = row
    BY <1>1, CopyFollowsRow
  <2>2. copy.active = rt.active
    BY DEF CopyAfterBooking, Template
  <2> QED BY <2>1, <2>2 DEF StillToBook
<1>2. CASE ~ HasInstallmentsLeft(copy)
  <2>1. UpcomingFrom(t, until, copy) = {}
    BY <1>2, UpcomingUnrolls, NextCopy
  <2>2. rt.limited \in BOOLEAN /\ rt.active \in BOOLEAN /\ rt.remaining \in Int
    BY TemplateFields
  <2>3. rt.limited /\ ~ (rt.remaining - 1 > 0)
    <3>1. copy.limited = rt.limited /\ copy.remaining = IF rt.limited THEN rt.remaining - 1 ELSE rt.remaining
      BY DEF CopyAfterBooking, Template
    <3> QED BY <1>2, <2>2, <3>1 DEF HasInstallmentsLeft
  <2>4. row.active = FALSE
    <3>1. row.active = (rt.active /\ (rt.limited => rt.remaining - 1 > 0))
      BY <2>2 DEF RowAfterBooking, Template
    <3> QED BY <2>3, <3>1
  <2> QED BY <2>1, <2>4 DEF StillToBook
<1> QED BY <1>1, <1>2

LEMMA BookingKeepsForecast ==
    ASSUME NEW t \in TemplateIds, NEW rt \in Template, rt.active, HasInstallmentsLeft(rt),
           NEW journal \in Seq(Transaction), NEW pg, pg.until \in Nat,
           pg.bookedBefore \in 0..Len(journal),
           pg.upcoming \subseteq [template : TemplateIds, date : Dates, amount : Nat],
           BookingRow(t, rt) \in Transaction, Kept(t, rt, journal, pg)
    PROVE  Kept(t, RowAfterBooking(rt, rt), Append(journal, BookingRow(t, rt)), pg)
<1> DEFINE row == RowAfterBooking(rt, rt)
           copy == CopyAfterBooking(rt)
           up == pg.upcoming
           rest == UpcomingFrom(t, pg.until, copy)
           occurrence == Occurrence(t, rt)
           booked == BookingRow(t, rt)
<1>1. /\ rt.nextDue \in Nat /\ copy.nextDue \in Nat /\ copy.nextDue > rt.nextDue
      /\ copy \in Template /\ row.nextDue = copy.nextDue
  <2>1. row.nextDue = Advance(rt) /\ copy.nextDue = Advance(rt)
    BY DEF RowAfterBooking, CopyAfterBooking, Template
  <2> QED BY <2>1, NextCopy, TemplateFields
<1>2. \A o \in up : o.date \in Nat
  BY DEF Dates
<1>3. \A o \in rest : o.template = t /\ o.date \in Nat /\ o.date >= copy.nextDue
  <2>1. \A o \in rest : Announced(o, t, pg.until, copy)
    BY <1>1, UpcomingLater
  <2> QED BY <2>1 DEF Announced, Dates
<1>4. occurrence.template = t /\ occurrence.date = rt.nextDue
  BY DEF Occurrence
<1>5. /\ EntryOf(booked) = occurrence
      /\ Counts(booked, t, pg.until) <=> rt.nextDue <= pg.until
  BY DEF EntryOf, Counts, BookingRow, Occurrence
<1>6. AheadOf(t, rt, up) = IF rt.nextDue <= pg.until THEN {occurrence} \cup rest ELSE {}
  <2>1. AheadOf(t, rt, up) = UpcomingFrom(t, pg.until, rt)
    BY DEF Kept, StillToBook
  <2>2. UpcomingFrom(t, pg.until, rt) = IF rt.nextDue <= pg.until THEN {occurrence} \cup rest ELSE {}
    BY UpcomingUnrolls
  <2> QED BY <2>1, <2>2
<1>7. ~ (rt.nextDue <= pg.until) => rest = {}
  <2>1. ~ (rt.nextDue <= pg.until) => ~ (copy.nextDue <= pg.until)
    BY <1>1
  <2> QED BY <1>1, <2>1, UpcomingUnrolls
<1>8. BookedOf(Append(journal, booked), t, pg.bookedBefore, pg.until) =
        BehindOf(t, rt, up) \cup (IF rt.nextDue <= pg.until THEN {occurrence} ELSE {})
  <2>1. BookedOf(Append(journal, booked), t, pg.bookedBefore, pg.until) =
          BookedOf(journal, t, pg.bookedBefore, pg.until)
            \cup (IF Counts(booked, t, pg.until) THEN {EntryOf(booked)} ELSE {})
    BY BookedOfAppend
  <2> QED BY <1>5, <2>1 DEF Kept
<1>9. StillToBook(t, row, pg.until) = rest
  BY RestAfterBooking
<1> HIDE DEF row, copy, up, rest, occurrence, booked
<1>10. AheadOf(t, row, up) = rest
  <2>1. ASSUME NEW o \in AheadOf(t, row, up) PROVE o \in rest
    <3>1. o \in AheadOf(t, rt, up) /\ o.date >= copy.nextDue
      BY <1>1, <1>2, <2>1 DEF AheadOf
    <3> QED BY <1>1, <1>4, <1>6, <3>1
  <2>2. ASSUME NEW o \in rest PROVE o \in AheadOf(t, row, up)
    <3>1. o \in AheadOf(t, rt, up)
      BY <1>6, <1>7, <2>2
    <3> QED BY <1>1, <1>3, <2>2, <3>1 DEF AheadOf
  <2> QED BY <2>1, <2>2
<1>11. BehindOf(t, row, up) = BehindOf(t, rt, up) \cup (IF rt.nextDue <= pg.until THEN {occurrence} ELSE {})
  <2>1. ASSUME NEW o \in BehindOf(t, row, up), o \notin BehindOf(t, rt, up)
        PROVE  rt.nextDue <= pg.until /\ o = occurrence
    <3>1. o \in AheadOf(t, rt, up) /\ o.date < copy.nextDue
      BY <1>1, <1>2, <2>1 DEF AheadOf, BehindOf
    <3>2. o \notin rest
      BY <1>1, <1>3, <3>1
    <3> QED BY <1>6, <3>1, <3>2
  <2>2. ASSUME NEW o \in BehindOf(t, rt, up) PROVE o \in BehindOf(t, row, up)
    BY <1>1, <1>2, <2>2 DEF BehindOf
  <2>3. ASSUME rt.nextDue <= pg.until PROVE occurrence \in BehindOf(t, row, up)
    <3>1. occurrence \in AheadOf(t, rt, up)
      BY <1>6, <2>3
    <3> QED BY <1>1, <1>4, <3>1 DEF AheadOf, BehindOf
  <2> QED BY <2>1, <2>2, <2>3
<1> QED BY <1>8, <1>9, <1>10, <1>11 DEF Kept, row, copy, up, rest, occurrence, booked

(***************************************************************************)
(* What holds together beside the overview                                 *)
(***************************************************************************)

(* A pass holds copies of active rows only. *)
CopiesActive == \A t \in DOMAIN pending : pending[t].active

LEMMA ActiveStep ==
    ASSUME Sound, CopiesActive, [Next]_vars
    PROVE  CopiesActive'
<1>1. ASSUME UNCHANGED pending \/ DOMAIN pending' = {} PROVE CopiesActive'
  BY <1>1 DEF CopiesActive
<1>2. ASSUME ListStep PROVE CopiesActive'
  BY <1>1, <1>2 DEF ListStep, Listed, ActiveDue, CopiesActive
<1>3. ASSUME NEW t \in TemplateIds, BookStep(t) PROVE CopiesActive'
  <2>1. CASE DOMAIN pending' = {}
    BY <1>1, <2>1
  <2>2. CASE pending' = CopiesAfterBooking(t)
    <3>1. t \in DOMAIN pending /\ pending[t] \in Template
      BY <1>3, BookStepFacts DEF BookStep
    <3>2. CopyAfterBooking(pending[t]).active = pending[t].active
      BY <3>1 DEF CopyAfterBooking, Template
    <3>3. \A u \in DOMAIN pending' :
             /\ u \in DOMAIN pending
             /\ pending'[u] = IF u = t THEN CopyAfterBooking(pending[t]) ELSE pending[u]
      BY <2>2 DEF CopiesAfterBooking
    <3> QED BY <3>1, <3>2, <3>3 DEF CopiesActive
  <2> QED BY <1>3, <2>1, <2>2 DEF BookStep
<1>4. QuietStep => CopiesActive'
  BY <1>1 DEF QuietStep
<1> QED BY <1>1, <1>2, <1>3, <1>4, StepKinds

(* Of every template left alone since the forecast, the page's entries are *)
(* kept, and a pass that holds a copy of it holds the row as it is.        *)
LeftAlone(t) ==
    /\ Kept(t, templates[t], transactions, page)
    /\ t \in DOMAIN pending => pending[t] = templates[t]

ForecastKept ==
    /\ page.read < Len(ReadOrder) => page.until = 0
    /\ page.until = 0 => page.upcoming = {}
    /\ page.until # 0 => \A t \in DOMAIN templates \ touched : LeftAlone(t)

(* The page itself, whatever its figures are taken from. *)
ShownTypes ==
    /\ page \in [read : 0..Len(ReadOrder), shown : 0..Len(transactions),
                 upcoming : SUBSET [template : TemplateIds, date : Dates, amount : Nat],
                 until : Dates \cup {0}, bookedBefore : 0..Len(transactions)]
    /\ touched \subseteq TemplateIds

OverviewInvariant ==
    /\ PageInvariant
    /\ CopiesFresh
    /\ CopiesActive
    /\ ShownTypes
    /\ ForecastKept
    /\ PendingNotBooked

LEMMA FourQueries == Len(ReadOrder) = 4 /\ ReadOrder[4] = "forecast" /\ ReadOrder[3] = "list"
                     /\ ReadOrder[2] = "accounts" /\ ReadOrder[1] = "total"
BY DEF ReadOrder

LEMMA NoPageFields ==
    /\ NoPage.read = 4 /\ NoPage.shown = 0 /\ NoPage.upcoming = {} /\ NoPage.until = 0
    /\ NoPage.bookedBefore = 0
BY FourQueries DEF NoPage

(* Without a forecast there is nothing to keep. *)
NothingAnnounced == page.until = 0 /\ page.upcoming = {}

LEMMA NothingToKeep ==
    ASSUME NothingAnnounced
    PROVE  ForecastKept /\ PendingNotBooked
BY DEF NothingAnnounced, ForecastKept, PendingNotBooked

(* A page that is there keeps its types as the journal grows.              *)
LEMMA ShownTypesKept ==
    ASSUME ShownTypes, JournalGrows, UNCHANGED page, touched' \subseteq TemplateIds
    PROVE  ShownTypes'
<1>1. /\ page.shown \in 0..Len(transactions) /\ page.bookedBefore \in 0..Len(transactions)
      /\ Len(transactions) \in Nat /\ Len(transactions') \in Nat
      /\ Len(transactions) <= Len(transactions')
  BY DEF ShownTypes, JournalGrows
<1>2. page.shown \in 0..Len(transactions') /\ page.bookedBefore \in 0..Len(transactions')
  BY <1>1
<1> QED BY <1>2 DEF ShownTypes

LEMMA PendingKept ==
    ASSUME ShownTypes, JournalGrows, PendingNotBooked, UNCHANGED page
    PROVE  PendingNotBooked'
<1> SUFFICES ASSUME NEW o \in page.upcoming, NEW i \in DOMAIN transactions',
                    i <= page.shown, transactions'[i].source = "recurring",
                    transactions'[i].template = o.template, transactions'[i].date = o.date
             PROVE  o.template \in rewound'
  BY DEF PendingNotBooked, IsRecurring
<1>1. i \in DOMAIN transactions /\ transactions'[i] = transactions[i]
  BY DEF ShownTypes, JournalGrows
<1>2. o.template \in rewound
  BY <1>1 DEF PendingNotBooked, IsRecurring
<1> QED BY <1>2 DEF JournalGrows

(***************************************************************************)
(* The steps of the overview                                               *)
(***************************************************************************)
LEMMA PageFields ==
    ASSUME ShownTypes
    PROVE  /\ page.read \in 0..4
           /\ page.shown \in 0..Len(transactions) /\ page.bookedBefore \in 0..Len(transactions)
           /\ page.upcoming \subseteq [template : TemplateIds, date : Dates, amount : Nat]
           /\ page.until \in Dates \cup {0} /\ page.until \in Nat
           /\ touched \subseteq TemplateIds
BY FourQueries DEF ShownTypes, Dates

LEMMA NewPageTypes ==
    ASSUME transactions \in Seq(Transaction), touched \subseteq TemplateIds,
           page = NoPage \/ page = [NoPage EXCEPT !.read = 0]
    PROVE  ShownTypes /\ NothingAnnounced
<1>1. Len(ReadOrder) = 4 /\ Len(transactions) \in Nat
  BY FourQueries
<1> QED BY <1>1 DEF ShownTypes, NothingAnnounced, NoPage

LEMMA ReadBookingsStep ==
    ASSUME OverviewInvariant, transactions \in Seq(Transaction),
           ReadTotal \/ ReadAccounts \/ ReadList
    PROVE  ShownTypes' /\ NothingAnnounced'
<1>1. page.read \in 0..4 /\ Len(transactions) \in Nat
  BY PageFields DEF OverviewInvariant
<1>2. PICK what \in {"total", "accounts", "list"} : ReadBookings(what)
  BY DEF ReadTotal, ReadAccounts, ReadList
<1>3. /\ page.read < 4 /\ ReadOrder[page.read + 1] = what
      /\ UNCHANGED <<transactions, touched>>
      /\ page' = [page EXCEPT !.read = page.read + 1, !.shown = Len(transactions)]
  BY <1>2, FourQueries DEF ReadBookings, Reads, vars, store
<1>4. NothingAnnounced
  BY <1>3, FourQueries DEF OverviewInvariant, ForecastKept, NothingAnnounced
<1>5. ShownTypes'
  <2>1. page.read + 1 \in 0..Len(ReadOrder) /\ Len(transactions) \in 0..Len(transactions)
    BY <1>1, <1>3, FourQueries
  <2> QED BY <1>3, <2>1 DEF OverviewInvariant, ShownTypes
<1>6. page'.until = page.until /\ page'.upcoming = page.upcoming
  BY <1>3 DEF OverviewInvariant, ShownTypes
<1> QED BY <1>4, <1>5, <1>6 DEF NothingAnnounced

(* What the forecast reads, for one template. *)
LEMMA UpcomingOf ==
    ASSUME Sound, NEW until \in Nat, NEW t \in DOMAIN templates
    PROVE  /\ AheadOf(t, templates[t], ListUpcomingRecurring(until)) = StillToBook(t, templates[t], until)
           /\ BehindOf(t, templates[t], ListUpcomingRecurring(until)) = {}
<1> DEFINE all == ListUpcomingRecurring(until)
<1>1. \A u \in DOMAIN templates : templates[u] \in Template /\ templates[u].nextDue \in Nat
  BY RowTypes, TemplateFields
<1>2. ASSUME NEW o \in all
      PROVE  \E u \in DOMAIN templates : /\ templates[u].active
                                         /\ o \in UpcomingFrom(u, until, templates[u])
  BY ForecastIsUpcoming DEF ListUpcomingRecurring
<1>3. ASSUME NEW u \in DOMAIN templates, templates[u].active,
             NEW o \in UpcomingFrom(u, until, templates[u])
      PROVE  /\ o \in all /\ o.template = u
             /\ o.date \in Nat /\ o.date >= templates[u].nextDue
  <2>1. o \in all
    BY <1>3, ForecastIsUpcoming DEF ListUpcomingRecurring
  <2>2. Announced(o, u, until, templates[u])
    BY <1>1, <1>3, UpcomingLater
  <2> QED BY <2>1, <2>2 DEF Announced, Dates
<1> HIDE DEF all
<1>4. ASSUME NEW o \in all, o.template = t
      PROVE  /\ templates[t].active /\ o \in UpcomingFrom(t, until, templates[t])
             /\ o.date \in Nat /\ o.date >= templates[t].nextDue
  BY <1>2, <1>3, <1>4
<1>5. AheadOf(t, templates[t], all) = StillToBook(t, templates[t], until)
  BY <1>3, <1>4 DEF AheadOf, StillToBook
<1>6. BehindOf(t, templates[t], all) = {}
  BY <1>1, <1>4 DEF BehindOf
<1> QED BY <1>5, <1>6 DEF all

LEMMA UpcomingTypes ==
    ASSUME Sound, NEW until \in Nat
    PROVE  ListUpcomingRecurring(until) \subseteq [template : TemplateIds, date : Dates, amount : Nat]
<1>1. ASSUME NEW t \in DOMAIN templates, NEW o \in ForecastOf(t, until)
      PROVE  o \in [template : TemplateIds, date : Dates, amount : Nat]
  <2>1. templates[t] \in Template /\ t \in TemplateIds
    BY LastOfTypes, RowTypes
  <2>2. Announced(o, t, until, templates[t])
    BY <1>1, <2>1, ForecastIsUpcoming, UpcomingLater
  <2> QED BY <2>1, <2>2 DEF Announced
<1> QED BY <1>1 DEF ListUpcomingRecurring

LEMMA ReadForecastStep ==
    ASSUME OverviewInvariant, ReadForecast
    PROVE  ShownTypes' /\ ForecastKept' /\ PendingNotBooked'
<1> DEFINE end == EndOfMonth(today)
           all == ListUpcomingRecurring(end)
           n == Len(transactions)
<1>1. Sound /\ CopiesFresh /\ BookedBeforeDue /\ ShownTypes
  BY DEF OverviewInvariant, PageInvariant
<1>2. /\ transactions \in Seq(Transaction) /\ n \in Nat /\ raced \subseteq TemplateIds
      /\ DOMAIN transactions = 1..n
  BY <1>1, RowTypes DEF Sound, TypeOK, HistoryTypeOK
<1>3. end \in Dates /\ end \in Nat /\ end # 0
  BY <1>1, EndOfMonthIsDate, SchedulerAssumption DEF Sound, TypeOK
<1>4. all \subseteq [template : TemplateIds, date : Dates, amount : Nat]
  BY <1>1, <1>3, UpcomingTypes
<1>5. /\ page.read < 4 /\ ReadOrder[page.read + 1] = "forecast"
      /\ page' = [page EXCEPT !.read = page.read + 1, !.upcoming = all, !.until = end,
                              !.bookedBefore = n]
      /\ touched' = raced
      /\ UNCHANGED <<templates, transactions, pending, rewound>>
  BY FourQueries DEF ReadForecast, Reads, vars, store, pass, history
<1> HIDE DEF end, all, n
<1>6. page.read \in 0..4
  BY <1>1, PageFields
<1>7. /\ page'.read = 4 /\ page'.upcoming = all /\ page'.until = end /\ page'.bookedBefore = n
      /\ page'.shown = page.shown
  <2>1. page.read + 1 = 4
    BY <1>5, <1>6, FourQueries
  <2> QED BY <1>1, <1>5, <2>1 DEF ShownTypes
<1>8. ShownTypes'
  <2>1. /\ page.read + 1 \in 0..Len(ReadOrder) /\ n \in 0..Len(transactions) /\ Len(transactions') = n
    BY <1>2, <1>5, <1>6, FourQueries DEF n
  <2> QED BY <1>1, <1>2, <1>3, <1>4, <1>5, <2>1 DEF ShownTypes
<1>9. ASSUME NEW t \in DOMAIN templates, t \notin raced PROVE LeftAlone(t)'
  <2>1. AheadOf(t, templates[t], all) = StillToBook(t, templates[t], end)
    BY <1>1, <1>3, UpcomingOf DEF all
  <2>2. BehindOf(t, templates[t], all) = {}
    BY <1>1, <1>3, UpcomingOf DEF all
  <2>3. BookedOf(transactions, t, n, end) = {}
    BY <1>2, NothingBookedYet DEF n
  <2>4. t \in DOMAIN pending => pending[t] = templates[t]
    BY <1>1, <1>9 DEF CopiesFresh
  <2> QED BY <1>5, <1>7, <2>1, <2>2, <2>3, <2>4 DEF LeftAlone, Kept
<1>10. ForecastKept'
  BY <1>3, <1>5, <1>7, <1>9, FourQueries DEF ForecastKept
<1>11. PendingNotBooked'
  <2> SUFFICES ASSUME NEW o \in all, NEW i \in DOMAIN transactions,
                      transactions[i].source = "recurring",
                      transactions[i].template = o.template, transactions[i].date = o.date
               PROVE  o.template \in rewound
    BY <1>5, <1>7 DEF PendingNotBooked, IsRecurring
  <2>1. PICK t \in DOMAIN templates : templates[t].active /\ o \in UpcomingFrom(t, end, templates[t])
    BY ForecastIsUpcoming DEF all, ListUpcomingRecurring
  <2>2. templates[t] \in Template /\ templates[t].nextDue \in Nat
    BY <1>1, RowTypes, TemplateFields
  <2>3. Announced(o, t, end, templates[t])
    BY <1>3, <2>1, <2>2, UpcomingLater
  <2>4. o.template = t /\ o.date \in Nat /\ o.date >= templates[t].nextDue
    BY <2>3 DEF Announced, Dates
  <2>5. t \notin rewound => transactions[i].date < templates[t].nextDue
    BY <1>1, <2>1, <2>4 DEF BookedBeforeDue, IsRecurring
  <2> QED BY <2>2, <2>4, <2>5
<1> QED BY <1>8, <1>10, <1>11

(* Beside the page: the scheduler. *)
LEMMA SchedulerKeepsForecast ==
    ASSUME OverviewInvariant, QuietStep \/ ListStep \/ (\E t \in TemplateIds : BookStep(t)),
           UNCHANGED <<page, touched>>
    PROVE  ForecastKept'
<1>1. Sound /\ CopiesFresh /\ CopiesActive /\ ShownTypes /\ ForecastKept
  BY DEF OverviewInvariant, PageInvariant
<1> SUFFICES ASSUME NEW t \in DOMAIN templates' \ touched, page.until # 0
             PROVE  LeftAlone(t)'
  BY <1>1 DEF ForecastKept
<1>2. CASE QuietStep \/ ListStep
  <2>1. UNCHANGED <<templates, transactions>> /\ t \in DOMAIN templates \ touched
    BY <1>2 DEF QuietStep, ListStep, rows
  <2>2. LeftAlone(t)
    BY <1>1, <2>1 DEF ForecastKept
  <2>3. t \in DOMAIN pending' => pending'[t] = templates'[t]
    BY <1>2, <2>1, <2>2 DEF QuietStep, ListStep, Listed, LeftAlone
  <2> QED BY <2>1, <2>2, <2>3 DEF LeftAlone, Kept
<1>3. ASSUME NEW u \in TemplateIds, BookStep(u) PROVE LeftAlone(t)'
  <2> DEFINE booked == BookingRow(u, pending[u])
  <2>1. /\ t \in DOMAIN templates \ touched
        /\ transactions' = Append(transactions, booked) /\ booked \in Transaction
        /\ u \in DOMAIN pending /\ pending[u] \in Template
        /\ transactions \in Seq(Transaction)
    BY <1>1, <1>3, BookStepFacts, RowTypes DEF BookStep
  <2>2. LeftAlone(t)
    BY <1>1, <2>1 DEF ForecastKept
  <2>3. /\ page.bookedBefore \in 0..Len(transactions) /\ page.until \in Nat
        /\ page.upcoming \subseteq [template : TemplateIds, date : Dates, amount : Nat]
    BY <1>1, PageFields
  <2>4. CASE u # t
    <3>1. templates'[t] = templates[t]
      BY <1>1, <1>3, <2>1, <2>4, BookStepFacts
    <3>2. t \in DOMAIN pending' => t \in DOMAIN pending /\ pending'[t] = pending[t]
      BY <1>1, <1>3, <2>4, BookStepFacts
    <3>3. ~ Counts(booked, t, page.until)
      BY <2>4 DEF Counts, BookingRow
    <3>4. BookedOf(Append(transactions, booked), t, page.bookedBefore, page.until)
            = BookedOf(transactions, t, page.bookedBefore, page.until)
                \cup (IF Counts(booked, t, page.until) THEN {EntryOf(booked)} ELSE {})
      BY <2>1, <2>3, BookedOfAppend
    <3>5. BookedOf(transactions', t, page.bookedBefore, page.until)
            = BookedOf(transactions, t, page.bookedBefore, page.until)
      BY <2>1, <3>3, <3>4
    <3> QED BY <2>2, <3>1, <3>2, <3>5 DEF LeftAlone, Kept
  <2>5. CASE u = t
    <3> DEFINE rt == templates[t]
    <3>1. pending[t] = rt /\ rt \in Template /\ rt.active /\ HasInstallmentsLeft(rt)
      BY <1>1, <2>1, <2>2, <2>5 DEF LeftAlone, CopiesActive, CopiesFresh
    <3>2. templates'[t] = RowAfterBooking(rt, rt)
      BY <1>1, <1>3, <2>1, <2>5, <3>1, BookStepFacts
    <3>3. Kept(t, RowAfterBooking(rt, rt), transactions', page)
      BY <2>1, <2>2, <2>3, <2>5, <3>1, BookingKeepsForecast DEF LeftAlone
    <3>4. ASSUME t \in DOMAIN pending' PROVE pending'[t] = RowAfterBooking(rt, rt)
      <4>1. pending' = CopiesAfterBooking(t)
        BY <1>3, <2>5, <3>4 DEF BookStep
      <4>2. pending'[t] = CopyAfterBooking(rt) /\ HasInstallmentsLeft(CopyAfterBooking(rt))
        BY <3>1, <3>4, <4>1 DEF CopiesAfterBooking, StillDue
      <4> QED BY <3>1, <4>2, CopyFollowsRow
    <3> HIDE DEF rt
    <3> QED BY <3>2, <3>3, <3>4 DEF LeftAlone, Kept
  <2> QED BY <2>4, <2>5
<1> QED BY <1>2, <1>3

(* And the user. *)
LEMMA UserKeepsForecast ==
    ASSUME OverviewInvariant, Requests = Request, UserActs
    PROVE  ForecastKept'
<1>1. Sound /\ SettingsTypeOK /\ ShownTypes /\ ForecastKept
  BY DEF OverviewInvariant, PageInvariant
<1>2. SettingsStep /\ touched' = touched \cup Written /\ UNCHANGED page
  BY DEF UserActs
<1>3. ASSUME NEW t \in DOMAIN templates' \ touched', page.until # 0 PROVE LeftAlone(t)'
  <2>1. t \in DOMAIN templates \ touched /\ templates'[t] = templates[t]
    BY <1>2, <1>3 DEF Written
  <2>2. LeftAlone(t)
    BY <1>1, <1>3, <2>1 DEF ForecastKept
  <2>3. UNCHANGED pending
    BY <1>1, <1>2, UserEnters
  <2>4. BookedOf(transactions', t, page.bookedBefore, page.until)
          = BookedOf(transactions, t, page.bookedBefore, page.until)
    <3>1. CASE UNCHANGED transactions
      BY <3>1
    <3>2. ASSUME NEW row \in Transaction, row.source = "manual",
                 transactions' = Append(transactions, row)
          PROVE  BookedOf(transactions', t, page.bookedBefore, page.until)
                   = BookedOf(transactions, t, page.bookedBefore, page.until)
      <4>1. ~ Counts(row, t, page.until)
        BY <3>2 DEF Counts
      <4>2. transactions \in Seq(Transaction) /\ page.bookedBefore \in 0..Len(transactions)
        BY <1>1, RowTypes, PageFields
      <4>3. BookedOf(Append(transactions, row), t, page.bookedBefore, page.until)
              = BookedOf(transactions, t, page.bookedBefore, page.until)
                  \cup (IF Counts(row, t, page.until) THEN {EntryOf(row)} ELSE {})
        BY <4>2, BookedOfAppend
      <4> QED BY <3>2, <4>1, <4>3
    <3> QED BY <1>1, <1>2, <3>1, <3>2, UserEnters
  <2> QED BY <1>2, <2>1, <2>2, <2>3, <2>4 DEF LeftAlone, Kept
<1> QED BY <1>1, <1>2, <1>3 DEF ForecastKept

LEMMA UserTouches ==
    ASSUME OverviewInvariant, UserActs, Sound'
    PROVE  touched' \subseteq TemplateIds
<1>1. DOMAIN templates \subseteq TemplateIds
  BY LastOfTypes DEF OverviewInvariant, PageInvariant
<1>2. DOMAIN templates' \subseteq TemplateIds
  BY MaxTemplatesAssumption DEF Sound, TypeOK, StoreTypeOK, TemplateIds
<1> QED BY <1>1, <1>2 DEF UserActs, Written, OverviewInvariant, ShownTypes

LEMMA OverviewStep ==
    ASSUME OverviewInvariant, Requests = Request, [OverviewNext]_overviewVars
    PROVE  OverviewInvariant'
<1>1. /\ PageInvariant /\ Sound /\ CopiesFresh /\ CopiesActive /\ SettingsTypeOK
      /\ ShownTypes /\ ForecastKept /\ PendingNotBooked
  BY DEF OverviewInvariant, PageInvariant
<1>2. [SettingsNext]_settingsVars
  BY OverviewActsAsPage
<1>3. [Next]_vars /\ JournalGrows
  BY <1>1, <1>2, PageActsAsUser, JournalStep
<1>4. PageInvariant' /\ CopiesFresh' /\ CopiesActive'
  BY <1>1, <1>2, <1>3, PageStep, FreshStep, ActiveStep
<1>5. transactions \in Seq(Transaction) /\ transactions' \in Seq(Transaction)
  BY <1>1, <1>3, RowTypes DEF JournalGrows
<1> DEFINE Goal == ShownTypes' /\ ForecastKept' /\ PendingNotBooked'
<1>6. ASSUME ShownTypes', NothingAnnounced' PROVE Goal
  BY <1>6 DEF NothingAnnounced, ForecastKept, PendingNotBooked
<1>7. ASSUME UNCHANGED page, touched' \subseteq TemplateIds, ForecastKept' PROVE Goal
  BY <1>1, <1>3, <1>7, ShownTypesKept, PendingKept
<1>8. ASSUME NEW pg, pg = NoPage \/ pg = [NoPage EXCEPT !.read = 0], page' = pg, UNCHANGED touched
      PROVE  Goal
  <2>1. touched' \subseteq TemplateIds
    BY <1>1, <1>8 DEF ShownTypes
  <2>2. Len(ReadOrder) = 4 /\ Len(transactions') \in Nat
    BY <1>5, FourQueries
  <2>3. ShownTypes' /\ NothingAnnounced'
    BY <1>8, <2>1, <2>2 DEF ShownTypes, NothingAnnounced, NoPage
  <2> QED BY <1>6, <2>3
<1> HIDE DEF Goal
<1>9. ASSUME UNCHANGED overviewVars PROVE Goal
  <2>1. UNCHANGED <<page, touched, templates, transactions, pending>>
    BY <1>9 DEF overviewVars, vars, store, pass
  <2>2. ForecastKept' /\ touched' \subseteq TemplateIds
    BY <1>1, <2>1 DEF ForecastKept, LeftAlone, Kept, ShownTypes
  <2> QED BY <1>7, <2>1, <2>2
<1>10. ASSUME GetOverview PROVE Goal
  <2>1. Requested => Goal
    BY <1>8 DEF Requested
  <2>2. ReadTotal \/ ReadAccounts \/ ReadList => Goal
    BY <1>5, <1>6, ReadBookingsStep
  <2>3. ReadForecast => Goal
    BY ReadForecastStep DEF Goal
  <2> QED BY <1>10, <2>1, <2>2, <2>3 DEF GetOverview
<1>11. ASSUME UNCHANGED <<page, touched>>,
              PassStep \/ Start \/ TickerFires \/ ReceiveTick \/ Exit \/ DayPasses
       PROVE  Goal
  <2>1. QuietStep \/ ListStep \/ \E t \in TemplateIds : BookStep(t)
    BY <1>1, <1>3, <1>11, SchedulerKeepsEdits, SchedulerStepKinds
  <2>2. ForecastKept' /\ touched' \subseteq TemplateIds
    BY <1>1, <1>11, <2>1, SchedulerKeepsForecast DEF ShownTypes
  <2> QED BY <1>7, <1>11, <2>2
<1>12. ASSUME SchedulerActs PROVE Goal
  BY <1>11, <1>12 DEF SchedulerActs
<1>13. ASSUME ProcessExits PROVE Goal
  BY <1>8, <1>11, <1>13 DEF ProcessExits
<1>14. ASSUME UserActs PROVE Goal
  <2>1. ForecastKept' /\ UNCHANGED page
    BY <1>14, UserKeepsForecast DEF UserActs
  <2>2. touched' \subseteq TemplateIds
    BY <1>4, <1>14, UserTouches DEF PageInvariant
  <2> QED BY <1>7, <2>1, <2>2
<1>15. Goal
  BY <1>9, <1>10, <1>12, <1>13, <1>14 DEF OverviewNext
<1> QED BY <1>4, <1>15 DEF Goal, OverviewInvariant

LEMMA OverviewStart == OverviewInit => OverviewInvariant
<1> SUFFICES ASSUME OverviewInit PROVE OverviewInvariant
  OBVIOUS
<1>1. PageInvariant /\ DOMAIN pending = {} /\ transactions \in Seq(Transaction)
  BY PageInit, SoundInit, RowTypes DEF OverviewInit, SettingsInit, Init, NoCopies
<1>2. CopiesFresh /\ CopiesActive
  BY <1>1 DEF CopiesFresh, CopiesActive
<1>3. ShownTypes /\ NothingAnnounced
  BY <1>1, NewPageTypes DEF OverviewInit
<1> QED BY <1>1, <1>2, <1>3, NothingToKeep DEF OverviewInvariant

LEMMA AlwaysKept ==
    ASSUME Requests = Request
    PROVE  OverviewSpec => []OverviewInvariant
<1>1. OverviewInvariant /\ [OverviewNext]_overviewVars => OverviewInvariant'
  BY OverviewStep
<1> QED BY <1>1, OverviewStart, PTL DEF OverviewSpec

(* The page's figures, entries and history have their types, whatever is   *)
(* booked or written between two of its queries.                           *)
THEOREM OverviewTypes ==
    ASSUME Requests = Request
    PROVE  OverviewSpec => []PageTypeOK
<1>1. OverviewInvariant => PageTypeOK
  BY FourQueries DEF OverviewInvariant, PageInvariant, ShownTypes, PageTypeOK
<1> QED BY <1>1, AlwaysKept, PTL

(* No entry the page shows as pending is also in a sum or a list of it,    *)
(* because the forecast is read last and starts after what was booked.     *)
THEOREM PendingIsNotBooked ==
    ASSUME Requests = Request
    PROVE  OverviewSpec => []PendingNotBooked
<1>1. OverviewInvariant => PendingNotBooked
  BY DEF OverviewInvariant
<1> QED BY <1>1, AlwaysKept, PTL

(* Of a template nobody has written since, exactly what the page announced *)
(* up to the due date reached has been booked: the loop of the forecast    *)
(* and that of the pass, over copies, rows, failures and restarts, agree.  *)
THEOREM AnnouncedIsBooked ==
    ASSUME Requests = Request
    PROVE  OverviewSpec => []ForecastComesTrue
<1>1. OverviewInvariant => ForecastComesTrue
  BY BookedIsSince DEF OverviewInvariant, ForecastKept, LeftAlone, Kept, BehindOf, ForecastComesTrue
<1> QED BY <1>1, AlwaysKept, PTL
=============================================================================
