--------------------------- MODULE SchedulerProofs ---------------------------
(***************************************************************************)
(* The scheduler beside the handlers, for every set of requests, days and  *)
(* templates and any number of edits, failures and restarts:               *)
(*   SchedulerTypes, ActivePlansHaveInstallments, CreditsBelowInstallment, *)
(*   ReferencesKept    types, foreign keys, credits and active plans       *)
(*   BookedOnceAlways  no occurrence is booked twice                       *)
(*   PlanAddsUp        an installment plan books exactly what was agreed   *)
(*   NothingLost       a due date moves only by booking it                 *)
(*   BookedInTime      nothing is booked before its day                    *)
(*   ContractKept      all of it implements the abstract PlanContract      *)
(***************************************************************************)
EXTENDS SchedulerInvariant, SchedulerContract, RecurringStoreProofs

(***************************************************************************)
(* Types                                                                   *)
(***************************************************************************)
LEMMA UtcDateType ==
    ASSUME today \in Days, NEW shift \in UtcShifts
    PROVE  UtcDate(shift) \in Dates /\ today \in Dates
BY SchedulerAssumption, DayShiftIsDate DEF UtcDate

LEMMA NoPassIsNoInstant ==
    ASSUME NEW local \in Dates, NEW utc
    PROVE  [local |-> local, utc |-> utc] # NoPass
<1>1. 0 \notin Dates
  BY DEF Dates, MonthOf
<1> QED BY <1>1 DEF NoPass

LEMMA BeginPassType ==
    ASSUME TypeOK, phase \in {"down", "waiting"}, BeginPass,
           ticker' \in {"none", "empty", "full"}, UNCHANGED lastTemplate
    PROVE  PassTypeOK'
<1>1. PICK shift \in UtcShifts : asOf' = [local |-> today, utc |-> UtcDate(shift)]
  BY DEF BeginPass
<1>2. UtcDate(shift) \in Dates /\ today \in Dates
  BY UtcDateType DEF TypeOK
<1>3. asOf' \in Instants /\ asOf' # NoPass
  BY <1>1, <1>2, NoPassIsNoInstant DEF Instants
<1>4. DOMAIN pending = {} /\ UNCHANGED <<pending, current>> /\ phase' = "listing"
  BY DEF TypeOK, PassTypeOK, BeginPass
<1> QED BY <1>3, <1>4 DEF TypeOK, PassTypeOK

LEMMA EndPassType ==
    ASSUME TypeOK, EndPass, UNCHANGED lastTemplate
    PROVE  PassTypeOK'
<1>1. DOMAIN pending' = {} /\ pending' = [t \in {} |-> {}]
  BY DEF EndPass, NoCopies
<1>2. asOf' \in Instants /\ phase' = "waiting" /\ current' = 0
  BY DEF EndPass, Instants
<1>3. ticker' \in {"none", "empty", "full"}
  BY DEF EndPass, TypeOK, PassTypeOK
<1>4. 0 \in 0..MaxTemplates
  BY MaxTemplatesAssumption
<1> QED BY <1>1, <1>2, <1>3, <1>4 DEF PassTypeOK

LEMMA GoOnType ==
    ASSUME TypeOK, phase \in {"listing", "booking"}, UNCHANGED lastTemplate,
           NEW t, NEW copies, copies \in [DOMAIN copies -> Template],
           DOMAIN copies \subseteq 1..lastTemplate, GoOnWith(t, copies)
    PROVE  PassTypeOK'
<1>1. CASE DOMAIN copies = {}
  BY <1>1, EndPassType DEF GoOnWith
<1>2. CASE DOMAIN copies # {}
  <2>1. /\ phase' = "booking" /\ pending' = copies /\ UNCHANGED <<asOf, ticker>>
        /\ current' = IF t \in DOMAIN copies THEN t ELSE 0
    BY <1>2 DEF GoOnWith
  <2>2. current' \in 0..MaxTemplates
    BY <2>1, MaxTemplatesAssumption DEF TypeOK, StoreTypeOK
  <2> QED BY <2>1, <2>2 DEF TypeOK, PassTypeOK
<1> QED BY <1>1, <1>2

(* What a pass has listed, or goes on with after a booking, are templates. *)
Listed == [t \in {u \in ActiveDue(asOf.local) : StillDue(templates[u])} |-> templates[t]]

LEMMA ListedType ==
    ASSUME TypeOK
    PROVE  /\ Listed \in [DOMAIN Listed -> Template]
           /\ DOMAIN Listed \subseteq 1..lastTemplate
BY DEF TypeOK, StoreTypeOK, Listed, ActiveDue

LEMMA CopiesAfterBookingType ==
    ASSUME TypeOK, NEW t \in DOMAIN pending
    PROVE  /\ CopiesAfterBooking(t) \in [DOMAIN CopiesAfterBooking(t) -> Template]
           /\ DOMAIN CopiesAfterBooking(t) \subseteq 1..lastTemplate
<1> DEFINE rt == CopyAfterBooking(pending[t])
<1>1. /\ pending \in [DOMAIN pending -> Template] /\ DOMAIN pending \subseteq 1..lastTemplate
      /\ rt \in Template
  BY CopyAfterBookingType DEF TypeOK, PassTypeOK
<1>2. CopiesAfterBooking(t) =
        [u \in {v \in DOMAIN pending : v = t => StillDue(rt)} |-> IF u = t THEN rt ELSE pending[u]]
  BY DEF CopiesAfterBooking
<1> HIDE DEF rt
<1> QED BY <1>1, <1>2

(* One step of each kind, from sound tables to sound tables. *)
Sound == TypeOK /\ StoreInvariant

(* The variables the handlers leave alone. *)
LEMMA UserKeepsPass ==
    ASSUME TypeOK, UserEdits, lastTemplate' \in Nat, lastTemplate' >= lastTemplate
    PROVE  PassTypeOK' /\ today' \in Days /\ edits' \in 0..MaxEdits /\ faults' \in 0..MaxFaults
<1>1. UNCHANGED <<today, phase, asOf, pending, current, ticker, faults>>
  BY DEF UserEdits, pass
<1>2. PassTypeOK'
  BY <1>1 DEF TypeOK, StoreTypeOK, PassTypeOK
<1>3. edits' \in 0..MaxEdits
  BY SchedulerAssumption DEF UserEdits, TypeOK
<1> QED BY <1>1, <1>2, <1>3 DEF TypeOK

LEMMA SoundFromParts ==
    ASSUME StoreInvariant', PassTypeOK', HistoryTypeOK',
           today' \in Days, edits' \in 0..MaxEdits, faults' \in 0..MaxFaults
    PROVE  Sound'
BY DEF Sound, TypeOK, StoreInvariant

LEMMA UnchangedStore ==
    ASSUME StoreInvariant, UNCHANGED store
    PROVE  StoreInvariant'
BY DEF store, StoreInvariant, StoreTypeOK, RowsSound, ActiveHasInstallments, CreditBounded,
       NothingDangles, BookedRows, TemplateRows, ReferencesExist

LEMMA SoundUser ==
    ASSUME Sound, UserStep
    PROVE  Sound'
<1> USE DEF Sound
<1>1. ASSUME NEW req \in Requests, UserCreates(req)
      PROVE  Sound'
  <2>1. UserEdits /\ CreateRecurringTemplate(req) /\ UNCHANGED <<paid, raced, rewound>>
        /\ agreed' = [agreed EXCEPT ![lastTemplate'] = OutstandingCents(NewTemplate(req))]
    BY <1>1 DEF UserCreates
  <2>2. req \in Request /\ Accepted(req)
    BY <2>1, SchedulerAssumption DEF CreateRecurringTemplate
  <2>3. StoreInvariant'
    BY <2>1, <2>2, CreatePreserves
  <2>4. lastTemplate' = lastTemplate + 1 /\ lastTemplate \in Nat
    BY <2>1 DEF CreateRecurringTemplate, TypeOK, StoreTypeOK
  <2>5. OutstandingCents(NewTemplate(req)) \in Int
    BY <2>2, NewTemplateType, TemplateFields DEF OutstandingCents
  <2>6. HistoryTypeOK'
    BY <2>1, <2>5 DEF TypeOK, HistoryTypeOK
  <2> QED BY <2>1, <2>3, <2>4, <2>6, UserKeepsPass, SoundFromParts
<1>2. ASSUME NEW t \in TemplateIds, NEW req \in Requests, UserUpdates(t, req)
      PROVE  Sound'
  <2> DEFINE row == EditedTemplate(templates[t], req)
  <2>1. /\ UserEdits /\ UpdateRecurringTemplate(t, req) /\ UNCHANGED paid
        /\ agreed' = [agreed EXCEPT ![t] = paid[t] + OutstandingCents(row)]
        /\ raced' \subseteq raced \cup {t} /\ rewound' \subseteq rewound \cup {t}
    BY <1>2 DEF UserUpdates
  <2>2. /\ req \in Request /\ Accepted(req) /\ templates[t] \in Template
        /\ UNCHANGED lastTemplate /\ lastTemplate \in Nat
    BY <2>1, SchedulerAssumption DEF UpdateRecurringTemplate, TypeOK, StoreTypeOK
  <2>3. StoreInvariant'
    BY <2>1, <2>2, UpdatePreserves
  <2>4. row \in Template
    BY <2>2, EditedTemplateType
  <2> HIDE DEF row
  <2>5. paid[t] + OutstandingCents(row) \in Int
    BY <2>4, TemplateFields DEF OutstandingCents, TypeOK, HistoryTypeOK
  <2>6. HistoryTypeOK'
    BY <2>1, <2>5 DEF TypeOK, HistoryTypeOK
  <2> QED BY <2>1, <2>2, <2>3, <2>6, UserKeepsPass, SoundFromParts
<1>3. ASSUME NEW t \in TemplateIds, UserDeletes(t)
      PROVE  Sound'
  <2>1. /\ UserEdits /\ DeleteRecurringTemplate(t) /\ UNCHANGED <<paid, agreed, rewound>>
        /\ raced' \subseteq raced \cup {t}
    BY <1>3 DEF UserDeletes, RacedIfHeld
  <2>2. UNCHANGED lastTemplate /\ lastTemplate \in Nat
    BY <2>1 DEF DeleteRecurringTemplate, TypeOK, StoreTypeOK
  <2>3. StoreInvariant'
    BY <2>1, DeletePreserves
  <2>4. HistoryTypeOK'
    BY <2>1 DEF TypeOK, HistoryTypeOK
  <2> QED BY <2>1, <2>2, <2>3, <2>4, UserKeepsPass, SoundFromParts
<1>4. ASSUME NEW t \in TemplateIds, NEW cents \in ExtraAmounts, UserPaysExtra(t, cents)
      PROVE  Sound'
  <2>1. /\ UserEdits /\ AddExtraPayment(t, cents, today) /\ UNCHANGED <<agreed, rewound>>
        /\ raced' \subseteq raced \cup {t} /\ paid' = [paid EXCEPT ![t] = @ + cents]
    BY <1>4 DEF UserPaysExtra, RacedIfHeld
  <2>2. /\ UNCHANGED lastTemplate /\ lastTemplate \in Nat
        /\ cents \in Nat /\ today \in Dates
    BY <2>1, SchedulerAssumption DEF AddExtraPayment, TypeOK, StoreTypeOK
  <2>3. StoreInvariant'
    BY <2>1, <2>2, ExtraPaymentPreserves
  <2>4. HistoryTypeOK'
    BY <2>1, <2>2 DEF TypeOK, HistoryTypeOK
  <2> QED BY <2>1, <2>2, <2>3, <2>4, UserKeepsPass, SoundFromParts
<1>5. ASSUME NEW c \in Category, UserDeletesCategory(c)
      PROVE  Sound'
  <2>1. UserEdits /\ DeleteCategory(c) /\ UNCHANGED history
    BY <1>5 DEF UserDeletesCategory
  <2>2. UNCHANGED lastTemplate /\ lastTemplate \in Nat
    BY <2>1 DEF DeleteCategory, TypeOK, StoreTypeOK
  <2>3. StoreInvariant'
    BY <2>1, DeleteCategoryPreserves
  <2>4. HistoryTypeOK'
    BY <2>1 DEF TypeOK, HistoryTypeOK, history
  <2> QED BY <2>1, <2>2, <2>3, <2>4, UserKeepsPass, SoundFromParts
<1>6. ASSUME NEW a \in Account, UserDeletesAccount(a)
      PROVE  Sound'
  <2>1. UserEdits /\ DeleteAccount(a) /\ UNCHANGED history
    BY <1>6 DEF UserDeletesAccount
  <2>2. UNCHANGED lastTemplate /\ lastTemplate \in Nat
    BY <2>1 DEF DeleteAccount, TypeOK, StoreTypeOK
  <2>3. StoreInvariant'
    BY <2>1, DeleteAccountPreserves
  <2>4. HistoryTypeOK'
    BY <2>1 DEF TypeOK, HistoryTypeOK, history
  <2> QED BY <2>1, <2>2, <2>3, <2>4, UserKeepsPass, SoundFromParts
<1> QED BY <1>1, <1>2, <1>3, <1>4, <1>5, <1>6 DEF UserStep

LEMMA SoundPass ==
    ASSUME Sound, PassStep
    PROVE  Sound'
<1> USE DEF Sound
<1>1. CASE List
  <2>1. /\ phase = "listing" /\ GoOnWith(0, Listed)
        /\ UNCHANGED <<store, today, edits, faults, history>>
    BY <1>1 DEF List, Listed
  <2>2. PassTypeOK'
    BY <2>1, ListedType, GoOnType DEF store
  <2>3. StoreInvariant' /\ HistoryTypeOK'
    BY <2>1, UnchangedStore DEF TypeOK, HistoryTypeOK, history
  <2> QED BY <2>1, <2>2, <2>3, SoundFromParts DEF TypeOK
<1>2. ASSUME NEW t \in TemplateIds, Book(t)
      PROVE  Sound'
  <2>1. /\ phase = "booking" /\ t \in DOMAIN pending
        /\ BookRecurringOccurrence(t, pending[t]) /\ GoOnWith(t, CopiesAfterBooking(t))
        /\ paid' = [paid EXCEPT ![t] = @ + NextAmountCents(pending[t])]
        /\ UNCHANGED <<today, edits, faults, agreed, raced, rewound>>
    BY <1>2 DEF Book, IsNext
  <2>2. pending[t] \in Template /\ UNCHANGED lastTemplate
    BY <2>1 DEF TypeOK, PassTypeOK, BookRecurringOccurrence
  <2>3. PassTypeOK'
    BY <2>1, <2>2, CopiesAfterBookingType, GoOnType
  <2>4. StoreInvariant'
    BY <2>1, <2>2, BookingPreserves
  <2>5. HistoryTypeOK'
    BY <2>1, <2>2, NextAmountType DEF TypeOK, HistoryTypeOK
  <2> QED BY <2>1, <2>3, <2>4, <2>5, SoundFromParts DEF TypeOK
<1>3. CASE PassFails
  <2>1. /\ EndPass /\ UNCHANGED <<store, today, edits, history>>
        /\ \/ UNCHANGED faults
           \/ faults < MaxFaults /\ faults' = faults + 1
    BY <1>3 DEF PassFails
  <2>2. PassTypeOK'
    BY <2>1, EndPassType DEF store
  <2>3. StoreInvariant' /\ HistoryTypeOK' /\ faults' \in 0..MaxFaults
    BY <2>1, UnchangedStore, SchedulerAssumption DEF TypeOK, HistoryTypeOK, history
  <2> QED BY <2>1, <2>2, <2>3, SoundFromParts DEF TypeOK
<1> QED BY <1>1, <1>2, <1>3 DEF PassStep

LEMMA SoundProcess ==
    ASSUME Sound, Start \/ TickerFires \/ ReceiveTick \/ Exit \/ DayPasses \/ UNCHANGED vars
    PROVE  Sound'
<1> USE DEF Sound
<1>1. CASE Start
  <2>1. PassTypeOK'
    BY <1>1, BeginPassType DEF Start, store, TypeOK, PassTypeOK
  <2> QED BY <1>1, <2>1, UnchangedStore, SoundFromParts DEF Start, TypeOK, HistoryTypeOK, history
<1>2. CASE TickerFires
  <2>1. PassTypeOK'
    BY <1>2 DEF TickerFires, store, TypeOK, PassTypeOK
  <2> QED BY <1>2, <2>1, UnchangedStore, SoundFromParts DEF TickerFires, TypeOK, HistoryTypeOK, history
<1>3. CASE ReceiveTick
  <2>1. PassTypeOK'
    BY <1>3, BeginPassType DEF ReceiveTick, store, TypeOK, PassTypeOK
  <2> QED BY <1>3, <2>1, UnchangedStore, SoundFromParts DEF ReceiveTick, TypeOK, HistoryTypeOK, history
<1>4. CASE Exit
  <2>1. asOf' \in Instants /\ DOMAIN pending' = {} /\ pending' = [t \in {} |-> {}]
    BY <1>4 DEF Exit, Instants, NoCopies
  <2>2. PassTypeOK'
    BY <1>4, <2>1, MaxTemplatesAssumption DEF Exit, store, TypeOK, PassTypeOK
  <2>3. faults' \in 0..MaxFaults
    BY <1>4, SchedulerAssumption DEF Exit, TypeOK
  <2> QED BY <1>4, <2>2, <2>3, UnchangedStore, SoundFromParts DEF Exit, TypeOK, HistoryTypeOK, history
<1>5. CASE DayPasses
  <2>1. PassTypeOK'
    BY <1>5 DEF DayPasses, store, pass, TypeOK, PassTypeOK
  <2> QED BY <1>5, <2>1, UnchangedStore, SoundFromParts DEF DayPasses, TypeOK, HistoryTypeOK, history
<1>6. CASE UNCHANGED vars
  <2>1. PassTypeOK'
    BY <1>6 DEF vars, store, pass, TypeOK, PassTypeOK
  <2> QED BY <1>6, <2>1, UnchangedStore, SoundFromParts DEF vars, TypeOK, HistoryTypeOK, history
<1> QED BY <1>1, <1>2, <1>3, <1>4, <1>5, <1>6

LEMMA SoundInit == Init => Sound
<1> SUFFICES ASSUME Init PROVE Sound
  OBVIOUS
<1>1. StoreInvariant
  BY StoreInitInvariant DEF Init
<1>2. DOMAIN pending = {} /\ pending = [t \in {} |-> {}] /\ lastTemplate = 0
  BY DEF Init, NoCopies, StoreInit
<1>3. PassTypeOK
  BY <1>2, MaxTemplatesAssumption DEF Init, PassTypeOK, Instants
<1>4. HistoryTypeOK
  BY DEF Init, HistoryTypeOK
<1> QED BY <1>1, <1>3, <1>4, SchedulerAssumption DEF Init, Sound, TypeOK, StoreInvariant

LEMMA SoundStep == Sound /\ [Next]_vars => Sound'
BY SoundUser, SoundPass, SoundProcess DEF Next

LEMMA AlwaysSound == Spec => []Sound
BY SoundInit, SoundStep, PTL DEF Spec

(* Rows, copies, clock and process state keep their types, whatever the    *)
(* user does while a pass books from its copies.                           *)
THEOREM SchedulerTypes == Spec => []TypeOK
<1>1. Sound => TypeOK
  BY DEF Sound
<1> QED BY <1>1, AlwaysSound, PTL

(* No template stays active with nothing left to book (recurring.go, the   *)
(* UPDATEs of bookRecurringOccurrence and AddExtraPayment).                *)
THEOREM ActivePlansHaveInstallments == Spec => []ActiveHasInstallments
<1>1. Sound => ActiveHasInstallments
  BY DEF Sound, StoreInvariant, RowsSound
<1> QED BY <1>1, AlwaysSound, PTL

(* Only plans have a credit, and it stays below one installment, also when *)
(* an edit lowers the installment or makes the plan endless.               *)
THEOREM CreditsBelowInstallment == Spec => []CreditBounded
<1>1. Sound => CreditBounded
  BY DEF Sound, StoreInvariant, RowsSound
<1> QED BY <1>1, AlwaysSound, PTL

(* No template and no booking, one from an old copy included, refers to a  *)
(* category or an account that was deleted.                                *)
THEOREM ReferencesKept == Spec => []NothingDangles
<1>1. Sound => NothingDangles
  BY DEF Sound, StoreInvariant
<1> QED BY <1>1, AlwaysSound, PTL

(***************************************************************************)
(* The steps that matter to templates and bookings, and the others         *)
(***************************************************************************)
rows == <<templates, lastTemplate, transactions, paid, agreed, raced, rewound>>

QuietStep == UNCHANGED rows /\ (UNCHANGED pending \/ DOMAIN pending' = {})

ListStep == UNCHANGED rows /\ (pending' = Listed \/ DOMAIN pending' = {})

BookStep(t) ==
    /\ t \in DOMAIN pending
    /\ BookRecurringOccurrence(t, pending[t])
    /\ pending' = CopiesAfterBooking(t) \/ DOMAIN pending' = {}
    /\ paid' = [paid EXCEPT ![t] = @ + NextAmountCents(pending[t])]
    /\ UNCHANGED <<agreed, raced, rewound>>

LEMMA StepKinds ==
    ASSUME Sound, [Next]_vars
    PROVE  \/ QuietStep
           \/ ListStep
           \/ \E t \in TemplateIds : BookStep(t)
           \/ UNCHANGED pending /\ \E req \in Requests : UserCreates(req)
           \/ UNCHANGED pending /\ \E t \in TemplateIds, req \in Requests : UserUpdates(t, req)
           \/ UNCHANGED pending /\ \E t \in TemplateIds : UserDeletes(t)
           \/ UNCHANGED pending /\ \E t \in TemplateIds, cents \in ExtraAmounts : UserPaysExtra(t, cents)
<1>1. ASSUME EndPass PROVE DOMAIN pending' = {}
  BY <1>1 DEF EndPass, NoCopies
<1>2. CASE List
  BY <1>1, <1>2 DEF List, ListStep, Listed, GoOnWith, store, history, rows
<1>3. ASSUME NEW t \in TemplateIds, Book(t) PROVE BookStep(t)
  BY <1>1, <1>3 DEF Book, IsNext, BookStep, GoOnWith
<1>4. CASE PassFails
  BY <1>1, <1>4 DEF PassFails, QuietStep, store, history, rows
<1>5. ASSUME Start \/ ReceiveTick PROVE QuietStep
  BY <1>5 DEF Start, ReceiveTick, BeginPass, QuietStep, store, history, rows
<1>6. CASE TickerFires
  BY <1>6 DEF TickerFires, QuietStep, store, history, rows
<1>7. CASE Exit
  BY <1>7 DEF Exit, NoCopies, QuietStep, store, history, rows
<1>8. CASE DayPasses
  BY <1>8 DEF DayPasses, pass, QuietStep, store, history, rows
<1>9. CASE UNCHANGED vars
  BY <1>9 DEF vars, pass, QuietStep, store, history, rows
<1>10. ASSUME NEW c, UserDeletesCategory(c) \/ UserDeletesAccount(c)
       PROVE  QuietStep
  BY <1>10 DEF UserDeletesCategory, UserDeletesAccount, UserEdits, DeleteCategory, DeleteAccount,
               pass, history, QuietStep, rows
<1>11. UserEdits => UNCHANGED pending
  BY DEF UserEdits, pass
<1>12. CASE UserStep
  BY <1>10, <1>11, <1>12 DEF UserStep, UserCreates, UserUpdates, UserDeletes, UserPaysExtra
<1> QED BY <1>2, <1>3, <1>4, <1>5, <1>6, <1>7, <1>8, <1>9, <1>12 DEF Next, PassStep

(* The rows and the copies of a sound state are templates. *)
LEMMA RowTypes ==
    ASSUME Sound
    PROVE  /\ \A t \in DOMAIN templates : templates[t] \in Template /\ t \in 1..lastTemplate
           /\ \A t \in DOMAIN pending : pending[t] \in Template /\ t \in 1..lastTemplate
           /\ lastTemplate \in 0..MaxTemplates /\ transactions \in Seq(Transaction)
           /\ paid \in [TemplateIds -> Int] /\ agreed \in [TemplateIds -> Int]
BY DEF Sound, TypeOK, StoreTypeOK, PassTypeOK, HistoryTypeOK

(***************************************************************************)
(* The copies of a pass                                                    *)
(***************************************************************************)

(* A copy that goes on after a booking is the row after that booking. *)
LEMMA CopyFollowsRow ==
    ASSUME NEW rt \in Template, HasInstallmentsLeft(rt), HasInstallmentsLeft(CopyAfterBooking(rt))
    PROVE  CopyAfterBooking(rt) = RowAfterBooking(rt, rt)
<1> DEFINE copy == CopyAfterBooking(rt)
           row  == RowAfterBooking(rt, rt)
<1>1. copy \in Template /\ row \in Template
  BY CopyAfterBookingType, RowAfterBookingType
<1>2. rt.limited \in BOOLEAN /\ rt.active \in BOOLEAN /\ rt.remaining \in Int
  BY TemplateFields
<1>3. /\ copy.amount = rt.amount /\ copy.category = rt.category /\ copy.account = rt.account
      /\ copy.interval = rt.interval /\ copy.nextDue = Advance(rt) /\ copy.active = rt.active
      /\ copy.limited = rt.limited /\ copy.credit = rt.credit
      /\ copy.remaining = IF rt.limited THEN rt.remaining - 1 ELSE rt.remaining
  BY DEF CopyAfterBooking, Template
<1>4. /\ row.amount = rt.amount /\ row.category = rt.category /\ row.account = rt.account
      /\ row.interval = rt.interval /\ row.nextDue = Advance(rt)
      /\ row.limited = rt.limited /\ row.credit = rt.credit
      /\ row.remaining = IF rt.limited THEN rt.remaining - 1 ELSE rt.remaining
      /\ row.active = (rt.active /\ (rt.limited => rt.remaining - 1 > 0))
  BY <1>2 DEF RowAfterBooking, Template
<1>5. rt.limited => rt.remaining - 1 > 0
  BY <1>2, <1>3 DEF HasInstallmentsLeft
<1>6. row.active = rt.active
  BY <1>2, <1>4, <1>5
<1> HIDE DEF copy, row
<1>7. copy = row
  BY <1>1, <1>3, <1>4, <1>6 DEF Template
<1> QED BY <1>7 DEF copy, row

LEMMA FreshStep ==
    ASSUME Sound, CopiesFresh, [Next]_vars
    PROVE  CopiesFresh'
<1>1. ASSUME DOMAIN pending' = {} PROVE CopiesFresh'
  BY <1>1 DEF CopiesFresh
<1>2. CASE QuietStep
  BY <1>1, <1>2 DEF QuietStep, rows, CopiesFresh
<1>3. CASE ListStep
  BY <1>1, <1>3 DEF ListStep, Listed, StillDue, ActiveDue, rows, CopiesFresh
<1>4. ASSUME NEW t \in TemplateIds, BookStep(t) PROVE CopiesFresh'
  <2> SUFFICES ASSUME pending' = CopiesAfterBooking(t) PROVE CopiesFresh'
    BY <1>1, <1>4 DEF BookStep
  <2> DEFINE rt == CopyAfterBooking(pending[t])
  <2>1. /\ t \in DOMAIN pending /\ UNCHANGED raced
        /\ templates' = [u \in DOMAIN templates |->
                            IF u = t THEN RowAfterBooking(templates[u], pending[t]) ELSE templates[u]]
    BY <1>4 DEF BookStep, BookRecurringOccurrence
  <2>2. /\ DOMAIN pending' \subseteq DOMAIN pending
        /\ \A u \in DOMAIN pending' : pending'[u] = IF u = t THEN rt ELSE pending[u]
        /\ t \in DOMAIN pending' => HasInstallmentsLeft(rt)
    BY DEF CopiesAfterBooking, StillDue
  <2>3. pending[t] \in Template /\ HasInstallmentsLeft(pending[t])
    BY <2>1, RowTypes DEF CopiesFresh
  <2> HIDE DEF rt
  <2>4. ASSUME NEW u \in DOMAIN pending'
        PROVE  /\ HasInstallmentsLeft(pending'[u])
               /\ u \notin raced' => u \in DOMAIN templates' /\ pending'[u] = templates'[u]
    <3>1. CASE u = t
      <4>1. HasInstallmentsLeft(rt) /\ pending'[u] = rt
        BY <2>2, <2>4, <3>1
      <4>2. ASSUME t \notin raced
            PROVE  t \in DOMAIN templates' /\ rt = templates'[t]
        <5>1. t \in DOMAIN templates /\ templates[t] = pending[t]
          BY <2>1, <4>2 DEF CopiesFresh
        <5>2. rt = RowAfterBooking(pending[t], pending[t])
          BY <2>3, <4>1, CopyFollowsRow DEF rt
        <5> QED BY <2>1, <5>1, <5>2
      <4> QED BY <2>1, <3>1, <4>1, <4>2
    <3>2. CASE u # t
      BY <2>1, <2>2, <2>4, <3>2 DEF CopiesFresh
    <3> QED BY <3>1, <3>2
  <2> QED BY <2>4 DEF CopiesFresh
<1>5. ASSUME NEW req \in Requests, UserCreates(req), UNCHANGED pending PROVE CopiesFresh'
  <2>1. /\ \A t \in DOMAIN templates : t \in DOMAIN templates' /\ templates'[t] = templates[t]
        /\ UNCHANGED raced
    BY <1>5, RowTypes DEF UserCreates, CreateRecurringTemplate
  <2> QED BY <1>5, <2>1 DEF CopiesFresh
<1>6. ASSUME NEW t \in TemplateIds, NEW req \in Requests, UserUpdates(t, req), UNCHANGED pending
      PROVE  CopiesFresh'
  <2>1. /\ DOMAIN templates' = DOMAIN templates
        /\ \A u \in DOMAIN templates : u # t => templates'[u] = templates[u]
        /\ raced' = IF t \in DOMAIN pending THEN raced \cup {t} ELSE raced \ {t}
    BY <1>6 DEF UserUpdates, UpdateRecurringTemplate
  <2> QED BY <1>6, <2>1 DEF CopiesFresh
<1>7. ASSUME NEW t \in TemplateIds, UserDeletes(t), UNCHANGED pending PROVE CopiesFresh'
  <2>1. /\ DOMAIN templates' = DOMAIN templates \ {t}
        /\ \A u \in DOMAIN templates' : templates'[u] = templates[u]
        /\ raced' = IF t \in DOMAIN pending THEN raced \cup {t} ELSE raced
    BY <1>7 DEF UserDeletes, DeleteRecurringTemplate, RacedIfHeld
  <2> QED BY <1>7, <2>1 DEF CopiesFresh
<1>8. ASSUME NEW t \in TemplateIds, NEW cents \in ExtraAmounts, UserPaysExtra(t, cents),
             UNCHANGED pending
      PROVE  CopiesFresh'
  <2>1. /\ DOMAIN templates' = DOMAIN templates
        /\ \A u \in DOMAIN templates : u # t => templates'[u] = templates[u]
        /\ raced' = IF t \in DOMAIN pending THEN raced \cup {t} ELSE raced
    BY <1>8 DEF UserPaysExtra, AddExtraPayment, RacedIfHeld
  <2> QED BY <1>8, <2>1 DEF CopiesFresh
<1> QED BY <1>2, <1>3, <1>4, <1>5, <1>6, <1>7, <1>8, StepKinds

(***************************************************************************)
(* No occurrence twice                                                     *)
(***************************************************************************)

(* What the invariants say of one row of transactions. *)
BeforeDue(row, last, rewoundNow, rowsNow, copies) ==
    /\ row.template <= last
    /\ row.source = "recurring" /\ row.template \notin rewoundNow =>
         /\ row.template \in DOMAIN rowsNow => row.date < rowsNow[row.template].nextDue
         /\ row.template \in DOMAIN copies => row.date < copies[row.template].nextDue

LEMMA BeforeDueByRow ==
    BookedBeforeDue <=>
      \A i \in DOMAIN transactions :
         BeforeDue(transactions[i], lastTemplate, rewound, templates, pending)
BY DEF BookedBeforeDue, BeforeDue, IsRecurring

LEMMA AppendFacts ==
    ASSUME transactions \in Seq(Transaction), NEW row \in Transaction,
           transactions' = Append(transactions, row)
    PROVE  /\ DOMAIN transactions = 1..Len(transactions) /\ Len(transactions) \in Nat
           /\ DOMAIN transactions' = 1..(Len(transactions) + 1)
           /\ Len(transactions') = Len(transactions) + 1
           /\ transactions'[Len(transactions) + 1] = row
           /\ \A i \in 1..Len(transactions) : transactions'[i] = transactions[i]
OBVIOUS

(* The row a booking adds, and the due dates it leaves behind. *)
LEMMA BookStepFacts ==
    ASSUME Sound, NEW t \in TemplateIds, BookStep(t)
    PROVE  /\ pending[t] \in Template
           /\ BookingRow(t, pending[t]) \in Transaction
           /\ transactions' = Append(transactions, BookingRow(t, pending[t]))
           /\ UNCHANGED <<lastTemplate, agreed, raced, rewound>>
           /\ t \in 1..lastTemplate
           /\ Advance(pending[t]) \in Nat /\ Advance(pending[t]) > pending[t].nextDue
           /\ DOMAIN templates' = DOMAIN templates
           /\ \A u \in DOMAIN templates : u # t => templates'[u] = templates[u]
           /\ t \in DOMAIN templates => templates'[t] = RowAfterBooking(templates[t], pending[t])
           /\ t \in DOMAIN templates => templates'[t].nextDue = Advance(pending[t])
           /\ DOMAIN pending' \subseteq DOMAIN pending
           /\ \A u \in DOMAIN pending' : u # t => pending'[u] = pending[u]
           /\ t \in DOMAIN pending' => pending'[t].nextDue = Advance(pending[t])
<1>1. /\ t \in DOMAIN pending
      /\ transactions' = Append(transactions, BookingRow(t, pending[t]))
      /\ templates' = [u \in DOMAIN templates |->
                          IF u = t THEN RowAfterBooking(templates[u], pending[t]) ELSE templates[u]]
      /\ ReferencesExist(pending[t])
      /\ UNCHANGED <<lastTemplate, agreed, raced, rewound>>
  BY DEF BookStep, BookRecurringOccurrence
<1>2. pending[t] \in Template /\ t \in 1..lastTemplate
  BY <1>1, RowTypes
<1>3. BookingRow(t, pending[t]) \in Transaction
  BY <1>2, TemplateFields, NextAmountType DEF BookingRow, Transaction
<1>4. Advance(pending[t]) \in Nat /\ Advance(pending[t]) > pending[t].nextDue
  BY <1>2, AdvanceForward
<1>5. t \in DOMAIN templates => templates'[t] = RowAfterBooking(templates[t], pending[t])
  BY <1>1
<1>6. t \in DOMAIN templates => templates'[t].nextDue = Advance(pending[t])
  BY <1>5, RowTypes DEF RowAfterBooking, Template
<1>7. /\ DOMAIN pending' \subseteq DOMAIN pending
      /\ \A u \in DOMAIN pending' : u # t => pending'[u] = pending[u]
      /\ t \in DOMAIN pending' => pending'[t] = CopyAfterBooking(pending[t])
  BY DEF BookStep, CopiesAfterBooking
<1>8. t \in DOMAIN pending' => pending'[t].nextDue = Advance(pending[t])
  BY <1>2, <1>7 DEF CopyAfterBooking, Template
<1> QED BY <1>1, <1>2, <1>3, <1>4, <1>5, <1>6, <1>7, <1>8

LEMMA BeforeDueStep ==
    ASSUME Sound, BookedBeforeDue, [Next]_vars
    PROVE  BookedBeforeDue'
<1> DEFINE Good(row) == BeforeDue(row, lastTemplate', rewound', templates', pending')
<1>1. SUFFICES \A i \in DOMAIN transactions' : Good(transactions'[i])
  BY DEF BookedBeforeDue, BeforeDue, IsRecurring
<1>2. \A i \in DOMAIN transactions :
         BeforeDue(transactions[i], lastTemplate, rewound, templates, pending)
  BY BeforeDueByRow
<1>3. /\ transactions \in Seq(Transaction)
      /\ \A i \in DOMAIN transactions : transactions[i] \in Transaction
  BY RowTypes
<1>4. CASE QuietStep
  BY <1>2, <1>4 DEF QuietStep, rows, BeforeDue
<1>5. CASE ListStep
  BY <1>2, <1>5 DEF ListStep, Listed, ActiveDue, rows, BeforeDue
<1>6. ASSUME NEW t \in TemplateIds, BookStep(t) PROVE \A i \in DOMAIN transactions' : Good(transactions'[i])
  <2> DEFINE booked == BookingRow(t, pending[t])
  <2>1. /\ booked.template = t /\ booked.date = pending[t].nextDue
        /\ pending[t].nextDue \in Nat /\ booked \in Transaction
    BY <1>6, BookStepFacts, TemplateFields DEF BookingRow
  <2>2. Good(booked)
    BY <1>6, <2>1, BookStepFacts DEF BeforeDue
  <2>3. ASSUME NEW row \in Transaction,
               BeforeDue(row, lastTemplate, rewound, templates, pending)
        PROVE  Good(row)
    <3>1. row.date \in Nat
      BY DEF Transaction, Dates
    <3>2. CASE row.template = t
      <4>1. t \in DOMAIN pending
        BY <1>6 DEF BookStep
      <4>2. /\ row.template <= lastTemplate
            /\ row.source = "recurring" /\ t \notin rewound => row.date < pending[t].nextDue
        BY <2>3, <3>2, <4>1 DEF BeforeDue
      <4>3. /\ Advance(pending[t]) \in Nat /\ Advance(pending[t]) > pending[t].nextDue
            /\ t \in DOMAIN templates' => templates'[t].nextDue = Advance(pending[t])
            /\ t \in DOMAIN pending' => pending'[t].nextDue = Advance(pending[t])
            /\ UNCHANGED <<lastTemplate, rewound>>
        BY <1>6, BookStepFacts
      <4>4. row.source = "recurring" /\ t \notin rewound => row.date < Advance(pending[t])
        BY <2>1, <3>1, <4>2, <4>3
      <4> QED BY <3>2, <4>2, <4>3, <4>4 DEF BeforeDue
    <3>3. CASE row.template # t
      BY <1>6, <2>3, <3>1, <3>3, BookStepFacts DEF BeforeDue
    <3> QED BY <3>2, <3>3
  <2> HIDE DEF booked
  <2>4. transactions' = Append(transactions, booked)
    BY <1>6, BookStepFacts DEF booked
  <2>5. \A i \in DOMAIN transactions : Good(transactions[i])
    BY <1>2, <1>3, <2>3
  <2> HIDE DEF Good
  <2> QED BY <1>3, <2>1, <2>2, <2>4, <2>5, AppendFacts
<1>7. ASSUME NEW req \in Requests, UserCreates(req), UNCHANGED pending
      PROVE  \A i \in DOMAIN transactions' : Good(transactions'[i])
  <2>1. /\ lastTemplate' = lastTemplate + 1 /\ lastTemplate \in Nat
        /\ DOMAIN templates' = DOMAIN templates \cup {lastTemplate'}
        /\ \A t \in DOMAIN templates : templates'[t] = templates[t]
        /\ UNCHANGED <<transactions, rewound>>
    BY <1>7, RowTypes DEF UserCreates, CreateRecurringTemplate
  <2>2. \A i \in DOMAIN transactions : transactions[i].template \in Nat
    BY <1>3 DEF Transaction, TemplateIds
  <2> QED BY <1>2, <1>7, <2>1, <2>2 DEF BeforeDue
<1>8. ASSUME NEW t \in TemplateIds, NEW req \in Requests, UserUpdates(t, req), UNCHANGED pending
      PROVE  \A i \in DOMAIN transactions' : Good(transactions'[i])
  <2>1. /\ t \in DOMAIN templates /\ DOMAIN templates' = DOMAIN templates
        /\ \A u \in DOMAIN templates : u # t => templates'[u] = templates[u]
        /\ templates'[t].nextDue = req.nextDue
        /\ UNCHANGED <<lastTemplate, transactions>>
        /\ rewound' = IF BookedFrom(t, req.nextDue) THEN rewound \cup {t} ELSE rewound
    BY <1>8 DEF UserUpdates, UpdateRecurringTemplate, EditedTemplate, NewTemplate
  <2>2. req.nextDue \in Nat
    BY SchedulerAssumption DEF Request, Dates
  <2>3. ASSUME NEW i \in DOMAIN transactions, transactions[i].source = "recurring",
               transactions[i].template = t, ~ BookedFrom(t, req.nextDue)
        PROVE  transactions[i].date < req.nextDue
    <3>1. transactions[i].date \in Nat
      BY <1>3 DEF Transaction, Dates
    <3> QED BY <2>2, <2>3, <3>1 DEF BookedFrom, BookedRows
  <2> QED BY <1>2, <1>8, <2>1, <2>3 DEF BeforeDue
<1>9. ASSUME NEW t \in TemplateIds, UserDeletes(t), UNCHANGED pending
      PROVE  \A i \in DOMAIN transactions' : Good(transactions'[i])
  <2>1. /\ DOMAIN templates' = DOMAIN templates \ {t}
        /\ \A u \in DOMAIN templates' : templates'[u] = templates[u]
        /\ UNCHANGED <<lastTemplate, transactions, rewound>>
    BY <1>9 DEF UserDeletes, DeleteRecurringTemplate
  <2> QED BY <1>2, <1>9, <2>1 DEF BeforeDue
<1>10. ASSUME NEW t \in TemplateIds, NEW cents \in ExtraAmounts, UserPaysExtra(t, cents),
              UNCHANGED pending
       PROVE  \A i \in DOMAIN transactions' : Good(transactions'[i])
  <2> DEFINE extra == ExtraPaymentRow(t, cents, today)
  <2>1. /\ t \in DOMAIN templates /\ transactions' = Append(transactions, extra)
        /\ DOMAIN templates' = DOMAIN templates
        /\ \A u \in DOMAIN templates : u # t => templates'[u] = templates[u]
        /\ templates'[t] = RowAfterExtraPayment(templates[t], cents)
        /\ UNCHANGED <<lastTemplate, rewound>>
    BY <1>10 DEF UserPaysExtra, AddExtraPayment
  <2>2. templates[t] \in Template /\ t <= lastTemplate /\ today \in Dates /\ cents \in Nat
    BY <2>1, RowTypes, SchedulerAssumption DEF Sound, TypeOK
  <2>3. templates'[t].nextDue = templates[t].nextDue
    BY <2>1, <2>2 DEF RowAfterExtraPayment, Template
  <2>4. extra \in Transaction /\ extra.source = "manual" /\ extra.template = t
    BY <2>2, TemplateFields DEF ExtraPaymentRow, Transaction
  <2> HIDE DEF extra
  <2>5. Good(extra)
    BY <2>1, <2>2, <2>4 DEF BeforeDue
  <2>6. \A i \in DOMAIN transactions : Good(transactions[i])
    BY <1>2, <1>10, <2>1, <2>3 DEF BeforeDue
  <2> HIDE DEF Good
  <2> QED BY <1>3, <2>1, <2>4, <2>5, <2>6, AppendFacts
<1> QED BY <1>4, <1>5, <1>6, <1>7, <1>8, <1>9, <1>10, StepKinds

LEMMA OnceStep ==
    ASSUME Sound, BookedBeforeDue, BookedOnce, [Next]_vars
    PROVE  BookedOnce'
<1>1. /\ transactions \in Seq(Transaction)
      /\ \A i \in DOMAIN transactions : transactions[i] \in Transaction
  BY RowTypes
<1>2. ASSUME UNCHANGED transactions, rewound \subseteq rewound' PROVE BookedOnce'
  BY <1>2 DEF BookedOnce, IsRecurring
<1>3. ASSUME NEW t \in TemplateIds, BookStep(t) PROVE BookedOnce'
  <2> DEFINE booked == BookingRow(t, pending[t])
             n == Len(transactions)
  <2>1. /\ booked \in Transaction /\ booked.template = t /\ booked.date = pending[t].nextDue
        /\ transactions' = Append(transactions, booked) /\ UNCHANGED rewound
    BY <1>3, BookStepFacts DEF BookingRow
  <2>2. ASSUME NEW i \in DOMAIN transactions, IsRecurring(i), t \notin rewound,
               transactions[i].template = t
        PROVE  transactions[i].date # booked.date
    <3>1. t \in DOMAIN pending
      BY <1>3 DEF BookStep
    <3>2. transactions[i].date < pending[t].nextDue
      BY <2>2, <3>1 DEF BookedBeforeDue
    <3>3. pending[t].nextDue \in Nat
      BY <1>3, BookStepFacts, TemplateFields
    <3> QED BY <2>1, <3>2, <3>3
  <2> HIDE DEF booked
  <2>3. /\ DOMAIN transactions = 1..n /\ n \in Nat /\ DOMAIN transactions' = 1..(n + 1)
        /\ transactions'[n + 1] = booked
        /\ \A i \in 1..n : transactions'[i] = transactions[i]
    BY <1>1, <2>1, AppendFacts
  <2> HIDE DEF n
  <2>4. ASSUME NEW i \in DOMAIN transactions', NEW j \in DOMAIN transactions', i # j,
               transactions'[i].source = "recurring", transactions'[j].source = "recurring",
               transactions'[i].template = transactions'[j].template,
               transactions'[i].date = transactions'[j].date
        PROVE  transactions'[i].template \in rewound'
    <3>1. CASE i \in 1..n /\ j \in 1..n
      BY <2>1, <2>3, <2>4, <3>1 DEF BookedOnce, IsRecurring
    <3>2. CASE i = n + 1 /\ j \in 1..n
      BY <2>1, <2>2, <2>3, <2>4, <3>2 DEF IsRecurring
    <3>3. CASE i \in 1..n /\ j = n + 1
      BY <2>1, <2>2, <2>3, <2>4, <3>3 DEF IsRecurring
    <3> QED BY <2>3, <2>4, <3>1, <3>2, <3>3
  <2> QED BY <2>4 DEF BookedOnce, IsRecurring
<1>4. ASSUME NEW t \in TemplateIds, NEW cents \in ExtraAmounts, UserPaysExtra(t, cents)
      PROVE  BookedOnce'
  <2> DEFINE extra == ExtraPaymentRow(t, cents, today)
             n == Len(transactions)
  <2>1. /\ t \in DOMAIN templates /\ transactions' = Append(transactions, extra)
        /\ UNCHANGED rewound
    BY <1>4 DEF UserPaysExtra, AddExtraPayment
  <2>2. templates[t] \in Template /\ today \in Dates /\ cents \in Nat
    BY <2>1, RowTypes, SchedulerAssumption DEF Sound, TypeOK
  <2>3. extra \in Transaction /\ extra.source = "manual"
    BY <2>2, TemplateFields DEF ExtraPaymentRow, Transaction
  <2> HIDE DEF extra
  <2>4. /\ DOMAIN transactions = 1..n /\ n \in Nat /\ DOMAIN transactions' = 1..(n + 1)
        /\ transactions'[n + 1] = extra
        /\ \A i \in 1..n : transactions'[i] = transactions[i]
    BY <1>1, <2>1, <2>3, AppendFacts
  <2> HIDE DEF n
  <2>5. \A i \in DOMAIN transactions' : transactions'[i].source = "recurring" => i \in 1..n
    BY <2>3, <2>4
  <2> QED BY <2>1, <2>4, <2>5 DEF BookedOnce, IsRecurring
<1>5. QuietStep \/ ListStep => UNCHANGED transactions /\ rewound \subseteq rewound'
  BY DEF QuietStep, ListStep, rows
<1>6. ASSUME NEW t, NEW req, UserCreates(req) \/ UserUpdates(t, req) \/ UserDeletes(t)
      PROVE  UNCHANGED transactions /\ rewound \subseteq rewound'
  BY <1>6 DEF UserCreates, UserUpdates, UserDeletes, CreateRecurringTemplate,
              UpdateRecurringTemplate, DeleteRecurringTemplate
<1> QED BY <1>2, <1>3, <1>4, <1>5, <1>6, StepKinds

(* No occurrence of a template is booked twice, over any passes, failures, *)
(* restarts and edits that do not set its due date back to a booked day.   *)
THEOREM BookedOnceAlways == Spec => []BookedOnce
<1> DEFINE Inv == Sound /\ BookedBeforeDue /\ BookedOnce
<1>1. Init => Inv
  <2> SUFFICES ASSUME Init PROVE Inv
    OBVIOUS
  <2>1. DOMAIN transactions = {}
    BY DEF Init, StoreInit
  <2> QED BY <2>1, SoundInit DEF BookedBeforeDue, BookedOnce
<1>2. Inv /\ [Next]_vars => Inv'
  BY SoundStep, BeforeDueStep, OnceStep
<1> QED BY <1>1, <1>2, PTL DEF Spec

(***************************************************************************)
(* An installment plan adds up                                             *)
(***************************************************************************)

(* The equation for one plan. *)
AddsUp(row, paidNow, agreedNow) ==
    row.limited => IF row.remaining > 0
                   THEN paidNow + OutstandingCents(row) = agreedNow
                   ELSE paidNow = agreedNow

LEMMA PlanByRow ==
    PlanConserved <=> \A t \in DOMAIN templates \ raced : AddsUp(templates[t], paid[t], agreed[t])
BY DEF PlanConserved, AddsUp

(* A row as a request leaves it, limited to at least one installment. *)
LEMMA AgreedAddsUp ==
    ASSUME NEW row \in Template, NEW sum \in Int, row.limited => row.remaining > 0
    PROVE  AddsUp(row, sum, sum + OutstandingCents(row))
BY TemplateFields DEF AddsUp, OutstandingCents

LEMMA BookingAddsUp ==
    ASSUME NEW row \in Template, RowSound(row), HasInstallmentsLeft(row),
           NEW sum \in Int, NEW total \in Int, AddsUp(row, sum, total)
    PROVE  AddsUp(RowAfterBooking(row, row), sum + NextAmountCents(row), total)
<1> DEFINE after == RowAfterBooking(row, row)
<1>1. after.limited = row.limited /\ after \in Template
  BY RowAfterBookingType DEF RowAfterBooking, Template
<1>2. CASE ~ row.limited
  BY <1>1, <1>2 DEF AddsUp
<1>3. CASE row.limited
  <2>1. row.remaining > 0 /\ row.remaining \in Int /\ NextAmountCents(row) \in Int
    BY <1>3, TemplateFields, NextAmountType DEF HasInstallmentsLeft
  <2>2. row.credit > 0 => row.credit < row.amount
    BY DEF RowSound
  <2>3. /\ after.remaining = row.remaining - 1
        /\ after.remaining > 0 =>
             OutstandingCents(after) + NextAmountCents(row) = OutstandingCents(row)
        /\ after.remaining = 0 => NextAmountCents(row) = OutstandingCents(row)
    BY <1>3, <2>1, <2>2, BookingConserves
  <2>4. OutstandingCents(after) \in Int /\ OutstandingCents(row) \in Int
    BY <1>1, TemplateFields DEF OutstandingCents
  <2>5. sum + OutstandingCents(row) = total
    BY <1>3, <2>1 DEF AddsUp
  <2>6. ASSUME after.remaining > 0
        PROVE  (sum + NextAmountCents(row)) + OutstandingCents(after) = total
    <3> HIDE DEF after
    <3>1. OutstandingCents(after) + NextAmountCents(row) = OutstandingCents(row)
      BY <2>3, <2>6
    <3> QED BY <2>1, <2>4, <2>5, <3>1
  <2>7. ASSUME ~ (after.remaining > 0)
        PROVE  sum + NextAmountCents(row) = total
    <3> HIDE DEF after
    <3>1. NextAmountCents(row) = OutstandingCents(row)
      BY <2>1, <2>3, <2>7
    <3> QED BY <2>5, <3>1
  <2> QED BY <2>6, <2>7 DEF AddsUp
<1> QED BY <1>2, <1>3

LEMMA ExtraPaymentAddsUp ==
    ASSUME NEW row \in Template, NEW cents \in Nat, ExtraPaymentValid(row, cents),
           NEW sum \in Int, NEW total \in Int, AddsUp(row, sum, total)
    PROVE  AddsUp(RowAfterExtraPayment(row, cents), sum + cents, total)
<1> DEFINE after == RowAfterExtraPayment(row, cents)
<1>1. /\ after \in Template /\ OutstandingCents(after) + cents = OutstandingCents(row)
      /\ after.remaining >= 0
      /\ after.remaining = 0 => OutstandingCents(after) = 0
  BY ExtraPaymentConserves
<1>2. row.limited /\ row.remaining > 0
  <2>1. /\ row.limited /\ row.amount \in Nat /\ row.credit \in Nat /\ row.remaining \in Int
        /\ row.amount > 0 /\ cents > 0 /\ cents <= row.remaining * row.amount - row.credit
    BY TemplateFields DEF ExtraPaymentValid, OutstandingCents
  <2>2. row.remaining * row.amount > 0
    BY <2>1
  <2> QED BY <2>1, <2>2
<1>3. sum + OutstandingCents(row) = total
  BY <1>2 DEF AddsUp
<1>4. OutstandingCents(after) \in Int /\ OutstandingCents(row) \in Int /\ after.remaining \in Int
  BY <1>1, TemplateFields DEF OutstandingCents
<1>5. ASSUME after.remaining > 0 PROVE (sum + cents) + OutstandingCents(after) = total
  <2> HIDE DEF after
  <2> QED BY <1>1, <1>3, <1>4
<1>6. ASSUME ~ (after.remaining > 0) PROVE sum + cents = total
  <2> HIDE DEF after
  <2>1. OutstandingCents(after) = 0
    BY <1>1, <1>4, <1>6
  <2> QED BY <1>1, <1>3, <1>4, <2>1
<1> QED BY <1>5, <1>6 DEF AddsUp

LEMMA UnpaidStep ==
    ASSUME Sound, UnpaidBeforeCreation, [Next]_vars
    PROVE  UnpaidBeforeCreation'
<1>1. ASSUME lastTemplate' \in Nat, lastTemplate' >= lastTemplate,
             \A t \in TemplateIds : t > lastTemplate => paid'[t] = paid[t]
      PROVE  UnpaidBeforeCreation'
  BY <1>1, RowTypes DEF UnpaidBeforeCreation, TemplateIds
<1>2. lastTemplate \in Nat
  BY RowTypes
<1>3. QuietStep \/ ListStep => UNCHANGED <<lastTemplate, paid>>
  BY DEF QuietStep, ListStep, rows
<1>4. ASSUME NEW t \in TemplateIds, BookStep(t)
      PROVE  UNCHANGED lastTemplate /\ \A u \in TemplateIds : u > lastTemplate => paid'[u] = paid[u]
  <2>1. UNCHANGED lastTemplate /\ t \in 1..lastTemplate
    BY <1>4, BookStepFacts
  <2> QED BY <1>2, <1>4, <2>1, RowTypes DEF BookStep
<1>5. ASSUME NEW t, NEW req, UserCreates(req) \/ UserUpdates(t, req) \/ UserDeletes(t)
      PROVE  lastTemplate' \in Nat /\ lastTemplate' >= lastTemplate /\ UNCHANGED paid
  BY <1>2, <1>5 DEF UserCreates, UserUpdates, UserDeletes, CreateRecurringTemplate,
                    UpdateRecurringTemplate, DeleteRecurringTemplate
<1>6. ASSUME NEW t \in TemplateIds, NEW cents \in ExtraAmounts, UserPaysExtra(t, cents)
      PROVE  UNCHANGED lastTemplate /\ \A u \in TemplateIds : u > lastTemplate => paid'[u] = paid[u]
  <2>1. t \in DOMAIN templates /\ UNCHANGED lastTemplate
        /\ paid' = [paid EXCEPT ![t] = @ + cents]
    BY <1>6 DEF UserPaysExtra, AddExtraPayment
  <2>2. t \in 1..lastTemplate
    BY <2>1, RowTypes
  <2> QED BY <1>2, <2>1, <2>2, RowTypes
<1> QED BY <1>1, <1>2, <1>3, <1>4, <1>5, <1>6, StepKinds

LEMMA PlanStep ==
    ASSUME Sound, CopiesFresh, UnpaidBeforeCreation, PlanConserved, [Next]_vars
    PROVE  PlanConserved'
<1> DEFINE Plan(t) == AddsUp(templates'[t], paid'[t], agreed'[t])
<1>1. SUFFICES \A t \in DOMAIN templates' \ raced' : Plan(t)
  BY DEF PlanConserved, AddsUp
<1>2. /\ \A t \in DOMAIN templates \ raced : AddsUp(templates[t], paid[t], agreed[t])
      /\ \A t \in DOMAIN templates : templates[t] \in Template /\ RowSound(templates[t])
                                     /\ t \in TemplateIds
      /\ paid \in [TemplateIds -> Int] /\ agreed \in [TemplateIds -> Int]
      /\ lastTemplate \in Nat
  BY PlanByRow, RowTypes, StoreFacts, MaxTemplatesAssumption DEF Sound, TemplateIds
<1>3. CASE QuietStep \/ ListStep
  BY <1>2, <1>3 DEF QuietStep, ListStep, rows
<1>4. ASSUME NEW t \in TemplateIds, BookStep(t), NEW u \in DOMAIN templates' \ raced'
      PROVE  Plan(u)
  <2>1. /\ UNCHANGED <<agreed, raced>> /\ t \in DOMAIN pending
        /\ paid' = [paid EXCEPT ![t] = @ + NextAmountCents(pending[t])]
        /\ u \in DOMAIN templates \ raced
    BY <1>4, BookStepFacts DEF BookStep
  <2>2. CASE u # t
    BY <1>2, <1>4, <2>1, <2>2, BookStepFacts
  <2>3. CASE u = t
    <3>1. pending[t] = templates[t] /\ HasInstallmentsLeft(templates[t])
      BY <2>1, <2>3 DEF CopiesFresh
    <3>2. templates'[t] = RowAfterBooking(templates[t], templates[t])
      BY <1>4, <2>1, <2>3, <3>1, BookStepFacts
    <3>3. paid'[t] = paid[t] + NextAmountCents(templates[t]) /\ agreed'[t] = agreed[t]
      BY <1>2, <2>1, <3>1
    <3>4. AddsUp(RowAfterBooking(templates[t], templates[t]),
                 paid[t] + NextAmountCents(templates[t]), agreed[t])
      BY <1>2, <2>1, <2>3, <3>1, BookingAddsUp
    <3> QED BY <2>3, <3>2, <3>3, <3>4
  <2> QED BY <2>2, <2>3
<1>5. ASSUME NEW req \in Requests, UserCreates(req), NEW u \in DOMAIN templates' \ raced'
      PROVE  Plan(u)
  <2> DEFINE row == NewTemplate(req)
             new == lastTemplate'
  <2>1. /\ req \in Request /\ Accepted(req) /\ new = lastTemplate + 1 /\ new \in TemplateIds
        /\ templates' = [t \in DOMAIN templates \cup {new} |-> IF t = new THEN row ELSE templates[t]]
        /\ agreed' = [agreed EXCEPT ![new] = OutstandingCents(row)]
        /\ UNCHANGED <<paid, raced>>
    BY <1>2, <1>5, SchedulerAssumption, MaxTemplatesAssumption
       DEF UserCreates, CreateRecurringTemplate, TemplateIds
  <2>2. row \in Template /\ (row.limited => row.remaining > 0)
    BY <2>1, NewTemplateType DEF NewTemplate, Accepted
  <2>3. paid[new] = 0
    BY <1>2, <2>1 DEF UnpaidBeforeCreation
  <2>4. AddsUp(row, 0, 0 + OutstandingCents(row)) /\ OutstandingCents(row) \in Int
    BY <2>2, AgreedAddsUp, TemplateFields DEF OutstandingCents
  <2> HIDE DEF row, new
  <2>5. CASE u = new
    <3>1. templates'[u] = row /\ paid'[u] = 0 /\ agreed'[u] = OutstandingCents(row)
      BY <1>2, <2>1, <2>3, <2>5
    <3>2. 0 + OutstandingCents(row) = OutstandingCents(row)
      BY <2>4
    <3> QED BY <2>4, <3>1, <3>2
  <2>6. CASE u # new
    BY <1>2, <1>5, <2>1, <2>6
  <2> QED BY <2>5, <2>6
<1>6. ASSUME NEW t \in TemplateIds, NEW req \in Requests, UserUpdates(t, req), UNCHANGED pending,
             NEW u \in DOMAIN templates' \ raced'
      PROVE  Plan(u)
  <2> DEFINE row == EditedTemplate(templates[t], req)
  <2>1. /\ t \in DOMAIN templates /\ req \in Request /\ Accepted(req)
        /\ templates' = [templates EXCEPT ![t] = row]
        /\ agreed' = [agreed EXCEPT ![t] = paid[t] + OutstandingCents(row)]
        /\ UNCHANGED paid /\ raced \ {t} \subseteq raced'
    BY <1>6, SchedulerAssumption DEF UserUpdates, UpdateRecurringTemplate
  <2>2. row \in Template
    BY <1>2, <2>1, EditedTemplateType
  <2>3. row.limited => row.remaining > 0
    BY <2>1 DEF EditedTemplate, NewTemplate, Accepted
  <2>4. AddsUp(row, paid[t], paid[t] + OutstandingCents(row))
    BY <1>2, <2>2, <2>3, AgreedAddsUp
  <2> HIDE DEF row
  <2> QED BY <1>2, <1>6, <2>1, <2>4
<1>7. ASSUME NEW t \in TemplateIds, UserDeletes(t), NEW u \in DOMAIN templates' \ raced'
      PROVE  Plan(u)
  <2>1. /\ templates' = [v \in DOMAIN templates \ {t} |-> templates[v]]
        /\ UNCHANGED <<paid, agreed>> /\ raced \subseteq raced'
    BY <1>7 DEF UserDeletes, DeleteRecurringTemplate, RacedIfHeld
  <2> QED BY <1>2, <1>7, <2>1
<1>8. ASSUME NEW t \in TemplateIds, NEW cents \in ExtraAmounts, UserPaysExtra(t, cents),
             NEW u \in DOMAIN templates' \ raced'
      PROVE  Plan(u)
  <2> DEFINE row == RowAfterExtraPayment(templates[t], cents)
  <2>1. /\ t \in DOMAIN templates /\ ExtraPaymentValid(templates[t], cents) /\ cents \in Nat
        /\ templates' = [templates EXCEPT ![t] = row]
        /\ paid' = [paid EXCEPT ![t] = @ + cents]
        /\ UNCHANGED agreed /\ raced \subseteq raced'
    BY <1>8, SchedulerAssumption DEF UserPaysExtra, AddExtraPayment, RacedIfHeld
  <2>2. t \notin raced => AddsUp(row, paid[t] + cents, agreed[t])
    BY <1>2, <2>1, ExtraPaymentAddsUp
  <2> HIDE DEF row
  <2> QED BY <1>2, <1>8, <2>1, <2>2
<1> QED BY <1>3, <1>4, <1>5, <1>6, <1>7, <1>8, StepKinds

(* An installment plan that its user does not write under a running pass   *)
(* books exactly what was agreed: what is booked and what is open are the  *)
(* agreed sum at every moment, and when the last installment is booked the *)
(* sum is, over any extra payments, catch-ups, failures and restarts.      *)
THEOREM PlanAddsUp == Spec => []PlanConserved
<1> DEFINE Inv == Sound /\ CopiesFresh /\ UnpaidBeforeCreation /\ PlanConserved
<1>1. Init => Inv
  <2> SUFFICES ASSUME Init PROVE Inv
    OBVIOUS
  <2>1. DOMAIN pending = {} /\ DOMAIN templates = {} /\ paid = [t \in TemplateIds |-> 0]
    BY DEF Init, StoreInit, NoCopies
  <2> QED BY <2>1, SoundInit DEF CopiesFresh, UnpaidBeforeCreation, PlanConserved
<1>2. Inv /\ [Next]_vars => Inv'
  BY SoundStep, FreshStep, UnpaidStep, PlanStep
<1> QED BY <1>1, <1>2, PTL DEF Spec

(***************************************************************************)
(* No occurrence lost                                                      *)
(***************************************************************************)

(* A due date may move by an edit of the user, or as it is booked. *)
DueDateMovesRightly ==
    \A t \in (DOMAIN templates \cap DOMAIN templates') \ raced :
        templates'[t].nextDue # templates[t].nextDue =>
            \/ /\ BookedInThisStep(t, templates[t].nextDue)
               /\ templates'[t].nextDue = Advance(templates[t])
            \/ \E req \in Requests : UserUpdates(t, req)

LEMMA DueDateStep ==
    ASSUME Sound, CopiesFresh, [Next]_vars
    PROVE  DueDateMovesRightly
<1> SUFFICES ASSUME NEW t \in (DOMAIN templates \cap DOMAIN templates') \ raced,
                    templates'[t].nextDue # templates[t].nextDue
             PROVE  \/ /\ BookedInThisStep(t, templates[t].nextDue)
                       /\ templates'[t].nextDue = Advance(templates[t])
                    \/ \E req \in Requests : UserUpdates(t, req)
  BY DEF DueDateMovesRightly
<1>1. ~ QuietStep /\ ~ ListStep
  BY DEF QuietStep, ListStep, rows
<1>2. ASSUME NEW u \in TemplateIds, BookStep(u)
      PROVE  /\ BookedInThisStep(t, templates[t].nextDue)
             /\ templates'[t].nextDue = Advance(templates[t])
  <2>1. u = t
    BY <1>2, BookStepFacts
  <2>2. pending[t] = templates[t] /\ t \in DOMAIN pending
    BY <1>2, <2>1 DEF BookStep, CopiesFresh
  <2>3. /\ transactions' = Append(transactions, BookingRow(t, templates[t]))
        /\ BookingRow(t, templates[t]) \in Transaction
        /\ templates'[t].nextDue = Advance(templates[t])
    BY <1>2, <2>1, <2>2, BookStepFacts
  <2>4. /\ Len(transactions') = Len(transactions) + 1
        /\ transactions'[Len(transactions')] = BookingRow(t, templates[t])
    BY <2>3, RowTypes, AppendFacts
  <2> QED BY <2>3, <2>4 DEF BookedInThisStep, BookingRow
<1>3. ASSUME NEW req \in Requests, UserCreates(req) PROVE FALSE
  <2>1. t \in 1..lastTemplate /\ lastTemplate \in Nat
    BY RowTypes
  <2> QED BY <1>3, <2>1 DEF UserCreates, CreateRecurringTemplate
<1>4. ASSUME NEW u \in TemplateIds, NEW req \in Requests, UserUpdates(u, req)
      PROVE  \E r \in Requests : UserUpdates(t, r)
  <2>1. u = t
    BY <1>4 DEF UserUpdates, UpdateRecurringTemplate
  <2> QED BY <1>4, <2>1
<1>5. ASSUME NEW u \in TemplateIds, UserDeletes(u) PROVE FALSE
  BY <1>5 DEF UserDeletes, DeleteRecurringTemplate
<1>6. ASSUME NEW u \in TemplateIds, NEW cents \in ExtraAmounts, UserPaysExtra(u, cents) PROVE FALSE
  <2>1. /\ templates' = [templates EXCEPT ![u] = RowAfterExtraPayment(templates[u], cents)]
        /\ u \in DOMAIN templates
    BY <1>6 DEF UserPaysExtra, AddExtraPayment
  <2>2. RowAfterExtraPayment(templates[u], cents).nextDue = templates[u].nextDue
    BY <2>1, RowTypes DEF RowAfterExtraPayment, Template
  <2> QED BY <2>1, <2>2
<1> QED BY <1>1, <1>2, <1>3, <1>4, <1>5, <1>6, StepKinds

(* No occurrence is lost: the due date of a template the user does not     *)
(* write under a running pass moves only by an edit, or by one interval in *)
(* the very step that books the date it leaves.                            *)
THEOREM NothingLost == Spec => NoOccurrenceLost
<1> DEFINE Inv == Sound /\ CopiesFresh
<1>1. Init => Inv
  BY SoundInit DEF Init, NoCopies, CopiesFresh
<1>2. Inv /\ [Next]_vars => Inv'
  BY SoundStep, FreshStep
<1>3. Inv /\ [Next]_vars => [DueDateMovesRightly]_vars
  BY DueDateStep
<1>4. Spec => [][DueDateMovesRightly]_vars
  BY <1>1, <1>2, <1>3, PTL DEF Spec
<1> QED BY <1>4 DEF NoOccurrenceLost, DueDateMovesRightly

(***************************************************************************)
(* Bookings and the clock                                                  *)
(***************************************************************************)
InTime(date, day) == date <= day \/ \E shift \in UtcShifts : date <= AddDate(day, 0, 0, shift)

LEMMA TimeGoesOn ==
    ASSUME Sound, [Next]_vars
    PROVE  today \in Days /\ today' \in Days /\ today <= today'
<1>1. today \in Days /\ today' \in Days
  BY SoundStep DEF Sound, TypeOK
<1>2. today \in Nat /\ today' \in Nat
  BY <1>1, SchedulerAssumption DEF Dates
<1>3. (UNCHANGED today) \/ DayPasses
  BY DEF Next, PassStep, UserStep, List, Book, PassFails, Start, TickerFires, ReceiveTick, Exit, vars,
         UserCreates, UserUpdates, UserDeletes, UserPaysExtra, UserDeletesCategory,
         UserDeletesAccount, UserEdits
<1> QED BY <1>1, <1>2, <1>3 DEF DayPasses

(* What is not ahead of the clock never will be, in UTC as in local time. *)
LEMMA StaysInTime ==
    ASSUME Sound, [Next]_vars, NEW date \in Dates
    PROVE  /\ \A shift \in UtcShifts : date <= UtcDate(shift) => date <= UtcDate(shift)'
           /\ InTime(date, today) => InTime(date, today')
<1>1. today \in Days /\ today' \in Days /\ today <= today'
  BY TimeGoesOn
<1>2. /\ today \in Dates /\ YearOf(today) > 0 /\ today \in Nat
      /\ today' \in Dates /\ YearOf(today') > 0 /\ today' \in Nat /\ date \in Nat
  BY <1>1, SchedulerAssumption DEF Dates
<1>3. ASSUME NEW shift \in UtcShifts, date <= UtcDate(shift)
      PROVE  date <= UtcDate(shift)'
  <2>1. shift \in {-1, 0, 1}
    BY SchedulerAssumption
  <2>2. AddDate(today, 0, 0, shift) <= AddDate(today', 0, 0, shift)
    BY <1>1, <1>2, <2>1, DayShiftMonotone
  <2>3. AddDate(today, 0, 0, shift) \in Nat /\ AddDate(today', 0, 0, shift) \in Nat
    BY <1>2, <2>1, DayShiftIsDate DEF Dates
  <2> QED BY <1>2, <1>3, <2>2, <2>3 DEF UtcDate
<1> QED BY <1>1, <1>2, <1>3 DEF InTime, UtcDate

(* A pass takes the instant it works with from the clock, and lists and    *)
(* keeps only copies that are due by then.                                 *)
LEMMA TimeStep ==
    ASSUME Sound, PassInTime, [Next]_vars
    PROVE  PassInTime'
<1>1. ASSUME asOf' = NoPass, DOMAIN pending' = {} PROVE PassInTime'
  BY <1>1 DEF PassInTime
<1>2. ASSUME UNCHANGED asOf, NEW Copies, pending' = Copies,
             \A t \in DOMAIN Copies : Copies[t].nextDue <= asOf.utc
      PROVE  PassInTime'
  <2>1. ASSUME asOf # NoPass PROVE asOf.utc \in Dates
    BY <2>1 DEF Sound, TypeOK, PassTypeOK, Instants
  <2>2. asOf # NoPass => \E shift \in UtcShifts : asOf.utc <= UtcDate(shift)'
    BY <2>1, StaysInTime DEF PassInTime
  <2> QED BY <1>2, <2>2 DEF PassInTime
<1>3. ASSUME EndPass \/ Exit PROVE PassInTime'
  BY <1>1, <1>3 DEF EndPass, Exit, NoCopies
<1>4. ASSUME UNCHANGED <<asOf, pending>> PROVE PassInTime'
  BY <1>2, <1>4 DEF PassInTime
<1>5. ASSUME BeginPass, UNCHANGED today, phase \in {"down", "waiting"} PROVE PassInTime'
  <2>1. PICK shift \in UtcShifts : asOf' = [local |-> today, utc |-> UtcDate(shift)]
    BY <1>5 DEF BeginPass
  <2>2. UtcDate(shift)' = UtcDate(shift) /\ UtcDate(shift) \in Nat
    BY <1>5, UtcDateType DEF UtcDate, Sound, TypeOK, Dates
  <2>3. DOMAIN pending' = {}
    BY <1>5 DEF BeginPass, Sound, TypeOK, PassTypeOK
  <2>4. asOf'.utc <= UtcDate(shift)'
    BY <2>1, <2>2
  <2> QED BY <2>3, <2>4 DEF PassInTime
<1>6. ASSUME NEW t, NEW copies, GoOnWith(t, copies),
             \A u \in DOMAIN copies : copies[u].nextDue <= asOf.utc
      PROVE  PassInTime'
  <2>1. CASE EndPass
    BY <1>3, <2>1
  <2>2. CASE pending' = copies /\ UNCHANGED asOf
    BY <1>2, <1>6, <2>2
  <2> QED BY <1>6, <2>1, <2>2 DEF GoOnWith
<1>7. CASE List
  <2>1. \A u \in DOMAIN Listed : Listed[u].nextDue <= asOf.utc
    BY DEF Listed, StillDue
  <2>2. GoOnWith(0, Listed)
    BY <1>7 DEF List, Listed
  <2> QED BY <1>6, <2>1, <2>2
<1>8. ASSUME NEW t \in TemplateIds, Book(t) PROVE PassInTime'
  <2>1. t \in DOMAIN pending /\ GoOnWith(t, CopiesAfterBooking(t))
    BY <1>8 DEF Book, IsNext
  <2>2. \A u \in DOMAIN CopiesAfterBooking(t) : CopiesAfterBooking(t)[u].nextDue <= asOf.utc
    BY <2>1 DEF CopiesAfterBooking, StillDue, PassInTime
  <2> QED BY <1>6, <2>1, <2>2
<1>9. CASE PassFails
  BY <1>3, <1>9 DEF PassFails
<1>10. CASE Start
  BY <1>5, <1>10 DEF Start
<1>11. CASE ReceiveTick
  BY <1>5, <1>11 DEF ReceiveTick
<1>12. CASE TickerFires \/ DayPasses \/ UNCHANGED vars
  BY <1>4, <1>12 DEF TickerFires, DayPasses, vars, pass
<1>13. UserEdits => UNCHANGED <<asOf, pending>>
  BY DEF UserEdits, pass
<1>14. CASE UserStep
  BY <1>4, <1>13, <1>14 DEF UserStep, UserCreates, UserUpdates, UserDeletes, UserPaysExtra,
         UserDeletesCategory, UserDeletesAccount
<1> QED BY <1>3, <1>7, <1>8, <1>9, <1>10, <1>11, <1>12, <1>14 DEF Next, PassStep

RowInTime(row, day) == row.source = "recurring" => InTime(row.date, day)

BookingsInTime == \A i \in DOMAIN transactions : RowInTime(transactions[i], today)

LEMMA BookingsInTimeStep ==
    ASSUME Sound, PassInTime, BookingsInTime, [Next]_vars
    PROVE  BookingsInTime'
<1>1. transactions \in Seq(Transaction)
  BY RowTypes
<1>2. ASSUME NEW row \in Transaction, RowInTime(row, today) PROVE RowInTime(row, today')
  BY <1>2, StaysInTime DEF RowInTime, Transaction
<1>3. \A i \in DOMAIN transactions : RowInTime(transactions[i], today) /\ transactions[i] \in Transaction
  BY <1>1 DEF BookingsInTime
<1>4. \A i \in DOMAIN transactions : RowInTime(transactions[i], today')
  BY <1>2, <1>3
<1>5. ASSUME UNCHANGED transactions PROVE BookingsInTime'
  <2> SUFFICES ASSUME NEW i \in DOMAIN transactions PROVE RowInTime(transactions'[i], today')
    BY <1>5 DEF BookingsInTime, RowInTime, InTime
  <2> QED BY <1>3, <1>4, <1>5
<1>6. ASSUME NEW row \in Transaction, transactions' = Append(transactions, row), RowInTime(row, today')
      PROVE  BookingsInTime'
  <2> SUFFICES ASSUME NEW i \in DOMAIN transactions' PROVE RowInTime(transactions'[i], today')
    BY DEF BookingsInTime, RowInTime, InTime
  <2>1. (i \in DOMAIN transactions /\ transactions'[i] = transactions[i]) \/ transactions'[i] = row
    BY <1>1, <1>6
  <2> QED BY <1>4, <1>6, <2>1
<1>7. ASSUME NEW t \in TemplateIds, BookStep(t) PROVE BookingsInTime'
  <2> DEFINE row == BookingRow(t, pending[t])
  <2>1. /\ row \in Transaction /\ transactions' = Append(transactions, row)
        /\ pending[t] \in Template
    BY <1>7, BookStepFacts
  <2>2. row.date = pending[t].nextDue /\ t \in DOMAIN pending
    BY <1>7 DEF BookingRow, BookStep
  <2>3. asOf # NoPass /\ asOf.utc \in Nat
    BY <2>2 DEF Sound, TypeOK, PassTypeOK, Instants, Dates, NoPass
  <2>4. PICK shift \in UtcShifts : asOf.utc <= UtcDate(shift)
    BY <2>3 DEF PassInTime
  <2>5. UtcDate(shift) \in Nat /\ row.date \in Nat
    BY <2>1, UtcDateType DEF Sound, TypeOK, Dates, Transaction
  <2>6. row.date <= asOf.utc
    BY <2>2 DEF PassInTime
  <2> HIDE DEF row
  <2>7. RowInTime(row, today)
    BY <2>3, <2>4, <2>5, <2>6 DEF RowInTime, InTime, UtcDate
  <2> QED BY <1>2, <1>6, <2>1, <2>7
<1>8. ASSUME NEW t \in TemplateIds, NEW cents \in ExtraAmounts, UserPaysExtra(t, cents)
      PROVE  BookingsInTime'
  <2> DEFINE row == ExtraPaymentRow(t, cents, today)
  <2>1. t \in DOMAIN templates /\ transactions' = Append(transactions, row)
    BY <1>8 DEF UserPaysExtra, AddExtraPayment
  <2>2. templates[t] \in Template /\ today \in Dates
    BY <2>1, TimeGoesOn, RowTypes, SchedulerAssumption
  <2>3. cents \in Nat
    BY SchedulerAssumption
  <2>4. row \in Transaction /\ row.source = "manual"
    BY <2>2, <2>3, TemplateFields DEF ExtraPaymentRow, Transaction
  <2> HIDE DEF row
  <2>5. RowInTime(row, today')
    BY <2>4 DEF RowInTime
  <2> QED BY <1>6, <2>1, <2>4, <2>5
<1>9. CASE QuietStep \/ ListStep
  BY <1>5, <1>9 DEF QuietStep, ListStep, rows
<1>10. CASE \/ \E req \in Requests : UserCreates(req)
            \/ \E t \in TemplateIds, req \in Requests : UserUpdates(t, req)
            \/ \E t \in TemplateIds : UserDeletes(t)
  BY <1>5, <1>10 DEF UserCreates, UserUpdates, UserDeletes, CreateRecurringTemplate,
         UpdateRecurringTemplate, DeleteRecurringTemplate
<1> QED BY <1>7, <1>8, <1>9, <1>10, StepKinds

(* No occurrence is booked before its day has come, in the server's zone   *)
(* or in UTC, on whichever day the pass began and however long it took:    *)
(* Scheduler.runOnce and the loop of BookDueRecurringTemplates.            *)
THEOREM BookedInTime == Spec => []NeverBookedAhead
<1> DEFINE Inv == Sound /\ PassInTime /\ BookingsInTime
<1>1. Init => Inv
  <2> SUFFICES ASSUME Init PROVE Inv
    OBVIOUS
  <2>1. DOMAIN pending = {} /\ DOMAIN transactions = {} /\ asOf = NoPass
    BY DEF Init, StoreInit, NoCopies
  <2> QED BY <2>1, SoundInit DEF PassInTime, BookingsInTime
<1>2. Inv /\ [Next]_vars => Inv'
  BY SoundStep, TimeStep, BookingsInTimeStep
<1>3. Inv => NeverBookedAhead
  BY DEF BookingsInTime, RowInTime, InTime, UtcDate, NeverBookedAhead, BookedRows
<1> QED BY <1>1, <1>2, <1>3, PTL DEF Spec

(* What the copies, the bookings and the due dates have to do with each    *)
(* other at every moment.                                                  *)
THEOREM CopiesAndBookings == Spec => []InductiveInvariant
<1> DEFINE Inv == Sound /\ InductiveInvariant
<1>1. Init => Inv
  <2> SUFFICES ASSUME Init PROVE Inv
    OBVIOUS
  <2>1. /\ DOMAIN pending = {} /\ DOMAIN transactions = {} /\ asOf = NoPass
        /\ paid = [t \in TemplateIds |-> 0]
    BY DEF Init, StoreInit, NoCopies
  <2> QED BY <2>1, SoundInit
          DEF InductiveInvariant, CopiesFresh, BookedBeforeDue, UnpaidBeforeCreation, PassInTime
<1>2. Inv /\ [Next]_vars => Inv'
  BY SoundStep, FreshStep, BeforeDueStep, UnpaidStep, TimeStep DEF InductiveInvariant
<1> QED BY <1>1, <1>2, PTL DEF Spec

(***************************************************************************)
(* The contract.  Every kind of step (StepKinds) is mapped to an action of *)
(* PlanContract or leaves its variables alone.                             *)
(***************************************************************************)
LEMMA TermsByRow ==
    /\ DOMAIN DueDate = DOMAIN templates /\ DOMAIN Owed = DOMAIN templates
    /\ \A t \in DOMAIN templates : /\ DueDate[t] = templates[t].nextDue
                                   /\ Owed[t] = OwedBy(templates[t])
    /\ DOMAIN DueDate' = DOMAIN templates' /\ DOMAIN Owed' = DOMAIN templates'
    /\ \A t \in DOMAIN templates' : /\ DueDate'[t] = templates'[t].nextDue
                                    /\ Owed'[t] = OwedBy(templates'[t])
BY DEF DueDate, Owed

(* What a sound row owes is a sum. *)
LEMMA OwedIsSum ==
    ASSUME NEW row \in Template, RowSound(row)
    PROVE  /\ OwedBy(row) \in Contract!Sums
           /\ row.limited => OwedBy(row) \in Nat /\ OwedBy(row) # -1
           /\ ~ row.limited => OwedBy(row) = -1
<1>1. /\ row.amount \in Nat /\ row.credit \in Nat /\ row.remaining \in Int
      /\ row.credit > 0 => row.credit < row.amount
  BY TemplateFields DEF RowSound
<1>2. row.remaining > 0 => row.remaining * row.amount - row.credit >= 0
  <2>1. ASSUME row.remaining > 0 PROVE row.remaining * row.amount >= row.amount
    BY <1>1, <2>1
  <2>2. row.remaining * row.amount \in Int
    BY <1>1
  <2> QED BY <1>1, <2>1, <2>2
<1>3. OutstandingCents(row) \in Int
  BY <1>1 DEF OutstandingCents
<1>4. row.limited => OwedBy(row) \in Nat
  BY <1>2, <1>3 DEF OwedBy, OutstandingCents
<1>5. ~ row.limited => OwedBy(row) = -1
  BY DEF OwedBy
<1> QED BY <1>4, <1>5 DEF Contract!Sums, Contract!Endless

(* A booking from an up-to-date copy is taken off what is owed. *)
LEMMA BookingTakenOff ==
    ASSUME NEW row \in Template, RowSound(row), HasInstallmentsLeft(row)
    PROVE  /\ OwedBy(row) = -1 \/ NextAmountCents(row) <= OwedBy(row)
           /\ OwedBy(RowAfterBooking(row, row)) =
                IF OwedBy(row) = -1 THEN -1 ELSE OwedBy(row) - NextAmountCents(row)
<1> DEFINE after == RowAfterBooking(row, row)
<1>1. after.limited = row.limited /\ after \in Template
  BY RowAfterBookingType DEF RowAfterBooking, Template
<1>2. CASE ~ row.limited
  BY <1>1, <1>2 DEF OwedBy
<1>3. CASE row.limited
  <2>1. row.remaining > 0 /\ row.remaining \in Int /\ NextAmountCents(row) \in Nat
    BY <1>3, TemplateFields, NextAmountType DEF HasInstallmentsLeft
  <2>2. row.credit > 0 => row.credit < row.amount
    BY DEF RowSound
  <2>3. /\ after.remaining = row.remaining - 1
        /\ after.remaining > 0 =>
             OutstandingCents(after) + NextAmountCents(row) = OutstandingCents(row)
        /\ after.remaining = 0 => NextAmountCents(row) = OutstandingCents(row)
    BY <1>3, <2>1, <2>2, BookingConserves
  <2>4. /\ OutstandingCents(after) \in Int /\ OutstandingCents(row) \in Int
        /\ OutstandingCents(row) = OwedBy(row)
    BY <1>1, <1>3, <2>1, TemplateFields DEF OutstandingCents, OwedBy
  <2>5. OwedBy(row) \in Nat /\ OwedBy(row) # -1
    BY <1>3, OwedIsSum
  <2>6. RowSound(after)
    BY RowAfterBookingSound
  <2> HIDE DEF after
  <2>7. OwedBy(after) \in Nat /\ OwedBy(after) = OwedBy(row) - NextAmountCents(row)
    <3>1. OwedBy(after) \in Nat
      BY <1>1, <1>3, <2>6, OwedIsSum
    <3>2. CASE after.remaining > 0
      <4>1. OwedBy(after) = OutstandingCents(after)
        BY <1>1, <1>3, <3>2 DEF OwedBy
      <4> QED BY <2>1, <2>3, <2>4, <3>1, <3>2, <4>1
    <3>3. CASE ~ (after.remaining > 0)
      <4>1. OwedBy(after) = 0
        BY <1>1, <1>3, <3>3 DEF OwedBy
      <4> QED BY <2>1, <2>3, <2>4, <2>5, <3>3, <4>1
    <3> QED BY <3>2, <3>3
  <2>8. NextAmountCents(row) <= OwedBy(row)
    BY <2>1, <2>5, <2>7
  <2> QED BY <2>5, <2>7, <2>8 DEF after
<1> QED BY <1>2, <1>3

(* So is an extra payment, which is never more than that. *)
LEMMA PaymentTakenOff ==
    ASSUME NEW row \in Template, NEW cents \in Nat, ExtraPaymentValid(row, cents)
    PROVE  /\ 0 < cents /\ cents <= OwedBy(row)
           /\ OwedBy(RowAfterExtraPayment(row, cents)) = OwedBy(row) - cents
           /\ OwedBy(row) # -1
<1> DEFINE after == RowAfterExtraPayment(row, cents)
<1>1. /\ after \in Template /\ OutstandingCents(after) + cents = OutstandingCents(row)
      /\ after.remaining >= 0 /\ after.limited
      /\ after.remaining = 0 => OutstandingCents(after) = 0
  BY ExtraPaymentConserves
<1>2. /\ row.limited /\ cents > 0 /\ cents <= OutstandingCents(row)
  BY DEF ExtraPaymentValid
<1>3. row.remaining > 0
  <2>1. /\ row.amount \in Nat /\ row.credit \in Nat /\ row.remaining \in Int
        /\ row.amount > 0 /\ cents > 0 /\ cents <= row.remaining * row.amount - row.credit
    BY TemplateFields DEF ExtraPaymentValid, OutstandingCents
  <2>2. row.remaining * row.amount > 0
    BY <2>1
  <2> QED BY <2>1, <2>2
<1>4. OwedBy(row) = OutstandingCents(row) /\ OutstandingCents(row) \in Int
  BY <1>2, <1>3, TemplateFields DEF OwedBy, OutstandingCents
<1>5. after.remaining \in Int /\ OutstandingCents(after) \in Int
  BY <1>1, TemplateFields DEF OutstandingCents
<1>6. OwedBy(after) = OutstandingCents(after)
  BY <1>1, <1>5 DEF OwedBy
<1> HIDE DEF after
<1>7. OwedBy(after) = OwedBy(row) - cents
  BY <1>1, <1>4, <1>5, <1>6
<1> QED BY <1>2, <1>4, <1>7 DEF after

(***************************************************************************)
(* The steps                                                               *)
(***************************************************************************)
SoundRows ==
    \A t \in DOMAIN templates :
        templates[t] \in Template /\ RowSound(templates[t]) /\ t \in TemplateIds

LEMMA SoundHasSoundRows == Sound => SoundRows
BY RowTypes, StoreFacts, MaxTemplatesAssumption DEF Sound, TemplateIds, SoundRows

(* An appended row is the contract's entry. *)
LEMMA EntryOfAppend ==
    ASSUME Sound, NEW row \in Transaction, transactions' = Append(transactions, row)
    PROVE  /\ Contract!Entry = row
           /\ Contract!Enter(row.template)
<1>1. /\ Len(transactions') = Len(transactions) + 1
      /\ transactions'[Len(transactions')] = row
  BY RowTypes, AppendFacts
<1>2. Contract!Entry = row
  BY <1>1 DEF Contract!Entry
<1> QED BY <1>1, <1>2 DEF Contract!Enter

(* A write to the row of t, and to no other, changes the terms of t only. *)
LEMMA TermsOfWritten ==
    ASSUME Sound', NEW t,
           DOMAIN templates' \ {t} = DOMAIN templates \ {t},
           \A u \in DOMAIN templates \ {t} : templates'[u] = templates[u]
    PROVE  /\ t \in DOMAIN templates' => Contract!TermsChange(t, TRUE)
           /\ t \notin DOMAIN templates' => Contract!TermsChange(t, FALSE)
<1>1. Contract!SameBut(t, DueDate, DueDate') /\ Contract!SameBut(t, Owed, Owed')
  BY TermsByRow DEF Contract!SameBut
<1>2. t \in DOMAIN templates' => Owed'[t] \in Contract!Sums
  <2>1. SUFFICES ASSUME t \in DOMAIN templates' PROVE Owed'[t] \in Contract!Sums
    OBVIOUS
  <2>2. templates'[t] \in Template /\ RowSound(templates'[t])
    <3>1. Sound' => SoundRows'
      BY SoundHasSoundRows, PTL
    <3> QED BY <2>1, <3>1 DEF SoundRows
  <2>3. OwedBy(templates'[t]) \in Contract!Sums
    BY <2>2, OwedIsSum
  <2> QED BY <2>1, <2>3, TermsByRow
<1> QED BY <1>1, <1>2, TermsByRow DEF Contract!TermsChange

LEMMA BookKeepsContract ==
    ASSUME Sound, Sound', CopiesFresh, NEW t \in TemplateIds, BookStep(t)
    PROVE  Contract!Book(t) \/ Contract!BookDisputed(t)
<1> DEFINE row == templates[t]
<1>1. /\ t \in DOMAIN pending /\ UNCHANGED raced
      /\ transactions' = Append(transactions, BookingRow(t, pending[t]))
      /\ BookingRow(t, pending[t]) \in Transaction
      /\ DOMAIN templates' = DOMAIN templates
      /\ \A u \in DOMAIN templates : u # t => templates'[u] = templates[u]
  BY BookStepFacts DEF BookStep
<1>2. /\ Contract!Entry = BookingRow(t, pending[t])
      /\ Contract!Enter(t)
  <2>1. BookingRow(t, pending[t]).template = t
    BY DEF BookingRow
  <2> QED BY <1>1, <2>1, EntryOfAppend
<1>3. CASE t \in raced
  <2>1. Contract!TermsChange(t, t \in DOMAIN DueDate)
    <3>1. CASE t \in DOMAIN templates
      BY <1>1, <3>1, TermsOfWritten, TermsByRow DEF Contract!TermsChange
    <3>2. CASE t \notin DOMAIN templates
      BY <1>1, <3>2, TermsOfWritten, TermsByRow DEF Contract!TermsChange
    <3> QED BY <3>1, <3>2
  <2> QED BY <1>1, <1>2, <1>3, <2>1 DEF Contract!BookDisputed
<1>4. CASE t \notin raced
  <2>1. t \in DOMAIN templates /\ pending[t] = row /\ HasInstallmentsLeft(row)
    BY <1>1, <1>4 DEF CopiesFresh
  <2>2. row \in Template /\ RowSound(row)
    BY <2>1, SoundHasSoundRows DEF SoundRows
  <2>3. templates'[t] = RowAfterBooking(row, row)
    BY <2>1, BookStepFacts
  <2>4. templates'[t].nextDue > row.nextDue
    BY <2>1, BookStepFacts
  <2>5. Contract!Entry.amount = NextAmountCents(row) /\ Contract!Entry.date = row.nextDue
    BY <1>2, <2>1 DEF BookingRow
  <2>6. /\ OwedBy(row) = -1 \/ NextAmountCents(row) <= OwedBy(row)
        /\ OwedBy(templates'[t]) =
              IF OwedBy(row) = -1 THEN -1 ELSE OwedBy(row) - NextAmountCents(row)
    BY <2>1, <2>2, <2>3, BookingTakenOff
  <2>7. DueDate[t] = row.nextDue /\ Owed[t] = OwedBy(row) /\ t \in DOMAIN DueDate
    BY <2>1, TermsByRow
  <2>8. DueDate'[t] = templates'[t].nextDue /\ t \in DOMAIN DueDate'
        /\ Owed'[t] = OwedBy(templates'[t])
    BY <1>1, <2>1, TermsByRow
  <2>9. Contract!SameBut(t, DueDate, DueDate')
    BY <1>1, TermsByRow DEF Contract!SameBut
  <2>10. Contract!TakenOff(t)
    <3> DEFINE left == IF Owed[t] = -1 THEN -1 ELSE Owed[t] - Contract!Entry.amount
    <3>1. Owed'[t] = left
      BY <2>5, <2>6, <2>7, <2>8
    <3>2. /\ DOMAIN Owed' = DOMAIN Owed
          /\ \A u \in DOMAIN Owed : u # t => Owed'[u] = Owed[u]
      BY <1>1, TermsByRow
    <3> HIDE DEF left
    <3>3. Owed' = [Owed EXCEPT ![t] = left]
      BY <3>1, <3>2 DEF Owed
    <3> QED BY <3>3 DEF left, Contract!TakenOff, Contract!Endless
  <2> HIDE DEF row
  <2> QED BY <1>1, <1>2, <1>4, <2>4, <2>5, <2>6, <2>7, <2>8, <2>9, <2>10
         DEF Contract!Book, Contract!Endless
<1> QED BY <1>3, <1>4

LEMMA PaymentKeepsContract ==
    ASSUME Sound, Sound', NEW t \in TemplateIds, NEW cents \in ExtraAmounts, UserPaysExtra(t, cents)
    PROVE  Contract!Pay(t)
<1> DEFINE row  == templates[t]
           paym == ExtraPaymentRow(t, cents, today)
<1>1. /\ t \in DOMAIN templates /\ ExtraPaymentValid(row, cents) /\ cents \in Nat
      /\ templates' = [templates EXCEPT ![t] = RowAfterExtraPayment(row, cents)]
      /\ transactions' = Append(transactions, paym)
      /\ raced' = raced \/ raced' = raced \cup {t}
  BY SchedulerAssumption DEF UserPaysExtra, AddExtraPayment, RacedIfHeld
<1>2. row \in Template
  BY <1>1, SoundHasSoundRows DEF SoundRows
<1>3. paym \in Transaction /\ paym.template = t /\ paym.amount = cents
  <2>1. today \in Dates
    BY SchedulerAssumption DEF Sound, TypeOK
  <2> QED BY <1>1, <1>2, <2>1, TemplateFields DEF ExtraPaymentRow, Transaction
<1>4. Contract!Enter(t) /\ Contract!Entry = paym
  BY <1>1, <1>3, EntryOfAppend
<1>5. /\ 0 < cents /\ cents <= OwedBy(row) /\ OwedBy(row) # -1
      /\ OwedBy(RowAfterExtraPayment(row, cents)) = OwedBy(row) - cents
  BY <1>1, <1>2, PaymentTakenOff
<1>6. RowAfterExtraPayment(row, cents).nextDue = row.nextDue
  BY <1>2 DEF RowAfterExtraPayment, Template
<1>7. UNCHANGED DueDate
  BY <1>1, <1>6 DEF DueDate
<1>8. Owed' = [Owed EXCEPT ![t] = OwedBy(row) - cents] /\ Owed[t] = OwedBy(row)
  BY <1>1, <1>5 DEF Owed
<1> HIDE DEF row, paym
<1>9. Contract!TakenOff(t)
  BY <1>3, <1>4, <1>5, <1>8 DEF Contract!TakenOff, Contract!Endless
<1>10. t \in DOMAIN Owed
  BY <1>1, TermsByRow
<1> QED BY <1>1, <1>3, <1>4, <1>5, <1>7, <1>8, <1>9, <1>10
       DEF Contract!Pay, Contract!DisputeMayBegin

LEMMA RequestsKeepContract ==
    ASSUME Sound, Sound', NEW t \in TemplateIds, NEW req \in Requests
    PROVE  /\ UserCreates(req) => \E u \in TemplateIds : Contract!Agree(u)
           /\ UserUpdates(t, req) => Contract!Agree(t)
<1>1. ASSUME UserCreates(req) PROVE \E u \in TemplateIds : Contract!Agree(u)
  <2> DEFINE new == lastTemplate'
  <2>1. /\ new \in TemplateIds /\ new \in DOMAIN templates'
        /\ DOMAIN templates' \ {new} = DOMAIN templates \ {new}
        /\ \A u \in DOMAIN templates \ {new} : templates'[u] = templates[u]
        /\ UNCHANGED <<transactions, raced>>
    BY <1>1, RowTypes, MaxTemplatesAssumption
       DEF UserCreates, CreateRecurringTemplate, TemplateIds
  <2>2. Contract!TermsChange(new, TRUE)
    BY <2>1, TermsOfWritten
  <2> QED BY <2>1, <2>2 DEF Contract!Agree, Contract!DisputeMayBegin
<1>2. ASSUME UserUpdates(t, req) PROVE Contract!Agree(t)
  <2>1. /\ t \in DOMAIN templates /\ DOMAIN templates' = DOMAIN templates
        /\ \A u \in DOMAIN templates \ {t} : templates'[u] = templates[u]
        /\ UNCHANGED transactions
        /\ raced' = raced \cup {t} \/ raced' = raced \ {t}
    BY <1>2 DEF UserUpdates, UpdateRecurringTemplate
  <2>2. Contract!TermsChange(t, TRUE)
    BY <2>1, TermsOfWritten
  <2> QED BY <2>1, <2>2 DEF Contract!Agree, Contract!DisputeMayBegin
<1> QED BY <1>1, <1>2

LEMMA DeletionKeepsContract ==
    ASSUME Sound', NEW t, UserDeletes(t)
    PROVE  Contract!Cancel(t)
<1>1. /\ DOMAIN templates' = DOMAIN templates \ {t}
      /\ \A u \in DOMAIN templates \ {t} : templates'[u] = templates[u]
      /\ UNCHANGED transactions
      /\ raced' = raced \/ raced' = raced \cup {t}
  BY DEF UserDeletes, DeleteRecurringTemplate, RacedIfHeld
<1>2. Contract!TermsChange(t, FALSE)
  BY <1>1, TermsOfWritten
<1> QED BY <1>1, <1>2 DEF Contract!Cancel, Contract!DisputeMayBegin

LEMMA ContractInit == Init => Contract!Init
<1> SUFFICES ASSUME Init PROVE Contract!Init
  OBVIOUS
<1>1. DOMAIN templates = {} /\ transactions = <<>> /\ raced = {}
  BY DEF Init, StoreInit
<1>2. DueDate = [t \in {} |-> 0] /\ Owed = [t \in {} |-> 0]
  BY <1>1 DEF DueDate, Owed
<1> QED BY <1>1, <1>2 DEF Contract!Init

LEMMA ContractStep ==
    ASSUME Sound, Sound', CopiesFresh, [Next]_vars
    PROVE  [Contract!Next]_(Contract!vars)
<1>1. CASE QuietStep \/ ListStep
  <2>1. UNCHANGED <<templates, transactions, raced>>
    BY <1>1 DEF QuietStep, ListStep, rows
  <2> QED BY <2>1 DEF Contract!vars, DueDate, Owed
<1>2. ASSUME NEW t \in TemplateIds, BookStep(t) PROVE Contract!Next
  BY <1>2, BookKeepsContract DEF Contract!Next
<1>3. ASSUME NEW t \in TemplateIds, NEW cents \in ExtraAmounts, UserPaysExtra(t, cents)
      PROVE  Contract!Next
  BY <1>3, PaymentKeepsContract DEF Contract!Next
<1>4. ASSUME NEW req \in Requests, UserCreates(req) PROVE Contract!Next
  <2>1. lastTemplate' \in TemplateIds
    BY <1>4, RowTypes, MaxTemplatesAssumption DEF UserCreates, CreateRecurringTemplate, TemplateIds
  <2>2. \E u \in TemplateIds : Contract!Agree(u)
    BY <1>4, <2>1, RequestsKeepContract
  <2> QED BY <2>2 DEF Contract!Next
<1>5. ASSUME NEW t \in TemplateIds, NEW req \in Requests, UserUpdates(t, req) PROVE Contract!Next
  BY <1>5, RequestsKeepContract DEF Contract!Next
<1>6. ASSUME NEW t \in TemplateIds, UserDeletes(t) PROVE Contract!Next
  BY <1>6, DeletionKeepsContract DEF Contract!Next
<1> QED BY <1>1, <1>2, <1>3, <1>4, <1>5, <1>6, StepKinds

(* The scheduler and the handlers, with all their copies, failures and     *)
(* restarts, show their user the steps of the contract and no others.      *)
THEOREM ContractKept == Spec => PlanContractKept
<1> DEFINE Inv == Sound /\ CopiesFresh
<1>1. Init => Inv
  BY SoundInit DEF Init, NoCopies, CopiesFresh
<1>2. Inv /\ [Next]_vars => Inv'
  BY SoundStep, FreshStep
<1>3. Inv /\ Inv' /\ [Next]_vars => [Contract!Next]_(Contract!vars)
  BY ContractStep
<1>4. Init => Contract!Init
  BY ContractInit
<1>5. Spec => Contract!Init /\ [][Contract!Next]_(Contract!vars)
  BY <1>1, <1>2, <1>3, <1>4, PTL DEF Spec
<1> QED BY <1>5 DEF PlanContractKept, Contract!Spec
=============================================================================
