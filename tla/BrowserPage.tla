----------------------------- MODULE BrowserPage -----------------------------
(***************************************************************************)
(* A tab of the browser with the app, beside other tabs that log in and    *)
(* out: the month view and the dialog for a booking.  The page sends its   *)
(* requests without waiting for those before; they are served, and their   *)
(* answers arrive, in any order, or not at all.  The other lists of the    *)
(* page, the overview that is loaded after a booking among them, are left  *)
(* out, and so are the contents of an entry: entries are numbered, each    *)
(* time the dialog is opened anew.                                         *)
(***************************************************************************)
EXTENDS Session

CONSTANTS
    FirstMonths,     \* the months in which the page is opened
    MaxShift,        \* bound: months between the one opened and the one looked at
    MaxEntries,      \* bound: entries begun
    Stored,          \* those of them that are a booking of the list, opened to be edited
    MaxRequests      \* bound: requests under way at once

Month == [year : Int, month : 1..12]

ASSUME PageAssumption ==
    /\ FirstMonths \subseteq Month
    /\ {MaxShift, MaxEntries, MaxRequests} \subseteq Nat
    /\ Stored \subseteq Nat

VARIABLES
    month,           \* state.month: what the label names, too
    figures,         \* the month the figures are of, or NoMonth
    dialog,          \* the entry in the dialog, 0: it is closed
    requests,        \* under way, in the order they were sent
    lastEntry,
    settled,         \* history: the server has saved or deleted the entry in the dialog
    alone,           \* history: no request was under way when it was begun
    first, shifts,   \* history: where the page was opened, and the clicks since
    latest           \* history: what became of the last request for a month

shown == <<month, figures, first, shifts, latest>>
entry == <<dialog, lastEntry, settled, alone>>
pageVars == <<shown, entry, requests>>
browserVars == <<sessionVars, pageVars>>

NoMonth == [year |-> 0, month |-> 0]

BrowserInit ==
    /\ SessionInit
    /\ \E m \in FirstMonths : month = m /\ first = m
    /\ shifts = 0 /\ figures = NoMonth /\ latest = "none"
    /\ dialog = 0 /\ lastEntry = 0 /\ settled = FALSE /\ alone = FALSE
    /\ requests = <<>>

(***************************************************************************)
(* Sending and answering                                                   *)
(***************************************************************************)
(* The cookie is sent along, while the browser has one.                    *)
Send(what, of) ==
    /\ Len(requests) < MaxRequests
    /\ requests' = Append(requests, [what |-> what, of |-> of, cookie |-> session,
                                     answer |-> "none"])

Unserved == {i \in DOMAIN requests : requests[i].answer = "none"}

(* GetMonth refuses a month that is none. *)
Answered(r, answer) ==
    answer = "ok" => r.cookie > 0 /\ (r.what = "month" => r.of \in Month)

(* An entry may be saved, or deleted, and the answer still be an error: its *)
(* row is read again for the answer, and the answer may get lost.  Whether *)
(* another tab has deleted the row before is left open.                    *)
Serve(i, answer) ==
    /\ i \in Unserved
    /\ Answered(requests[i], answer)
    /\ requests' = [requests EXCEPT ![i].answer = answer, ![i].cookie = 0]
    /\ LET done == requests[i].what # "month" /\ requests[i].of = dialog
       IN  \/ answer = "ok" /\ settled' = (settled \/ done)
           \/ answer = "error" /\ UNCHANGED settled
           \/ answer = "error" /\ requests[i].cookie > 0 /\ settled' = (settled \/ done)
    /\ UNCHANGED <<sessionVars, shown, dialog, lastEntry, alone>>

(***************************************************************************)
(* The month tab                                                           *)
(***************************************************************************)
LoadMonth ==
    /\ Send("month", month')
    /\ latest' = "asked"
    /\ UNCHANGED <<sessionVars, figures, first, entry>>

OpenMonthTab == UNCHANGED <<month, shifts>> /\ LoadMonth

(* Mistake: December is followed by a thirteenth month. *)
ShiftedNoWrap(m, delta) == [m EXCEPT !.month = @ + delta]

(* Mistake: the year is not carried. *)
ShiftedSameYear(m, delta) == [m EXCEPT !.month = ((@ + delta + 11) % 12) + 1]

Shifted(m, delta) ==
    CASE m.month + delta < 1  -> [year |-> m.year - 1, month |-> 12]
      [] m.month + delta > 12 -> [year |-> m.year + 1, month |-> 1]
      [] OTHER                -> [m EXCEPT !.month = @ + delta]

ShiftMonth(delta) ==
    /\ shifts' = shifts + delta /\ shifts' \in -MaxShift..MaxShift
    /\ month' = Shifted(month, delta)
    /\ LoadMonth

IsLatest(i) ==
    /\ latest = "asked"
    /\ \A j \in DOMAIN requests : j > i => requests[j].what # "month"

(* Mistake: an error is taken for figures. *)
FiguresAnyAnswer(r) == IF r.answer = "ok" THEN r.of ELSE NoMonth

FiguresAfter(r) == IF r.answer = "ok" THEN r.of ELSE figures

MonthArrives(i) ==
    /\ requests[i].what = "month" /\ requests[i].answer # "none"
    /\ requests' = RemoveAt(requests, i)
    /\ figures' = FiguresAfter(requests[i])
    /\ latest' = CASE IsLatest(i) -> IF requests[i].answer = "ok" THEN "shown" ELSE "failed"
                   [] latest = "shown" /\ requests[i].answer = "ok" -> "overtaken"
                   [] OTHER -> latest
    /\ UNCHANGED <<sessionVars, month, first, shifts, entry>>

(***************************************************************************)
(* The dialog                                                              *)
(***************************************************************************)
OpenTransactionDialog ==
    /\ dialog = 0 /\ lastEntry < MaxEntries
    /\ lastEntry' = lastEntry + 1 /\ dialog' = lastEntry'
    /\ alone' = (requests = <<>>)
    /\ UNCHANGED <<sessionVars, shown, requests, settled>>

Close == dialog' = 0 /\ settled' = FALSE /\ alone' = FALSE /\ UNCHANGED lastEntry

CancelDialog ==
    /\ dialog # 0
    /\ Close
    /\ UNCHANGED <<sessionVars, shown, requests>>

(* Sent as often as the user presses the button, and so is a deletion. *)
SubmitEntry ==
    /\ dialog # 0
    /\ Send("entry", dialog)
    /\ UNCHANGED <<sessionVars, shown, entry>>

(* A booking that is there can be deleted from the dialog. *)
DeleteEntry ==
    /\ dialog \in Stored \ {0}
    /\ Send("delete", dialog)
    /\ UNCHANGED <<sessionVars, shown, entry>>

(* Mistake: whatever the answer is, the dialog is closed. *)
ClosesAlways(r) == TRUE

Closes(r) == r.answer = "ok"

(* It closes the dialog, whichever entry is in it. *)
EntryArrives(i) ==
    /\ requests[i].what \in {"entry", "delete"} /\ requests[i].answer # "none"
    /\ requests' = RemoveAt(requests, i)
    /\ IF Closes(requests[i])
       THEN Close
       ELSE UNCHANGED entry
    /\ UNCHANGED <<sessionVars, shown>>

(***************************************************************************)
(* Opening the page, logging in and out, time, restarts                    *)
(***************************************************************************)

(* The requests of the page before are given up.                           *)
Index ==
    /\ session > 0
    /\ month' \in FirstMonths /\ first' = month' /\ shifts' = 0
    /\ figures' = NoMonth /\ latest' = "none"
    /\ requests' = <<>>
    /\ Close
    /\ UNCHANGED sessionVars

InOtherTabs == (LoginStep \/ Logout) /\ UNCHANGED pageVars

TimePasses ==
    /\ Tick
    /\ requests' = [i \in DOMAIN requests |-> [requests[i] EXCEPT !.cookie = Less(@)]]
    /\ UNCHANGED <<shown, entry>>

ProcessRestarts ==
    /\ Restart
    /\ requests' = [i \in DOMAIN requests |->
                       IF i \in Unserved
                       THEN [requests[i] EXCEPT !.answer = "error", !.cookie = 0]
                       ELSE requests[i]]
    /\ UNCHANGED <<shown, entry>>

MonthStep == OpenMonthTab \/ ShiftMonth(1) \/ ShiftMonth(-1)

DialogStep == OpenTransactionDialog \/ CancelDialog \/ SubmitEntry \/ DeleteEntry

AnswerStep ==
    \E i \in DOMAIN requests :
        \/ \E answer \in {"ok", "error"} : Serve(i, answer)
        \/ MonthArrives(i) \/ EntryArrives(i)

BrowserNext ==
    \/ MonthStep \/ DialogStep \/ AnswerStep \/ Index
    \/ InOtherTabs \/ TimePasses \/ ProcessRestarts

(* Time passes, whatever else happens. *)
BrowserSpec == BrowserInit /\ [][BrowserNext]_browserVars /\ WF_browserVars(TimePasses)

(***************************************************************************)
(* Properties                                                              *)
(***************************************************************************)
BrowserTypeOK ==
    /\ SessionTypeOK
    /\ {month, first} \subseteq Month /\ figures \in Month \cup {NoMonth}
    /\ \A i \in DOMAIN requests :
          /\ \/ requests[i].what = "month" /\ requests[i].of \in Month
             \/ requests[i].what \in {"entry", "delete"} /\ requests[i].of \in 1..lastEntry
          /\ requests[i].cookie \in 0..sessionDuration
          /\ requests[i].answer \in {"none", "ok", "error"}
    /\ dialog \in 0..lastEntry /\ lastEntry \in 0..MaxEntries
    /\ {settled, alone} \subseteq BOOLEAN
    /\ dialog = 0 => ~ settled /\ ~ alone

(* The label is as many months from where the page was opened as the user  *)
(* has clicked, over the turn of a year and back.                          *)
LabelFollowsClicks ==
    12 * month.year + month.month = 12 * first.year + first.month + shifts

(* "income vs. expense for a given month" (README.md): once the last       *)
(* request for a month has been answered with figures, the figures on the  *)
(* page are those of the month on its label.                               *)
FiguresMatchLabel == latest \in {"shown", "overtaken"} => figures = month

(* The page does not tell an answer to an older request apart, and such a  *)
(* one may come last.  Nothing else parts the figures from the label after *)
(* the last answer: no error, no answer before it, none that gets lost.    *)
FiguresOfLabel == latest = "shown" => figures = month

(* An answer for a month arrives only where none to an older request is    *)
(* still to come.                                                          *)
AnswersInOrder ==
    (\E i \in DOMAIN requests : MonthArrives(i)) =>
        \E i \in DOMAIN requests :
            MonthArrives(i) /\ \A j \in 1..(i - 1) : requests[j].what # "month"

(* What is typed into the dialog is not lost: however often it is sent,    *)
(* whatever the server answers and the session ends meanwhile, its dialog  *)
(* closes by itself only with the entry saved, or deleted as asked.  An    *)
(* answer closes whatever is open, so this is promised to entries begun    *)
(* with no request under way.                                              *)
EntryKeptUntilSettled ==
    [][alone /\ (\E i \in DOMAIN requests : EntryArrives(i)) => settled \/ dialog' = dialog]_browserVars
=============================================================================
