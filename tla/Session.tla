------------------------------- MODULE Session -------------------------------
(***************************************************************************)
(* Logging in and out.  POST /login asks the limiter first, checks the     *)
(* password, which takes long, and tells the limiter afterwards: several   *)
(* logins may be between the two.  The attempts are kept in memory; the    *)
(* session is a signed cookie with its end in it, kept by the browser, so  *)
(* that a restart of the process loses the ones and not the other.         *)
(*                                                                         *)
(* Time passes in ticks, of which the window of the limiter and a session  *)
(* last so many; what is later within a tick counts as later.              *)
(***************************************************************************)
EXTENDS Integers, SequencesExt

CONSTANTS
    Addresses,       \* client IPs as the server sees them
    MaxLogins,       \* bound: logins from an address under way at once
    maxLoginAttempts, loginAttemptWindow, sessionDuration

ASSUME SessionAssumption ==
    /\ {MaxLogins, maxLoginAttempts, loginAttemptWindow, sessionDuration} \subseteq Nat \ {0}

VARIABLES
    attempts,        \* address -> its attemptRecord; count 0: it has none
    checking,        \* address -> how many of its logins are having the password checked
    session,         \* what is left of the cookie of one browser, 0: it has none
    failures,        \* history: address -> failures since the last success, by their age
    overlap          \* history: address -> the most of its logins under way at once, or 1

sessionVars == <<attempts, checking, session, failures, overlap>>

NoRecord == [count |-> 0, age |-> 0]
Ages == 0..loginAttemptWindow
NoFailures == [age \in Ages |-> 0]

(* The browser may have a cookie from before the process started. *)
SessionInit ==
    /\ attempts = [a \in Addresses |-> NoRecord]
    /\ checking = [a \in Addresses |-> 0]
    /\ session \in 0..sessionDuration
    /\ failures = [a \in Addresses |-> NoFailures]
    /\ overlap = [a \in Addresses |-> 1]

(***************************************************************************)
(* The limiter                                                             *)
(***************************************************************************)
Expired(a) == attempts[a].age > loginAttemptWindow

(* Mistake: one attempt more. *)
AdmitsOneMore(a) == Expired(a) \/ attempts[a].count <= maxLoginAttempts

(* Mistake: the record never expires here. *)
AdmitsForgetsWindow(a) == attempts[a].count < maxLoginAttempts

Admits(a) == Expired(a) \/ attempts[a].count < maxLoginAttempts

(* An attempt that is refused changes nothing. *)
Allow(a) ==
    /\ checking[a] < MaxLogins
    /\ Admits(a)
    /\ attempts' = [attempts EXCEPT ![a] = IF Expired(a) THEN NoRecord ELSE @]
    /\ checking' = [checking EXCEPT ![a] = @ + 1]
    /\ overlap' = [overlap EXCEPT ![a] = IF @ < checking'[a] THEN checking'[a] ELSE @]
    /\ UNCHANGED <<session, failures>>

AfterFailure(record) ==
    IF record.count = 0 \/ record.age > loginAttemptWindow
    THEN [count |-> 1, age |-> 0]
    ELSE [record EXCEPT !.count = @ + 1]

Checked(a) ==
    /\ checking[a] > 0
    /\ checking' = [checking EXCEPT ![a] = @ - 1]
    /\ UNCHANGED overlap

RecordFailure(a) ==
    /\ Checked(a)
    /\ attempts' = [attempts EXCEPT ![a] = AfterFailure(@)]
    /\ failures' = [failures EXCEPT ![a][0] = @ + 1]
    /\ UNCHANGED session

(* A form that cannot be read is no attempt. *)
BadForm(a) == Checked(a) /\ UNCHANGED <<attempts, session, failures>>

(* Mistake: the failures before a success stay on record. *)
ResetNot(a) == attempts

Reset(a) == [attempts EXCEPT ![a] = NoRecord]

(* The cookie may be another browser's, or get lost on its way. *)
LogIn(a) ==
    /\ Checked(a)
    /\ attempts' = Reset(a)
    /\ failures' = [failures EXCEPT ![a] = NoFailures]
    /\ session' \in {session, sessionDuration}

Logout ==
    /\ session > 0
    /\ session' = 0
    /\ UNCHANGED <<attempts, checking, failures, overlap>>

(***************************************************************************)
(* Time and restarts                                                       *)
(***************************************************************************)
Less(rest) == IF rest = 0 THEN 0 ELSE rest - 1

Tick ==
    /\ attempts' = [a \in Addresses |->
                       IF attempts[a].count = 0 \/ Expired(a) THEN attempts[a]
                       ELSE [attempts[a] EXCEPT !.age = @ + 1]]
    /\ failures' = [a \in Addresses |->
                       [age \in Ages |-> IF age = 0 THEN 0 ELSE failures[a][age - 1]]]
    /\ session' = Less(session)
    /\ UNCHANGED <<checking, overlap>>

(* What the process kept in memory is gone, and with it what it had to     *)
(* count.                                                                  *)
Restart ==
    /\ attempts' = [a \in Addresses |-> NoRecord]
    /\ checking' = [a \in Addresses |-> 0]
    /\ failures' = [a \in Addresses |-> NoFailures]
    /\ overlap' = [a \in Addresses |-> 1]
    /\ UNCHANGED session

LoginStep ==
    \E a \in Addresses : Allow(a) \/ RecordFailure(a) \/ BadForm(a) \/ LogIn(a)

(***************************************************************************)
(* Properties                                                              *)
(***************************************************************************)
SessionTypeOK ==
    /\ attempts \in [Addresses -> [count : Nat, age : 0..loginAttemptWindow + 1]]
    /\ checking \in [Addresses -> 0..MaxLogins]
    /\ session \in 0..sessionDuration
    /\ failures \in [Addresses -> [Ages -> Nat]]
    /\ overlap \in [Addresses -> 1..MaxLogins]

RecentFailures(a) == FoldFunction(+, 0, failures[a])

(* "Login is rate-limited per client IP (5 attempts / 15 minutes)"         *)
(* (README.md): no window sees more failures from an address than the      *)
(* limit.  The record is given up by the age of its first failure, all the *)
(* others with it, so the window of another sees more of them.             *)
LoginRateLimited == \A a \in Addresses : RecentFailures(a) <= maxLoginAttempts

(* What the limiter does keep to: a record exceeds the limit by the logins *)
(* that were under way beside the last one admitted, however many the      *)
(* server lets in, and no window sees more than two records hold, the      *)
(* first failure of the older one not counted.                             *)
FailuresBounded ==
    \A a \in Addresses :
        RecentFailures(a) <= 2 * (maxLoginAttempts + overlap[a] - 1) - 1

(* An address is refused only for as many failures as the limit within the *)
(* last window, none of them before a success from it: a login that        *)
(* succeeds beside failing ones, and one whose check takes longer than the *)
(* window, leave nothing behind that locks the user out.                   *)
RefusedForCause ==
    \A a \in Addresses : ~ Admits(a) => RecentFailures(a) >= maxLoginAttempts

(* However logins that were under way still fail, a refused address is     *)
(* admitted again as time passes.                                          *)
LockoutEnds == \A a \in Addresses : ~ Admits(a) ~> Admits(a)
=============================================================================
