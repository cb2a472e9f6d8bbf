---------------------------- MODULE BrowserProofs ----------------------------
(***************************************************************************)
(* The browser's page and the logins beside it, for any limits and any     *)
(* number of requests under way: their types, how many logins fail and who *)
(* is refused, the label and the figures of the month view, and the entry  *)
(* in the dialog.                                                          *)
(***************************************************************************)
EXTENDS BrowserPage, BasicLemmas, SequenceTheorems

(***************************************************************************)
(* Requests under way, a sequence                                          *)
(***************************************************************************)
LEMMA AppendedTo ==
    ASSUME NEW R, NEW s \in Seq(R), NEW r \in R
    PROVE  /\ Append(s, r) \in Seq(R)
           /\ Len(s) \in Nat /\ DOMAIN s = 1..Len(s)
           /\ DOMAIN Append(s, r) = 1..(Len(s) + 1)
           /\ Append(s, r)[Len(s) + 1] = r
           /\ \A i \in 1..Len(s) : Append(s, r)[i] = s[i]
BY AppendProperties, LenProperties

(* Without the i-th, the others keep their order. *)
LEMMA RemovedFrom ==
    ASSUME NEW R, NEW s \in Seq(R), NEW i \in DOMAIN s
    PROVE  /\ RemoveAt(s, i) \in Seq(R)
           /\ Len(s) \in Nat /\ DOMAIN s = 1..Len(s)
           /\ DOMAIN RemoveAt(s, i) = 1..(Len(s) - 1)
           /\ \A j \in 1..(Len(s) - 1) : RemoveAt(s, i)[j] = s[IF j < i THEN j ELSE j + 1]
<1> DEFINE n == Len(s)
           before == SubSeq(s, 1, i - 1)
           after == SubSeq(s, i + 1, n)
<1>1. n \in Nat /\ DOMAIN s = 1..n /\ \A j \in 1..n : s[j] \in R
  BY LenProperties, ElementOfSeq
<1>2. i \in 1..n
  BY <1>1
<1> HIDE DEF n
<1>3. /\ before \in Seq(R) /\ Len(before) = i - 1
      /\ \A j \in 1..(i - 1) : before[j] = s[j]
  <2>1. \A j \in 1..(i - 1) : s[j] \in R
    BY <1>1, <1>2
  <2>2. /\ before \in Seq(R) /\ Len(before) = IF 1 <= i - 1 THEN (i - 1) - 1 + 1 ELSE 0
        /\ \A j \in 1..((i - 1) - 1 + 1) : before[j] = s[1 + j - 1]
    BY <1>1, <1>2, <2>1, SubSeqProperties
  <2> HIDE DEF before
  <2>3. Len(before) = i - 1
    BY <1>1, <1>2, <2>2
  <2>4. ASSUME NEW j \in 1..(i - 1) PROVE before[j] = s[j]
    <3>1. 1 + j - 1 = j /\ j \in 1..((i - 1) - 1 + 1)
      BY <1>1, <1>2
    <3> QED BY <2>2, <3>1
  <2> QED BY <2>2, <2>3, <2>4
<1>4. /\ after \in Seq(R) /\ Len(after) = n - i
      /\ \A j \in 1..(n - i) : after[j] = s[i + j]
  <2>1. \A j \in (i + 1)..n : s[j] \in R
    BY <1>1, <1>2
  <2>2. /\ after \in Seq(R) /\ Len(after) = IF i + 1 <= n THEN n - (i + 1) + 1 ELSE 0
        /\ \A j \in 1..(n - (i + 1) + 1) : after[j] = s[(i + 1) + j - 1]
    BY <1>1, <1>2, <2>1, SubSeqProperties
  <2> HIDE DEF after
  <2>3. Len(after) = n - i
    BY <1>1, <1>2, <2>2
  <2>4. ASSUME NEW j \in 1..(n - i) PROVE after[j] = s[i + j]
    <3>1. (i + 1) + j - 1 = i + j /\ j \in 1..(n - (i + 1) + 1)
      BY <1>1, <1>2
    <3> QED BY <2>2, <3>1
  <2> QED BY <2>2, <2>3, <2>4
<1>5. RemoveAt(s, i) = before \o after
  BY DEF RemoveAt, n
<1> HIDE DEF before, after
<1>6. /\ before \o after \in Seq(R) /\ Len(before \o after) = n - 1
      /\ \A j \in 1..(n - 1) :
            (before \o after)[j] = IF j <= i - 1 THEN before[j] ELSE after[j - (i - 1)]
  <2>1. /\ before \o after \in Seq(R) /\ Len(before \o after) = Len(before) + Len(after)
        /\ \A j \in 1..(Len(before) + Len(after)) :
              (before \o after)[j] =
                  IF j <= Len(before) THEN before[j] ELSE after[j - Len(before)]
    BY <1>3, <1>4, ConcatProperties
  <2>2. Len(before) + Len(after) = n - 1
    BY <1>1, <1>2, <1>3, <1>4
  <2> QED BY <1>3, <2>1, <2>2
<1>7. DOMAIN (before \o after) = 1..(n - 1)
  BY <1>6, LenProperties
<1>8. ASSUME NEW j \in 1..(n - 1)
      PROVE  (before \o after)[j] = s[IF j < i THEN j ELSE j + 1]
  <2>1. CASE j < i
    BY <1>1, <1>2, <1>3, <1>6, <2>1
  <2>2. CASE ~ (j < i)
    <3> DEFINE k == j - (i - 1)
    <3>1. k \in 1..(n - i) /\ i + k = j + 1 /\ ~ (j <= i - 1)
      BY <1>1, <1>2, <2>2
    <3>2. (before \o after)[j] = after[k]
      BY <1>6, <3>1
    <3> HIDE DEF k
    <3>3. after[k] = s[i + k]
      BY <1>4, <3>1
    <3> QED BY <2>2, <3>1, <3>2, <3>3
  <2> QED BY <2>1, <2>2
<1> QED BY <1>1, <1>5, <1>6, <1>7, <1>8 DEF n

LEMMA MappedOver ==
    ASSUME NEW R, NEW s \in Seq(R), NEW t, DOMAIN t = DOMAIN s, t \in [DOMAIN s -> R]
    PROVE  t \in Seq(R)
<1>1. Len(s) \in Nat /\ DOMAIN s = 1..Len(s)
  BY LenProperties
<1> QED BY <1>1, SeqDef

(***************************************************************************)
(* Logins                                                                  *)
(***************************************************************************)
LEMMA Limits ==
    /\ MaxLogins \in Nat \ {0} /\ maxLoginAttempts \in Nat \ {0}
    /\ loginAttemptWindow \in Nat \ {0} /\ sessionDuration \in Nat \ {0}
    /\ 0 \in Ages /\ Ages = 0..loginAttemptWindow
BY SessionAssumption DEF Ages

AttemptRecord == [count : Nat, age : 0..loginAttemptWindow + 1]

LEMMA NoRecordType == NoRecord \in AttemptRecord /\ NoFailures \in [Ages -> Nat]
BY Limits DEF NoRecord, NoFailures, AttemptRecord

LEMMA RestTypes ==
    ASSUME NEW rest \in 0..sessionDuration
    PROVE  Less(rest) \in 0..sessionDuration
BY Limits DEF Less

LEMMA LoginTypes ==
    ASSUME SessionTypeOK, NEW a \in Addresses,
           Allow(a) \/ RecordFailure(a) \/ BadForm(a) \/ LogIn(a)
    PROVE  SessionTypeOK'
<1>1. /\ attempts \in [Addresses -> AttemptRecord] /\ checking \in [Addresses -> 0..MaxLogins]
      /\ session \in 0..sessionDuration /\ failures \in [Addresses -> [Ages -> Nat]]
      /\ overlap \in [Addresses -> 1..MaxLogins]
  BY DEF SessionTypeOK, AttemptRecord
<1>2. /\ attempts[a] \in AttemptRecord /\ checking[a] \in 0..MaxLogins
      /\ failures[a] \in [Ages -> Nat] /\ overlap[a] \in 1..MaxLogins
  BY <1>1
<1>3. CASE Allow(a)
  <2>1. attempts' \in [Addresses -> AttemptRecord]
    BY <1>1, <1>3, NoRecordType DEF Allow
  <2>2. checking[a] + 1 \in 0..MaxLogins
    BY <1>2, <1>3, Limits DEF Allow
  <2>3. checking[a] + 1 \in 1..MaxLogins /\ checking'[a] = checking[a] + 1
    BY <1>1, <1>2, <2>2, <1>3 DEF Allow
  <2>4. overlap' \in [Addresses -> 1..MaxLogins]
    BY <1>1, <1>2, <1>3, <2>3 DEF Allow
  <2> QED BY <1>1, <1>3, <2>1, <2>2, <2>4 DEF Allow, SessionTypeOK, AttemptRecord
<1>4. Checked(a) => checking' \in [Addresses -> 0..MaxLogins] /\ overlap' = overlap
  <2>1. Checked(a) => checking[a] - 1 \in 0..MaxLogins
    BY <1>2, Limits DEF Checked
  <2> QED BY <1>1, <2>1 DEF Checked
<1>5. CASE RecordFailure(a)
  <2>1. AfterFailure(attempts[a]) \in AttemptRecord
    BY <1>2, Limits DEF AfterFailure, AttemptRecord
  <2>2. attempts' \in [Addresses -> AttemptRecord]
    BY <1>1, <1>5, <2>1 DEF RecordFailure
  <2>3. failures[a][0] + 1 \in Nat
    BY <1>2, Limits
  <2>4. [failures[a] EXCEPT ![0] = @ + 1] \in [Ages -> Nat]
    BY <1>2, <2>3
  <2>5. failures' = [failures EXCEPT ![a] = [failures[a] EXCEPT ![0] = @ + 1]]
    BY <1>5 DEF RecordFailure
  <2>6. failures' \in [Addresses -> [Ages -> Nat]]
    BY <1>1, <2>4, <2>5
  <2> QED BY <1>1, <1>4, <1>5, <2>2, <2>6 DEF RecordFailure, SessionTypeOK, AttemptRecord
<1>6. CASE BadForm(a)
  BY <1>1, <1>4, <1>6 DEF BadForm, SessionTypeOK, AttemptRecord
<1>7. CASE LogIn(a)
  <2>1. attempts' \in [Addresses -> AttemptRecord] /\ failures' \in [Addresses -> [Ages -> Nat]]
    BY <1>1, <1>7, NoRecordType DEF LogIn, Reset
  <2>2. session' \in 0..sessionDuration
    BY <1>1, <1>7, Limits DEF LogIn
  <2> QED BY <1>1, <1>4, <1>7, <2>1, <2>2 DEF LogIn, SessionTypeOK, AttemptRecord
<1> QED BY <1>3, <1>5, <1>6, <1>7

LEMMA TimeTypes ==
    ASSUME SessionTypeOK, Tick
    PROVE  SessionTypeOK'
<1>1. /\ attempts \in [Addresses -> AttemptRecord] /\ checking \in [Addresses -> 0..MaxLogins]
      /\ session \in 0..sessionDuration /\ failures \in [Addresses -> [Ages -> Nat]]
      /\ overlap \in [Addresses -> 1..MaxLogins]
  BY DEF SessionTypeOK, AttemptRecord
<1>2. ASSUME NEW a \in Addresses, ~ Expired(a)
      PROVE  [attempts[a] EXCEPT !.age = @ + 1] \in AttemptRecord
  <2>1. attempts[a] \in AttemptRecord /\ attempts[a].age <= loginAttemptWindow
    BY <1>1, <1>2, Limits DEF Expired, AttemptRecord
  <2> QED BY <2>1, Limits DEF AttemptRecord
<1>3. attempts' \in [Addresses -> AttemptRecord]
  BY <1>1, <1>2 DEF Tick
<1>4. ASSUME NEW a \in Addresses, NEW age \in Ages, age # 0 PROVE failures[a][age - 1] \in Nat
  <2>1. age - 1 \in Ages
    BY <1>4, Limits
  <2> QED BY <1>1, <2>1
<1>5. failures' \in [Addresses -> [Ages -> Nat]]
  BY <1>4 DEF Tick
<1>6. session' \in 0..sessionDuration
  BY <1>1, RestTypes DEF Tick
<1> QED BY <1>1, <1>3, <1>5, <1>6 DEF Tick, SessionTypeOK, AttemptRecord

LEMMA SessionTypeStep ==
    ASSUME SessionTypeOK, LoginStep \/ Logout \/ Tick \/ Restart \/ UNCHANGED sessionVars
    PROVE  SessionTypeOK'
<1>1. CASE LoginStep
  BY <1>1, LoginTypes DEF LoginStep
<1>2. CASE Logout
  <2>1. 0 \in 0..sessionDuration
    BY Limits
  <2> QED BY <1>2, <2>1 DEF Logout, SessionTypeOK
<1>3. CASE Tick
  BY <1>3, TimeTypes
<1>4. CASE Restart
  <2>1. attempts' \in [Addresses -> AttemptRecord] /\ failures' \in [Addresses -> [Ages -> Nat]]
    BY <1>4, NoRecordType DEF Restart
  <2>2. checking' \in [Addresses -> 0..MaxLogins] /\ overlap' \in [Addresses -> 1..MaxLogins]
    BY <1>4, Limits DEF Restart
  <2> QED BY <1>4, <2>1, <2>2 DEF Restart, SessionTypeOK, AttemptRecord
<1>5. CASE UNCHANGED sessionVars
  BY <1>5 DEF sessionVars, SessionTypeOK
<1> QED BY <1>1, <1>2, <1>3, <1>4, <1>5

LEMMA SessionTypeInit == SessionInit => SessionTypeOK
<1> SUFFICES ASSUME SessionInit PROVE SessionTypeOK
  OBVIOUS
<1>1. 0 \in 0..MaxLogins /\ 1 \in 1..MaxLogins
  BY Limits
<1> QED BY <1>1, NoRecordType DEF SessionInit, SessionTypeOK, AttemptRecord

(***************************************************************************)
(* Failures by their age                                                   *)
(***************************************************************************)
Window == loginAttemptWindow

(* Those at most so many ticks old. *)
UpTo(byAge, age) == SumFunctionOnSet(byAge, 0..age)

LEMMA RecentIsUpTo ==
    ASSUME NEW a \in Addresses, failures \in [Addresses -> [Ages -> Nat]]
    PROVE  RecentFailures(a) = UpTo(failures[a], Window)
<1>1. DOMAIN failures[a] = 0..Window
  BY DEF Ages, Window
<1> QED BY <1>1 DEF RecentFailures, UpTo, FoldFunction, SumFunctionOnSet

LEMMA YoungAges ==
    ASSUME NEW f \in [Ages -> Nat], NEW n \in Nat, n <= Window
    PROVE  /\ IsFiniteSet(0..n) /\ 0 \in 0..n
           /\ \A k \in 0..n : k \in Ages /\ f[k] \in Nat /\ f[k] \in Int
<1>1. IsFiniteSet(0..n)
  BY FS_Interval
<1>2. \A k \in 0..n : k \in Ages
  BY Limits DEF Window
<1> QED BY <1>1, <1>2

LEMMA UpToType ==
    ASSUME NEW f \in [Ages -> Nat], NEW n \in Nat, n <= Window
    PROVE  UpTo(f, n) \in Int
BY YoungAges, SumType DEF UpTo

LEMMA UpToZero ==
    ASSUME NEW f \in [Ages -> Nat]
    PROVE  UpTo(f, 0) = f[0]
<1>1. 0 \in Nat /\ 0 <= Window
  BY Limits DEF Window
<1>2. IsFiniteSet(0..0) /\ 0 \in 0..0 /\ \A k \in 0..0 : f[k] \in Int
  BY <1>1, YoungAges
<1>3. SumFunctionOnSet(f, 0..0) = f[0] + SumFunctionOnSet(f, (0..0) \ {0})
  BY <1>2, SumOut
<1>4. (0..0) \ {0} = {}
  OBVIOUS
<1>5. f[0] \in Int
  BY <1>2
<1> QED BY <1>3, <1>4, <1>5, SumEmpty DEF UpTo

LEMMA UpToNext ==
    ASSUME NEW f \in [Ages -> Nat], NEW n \in Nat, n + 1 <= Window
    PROVE  UpTo(f, n + 1) = UpTo(f, n) + f[n + 1]
<1>1. n + 1 \in Nat /\ Window \in Nat
  BY Limits DEF Window
<1>2. IsFiniteSet(0..(n + 1)) /\ \A k \in 0..(n + 1) : f[k] \in Int
  BY <1>1, YoungAges
<1>3. n + 1 \in 0..(n + 1)
  BY <1>1
<1>4. SumFunctionOnSet(f, 0..(n + 1)) = f[n + 1] + SumFunctionOnSet(f, (0..(n + 1)) \ {n + 1})
  BY <1>2, <1>3, SumOut
<1>5. (0..(n + 1)) \ {n + 1} = 0..n
  BY <1>1
<1>6. f[n + 1] \in Int /\ UpTo(f, n) \in Int
  BY <1>1, <1>2, <1>3, UpToType
<1>7. UpTo(f, n + 1) = f[n + 1] + UpTo(f, n)
  BY <1>4, <1>5, Zenon DEF UpTo
<1> QED BY <1>6, <1>7

LEMMA UpToGrows ==
    ASSUME NEW f \in [Ages -> Nat], NEW n \in Nat, n <= Window
    PROVE  UpTo(f, n) <= UpTo(f, Window)
<1> DEFINE Good == {k \in Nat : n + k <= Window => UpTo(f, n) <= UpTo(f, n + k)}
<1>1. 0 \in Good
  <2>1. UpTo(f, n) \in Int /\ n + 0 = n
    BY UpToType
  <2> QED BY <2>1
<1>2. ASSUME NEW k \in Nat, k \in Good PROVE k + 1 \in Good
  <2> SUFFICES ASSUME n + (k + 1) <= Window PROVE UpTo(f, n) <= UpTo(f, n + (k + 1))
    OBVIOUS
  <2>1. /\ n + (k + 1) = (n + k) + 1 /\ n + k \in Nat /\ n + k <= Window /\ (n + k) + 1 <= Window
        /\ (n + k) + 1 \in Ages
    BY Limits DEF Window
  <2>2. UpTo(f, (n + k) + 1) = UpTo(f, n + k) + f[(n + k) + 1]
    BY <2>1, UpToNext
  <2>3. UpTo(f, n + k) \in Int /\ UpTo(f, n) \in Int /\ f[(n + k) + 1] \in Nat
    BY <2>1, UpToType
  <2>4. UpTo(f, n) <= UpTo(f, n + k)
    BY <1>2, <2>1
  <2> QED BY <2>1, <2>2, <2>3, <2>4
<1>3. Window - n \in Good
  <2>1. Window - n \in Nat
    BY Limits DEF Window
  <2> HIDE DEF Good
  <2> QED BY <1>1, <1>2, <2>1, InductionOnNat
<1>4. n + (Window - n) = Window
  BY Limits DEF Window
<1> QED BY <1>3, <1>4, Limits DEF Window

(* One more, now. *)
LEMMA OneMoreNow ==
    ASSUME NEW f \in [Ages -> Nat], NEW n \in Nat, n <= Window
    PROVE  UpTo([f EXCEPT ![0] = @ + 1], n) = UpTo(f, n) + 1
<1> DEFINE g == [f EXCEPT ![0] = @ + 1]
           S == 0..n
<1>1. IsFiniteSet(0..n) /\ 0 \in 0..n /\ \A k \in 0..n : k \in Ages /\ f[k] \in Int
  BY YoungAges
<1>2. g[0] = f[0] + 1
  BY <1>1
<1>3. \A k \in 0..n : g[k] \in Int /\ (k # 0 => g[k] = f[k])
  BY <1>1
<1> HIDE DEF g
<1>4. IsFiniteSet(S) /\ 0 \in S /\ \A y \in S : f[y] \in Int /\ g[y] \in Int /\ (y # 0 => g[y] = f[y])
  BY <1>1, <1>3
<1> HIDE DEF S
<1>5. SumFunctionOnSet(g, S) = SumFunctionOnSet(f, S) - f[0] + g[0]
  BY <1>4, SumChangedAt
<1>6. f[0] \in Int /\ UpTo(f, n) \in Int
  BY <1>1, UpToType
<1>7. UpTo(g, n) = UpTo(f, n) + 1
  BY <1>2, <1>5, <1>6 DEF UpTo, S
<1> QED BY <1>7 DEF g

(* A tick later. *)
Older(byAge) == [age \in Ages |-> IF age = 0 THEN 0 ELSE byAge[age - 1]]

LEMMA OlderFacts ==
    ASSUME NEW f \in [Ages -> Nat]
    PROVE  /\ Older(f) \in [Ages -> Nat] /\ Older(f)[0] = 0
           /\ \A n \in Nat : n + 1 <= Window => Older(f)[n + 1] = f[n]
<1>1. \A age \in Ages : age # 0 => age - 1 \in Ages
  BY Limits
<1>2. \A n \in Nat : n + 1 <= Window => n + 1 \in Ages /\ n + 1 # 0 /\ (n + 1) - 1 = n
  BY Limits DEF Window
<1> QED BY <1>1, <1>2, Limits DEF Older

LEMMA UpToOlder ==
    ASSUME NEW f \in [Ages -> Nat], NEW n \in Nat, n + 1 <= Window
    PROVE  UpTo(Older(f), n + 1) = UpTo(f, n)
<1> DEFINE g == Older(f)
           Good == {k \in Nat : k + 1 <= Window => UpTo(g, k + 1) = UpTo(f, k)}
<1>1. g \in [Ages -> Nat] /\ g[0] = 0 /\ \A k \in Nat : k + 1 <= Window => g[k + 1] = f[k]
  BY OlderFacts
<1> HIDE DEF g
<1>2. 0 \in Good
  <2>1. 0 + 1 <= Window => UpTo(g, 0 + 1) = UpTo(g, 0) + g[0 + 1]
    BY <1>1, UpToNext
  <2>2. UpTo(g, 0) = 0 /\ UpTo(f, 0) = f[0]
    BY <1>1, UpToZero
  <2>3. f[0] \in Nat
    BY Limits
  <2> QED BY <1>1, <2>1, <2>2, <2>3
<1>3. ASSUME NEW k \in Nat, k \in Good PROVE k + 1 \in Good
  <2> SUFFICES ASSUME (k + 1) + 1 <= Window PROVE UpTo(g, (k + 1) + 1) = UpTo(f, k + 1)
    OBVIOUS
  <2>1. k + 1 <= Window /\ Window \in Nat /\ k + 1 \in Nat
    BY Limits DEF Window
  <2>2. UpTo(g, (k + 1) + 1) = UpTo(g, k + 1) + g[(k + 1) + 1]
    BY <1>1, <2>1, UpToNext
  <2>3. UpTo(f, k + 1) = UpTo(f, k) + f[k + 1]
    BY <2>1, UpToNext
  <2> QED BY <1>1, <1>3, <2>1, <2>2, <2>3
<1>4. n \in Good
  <2> HIDE DEF Good
  <2> QED BY <1>2, <1>3, InductionOnNat
<1> QED BY <1>4 DEF g

(***************************************************************************)
(* The failures on record                                                  *)
(***************************************************************************)

(* What a record can hold: the limit is tested before the password, and    *)
(* the last login admitted may have others under way beside it, of which   *)
(* there were at most so many.                                             *)
MaxOnRecord(peak) == maxLoginAttempts + peak - 1

Live(record) == record.count > 0 /\ record.age <= Window

(* A record that counts holds exactly the failures since it was begun, the *)
(* first of them at its own age; the ones before it are of a record that   *)
(* has lost its first failure to age.  Where none counts, only such ones   *)
(* are left, and none is of this tick.                                     *)
Tally(record, under, peak, byAge) ==
    /\ under <= peak
    /\ record.count <= MaxOnRecord(peak)
    /\ record.count = 0 => record.age = 0
    /\ record.age <= Window => record.count + under <= MaxOnRecord(peak)
    /\ Live(record) =>
         /\ UpTo(byAge, record.age) = record.count
         /\ byAge[record.age] > 0
         /\ UpTo(byAge, Window) <= record.count + MaxOnRecord(peak) - 1
    /\ ~ Live(record) => byAge[0] = 0 /\ UpTo(byAge, Window) <= MaxOnRecord(peak) - 1

Tallied == \A a \in Addresses : Tally(attempts[a], checking[a], overlap[a], failures[a])

LEMMA LimitFacts ==
    /\ Window \in Nat /\ Window > 0 /\ 0 \in Ages
    /\ maxLoginAttempts \in Nat /\ MaxLogins \in Nat /\ maxLoginAttempts > 0 /\ MaxLogins > 0
BY Limits DEF Window

LEMMA PeakFacts ==
    ASSUME NEW peak \in 1..MaxLogins
    PROVE  /\ peak \in Nat /\ peak > 0
           /\ MaxOnRecord(peak) \in Nat /\ MaxOnRecord(peak) >= peak
           /\ MaxOnRecord(peak) = maxLoginAttempts + peak - 1
BY LimitFacts DEF MaxOnRecord

LEMMA EmptyTally ==
    ASSUME NEW peak \in 1..MaxLogins, NEW under \in 0..peak
    PROVE  Tally(NoRecord, under, peak, NoFailures)
<1>1. NoFailures \in [Ages -> Nat] /\ \A k \in Ages : NoFailures[k] = 0
  BY NoRecordType DEF NoFailures
<1>2. UpTo(NoFailures, Window) = 0
  <2>1. IsFiniteSet(0..Window) /\ \A k \in 0..Window : k \in Ages
    BY <1>1, LimitFacts, YoungAges
  <2> QED BY <1>1, <2>1, SumZero DEF UpTo
<1>3. NoRecord.count = 0 /\ NoRecord.age = 0 /\ ~ Live(NoRecord)
  BY DEF NoRecord, Live
<1> HIDE DEF NoRecord, NoFailures
<1> QED BY <1>1, <1>2, <1>3, LimitFacts, PeakFacts DEF Tally

LEMMA AdmittedTally ==
    ASSUME NEW r \in AttemptRecord, NEW f \in [Ages -> Nat],
           NEW peak \in 1..MaxLogins, NEW later \in 1..MaxLogins, NEW under \in 0..MaxLogins,
           Tally(r, under, peak, f), peak <= later, under + 1 <= later,
           r.age > Window \/ r.count < maxLoginAttempts
    PROVE  Tally(IF r.age > Window THEN NoRecord ELSE r, under + 1, later, f)
<1>1. r.count \in Nat /\ r.age \in Nat /\ UpTo(f, Window) \in Int /\ under \in Nat
  BY LimitFacts, UpToType DEF AttemptRecord
<1>2. /\ MaxOnRecord(peak) \in Nat /\ MaxOnRecord(later) \in Nat
      /\ MaxOnRecord(peak) <= MaxOnRecord(later)
      /\ MaxOnRecord(later) = maxLoginAttempts + later - 1 /\ MaxOnRecord(later) >= later
  BY LimitFacts, PeakFacts
<1>3. CASE r.age > Window
  <2>1. NoRecord.count = 0 /\ NoRecord.age = 0 /\ ~ Live(NoRecord) /\ ~ Live(r)
    BY <1>1, <1>3, LimitFacts DEF NoRecord, Live
  <2>2. f[0] = 0 /\ UpTo(f, Window) <= MaxOnRecord(peak) - 1
    BY <2>1 DEF Tally
  <2>3. Tally(NoRecord, under + 1, later, f)
    BY <1>1, <1>2, <2>1, <2>2, LimitFacts DEF Tally
  <2> QED BY <1>3, <2>3
<1>4. CASE ~ (r.age > Window)
  <2>1. r.count + (under + 1) <= MaxOnRecord(later)
    BY <1>1, <1>2, <1>4, LimitFacts
  <2>2. Tally(r, under + 1, later, f)
    BY <1>1, <1>2, <2>1, LimitFacts DEF Tally
  <2> QED BY <1>4, <2>2
<1> QED BY <1>3, <1>4

LEMMA DoneTally ==
    ASSUME NEW r \in AttemptRecord, NEW f \in [Ages -> Nat],
           NEW peak \in 1..MaxLogins, NEW under \in 0..MaxLogins,
           Tally(r, under, peak, f), under > 0
    PROVE  Tally(r, under - 1, peak, f)
<1>1. r.count \in Nat /\ r.age \in Nat /\ under \in Nat /\ peak \in Nat
      /\ MaxOnRecord(peak) \in Nat
  BY LimitFacts, PeakFacts DEF AttemptRecord
<1>2. /\ under - 1 <= peak
      /\ r.age <= Window => r.count + (under - 1) <= MaxOnRecord(peak)
  BY <1>1, LimitFacts DEF Tally
<1> QED BY <1>2 DEF Tally

LEMMA FailedTally ==
    ASSUME NEW r \in AttemptRecord, NEW f \in [Ages -> Nat],
           NEW peak \in 1..MaxLogins, NEW under \in 0..MaxLogins,
           Tally(r, under, peak, f), under > 0
    PROVE  Tally(AfterFailure(r), under - 1, peak, [f EXCEPT ![0] = @ + 1])
<1> DEFINE g == [f EXCEPT ![0] = @ + 1]
<1>1. /\ r.count \in Nat /\ r.age \in Nat /\ UpTo(f, Window) \in Int
      /\ MaxOnRecord(peak) \in Nat /\ MaxOnRecord(peak) > 0 /\ peak <= MaxOnRecord(peak)
      /\ under \in Nat /\ peak \in Nat /\ under <= peak
  BY LimitFacts, PeakFacts, UpToType DEF AttemptRecord, Tally
<1>2. /\ g[0] = f[0] + 1 /\ f[0] \in Nat
      /\ \A k \in Ages : f[k] \in Nat /\ (k # 0 => g[k] = f[k])
      /\ g \in [Ages -> Nat]
  BY LimitFacts
<1>3. \A n \in Nat : n <= Window => UpTo(g, n) = UpTo(f, n) + 1
  BY OneMoreNow
<1> HIDE DEF g
<1>4. UpTo(g, Window) = UpTo(f, Window) + 1 /\ UpTo(g, 0) = f[0] + 1
  BY <1>2, <1>3, LimitFacts, UpToZero
<1>5. CASE Live(r)
  <2> DEFINE after == AfterFailure(r)
  <2>1. after.count = r.count + 1 /\ after.age = r.age
    BY <1>1, <1>5, Limits DEF AfterFailure, Live, Window, AttemptRecord
  <2> HIDE DEF after
  <2>2. /\ UpTo(g, r.age) = UpTo(f, r.age) + 1 /\ g[r.age] > 0
        /\ UpTo(f, r.age) = r.count /\ r.count > 0 /\ r.age <= Window
    <3>1. r.age \in Ages /\ f[r.age] > 0 /\ UpTo(f, r.age) = r.count /\ r.count > 0 /\ r.age <= Window
      BY <1>1, <1>5, Limits DEF Tally, Live, Window
    <3> QED BY <1>1, <1>2, <1>3, <3>1
  <2>3. Live(after) /\ after.count + (under - 1) <= MaxOnRecord(peak) /\ after.count <= MaxOnRecord(peak)
    BY <1>1, <2>1, <2>2, LimitFacts DEF Tally, Live
  <2>4. UpTo(f, Window) <= r.count + MaxOnRecord(peak) - 1
    BY <1>5 DEF Tally
  <2>5. Tally(after, under - 1, peak, g)
    BY <1>1, <1>4, <2>1, <2>2, <2>3, <2>4, LimitFacts DEF Tally
  <2> QED BY <2>5 DEF after, g
<1>6. CASE ~ Live(r)
  <2> DEFINE after == AfterFailure(r)
  <2>1. after.count = 1 /\ after.age = 0
    BY <1>1, <1>6, Limits DEF AfterFailure, Live, Window
  <2> HIDE DEF after
  <2>2. f[0] = 0 /\ UpTo(f, Window) <= MaxOnRecord(peak) - 1
    BY <1>6 DEF Tally
  <2>3. Live(after)
    BY <2>1, LimitFacts DEF Live
  <2>4. Tally(after, under - 1, peak, g)
    BY <1>1, <1>2, <1>4, <2>1, <2>2, <2>3, LimitFacts DEF Tally
  <2> QED BY <2>4 DEF after, g
<1> QED BY <1>5, <1>6

LEMMA OlderTally ==
    ASSUME NEW r \in AttemptRecord, NEW f \in [Ages -> Nat],
           NEW peak \in 1..MaxLogins, NEW under \in 0..MaxLogins,
           Tally(r, under, peak, f)
    PROVE  Tally(IF r.count = 0 \/ r.age > Window THEN r ELSE [r EXCEPT !.age = @ + 1],
                 under, peak, Older(f))
<1> DEFINE g == Older(f)
           w == Window - 1
<1>1. /\ r.count \in Nat /\ r.age \in Nat /\ UpTo(f, Window) \in Int
      /\ MaxOnRecord(peak) \in Nat /\ MaxOnRecord(peak) > 0 /\ peak <= MaxOnRecord(peak)
      /\ under \in Nat /\ peak \in Nat /\ under <= peak
  BY LimitFacts, PeakFacts, UpToType DEF AttemptRecord, Tally
<1>2. /\ g \in [Ages -> Nat] /\ g[0] = 0
      /\ \A n \in Nat : n + 1 <= Window => g[n + 1] = f[n] /\ UpTo(g, n + 1) = UpTo(f, n)
  BY OlderFacts, UpToOlder
<1> HIDE DEF g
<1>3. /\ UpTo(g, Window) = UpTo(f, Window) - f[Window] /\ UpTo(g, Window) \in Int
      /\ f[Window] \in Nat
  <2>1. w \in Nat /\ w + 1 = Window /\ Window \in Ages
    BY LimitFacts, Limits DEF Window
  <2>2. UpTo(g, w + 1) = UpTo(f, w) /\ UpTo(f, w + 1) = UpTo(f, w) + f[w + 1] /\ UpTo(f, w) \in Int
    BY <1>2, <2>1, UpToNext, UpToType
  <2>3. f[Window] \in Nat
    BY <2>1
  <2> HIDE DEF w
  <2> QED BY <2>1, <2>2, <2>3
<1>4. CASE ~ Live(r)
  <2>1. r.count = 0 \/ r.age > Window
    BY <1>1, <1>4, LimitFacts DEF Live
  <2>2. Tally(r, under, peak, g)
    BY <1>1, <1>2, <1>3, <1>4, LimitFacts DEF Tally
  <2> QED BY <2>1, <2>2 DEF g
<1>5. CASE Live(r)
  <2> DEFINE aged == [r EXCEPT !.age = @ + 1]
  <2>1. aged.count = r.count /\ aged.age = r.age + 1
    BY DEF AttemptRecord
  <2> HIDE DEF aged
  <2>2. /\ r.count > 0 /\ r.age <= Window /\ r.count <= MaxOnRecord(peak)
        /\ r.count + under <= MaxOnRecord(peak)
        /\ UpTo(f, r.age) = r.count /\ f[r.age] > 0
        /\ UpTo(f, Window) <= r.count + MaxOnRecord(peak) - 1
    BY <1>5 DEF Tally, Live
  <2>3. CASE r.age + 1 <= Window
    <3>1. UpTo(g, aged.age) = aged.count /\ g[aged.age] > 0 /\ Live(aged)
      BY <1>1, <1>2, <2>1, <2>2, <2>3 DEF Live
    <3>2. UpTo(g, Window) <= aged.count + MaxOnRecord(peak) - 1
      BY <1>1, <1>3, <2>1, <2>2, LimitFacts
    <3>3. Tally(aged, under, peak, g)
      BY <1>1, <2>1, <2>2, <3>1, <3>2 DEF Tally
    <3> QED BY <1>1, <2>2, <3>3, LimitFacts DEF aged, g
  <2>4. CASE ~ (r.age + 1 <= Window)
    <3>1. r.age = Window
      BY <1>1, <2>2, <2>4, LimitFacts
    <3>2. UpTo(g, Window) <= MaxOnRecord(peak) - 1
      BY <1>1, <1>3, <2>2, <3>1, LimitFacts
    <3>3. ~ Live(aged) /\ ~ (aged.age <= Window) /\ aged.count > 0
      BY <1>1, <2>1, <2>2, <3>1, LimitFacts DEF Live
    <3>4. Tally(aged, under, peak, g)
      BY <1>1, <1>2, <2>1, <2>2, <3>2, <3>3 DEF Tally
    <3> QED BY <1>1, <2>2, <3>4, LimitFacts DEF aged, g
  <2> QED BY <2>3, <2>4
<1> QED BY <1>4, <1>5

LEMMA TalliedStep ==
    ASSUME SessionTypeOK, Tallied,
           LoginStep \/ Logout \/ Tick \/ Restart \/ UNCHANGED sessionVars
    PROVE  Tallied'
<1>1. \A a \in Addresses : /\ attempts[a] \in AttemptRecord /\ checking[a] \in 0..MaxLogins
                           /\ failures[a] \in [Ages -> Nat] /\ overlap[a] \in 1..MaxLogins
                           /\ Tally(attempts[a], checking[a], overlap[a], failures[a])
  BY DEF SessionTypeOK, AttemptRecord, Tallied
<1>2. /\ DOMAIN attempts = Addresses /\ DOMAIN checking = Addresses /\ DOMAIN failures = Addresses
      /\ DOMAIN overlap = Addresses
  BY DEF SessionTypeOK
<1>3. ASSUME NEW a \in Addresses,
             \A b \in Addresses : b # a => /\ attempts'[b] = attempts[b]
                                           /\ checking'[b] = checking[b]
                                           /\ failures'[b] = failures[b]
                                           /\ overlap'[b] = overlap[b],
             Tally(attempts'[a], checking'[a], overlap'[a], failures'[a])
      PROVE  Tallied'
  <2>1. \A b \in Addresses : Tally(attempts'[b], checking'[b], overlap'[b], failures'[b])
    BY <1>1, <1>3
  <2> QED BY <2>1 DEF Tallied
<1>4. ASSUME UNCHANGED <<attempts, checking, failures, overlap>> PROVE Tallied'
  BY <1>4 DEF Tallied
<1>5. ASSUME NEW a \in Addresses, Allow(a) PROVE Tallied'
  <2> DEFINE later == IF overlap[a] < checking[a] + 1 THEN checking[a] + 1 ELSE overlap[a]
  <2>1. /\ checking[a] < MaxLogins /\ (attempts[a].age > Window \/ attempts[a].count < maxLoginAttempts)
        /\ attempts' = [attempts EXCEPT ![a] = IF attempts[a].age > Window THEN NoRecord ELSE attempts[a]]
        /\ checking' = [checking EXCEPT ![a] = checking[a] + 1]
        /\ failures' = failures
    BY <1>5 DEF Allow, Admits, Expired, Window
  <2>2. overlap' = [overlap EXCEPT ![a] = later]
    BY <1>2, <1>5, <2>1 DEF Allow
  <2>3. later \in 1..MaxLogins /\ overlap[a] <= later /\ checking[a] + 1 <= later
    BY <1>1, <2>1, LimitFacts
  <2> HIDE DEF later
  <2>4. Tally(IF attempts[a].age > Window THEN NoRecord ELSE attempts[a],
              checking[a] + 1, later, failures[a])
    BY <1>1, <2>1, <2>3, AdmittedTally
  <2> QED BY <1>2, <1>3, <2>1, <2>2, <2>4
<1>6. ASSUME NEW a \in Addresses, RecordFailure(a) PROVE Tallied'
  <2>1. /\ checking[a] > 0
        /\ attempts' = [attempts EXCEPT ![a] = AfterFailure(attempts[a])]
        /\ checking' = [checking EXCEPT ![a] = checking[a] - 1]
        /\ failures' = [failures EXCEPT ![a] = [failures[a] EXCEPT ![0] = @ + 1]]
        /\ overlap' = overlap
    BY <1>6 DEF RecordFailure, Checked
  <2>2. Tally(AfterFailure(attempts[a]), checking[a] - 1, overlap[a],
              [failures[a] EXCEPT ![0] = @ + 1])
    BY <1>1, <2>1, FailedTally
  <2> QED BY <1>2, <1>3, <2>1, <2>2
<1>7. ASSUME NEW a \in Addresses, BadForm(a) PROVE Tallied'
  <2>1. /\ checking[a] > 0 /\ attempts' = attempts /\ failures' = failures
        /\ overlap' = overlap
        /\ checking' = [checking EXCEPT ![a] = checking[a] - 1]
    BY <1>7 DEF BadForm, Checked
  <2>2. Tally(attempts[a], checking[a] - 1, overlap[a], failures[a])
    BY <1>1, <2>1, DoneTally
  <2> QED BY <1>2, <1>3, <2>1, <2>2
<1>8. ASSUME NEW a \in Addresses, LogIn(a) PROVE Tallied'
  <2>1. /\ checking[a] > 0
        /\ attempts' = [attempts EXCEPT ![a] = NoRecord]
        /\ checking' = [checking EXCEPT ![a] = checking[a] - 1]
        /\ failures' = [failures EXCEPT ![a] = NoFailures]
        /\ overlap' = overlap
    BY <1>8 DEF LogIn, Checked, Reset
  <2>2. checking[a] - 1 \in 0..overlap[a]
    BY <1>1, <2>1, LimitFacts DEF Tally
  <2>3. Tally(NoRecord, checking[a] - 1, overlap[a], NoFailures)
    BY <1>1, <2>2, EmptyTally
  <2> QED BY <1>2, <1>3, <2>1, <2>3
<1>9. ASSUME Tick PROVE Tallied'
  <2>1. /\ attempts' = [a \in Addresses |->
                          IF attempts[a].count = 0 \/ attempts[a].age > Window THEN attempts[a]
                          ELSE [attempts[a] EXCEPT !.age = @ + 1]]
        /\ failures' = [a \in Addresses |-> Older(failures[a])]
        /\ checking' = checking /\ overlap' = overlap
    BY <1>9 DEF Tick, Expired, Older, Window
  <2>2. ASSUME NEW a \in Addresses PROVE Tally(attempts'[a], checking'[a], overlap'[a], failures'[a])
    <3>1. Tally(IF attempts[a].count = 0 \/ attempts[a].age > Window THEN attempts[a]
                ELSE [attempts[a] EXCEPT !.age = @ + 1],
                checking[a], overlap[a], Older(failures[a]))
      BY <1>1, OlderTally
    <3> QED BY <2>1, <3>1
  <2> QED BY <2>2 DEF Tallied
<1>10. ASSUME Restart PROVE Tallied'
  <2>1. 1 \in 1..MaxLogins /\ 0 \in 0..1
    BY LimitFacts
  <2>2. Tally(NoRecord, 0, 1, NoFailures)
    BY <2>1, EmptyTally
  <2> QED BY <1>10, <2>2 DEF Restart, Tallied
<1> QED BY <1>4, <1>5, <1>6, <1>7, <1>8, <1>9, <1>10 DEF LoginStep, Logout, sessionVars

LEMMA TalliedInit == SessionInit => Tallied
<1> SUFFICES ASSUME SessionInit PROVE Tallied
  OBVIOUS
<1>1. 1 \in 1..MaxLogins /\ 0 \in 0..1
  BY LimitFacts
<1>2. Tally(NoRecord, 0, 1, NoFailures)
  BY <1>1, EmptyTally
<1> QED BY <1>2 DEF SessionInit, Tallied

(* Two records in any window, and the later one no longer than it holds.   *)
LEMMA TalliedBounds ==
    ASSUME SessionTypeOK, Tallied
    PROVE  FailuresBounded /\ RefusedForCause
<1> SUFFICES ASSUME NEW a \in Addresses
             PROVE  /\ RecentFailures(a) <= 2 * (maxLoginAttempts + overlap[a] - 1) - 1
                    /\ ~ Admits(a) => RecentFailures(a) >= maxLoginAttempts
  BY DEF FailuresBounded, RefusedForCause
<1> DEFINE r == attempts[a]
           f == failures[a]
           peak == overlap[a]
<1>1. /\ r \in AttemptRecord /\ f \in [Ages -> Nat] /\ peak \in 1..MaxLogins
      /\ Tally(r, checking[a], peak, f)
      /\ RecentFailures(a) = UpTo(f, Window)
  BY RecentIsUpTo DEF SessionTypeOK, AttemptRecord, Tallied
<1> HIDE DEF r, f, peak
<1>2. r.count \in Nat /\ r.age \in Nat /\ UpTo(f, Window) \in Int
  BY <1>1, LimitFacts, UpToType DEF AttemptRecord
<1>3. UpTo(f, Window) <= 2 * MaxOnRecord(peak) - 1
  BY <1>1, <1>2, LimitFacts, PeakFacts DEF Tally
<1>4. ASSUME ~ Admits(a) PROVE UpTo(f, Window) >= maxLoginAttempts
  <2>1. r.age <= Window /\ r.count >= maxLoginAttempts /\ r.count > 0
    BY <1>2, <1>4, Limits DEF Admits, Expired, Window, r
  <2>2. UpTo(f, r.age) = r.count
    BY <1>1, <2>1 DEF Tally, Live
  <2>3. UpTo(f, r.age) <= UpTo(f, Window)
    BY <1>1, <1>2, <2>1, UpToGrows
  <2> QED BY <1>2, <2>1, <2>2, <2>3, LimitFacts
<1> QED BY <1>1, <1>3, <1>4 DEF MaxOnRecord, peak

(***************************************************************************)
(* The page: types                                                         *)
(***************************************************************************)
RequestRow ==
    [what : {"month", "entry", "delete"}, of : Month \cup Nat, cookie : 0..sessionDuration,
     answer : {"none", "ok", "error"}]

OfKnown(r, last) ==
    \/ r.what = "month" /\ r.of \in Month
    \/ r.what \in {"entry", "delete"} /\ r.of \in 1..last

ShownTypeOK ==
    /\ {month, first} \subseteq Month /\ figures \in Month \cup {NoMonth}
    /\ shifts \in Int

EntryTypeOK ==
    /\ dialog \in 0..lastEntry /\ lastEntry \in 0..MaxEntries
    /\ {settled, alone} \subseteq BOOLEAN
    /\ dialog = 0 => ~ settled /\ ~ alone

RequestsTypeOK ==
    /\ requests \in Seq(RequestRow)
    /\ \A i \in DOMAIN requests : OfKnown(requests[i], lastEntry)

Typed == SessionTypeOK /\ ShownTypeOK /\ EntryTypeOK /\ RequestsTypeOK

LEMMA RequestTypes ==
    ASSUME RequestsTypeOK
    PROVE  /\ Len(requests) \in Nat /\ DOMAIN requests = 1..Len(requests)
           /\ \A i \in DOMAIN requests : requests[i] \in RequestRow
BY LenProperties DEF RequestsTypeOK

(* How a step of the page changes the requests under way: one is sent, or  *)
(* one is taken out, or none is (and some of them are answered).           *)
Sent(what, of) ==
    /\ requests' \in Seq(RequestRow)
    /\ DOMAIN requests' = 1..(Len(requests) + 1)
    /\ \A i \in 1..Len(requests) : requests'[i] = requests[i]
    /\ LET r == requests'[Len(requests) + 1]
       IN  r.what = what /\ r.of = of /\ r.answer = "none"

Taken(i) ==
    /\ requests' \in Seq(RequestRow)
    /\ i \in DOMAIN requests
    /\ DOMAIN requests' = 1..(Len(requests) - 1)
    /\ \A j \in 1..(Len(requests) - 1) : requests'[j] = requests[IF j < i THEN j ELSE j + 1]

SameRequests ==
    /\ requests' \in Seq(RequestRow)
    /\ DOMAIN requests' = DOMAIN requests
    /\ \A i \in DOMAIN requests :
          requests'[i].what = requests[i].what /\ requests'[i].of = requests[i].of

LEMMA SendSends ==
    ASSUME RequestsTypeOK, session \in 0..sessionDuration,
           NEW what \in {"month", "entry", "delete"}, NEW of \in Month \cup Nat, Send(what, of)
    PROVE  Sent(what, of)
<1> DEFINE r == [what |-> what, of |-> of, cookie |-> session, answer |-> "none"]
<1>1. r \in RequestRow /\ r.what = what /\ r.of = of /\ r.answer = "none"
  BY DEF RequestRow
<1>2. requests \in Seq(RequestRow) /\ requests' = Append(requests, r)
  BY DEF RequestsTypeOK, Send
<1> HIDE DEF r
<1> QED BY <1>1, <1>2, AppendedTo DEF Sent

LEMMA ArrivalTakes ==
    ASSUME RequestsTypeOK, NEW i \in DOMAIN requests, MonthArrives(i) \/ EntryArrives(i)
    PROVE  Taken(i)
<1>1. requests' = RemoveAt(requests, i) /\ requests \in Seq(RequestRow)
  BY DEF MonthArrives, EntryArrives, RequestsTypeOK
<1> QED BY <1>1, RemovedFrom DEF Taken

LEMMA ServeAnswers ==
    ASSUME RequestsTypeOK, NEW i \in DOMAIN requests, NEW answer \in {"ok", "error"},
           Serve(i, answer)
    PROVE  /\ SameRequests
           /\ \A j \in DOMAIN requests :
                 requests'[j].answer = IF j = i THEN answer ELSE requests[j].answer
<1> DEFINE served == [requests[i] EXCEPT !.answer = answer, !.cookie = 0]
<1>1. /\ DOMAIN requests = 1..Len(requests)
      /\ \A j \in DOMAIN requests : requests[j] \in RequestRow
  BY RequestTypes
<1>2. requests[i] \in RequestRow /\ 0 \in 0..sessionDuration
  BY <1>1, Limits
<1>3. /\ served \in RequestRow /\ served.answer = answer
      /\ served.what = requests[i].what /\ served.of = requests[i].of
  BY <1>2 DEF RequestRow
<1>4. requests' = [requests EXCEPT ![i] = served]
  BY <1>1 DEF Serve
<1> HIDE DEF served
<1>5. DOMAIN requests' = DOMAIN requests /\ requests' \in [DOMAIN requests -> RequestRow]
  BY <1>1, <1>3, <1>4
<1>6. requests' \in Seq(RequestRow)
  BY <1>5, MappedOver DEF RequestsTypeOK
<1>7. \A j \in DOMAIN requests : requests'[j] = IF j = i THEN served ELSE requests[j]
  BY <1>4
<1> QED BY <1>3, <1>5, <1>6, <1>7 DEF SameRequests

LEMMA TimeKeepsRequests ==
    ASSUME RequestsTypeOK, TimePasses \/ ProcessRestarts
    PROVE  /\ SameRequests
           /\ \A j \in DOMAIN requests : requests'[j].answer \in {requests[j].answer, "error"}
<1>1. ASSUME NEW j \in DOMAIN requests
      PROVE  /\ requests'[j] \in RequestRow
             /\ requests'[j].what = requests[j].what /\ requests'[j].of = requests[j].of
             /\ requests'[j].answer \in {requests[j].answer, "error"}
  <2>1. requests[j] \in RequestRow /\ requests[j].cookie \in 0..sessionDuration
    BY RequestTypes DEF RequestRow
  <2>2. Less(requests[j].cookie) \in 0..sessionDuration /\ 0 \in 0..sessionDuration
    BY <2>1, RestTypes, Limits
  <2>3. CASE TimePasses
    <3>1. requests'[j] = [requests[j] EXCEPT !.cookie = Less(@)]
      BY <2>3 DEF TimePasses
    <3> QED BY <2>1, <2>2, <3>1 DEF RequestRow
  <2>4. CASE ProcessRestarts
    <3>1. requests'[j] \in {requests[j], [requests[j] EXCEPT !.answer = "error", !.cookie = 0]}
      BY <2>4 DEF ProcessRestarts
    <3> QED BY <2>1, <2>2, <3>1 DEF RequestRow
  <2> QED BY <2>3, <2>4
<1>2. DOMAIN requests' = DOMAIN requests /\ requests' \in [DOMAIN requests -> RequestRow]
  BY <1>1 DEF TimePasses, ProcessRestarts
<1>3. requests' \in Seq(RequestRow)
  BY <1>2, MappedOver DEF RequestsTypeOK
<1> QED BY <1>1, <1>2, <1>3 DEF SameRequests

(* The buttons that save and delete send the entry in the dialog. *)
EntrySent ==
    \E what \in {"entry", "delete"} :
        Sent(what, dialog) /\ UNCHANGED <<sessionVars, shown, entry>>

LEMMA ButtonsSend ==
    ASSUME RequestsTypeOK, session \in 0..sessionDuration, dialog \in Nat,
           SubmitEntry \/ DeleteEntry
    PROVE  EntrySent /\ dialog # 0
<1>1. PICK what \in {"entry", "delete"} :
          Send(what, dialog) /\ UNCHANGED <<sessionVars, shown, entry>>
  BY DEF SubmitEntry, DeleteEntry
<1>2. Sent(what, dialog)
  BY <1>1, SendSends
<1> QED BY <1>1, <1>2 DEF EntrySent, SubmitEntry, DeleteEntry

LEMMA ShiftedByOne ==
    ASSUME NEW m \in Month, NEW delta \in {1, -1}
    PROVE  /\ Shifted(m, delta) \in Month
           /\ 12 * Shifted(m, delta).year + Shifted(m, delta).month =
                  12 * m.year + m.month + delta
<1>1. m.year \in Int /\ m.month \in 1..12 /\ m = [year |-> m.year, month |-> m.month]
  BY DEF Month
<1>2. CASE m.month + delta < 1
  BY <1>1, <1>2 DEF Shifted, Month
<1>3. CASE m.month + delta > 12
  BY <1>1, <1>3 DEF Shifted, Month
<1>4. CASE m.month + delta \in 1..12
  <2>1. Shifted(m, delta) = [m EXCEPT !.month = @ + delta]
    BY <1>1, <1>4 DEF Shifted
  <2> QED BY <1>1, <1>4, <2>1 DEF Month
<1> QED BY <1>1, <1>2, <1>3, <1>4

MonthSent ==
    /\ Sent("month", month') /\ latest' = "asked"
    /\ UNCHANGED <<sessionVars, figures, first, entry>>
    /\ month' \in Month /\ shifts' \in Int
    /\ 12 * month'.year + month'.month - shifts' = 12 * month.year + month.month - shifts

LEMMA MonthStepSends ==
    ASSUME Typed, MonthStep
    PROVE  MonthSent
<1>1. /\ RequestsTypeOK /\ session \in 0..sessionDuration
      /\ month \in Month /\ month.year \in Int /\ month.month \in Int /\ shifts \in Int
  BY DEF Typed, SessionTypeOK, ShownTypeOK, Month
<1>2. ASSUME LoadMonth, month' \in Month
      PROVE  /\ Sent("month", month') /\ latest' = "asked"
             /\ UNCHANGED <<sessionVars, figures, first, entry>>
  <2>1. Send("month", month')
    BY <1>2 DEF LoadMonth
  <2>2. Sent("month", month')
    BY <1>1, <1>2, <2>1, SendSends
  <2> QED BY <1>2, <2>2 DEF LoadMonth
<1>3. CASE OpenMonthTab
  BY <1>1, <1>2, <1>3 DEF OpenMonthTab, MonthSent
<1>4. ASSUME NEW delta \in {1, -1}, ShiftMonth(delta)
      PROVE  MonthSent
  <2>1. month' = Shifted(month, delta) /\ shifts' = shifts + delta /\ LoadMonth
    BY <1>4 DEF ShiftMonth
  <2>2. /\ month' \in Month
        /\ 12 * month'.year + month'.month = 12 * month.year + month.month + delta
    BY <1>1, <2>1, ShiftedByOne
  <2>3. month'.year \in Int /\ month'.month \in Int /\ shifts' \in Int
    BY <1>1, <2>1, <2>2 DEF Month
  <2>4. 12 * month'.year + month'.month - shifts' = 12 * month.year + month.month - shifts
    BY <1>1, <2>1, <2>2, <2>3
  <2> QED BY <1>2, <2>1, <2>2, <2>3, <2>4 DEF MonthSent
<1> QED BY <1>3, <1>4 DEF MonthStep

LEMMA TypedStep ==
    ASSUME Typed, [BrowserNext]_browserVars
    PROVE  Typed'
<1>1. SessionTypeOK /\ ShownTypeOK /\ EntryTypeOK /\ RequestsTypeOK
  BY DEF Typed
<1>2. /\ lastEntry \in Nat /\ MaxEntries \in Nat /\ session \in 0..sessionDuration
      /\ requests \in Seq(RequestRow) /\ Len(requests) \in Nat
      /\ DOMAIN requests = 1..Len(requests)
  BY <1>1, RequestTypes, PageAssumption DEF EntryTypeOK, SessionTypeOK, RequestsTypeOK
<1>3. ASSUME NEW what, NEW of, Sent(what, of), UNCHANGED lastEntry,
             (what = "month" /\ of \in Month)
                \/ (what \in {"entry", "delete"} /\ of \in 1..lastEntry)
      PROVE  RequestsTypeOK'
  BY <1>1, <1>2, <1>3 DEF Sent, RequestsTypeOK, OfKnown
<1>4. ASSUME NEW i, Taken(i), UNCHANGED lastEntry PROVE RequestsTypeOK'
  <2>1. \A j \in 1..(Len(requests) - 1) : (IF j < i THEN j ELSE j + 1) \in DOMAIN requests
    BY <1>2, <1>4 DEF Taken
  <2> QED BY <1>1, <1>4, <2>1 DEF Taken, RequestsTypeOK
<1>5. ASSUME SameRequests, UNCHANGED lastEntry PROVE RequestsTypeOK'
  BY <1>1, <1>5 DEF SameRequests, RequestsTypeOK, OfKnown
<1>6. UNCHANGED sessionVars => SessionTypeOK'
  BY <1>1, SessionTypeStep
<1>7. UNCHANGED shown => ShownTypeOK'
  BY <1>1 DEF shown, ShownTypeOK
<1>8. UNCHANGED entry => EntryTypeOK' /\ UNCHANGED lastEntry
  BY <1>1 DEF entry, EntryTypeOK
<1>9. Close => EntryTypeOK' /\ UNCHANGED lastEntry
  <2>1. Close => dialog' = 0 /\ settled' = FALSE /\ alone' = FALSE /\ lastEntry' = lastEntry
    BY DEF Close
  <2>2. 0 \in 0..lastEntry /\ lastEntry \in 0..MaxEntries
    BY <1>1, <1>2 DEF EntryTypeOK
  <2> QED BY <2>1, <2>2 DEF EntryTypeOK
<1>10. CASE MonthStep
  <2>1. MonthSent
    BY <1>10, MonthStepSends
  <2>2. ShownTypeOK'
    BY <1>1, <2>1 DEF MonthSent, ShownTypeOK
  <2>3. UNCHANGED <<sessionVars, entry>> /\ Sent("month", month') /\ month' \in Month
    BY <2>1 DEF MonthSent
  <2>4. RequestsTypeOK'
    BY <1>3, <1>8, <2>3
  <2> QED BY <1>6, <1>8, <2>2, <2>3, <2>4 DEF Typed
<1>11. CASE OpenTransactionDialog
  <2>1. EntryTypeOK'
    BY <1>1, <1>2, <1>11 DEF OpenTransactionDialog, EntryTypeOK
  <2>2. RequestsTypeOK'
    BY <1>1, <1>2, <1>11 DEF OpenTransactionDialog, RequestsTypeOK, OfKnown
  <2> QED BY <1>6, <1>7, <1>11, <2>1, <2>2 DEF OpenTransactionDialog, Typed
<1>12. CASE CancelDialog
  <2>1. RequestsTypeOK'
    BY <1>1, <1>9, <1>12 DEF CancelDialog, RequestsTypeOK
  <2> QED BY <1>6, <1>7, <1>9, <1>12, <2>1 DEF CancelDialog, Typed
<1>13. CASE SubmitEntry \/ DeleteEntry
  <2>1. dialog \in 0..lastEntry /\ dialog \in Nat
    BY <1>1, <1>2 DEF EntryTypeOK
  <2>2. EntrySent /\ dialog \in 1..lastEntry
    BY <1>1, <1>2, <1>13, <2>1, ButtonsSend
  <2>3. PICK what \in {"entry", "delete"} :
            Sent(what, dialog) /\ UNCHANGED <<sessionVars, shown, entry>>
    BY <2>2 DEF EntrySent
  <2>4. RequestsTypeOK'
    BY <1>3, <1>8, <2>2, <2>3
  <2> QED BY <1>6, <1>7, <1>8, <2>3, <2>4 DEF Typed
<1>14. ASSUME NEW i \in DOMAIN requests, NEW answer \in {"ok", "error"}, Serve(i, answer)
       PROVE  Typed'
  <2>1. RequestsTypeOK'
    BY <1>1, <1>5, <1>14, ServeAnswers DEF Serve
  <2>2. requests[i].of = dialog /\ requests[i].what # "month" => dialog # 0
    BY <1>1, <1>2, <1>14 DEF RequestsTypeOK, OfKnown
  <2>3. settled' \in BOOLEAN /\ (dialog = 0 => ~ settled')
    <3>1. settled \in BOOLEAN /\ (dialog = 0 => ~ settled)
      BY <1>1 DEF EntryTypeOK
    <3>2. \/ settled' = settled
          \/ settled' = (settled \/ (requests[i].what # "month" /\ requests[i].of = dialog))
      BY <1>14 DEF Serve
    <3>3. CASE settled' = settled
      BY <3>1, <3>3
    <3>4. CASE settled' = (settled \/ (requests[i].what # "month" /\ requests[i].of = dialog))
      BY <2>2, <3>1, <3>4
    <3> QED BY <3>2, <3>3, <3>4
  <2>4. EntryTypeOK'
    <3>1. UNCHANGED <<dialog, lastEntry, alone>>
      BY <1>14 DEF Serve
    <3>2. /\ dialog \in 0..lastEntry /\ lastEntry \in 0..MaxEntries /\ alone \in BOOLEAN
          /\ dialog = 0 => ~ alone
      BY <1>1 DEF EntryTypeOK
    <3> QED BY <2>3, <3>1, <3>2, Zenon DEF EntryTypeOK
  <2> QED BY <1>6, <1>7, <1>14, <2>1, <2>4 DEF Serve, Typed
<1>15. ASSUME NEW i \in DOMAIN requests, MonthArrives(i)
       PROVE  Typed'
  <2>1. RequestsTypeOK'
    BY <1>1, <1>4, <1>8, <1>15, ArrivalTakes DEF MonthArrives
  <2>2. requests[i].of \in Month
    BY <1>1, <1>15 DEF MonthArrives, RequestsTypeOK, OfKnown
  <2>3. ShownTypeOK'
    BY <1>1, <1>15, <2>2 DEF MonthArrives, FiguresAfter, ShownTypeOK
  <2> QED BY <1>6, <1>8, <1>15, <2>1, <2>3 DEF MonthArrives, Typed
<1>16. ASSUME NEW i \in DOMAIN requests, EntryArrives(i)
       PROVE  Typed'
  <2>1. EntryTypeOK' /\ UNCHANGED lastEntry
    BY <1>8, <1>9, <1>16 DEF EntryArrives
  <2>2. RequestsTypeOK'
    BY <1>1, <1>4, <1>16, <2>1, ArrivalTakes
  <2> QED BY <1>6, <1>7, <1>16, <2>1, <2>2 DEF EntryArrives, Typed
<1>17. CASE Index
  <2>1. EntryTypeOK' /\ UNCHANGED lastEntry
    BY <1>9, <1>17 DEF Index
  <2>2. requests' = <<>> /\ DOMAIN requests' = {} /\ requests' \in Seq(RequestRow)
    BY <1>17 DEF Index
  <2>3. RequestsTypeOK'
    BY <2>2 DEF RequestsTypeOK
  <2>4. ShownTypeOK'
    BY <1>17, PageAssumption DEF Index, ShownTypeOK
  <2> QED BY <1>6, <1>17, <2>1, <2>3, <2>4 DEF Index, Typed
<1>18. CASE InOtherTabs
  <2>1. SessionTypeOK' /\ UNCHANGED <<shown, entry, requests>>
    BY <1>1, <1>18, SessionTypeStep DEF InOtherTabs, pageVars
  <2>2. RequestsTypeOK'
    BY <1>1, <1>8, <2>1 DEF RequestsTypeOK
  <2> QED BY <1>7, <1>8, <2>1, <2>2 DEF Typed
<1>19. CASE TimePasses \/ ProcessRestarts
  <2>1. SessionTypeOK' /\ UNCHANGED <<shown, entry>>
    BY <1>1, <1>19, SessionTypeStep DEF TimePasses, ProcessRestarts
  <2>2. RequestsTypeOK'
    BY <1>1, <1>5, <1>8, <1>19, <2>1, TimeKeepsRequests
  <2> QED BY <1>7, <1>8, <2>1, <2>2 DEF Typed
<1>20. CASE UNCHANGED browserVars
  <2>1. UNCHANGED <<sessionVars, shown, entry, requests>>
    BY <1>20 DEF browserVars, pageVars
  <2>2. RequestsTypeOK'
    BY <1>1, <1>8, <2>1 DEF RequestsTypeOK
  <2> QED BY <1>6, <1>7, <1>8, <2>1, <2>2 DEF Typed
<1> QED BY <1>10, <1>11, <1>12, <1>13, <1>14, <1>15, <1>16, <1>17, <1>18, <1>19, <1>20
        DEF BrowserNext, DialogStep, AnswerStep

(***************************************************************************)
(* The label and the figures                                               *)
(***************************************************************************)
LEMMA FirstFromLabel ==
    ASSUME month.year \in Int, month.month \in Int, shifts \in Int,
           first.year \in Int, first.month \in Int,
           12 * month.year + month.month = 12 * first.year + first.month + shifts
    PROVE  12 * first.year + first.month = 12 * month.year + month.month - shifts
OBVIOUS

LEMMA LabelAfterShift ==
    ASSUME ShownTypeOK, LabelFollowsClicks, MonthSent
    PROVE  LabelFollowsClicks'
<1>1. /\ month.year \in Int /\ month.month \in Int /\ shifts \in Int
      /\ first.year \in Int /\ first.month \in Int
  BY DEF ShownTypeOK, Month
<1>2. /\ month'.year \in Int /\ month'.month \in Int /\ shifts' \in Int /\ first' = first
      /\ 12 * month'.year + month'.month - shifts' = 12 * month.year + month.month - shifts
  BY DEF MonthSent, Month
<1>3. 12 * first.year + first.month = 12 * month.year + month.month - shifts
  BY <1>1, FirstFromLabel DEF LabelFollowsClicks
<1>4. 12 * month'.year + month'.month = 12 * first'.year + first'.month + shifts'
  BY <1>1, <1>2, <1>3
<1> QED BY <1>4 DEF LabelFollowsClicks

LEMMA LabelStep ==
    ASSUME Typed, LabelFollowsClicks, [BrowserNext]_browserVars
    PROVE  LabelFollowsClicks'
<1>2. UNCHANGED <<month, first, shifts>> => LabelFollowsClicks'
  BY DEF LabelFollowsClicks
<1>3. CASE MonthStep
  <2>1. MonthSent
    BY <1>3, MonthStepSends
  <2> QED BY <2>1, LabelAfterShift DEF Typed
<1>4. CASE Index
  <2>1. /\ month'.year \in Int /\ month'.month \in Int /\ shifts' = 0 /\ first' = month'
    BY <1>4, PageAssumption DEF Index, Month
  <2> QED BY <2>1 DEF LabelFollowsClicks
<1>5. DialogStep \/ AnswerStep => UNCHANGED <<month, first, shifts>>
  BY DEF DialogStep, OpenTransactionDialog, CancelDialog, SubmitEntry, DeleteEntry, AnswerStep, Serve,
         MonthArrives, EntryArrives, shown
<1>6. InOtherTabs \/ TimePasses \/ ProcessRestarts \/ UNCHANGED browserVars
        => UNCHANGED <<month, first, shifts>>
  BY DEF InOtherTabs, TimePasses, ProcessRestarts, browserVars, pageVars, shown
<1> QED BY <1>2, <1>3, <1>4, <1>5, <1>6 DEF BrowserNext

(* The last request for a month under way is for the one on the label. *)
LastAsked(i) ==
    /\ requests[i].what = "month"
    /\ \A j \in DOMAIN requests : j > i => requests[j].what # "month"

LatestIsLabel ==
    latest = "asked" => \A i \in DOMAIN requests : LastAsked(i) => requests[i].of = month

(* What is taken out, unless it is the last one, leaves that one the last. *)
LEMMA LastStaysLast ==
    ASSUME RequestsTypeOK, NEW i, Taken(i), ~ LastAsked(i),
           NEW j \in DOMAIN requests', LastAsked(j)'
    PROVE  LET k == IF j < i THEN j ELSE j + 1
           IN  k \in DOMAIN requests /\ LastAsked(k) /\ requests'[j] = requests[k]
<1> DEFINE n == Len(requests)
           k == IF j < i THEN j ELSE j + 1
<1>1. /\ n \in Nat /\ DOMAIN requests = 1..n /\ DOMAIN requests' = 1..(n - 1) /\ i \in 1..n
      /\ \A l \in 1..(n - 1) : requests'[l] = requests[IF l < i THEN l ELSE l + 1]
  BY RequestTypes DEF Taken
<1>2. /\ requests'[j].what = "month"
      /\ \A l \in 1..(n - 1) : l > j => requests'[l].what # "month"
  BY <1>1 DEF LastAsked
<1> HIDE DEF n
<1>3. /\ k \in 1..n /\ k # i /\ requests'[j] = requests[k]
  BY <1>1
<1>4. ASSUME NEW l \in 1..n, l > k, l # i PROVE requests[l].what # "month"
  <2>1. CASE l < i
    BY <1>1, <1>2, <1>4, <2>1
  <2>2. CASE l > i
    <3>1. l - 1 \in 1..(n - 1) /\ l - 1 > j /\ ~ (l - 1 < i) /\ (l - 1) + 1 = l
      BY <1>1, <1>4, <2>2
    <3>2. requests'[l - 1] = requests[l]
      BY <1>1, <3>1
    <3> QED BY <1>2, <3>1, <3>2
  <2> QED BY <1>1, <1>4, <2>1, <2>2
<1>5. i > k => requests[i].what # "month"
  <2> SUFFICES ASSUME i > k, requests[i].what = "month" PROVE FALSE
    OBVIOUS
  <2>1. PICK l \in 1..n : l > i /\ requests[l].what = "month"
    BY <1>1 DEF LastAsked
  <2>2. l > k /\ l # i
    BY <1>1, <1>3, <2>1
  <2> QED BY <1>4, <2>1, <2>2
<1>6. LastAsked(k)
  BY <1>1, <1>2, <1>3, <1>4, <1>5 DEF LastAsked
<1> QED BY <1>1, <1>3, <1>6

LEMMA LatestOfMonth ==
    ASSUME NEW i \in DOMAIN requests, requests[i].what = "month"
    PROVE  IsLatest(i) <=> latest = "asked" /\ LastAsked(i)
BY DEF IsLatest, LastAsked

LEMMA TakenKeepsLatest ==
    ASSUME RequestsTypeOK, LatestIsLabel, UNCHANGED <<month, latest>>,
           NEW i, Taken(i), ~ LastAsked(i)
    PROVE  LatestIsLabel'
<1> SUFFICES ASSUME latest = "asked", NEW j \in DOMAIN requests', LastAsked(j)'
             PROVE  requests'[j].of = month
  BY DEF LatestIsLabel
<1>1. PICK k \in DOMAIN requests : LastAsked(k) /\ requests'[j] = requests[k]
  BY LastStaysLast
<1> QED BY <1>1 DEF LatestIsLabel

LEMMA FiguresStep ==
    ASSUME Typed, LatestIsLabel, FiguresOfLabel, [BrowserNext]_browserVars
    PROVE  LatestIsLabel' /\ FiguresOfLabel'
<1>1. /\ RequestsTypeOK /\ Len(requests) \in Nat /\ DOMAIN requests = 1..Len(requests)
      /\ session \in 0..sessionDuration /\ dialog \in 0..lastEntry /\ lastEntry \in 0..MaxEntries
  BY RequestTypes DEF Typed, SessionTypeOK, EntryTypeOK
<1>2. UNCHANGED shown => FiguresOfLabel' /\ UNCHANGED <<month, latest>>
  BY DEF shown, FiguresOfLabel
<1>3. ASSUME SameRequests, UNCHANGED <<month, latest>> PROVE LatestIsLabel'
  BY <1>3 DEF SameRequests, LatestIsLabel, LastAsked
<1>4. ASSUME UNCHANGED <<shown, requests>> PROVE LatestIsLabel'
  BY <1>2, <1>4 DEF LatestIsLabel, LastAsked
<1>5. CASE MonthStep
  <2>1. Sent("month", month') /\ latest' = "asked"
    BY <1>5, MonthStepSends DEF MonthSent
  <2>2. /\ DOMAIN requests' = 1..(Len(requests) + 1)
        /\ LET r == requests'[Len(requests) + 1] IN r.what = "month" /\ r.of = month'
    BY <2>1 DEF Sent
  <2>3. ASSUME NEW i \in DOMAIN requests', LastAsked(i)' PROVE i = Len(requests) + 1
    BY <1>1, <2>2, <2>3 DEF LastAsked
  <2> QED BY <2>1, <2>2, <2>3 DEF LatestIsLabel, FiguresOfLabel
<1>6. CASE OpenTransactionDialog \/ CancelDialog
  BY <1>2, <1>4, <1>6 DEF OpenTransactionDialog, CancelDialog
<1>7. CASE SubmitEntry \/ DeleteEntry
  <2>1. PICK what \in {"entry", "delete"} : Sent(what, dialog) /\ UNCHANGED shown
    BY <1>1, <1>7, ButtonsSend, PageAssumption DEF EntrySent
  <2>2. ASSUME NEW i \in DOMAIN requests', LastAsked(i)'
        PROVE  i \in DOMAIN requests /\ LastAsked(i) /\ requests'[i] = requests[i]
    <3>1. i # Len(requests) + 1
      BY <2>1, <2>2 DEF Sent, LastAsked
    <3>2. i \in 1..Len(requests)
      BY <1>1, <2>1, <2>2, <3>1 DEF Sent
    <3> QED BY <1>1, <2>1, <2>2, <3>2 DEF Sent, LastAsked
  <2> QED BY <1>2, <2>1, <2>2 DEF LatestIsLabel
<1>8. ASSUME NEW i \in DOMAIN requests, NEW answer \in {"ok", "error"}, Serve(i, answer)
      PROVE  LatestIsLabel' /\ FiguresOfLabel'
  <2>1. SameRequests
    BY <1>1, <1>8, ServeAnswers
  <2> QED BY <1>2, <1>3, <1>8, <2>1 DEF Serve
<1>9. ASSUME NEW i \in DOMAIN requests, MonthArrives(i)
      PROVE  LatestIsLabel' /\ FiguresOfLabel'
  <2>1. Taken(i) /\ requests[i].what = "month" /\ UNCHANGED month
    BY <1>1, <1>9, ArrivalTakes DEF MonthArrives
  <2>2. CASE IsLatest(i) /\ requests[i].answer = "ok"
    <3>1. latest' = "shown"
      BY <1>9, <2>1, <2>2, LatestOfMonth DEF MonthArrives
    <3>2. figures' = FiguresAfter(requests[i])
      BY <1>9 DEF MonthArrives
    <3>3. figures' = requests[i].of
      BY <2>2, <3>2 DEF FiguresAfter
    <3>4. requests[i].of = month
      BY <2>1, <2>2, LatestOfMonth DEF LatestIsLabel
    <3> QED BY <2>1, <3>1, <3>3, <3>4 DEF LatestIsLabel, FiguresOfLabel
  <2>3. CASE IsLatest(i) /\ requests[i].answer # "ok"
    <3>1. latest' = "failed"
      BY <1>9, <2>3 DEF MonthArrives
    <3> QED BY <3>1 DEF LatestIsLabel, FiguresOfLabel
  <2>4. CASE ~ IsLatest(i) /\ latest = "shown"
    <3>1. /\ latest' \in {"shown", "overtaken"}
          /\ latest' = "shown" => figures' = figures
      BY <1>9, <2>4 DEF MonthArrives, FiguresAfter
    <3> QED BY <2>1, <2>4, <3>1 DEF LatestIsLabel, FiguresOfLabel
  <2>5. CASE ~ IsLatest(i) /\ latest # "shown"
    <3>1. latest' = latest
      BY <1>9, <2>5 DEF MonthArrives
    <3>2. latest = "asked" => ~ LastAsked(i)
      BY <2>1, <2>5, LatestOfMonth
    <3>3. latest = "asked" => LatestIsLabel'
      BY <1>1, <2>1, <3>1, <3>2, TakenKeepsLatest
    <3>4. latest # "asked" => LatestIsLabel'
      BY <3>1 DEF LatestIsLabel
    <3> QED BY <2>5, <3>1, <3>3, <3>4 DEF FiguresOfLabel
  <2> QED BY <2>2, <2>3, <2>4, <2>5
<1>10. ASSUME NEW i \in DOMAIN requests, EntryArrives(i)
       PROVE  LatestIsLabel' /\ FiguresOfLabel'
  <2>1. Taken(i) /\ ~ LastAsked(i) /\ UNCHANGED shown
    BY <1>1, <1>10, ArrivalTakes DEF EntryArrives, LastAsked
  <2> QED BY <1>1, <1>2, <2>1, TakenKeepsLatest
<1>11. CASE Index
  BY <1>11 DEF Index, LatestIsLabel, FiguresOfLabel
<1>12. CASE InOtherTabs
  BY <1>2, <1>4, <1>12 DEF InOtherTabs, pageVars
<1>13. CASE TimePasses \/ ProcessRestarts
  <2>1. SameRequests /\ UNCHANGED shown
    BY <1>1, <1>13, TimeKeepsRequests DEF TimePasses, ProcessRestarts
  <2> QED BY <1>2, <1>3, <2>1
<1>14. CASE UNCHANGED browserVars
  BY <1>2, <1>4, <1>14 DEF browserVars, pageVars
<1> QED BY <1>5, <1>6, <1>7, <1>8, <1>9, <1>10, <1>11, <1>12, <1>13, <1>14
        DEF BrowserNext, DialogStep, AnswerStep

(* Where answers come in the order of the requests, none for a month is    *)
(* under way once the last one has been answered, and none is overtaken.   *)
InOrder ==
    /\ latest # "asked" => \A i \in DOMAIN requests : requests[i].what # "month"
    /\ latest # "overtaken"

LEMMA OrderStep ==
    ASSUME Typed, InOrder, BrowserNext, AnswersInOrder
    PROVE  InOrder'
<1>1. /\ RequestsTypeOK /\ Len(requests) \in Nat /\ DOMAIN requests = 1..Len(requests)
      /\ session \in 0..sessionDuration /\ dialog \in 0..lastEntry /\ lastEntry \in 0..MaxEntries
  BY RequestTypes DEF Typed, SessionTypeOK, EntryTypeOK
<1>2. UNCHANGED shown => UNCHANGED latest
  BY DEF shown
<1>3. ASSUME UNCHANGED latest,
             \A i \in DOMAIN requests' :
                 requests'[i].what # "month"
                 \/ \E j \in DOMAIN requests : requests[j].what = requests'[i].what
      PROVE  InOrder'
  BY <1>3 DEF InOrder
<1>4. CASE MonthStep
  <2>1. latest' = "asked"
    BY <1>4, MonthStepSends DEF MonthSent
  <2> QED BY <2>1 DEF InOrder
<1>5. CASE OpenTransactionDialog \/ CancelDialog \/ InOtherTabs
  <2>1. UNCHANGED <<shown, requests>>
    BY <1>5 DEF OpenTransactionDialog, CancelDialog, InOtherTabs, pageVars
  <2> QED BY <1>2, <1>3, <2>1
<1>6. CASE SubmitEntry \/ DeleteEntry
  <2>1. PICK what \in {"entry", "delete"} : Sent(what, dialog) /\ UNCHANGED shown
    BY <1>1, <1>6, ButtonsSend, PageAssumption DEF EntrySent
  <2>2. ASSUME NEW i \in DOMAIN requests'
        PROVE  requests'[i].what # "month"
               \/ \E j \in DOMAIN requests : requests[j].what = requests'[i].what
    <3>1. i = Len(requests) + 1 \/ i \in 1..Len(requests)
      BY <1>1, <2>1, <2>2 DEF Sent
    <3> QED BY <1>1, <2>1, <3>1 DEF Sent
  <2> QED BY <1>2, <1>3, <2>1, <2>2
<1>7. ASSUME SameRequests, UNCHANGED shown PROVE InOrder'
  <2>1. \A i \in DOMAIN requests' :
            i \in DOMAIN requests /\ requests[i].what = requests'[i].what
    BY <1>7 DEF SameRequests
  <2> QED BY <1>2, <1>3, <1>7, <2>1
<1>8. ASSUME NEW i \in DOMAIN requests, NEW answer \in {"ok", "error"}, Serve(i, answer)
      PROVE  InOrder'
  BY <1>1, <1>7, <1>8, ServeAnswers DEF Serve
<1>9. CASE TimePasses \/ ProcessRestarts
  BY <1>1, <1>7, <1>9, TimeKeepsRequests DEF TimePasses, ProcessRestarts
<1>10. ASSUME NEW i \in DOMAIN requests, EntryArrives(i)
       PROVE  InOrder'
  <2>1. Taken(i) /\ UNCHANGED shown
    BY <1>1, <1>10, ArrivalTakes DEF EntryArrives
  <2>2. ASSUME NEW j \in DOMAIN requests'
        PROVE  \E k \in DOMAIN requests : requests[k].what = requests'[j].what
    <3>1. (IF j < i THEN j ELSE j + 1) \in DOMAIN requests
      BY <1>1, <2>1, <2>2 DEF Taken
    <3> QED BY <2>1, <2>2, <3>1 DEF Taken
  <2> QED BY <1>2, <1>3, <2>1, <2>2
<1>11. ASSUME NEW k \in DOMAIN requests, MonthArrives(k)
       PROVE  InOrder'
  <2>1. PICK i \in DOMAIN requests :
            MonthArrives(i) /\ \A j \in 1..(i - 1) : requests[j].what # "month"
    BY <1>11 DEF AnswersInOrder
  <2>2. Taken(i) /\ requests[i].what = "month" /\ latest = "asked"
    BY <1>1, <2>1, ArrivalTakes DEF MonthArrives, InOrder
  <2>3. CASE IsLatest(i)
    <3>1. latest' \in {"shown", "failed"}
      <4>1. latest' = IF requests[i].answer = "ok" THEN "shown" ELSE "failed"
        BY <2>1, <2>2, <2>3, SMTT(30) DEF MonthArrives
      <4> QED BY <4>1
    <3>2. \A j \in DOMAIN requests : j # i => requests[j].what # "month"
      BY <1>1, <2>1, <2>3 DEF IsLatest
    <3>3. ASSUME NEW j \in DOMAIN requests' PROVE requests'[j].what # "month"
      <4>1. /\ (IF j < i THEN j ELSE j + 1) \in DOMAIN requests
            /\ (IF j < i THEN j ELSE j + 1) # i
        BY <1>1, <2>2, <3>3 DEF Taken
      <4> QED BY <2>2, <3>2, <3>3, <4>1 DEF Taken
    <3> QED BY <3>1, <3>3 DEF InOrder
  <2>4. CASE ~ IsLatest(i)
    <3>1. latest' = "asked"
      BY <2>1, <2>2, <2>4 DEF MonthArrives
    <3> QED BY <3>1 DEF InOrder
  <2> QED BY <2>3, <2>4
<1>12. CASE Index
  BY <1>12 DEF Index, InOrder
<1> QED BY <1>4, <1>5, <1>6, <1>8, <1>9, <1>10, <1>11, <1>12 DEF BrowserNext, DialogStep, AnswerStep

(***************************************************************************)
(* The entry in the dialog                                                 *)
(***************************************************************************)
(* While an entry is in a dialog that was opened with no request under     *)
(* way, what is under way beside months is for this one, and an answer     *)
(* that it was saved or deleted means that it was.                         *)
ForThisEntry(r) == r.what # "month" => r.of = dialog /\ (r.answer = "ok" => settled)

AloneSent == alone => \A i \in DOMAIN requests : ForThisEntry(requests[i])

LEMMA TakenKeepsAlone ==
    ASSUME RequestsTypeOK, AloneSent, UNCHANGED <<dialog, settled, alone>>, NEW i, Taken(i)
    PROVE  AloneSent'
<1>1. /\ Len(requests) \in Nat /\ DOMAIN requests = 1..Len(requests)
  BY RequestTypes
<1>2. \A j \in 1..(Len(requests) - 1) : (IF j < i THEN j ELSE j + 1) \in DOMAIN requests
  BY <1>1 DEF Taken
<1> QED BY <1>2 DEF Taken, AloneSent, ForThisEntry

LEMMA SentKeepsAlone ==
    ASSUME RequestsTypeOK, AloneSent, UNCHANGED <<dialog, settled, alone>>,
           NEW what, NEW of, Sent(what, of), what # "month" => of = dialog
    PROVE  AloneSent'
<1>1. /\ Len(requests) \in Nat /\ DOMAIN requests = 1..Len(requests)
  BY RequestTypes
<1>2. ASSUME alone, NEW i \in DOMAIN requests'
      PROVE  ForThisEntry(requests[i])'
  <2>1. CASE i \in 1..Len(requests)
    BY <1>1, <1>2, <2>1 DEF Sent, AloneSent, ForThisEntry
  <2>2. CASE i = Len(requests) + 1
    BY <1>2, <2>2 DEF Sent, ForThisEntry
  <2> QED BY <1>1, <1>2, <2>1, <2>2 DEF Sent
<1>3. alone' = alone
  OBVIOUS
<1> QED BY <1>2, <1>3 DEF AloneSent

LEMMA EntryStep ==
    ASSUME Typed, AloneSent, [BrowserNext]_browserVars
    PROVE  AloneSent'
<1>1. /\ RequestsTypeOK /\ Len(requests) \in Nat /\ DOMAIN requests = 1..Len(requests)
      /\ session \in 0..sessionDuration /\ dialog \in 0..lastEntry /\ lastEntry \in Nat
  BY RequestTypes, PageAssumption DEF Typed, SessionTypeOK, EntryTypeOK
<1>2. UNCHANGED entry => UNCHANGED <<dialog, settled, alone>>
  BY DEF entry
<1>3. Close => AloneSent'
  <2>1. Close => ~ alone'
    BY DEF Close
  <2> QED BY <2>1 DEF AloneSent
<1>4. ASSUME UNCHANGED <<entry, requests>> PROVE AloneSent'
  <2>1. /\ alone' = alone /\ requests' = requests /\ dialog' = dialog /\ settled' = settled
    BY <1>4 DEF entry
  <2> QED BY <2>1 DEF AloneSent, ForThisEntry
<1>5. CASE MonthStep
  <2>1. Sent("month", month') /\ UNCHANGED entry
    BY <1>5, MonthStepSends DEF MonthSent
  <2> QED BY <1>1, <1>2, <2>1, SentKeepsAlone
<1>6. CASE OpenTransactionDialog
  <2>1. alone' => DOMAIN requests' = {}
    <3>1. alone' = (requests = <<>>) /\ requests' = requests
      BY <1>6 DEF OpenTransactionDialog
    <3>2. alone' => requests = <<>>
      BY <3>1, Zenon
    <3>3. requests = <<>> => DOMAIN requests' = {}
      BY <3>1
    <3> QED BY <3>2, <3>3
  <2> QED BY <2>1 DEF AloneSent
<1>7. CASE CancelDialog
  BY <1>3, <1>7 DEF CancelDialog
<1>8. CASE SubmitEntry \/ DeleteEntry
  <2>1. PICK what \in {"entry", "delete"} : Sent(what, dialog) /\ UNCHANGED entry
    BY <1>1, <1>8, ButtonsSend DEF EntrySent
  <2> QED BY <1>1, <1>2, <2>1, SentKeepsAlone
<1>9. ASSUME NEW i \in DOMAIN requests, NEW answer \in {"ok", "error"}, Serve(i, answer)
      PROVE  AloneSent'
  <2>1. /\ SameRequests
        /\ \A j \in DOMAIN requests :
              requests'[j].answer = IF j = i THEN answer ELSE requests[j].answer
    BY <1>1, <1>9, ServeAnswers
  <2>2. dialog' = dialog /\ alone' = alone
    BY <1>9 DEF Serve
  <2>3. settled => settled'
    BY <1>9, Zenon DEF Serve
  <2>4. answer = "ok" /\ requests[i].what # "month" /\ requests[i].of = dialog => settled'
    BY <1>9 DEF Serve
  <2>5. ASSUME alone, NEW j \in DOMAIN requests, requests'[j].what # "month"
        PROVE  requests'[j].of = dialog /\ (requests'[j].answer = "ok" => settled')
    <3>1. requests[j].what # "month" /\ requests'[j].of = requests[j].of
      BY <2>1, <2>5 DEF SameRequests
    <3>2. requests[j].of = dialog /\ (requests[j].answer = "ok" => settled)
      BY <2>5, <3>1 DEF AloneSent, ForThisEntry
    <3>3. CASE j = i
      BY <2>1, <2>4, <3>1, <3>2, <3>3
    <3>4. CASE j # i
      <4>1. requests'[j].answer = requests[j].answer
        BY <2>1, <3>4
      <4> QED BY <2>3, <3>1, <3>2, <4>1, Zenon
    <3> QED BY <3>3, <3>4
  <2>6. DOMAIN requests' = DOMAIN requests
    BY <2>1 DEF SameRequests
  <2> QED BY <2>2, <2>5, <2>6 DEF AloneSent, ForThisEntry
<1>10. ASSUME NEW i \in DOMAIN requests, MonthArrives(i)
       PROVE  AloneSent'
  <2>1. Taken(i) /\ UNCHANGED entry
    BY <1>1, <1>10, ArrivalTakes DEF MonthArrives
  <2> QED BY <1>1, <1>2, <2>1, TakenKeepsAlone
<1>11. ASSUME NEW i \in DOMAIN requests, EntryArrives(i)
       PROVE  AloneSent'
  <2>1. Taken(i) /\ (Close \/ UNCHANGED entry)
    BY <1>1, <1>11, ArrivalTakes DEF EntryArrives
  <2> QED BY <1>1, <1>2, <1>3, <2>1, TakenKeepsAlone
<1>12. CASE Index
  BY <1>3, <1>12 DEF Index
<1>13. CASE InOtherTabs
  BY <1>4, <1>13 DEF InOtherTabs, pageVars
<1>14. CASE TimePasses \/ ProcessRestarts
  <2>1. /\ SameRequests
        /\ \A j \in DOMAIN requests : requests'[j].answer \in {requests[j].answer, "error"}
    BY <1>1, <1>14, TimeKeepsRequests
  <2>2. dialog' = dialog /\ settled' = settled /\ alone' = alone
    BY <1>2, <1>14 DEF TimePasses, ProcessRestarts
  <2> QED BY <2>1, <2>2 DEF SameRequests, AloneSent, ForThisEntry
<1>15. CASE UNCHANGED browserVars
  BY <1>4, <1>15 DEF browserVars, pageVars
<1> QED BY <1>5, <1>6, <1>7, <1>8, <1>9, <1>10, <1>11, <1>12, <1>13, <1>14, <1>15
        DEF BrowserNext, DialogStep, AnswerStep

(* The dialog closes by itself only with its entry settled. *)
LEMMA EntryKeptStep ==
    ASSUME Typed, AloneSent, alone, NEW i \in DOMAIN requests, EntryArrives(i)
    PROVE  settled \/ dialog' = dialog
<1>1. requests[i].what # "month" /\ (requests[i].answer = "ok" => settled)
  BY DEF EntryArrives, AloneSent, ForThisEntry
<1>2. requests[i].answer # "ok" => dialog' = dialog
  BY DEF EntryArrives, Closes, entry
<1> QED BY <1>1, <1>2

(***************************************************************************)
(* The theorems                                                            *)
(***************************************************************************)
PageInvariant ==
    /\ Typed /\ Tallied
    /\ LabelFollowsClicks /\ LatestIsLabel /\ FiguresOfLabel
    /\ AloneSent

LEMMA PageInit == BrowserInit => PageInvariant
<1> SUFFICES ASSUME BrowserInit PROVE PageInvariant
  OBVIOUS
<1>1. SessionTypeOK /\ Tallied
  BY SessionTypeInit, TalliedInit DEF BrowserInit
<1>2. /\ month \in Month /\ first = month /\ shifts = 0 /\ figures = NoMonth
      /\ latest = "none" /\ dialog = 0 /\ lastEntry = 0 /\ settled = FALSE /\ alone = FALSE
      /\ requests = <<>>
  BY PageAssumption DEF BrowserInit
<1>3. ShownTypeOK
  BY <1>2 DEF ShownTypeOK
<1>4. EntryTypeOK
  <2>1. dialog \in 0..lastEntry /\ lastEntry \in 0..MaxEntries
    BY <1>2, PageAssumption
  <2>2. settled = FALSE /\ alone = FALSE
    BY <1>2
  <2> QED BY <2>1, <2>2, Zenon DEF EntryTypeOK
<1>5. RequestsTypeOK
  BY <1>2 DEF RequestsTypeOK
<1>6. LabelFollowsClicks
  BY <1>2 DEF LabelFollowsClicks, Month
<1> QED BY <1>1, <1>2, <1>3, <1>4, <1>5, <1>6
        DEF PageInvariant, Typed, LatestIsLabel, FiguresOfLabel, AloneSent

(* What a step of the browser is to the limiter. *)
LEMMA LoginsOfBrowser ==
    ASSUME [BrowserNext]_browserVars
    PROVE  LoginStep \/ Logout \/ Tick \/ Restart \/ UNCHANGED sessionVars
<1>1. MonthStep \/ DialogStep \/ AnswerStep \/ Index => UNCHANGED sessionVars
  BY DEF MonthStep, OpenMonthTab, ShiftMonth, LoadMonth, DialogStep, OpenTransactionDialog,
         CancelDialog, SubmitEntry, DeleteEntry, AnswerStep, Serve, MonthArrives, EntryArrives, Index
<1>2. InOtherTabs \/ TimePasses \/ ProcessRestarts => LoginStep \/ Logout \/ Tick \/ Restart
  BY DEF InOtherTabs, TimePasses, ProcessRestarts
<1> QED BY <1>1, <1>2 DEF BrowserNext, browserVars

LEMMA PageStep == PageInvariant /\ [BrowserNext]_browserVars => PageInvariant'
BY TypedStep, LoginsOfBrowser, TalliedStep, LabelStep, FiguresStep, EntryStep
   DEF PageInvariant, Typed

LEMMA PageInvariantHolds == BrowserSpec => []PageInvariant
BY PageInit, PageStep, PTL DEF BrowserSpec

LEMMA TypedIsTypeOK == Typed => BrowserTypeOK
<1> SUFFICES ASSUME Typed PROVE BrowserTypeOK
  OBVIOUS
<1>1. ASSUME NEW i \in DOMAIN requests
      PROVE  /\ OfKnown(requests[i], lastEntry)
             /\ requests[i].cookie \in 0..sessionDuration
             /\ requests[i].answer \in {"none", "ok", "error"}
  BY RequestTypes DEF Typed, RequestsTypeOK, RequestRow
<1> QED BY <1>1 DEF Typed, BrowserTypeOK, ShownTypeOK, EntryTypeOK, OfKnown

(* The tables of the limiter and the sessions, and what the page keeps,    *)
(* stay of their types, and an entry under way is one that was begun:      *)
(* whatever the limits of auth.go are and however many are under way.      *)
THEOREM BrowserTypes == BrowserSpec => []BrowserTypeOK
BY PageInvariantHolds, TypedIsTypeOK, PTL DEF PageInvariant

(* Whatever the limit and the window are, the last window never saw more   *)
(* failures from an address than two records of the limiter hold, each as  *)
(* far above the limit as logins were seen to overlap: handlers.go Allow   *)
(* and RecordFailure.                                                      *)
THEOREM FailuresStayBounded == BrowserSpec => []FailuresBounded
<1>1. PageInvariant => FailuresBounded
  BY TalliedBounds DEF PageInvariant, Typed
<1> QED BY <1>1, PageInvariantHolds, PTL

(* An address is refused only if the last window saw as many failures from *)
(* it as the limit says: successes, expired records, slow checks and       *)
(* restarts leave nothing behind that would lock it out.                   *)
THEOREM RefusalsHaveCause == BrowserSpec => []RefusedForCause
<1>1. PageInvariant => RefusedForCause
  BY TalliedBounds DEF PageInvariant, Typed
<1> QED BY <1>1, PageInvariantHolds, PTL

(* The month on the label is where the clicks lead, over any number of     *)
(* years and in both directions: app.js shiftMonth.                        *)
THEOREM LabelIsWhereClicksLead == BrowserSpec => []LabelFollowsClicks
<1>1. PageInvariant => LabelFollowsClicks
  BY DEF PageInvariant
<1> QED BY <1>1, PageInvariantHolds, PTL

(* Errors, losses, ended sessions and restarts never part the figures from *)
(* the month on the label: after the last answer they are of that month    *)
(* until one to an older request comes, and where answers come in the      *)
(* order of the requests they always are: app.js loadMonth.                *)
THEOREM FiguresAreLabels ==
    BrowserSpec => /\ []FiguresOfLabel
                   /\ [][AnswersInOrder]_browserVars => []FiguresMatchLabel
<1>1. BrowserInit => InOrder
  BY DEF BrowserInit, InOrder
<1>2. /\ PageInvariant /\ InOrder
      /\ [BrowserNext]_browserVars /\ [AnswersInOrder]_browserVars
      => InOrder'
  <2>1. UNCHANGED browserVars => (InOrder => InOrder')
    BY DEF browserVars, pageVars, shown, InOrder
  <2> QED BY <2>1, OrderStep DEF PageInvariant
<1>3. PageInvariant => FiguresOfLabel
  BY DEF PageInvariant
<1>4. FiguresOfLabel /\ InOrder => FiguresMatchLabel
  BY DEF FiguresOfLabel, InOrder, FiguresMatchLabel
<1> QED BY <1>1, <1>2, <1>3, <1>4, PageInvariantHolds, PTL DEF BrowserSpec

(* Of an entry typed with no request under way, the dialog is closed by an *)
(* answer only when the entry is saved or deleted: the handlers of submit  *)
(* and delete in app.js.                                                   *)
THEOREM EntryKept == BrowserSpec => EntryKeptUntilSettled
<1>1. PageInvariant /\ [BrowserNext]_browserVars
        => [alone /\ (\E i \in DOMAIN requests : EntryArrives(i))
               => settled \/ dialog' = dialog]_browserVars
  BY EntryKeptStep DEF PageInvariant
<1> QED BY <1>1, PageInvariantHolds, PTL DEF BrowserSpec, EntryKeptUntilSettled
=============================================================================
