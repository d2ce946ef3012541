--------------------------- MODULE ThrottleProofs ---------------------------
(***************************************************************************)
(* Proofs about Throttle, for every limit, window, cooldown and bound.     *)
(*                                                                         *)
(* The limiter's deque holds the youngest failures (DequeIsSuffix), and a  *)
(* failure it no longer holds is too old to count, unless the deque is     *)
(* full of younger ones (ForgottenAreOld).  For the alerts, the time of an *)
(* answered one is never later than the time the webhook got it            *)
(* (AnsweredWasReached), also while the answer is on its way (FlightOK).   *)
(***************************************************************************)
EXTENDS Throttle, FiniteSetTheorems, SequenceTheorems, WellFoundedInduction, TLAPS

Less == {ss \in Nat \X Nat : ss[1] < ss[2]}

\* Every set of natural numbers that is not empty has a least one.
LEMMA LeastNatural ==
  ASSUME NEW T, T \subseteq Nat, T # {}
  PROVE  \E x \in T : \A y \in T : x <= y
<1>1. IsWellFoundedOn(Less, Nat)
  BY NatLessThanWellFounded, Zenon DEF OpToRel, Less
<1>2. PICK x \in T : \A y \in T : ~(<<y, x>> \in Less)
  BY <1>1, WFMin
<1>3. \A y \in T : ~ y < x
  <2>1. SUFFICES ASSUME NEW y \in T, y < x
                 PROVE  <<y, x>> \in Less
    BY <1>2
  <2>2. QED
    BY <2>1 DEF Less
<1>4. QED
  BY <1>3

\* The loop of PopLeft stops: n attempts are popped, and what is left is the rest.
LEMMA PopLeftPops ==
  ASSUME NEW s \in Seq(Int), NEW w \in Int, now \in Int
  PROVE  \E n \in 0 .. Len(s) :
           /\ \A k \in 1 .. n : now - s[k] >= w
           /\ n < Len(s) => now - s[n + 1] < w
           /\ PopLeft(s, w) = SubSeq(s, n + 1, Len(s))
<1> DEFINE Young == {k \in 1 .. Len(s) : now - s[k] < w}
           Popped(n) == /\ \A k \in 1 .. n : now - s[k] >= w
                        /\ n < Len(s) => now - s[n + 1] < w
<1>1. Len(s) \in Nat /\ \A k \in 1 .. Len(s) : s[k] \in Int
  BY LenProperties, ElementOfSeq
<1>2. \E n \in 0 .. Len(s) : Popped(n)
  <2>1. CASE Young = {}
    <3>1. Popped(Len(s))
      BY <1>1, <2>1, SMTT(30)
    <3>2. QED
      BY <1>1, <3>1
  <2>2. CASE Young # {}
    <3>1. PICK m \in Young : \A k \in Young : m <= k
      <4>1. Young \subseteq Nat
        BY <1>1
      <4>2. QED
        BY <2>2, <4>1, LeastNatural, Zenon
    <3>2. m - 1 \in 0 .. Len(s) /\ Popped(m - 1)
      BY <1>1, <3>1
    <3>3. QED
      BY <3>2
  <2>3. QED
    BY <2>1, <2>2
<1>3. PICK n \in 0 .. Len(s) : n = CHOOSE x \in 0 .. Len(s) : Popped(x)
  BY <1>2
<1>4. Popped(n)
  BY <1>2, <1>3
<1>5. PopLeft(s, w) = SubSeq(s, n + 1, Len(s))
  BY <1>3 DEF PopLeft
<1>6. QED
  BY <1>4, <1>5

-----------------------------------------------------------------------------
(* The inductive invariants.                                               *)

\* Failures are recorded in the order of the clock.
FailuresInOrder ==
  /\ \A k \in 1 .. Len(failures) : failures[k] <= now
  /\ \A j, k \in 1 .. Len(failures) : j <= k => failures[j] <= failures[k]

\* The number of failures that the deque no longer holds.
Forgotten == Len(failures) - Len(attempts)

DequeIsSuffix ==
  /\ Forgotten >= 0
  /\ \A k \in 1 .. Len(attempts) : attempts[k] = failures[Forgotten + k]

ForgottenAreOld ==
  Len(attempts) <= Limit => \A k \in 1 .. Forgotten : now - failures[k] >= Window

LimiterInv == FailuresInOrder /\ DequeIsSuffix /\ ForgottenAreOld

\* The alert on its way was sent when no cooldown ran, and has arrived after
\* that.
FlightOK ==
  flight # NoAlert =>
    /\ flight.at <= now
    /\ lastSent[flight.event] # Never => flight.at >= lastSent[flight.event] + Cooldown
    /\ flight.arrived => reached[flight.event] # Never /\ reached[flight.event] >= flight.at

AnsweredWasReached ==
  \A e \in AlertEvents :
    lastSent[e] # Never =>
      lastSent[e] <= now /\ reached[e] # Never /\ reached[e] >= lastSent[e]

AlertInv == FlightOK /\ AnsweredWasReached

-----------------------------------------------------------------------------
(* The limiter.                                                            *)

\* What a failed login does to the deque: m attempts leave it on the left and now
\* enters on the right; all that it holds then is within the window, and if it
\* is not full, the m attempts are not.
LEMMA DequeStep ==
  ASSUME attempts \in Seq(Time), Len(attempts) <= Limit + 1, now \in Time,
         \A j, k \in 1 .. Len(attempts) : j <= k => attempts[j] <= attempts[k],
         NEW a, a = Appended(Pruned(attempts))
  PROVE  \E m \in 0 .. Len(attempts) :
           /\ a \in Seq(Time) /\ Len(a) = Len(attempts) - m + 1 /\ Len(a) <= Limit + 1
           /\ \A k \in 1 .. Len(a) - 1 : a[k] = attempts[m + k]
           /\ a[Len(a)] = now
           /\ \A k \in 1 .. Len(a) : now - a[k] < Window
           /\ Len(a) <= Limit => \A k \in 1 .. m : now - attempts[k] >= Window
<1> DEFINE L == Len(attempts)
           p == Pruned(attempts)
<1>1. /\ Window \in Nat \ {0} /\ Limit \in Nat \ {0} /\ now \in Nat /\ Time \subseteq Nat
      /\ L \in Nat /\ \A k \in 1 .. L : attempts[k] \in Time
  BY ThrottleAssumption, LenProperties, ElementOfSeq DEF Time
<1>2. PICK n \in 0 .. L : /\ \A k \in 1 .. n : now - attempts[k] >= Window
                          /\ n < L => now - attempts[n + 1] < Window
                          /\ p = SubSeq(attempts, n + 1, L)
  <2>1. attempts \in Seq(Int)
    BY <1>1, SeqMonotonic DEF Time
  <2>2. Window \in Int /\ now \in Int
    BY <1>1
  <2>3. \E n \in 0 .. Len(attempts) :
          /\ \A k \in 1 .. n : now - attempts[k] >= Window
          /\ n < Len(attempts) => now - attempts[n + 1] < Window
          /\ PopLeft(attempts, Window) = SubSeq(attempts, n + 1, Len(attempts))
    BY <2>1, <2>2, PopLeftPops
  <2>4. QED
    BY <2>3 DEF Pruned
<1> HIDE DEF p
<1>3. /\ p \in Seq(Time) /\ Len(p) = L - n
      /\ \A k \in 1 .. L - n : p[k] = attempts[n + k]
  <2>1. n + 1 \in Int /\ L \in Int /\ \A i \in n + 1 .. L : attempts[i] \in Time
    BY <1>1
  <2>2. /\ p \in Seq(Time)
        /\ Len(p) = IF n + 1 <= L THEN L - (n + 1) + 1 ELSE 0
        /\ \A i \in 1 .. L - (n + 1) + 1 : p[i] = attempts[n + 1 + i - 1]
    BY <1>2, <2>1, SubSeqProperties
  <2>3. QED
    BY <1>1, <2>2
<1>4. \A k \in 1 .. L - n : now - p[k] < Window
  <2>1. SUFFICES ASSUME NEW k \in 1 .. L - n
                 PROVE  now - attempts[n + k] < Window
    BY <1>3
  <2>2. n + 1 \in 1 .. L /\ n + k \in 1 .. L /\ n + 1 <= n + k /\ n < L
    BY <1>1
  <2>3. attempts[n + 1] <= attempts[n + k]
    BY <2>2
  <2>4. attempts[n + 1] \in Nat /\ attempts[n + k] \in Nat
    BY <1>1, <2>2
  <2>5. QED
    BY <1>1, <1>2, <2>2, <2>3, <2>4, SMTT(30)
<1>5. CASE Len(p) <= Limit
  <2>1. a = Append(p, now)
    BY <1>1, <1>3, <1>5 DEF Appended, p
  <2>2. /\ a \in Seq(Time) /\ Len(a) = Len(p) + 1
        /\ \A k \in 1 .. Len(p) : a[k] = p[k]
        /\ a[Len(p) + 1] = now
    BY <1>3, <2>1, AppendProperties
  <2>3. /\ Len(a) = L - n + 1 /\ Len(a) <= Limit + 1
        /\ \A k \in 1 .. Len(a) - 1 : a[k] = attempts[n + k]
        /\ a[Len(a)] = now
    BY <1>1, <1>3, <1>5, <2>2, SMTT(30)
  <2>4. \A k \in 1 .. Len(a) : now - a[k] < Window
    BY <1>1, <1>3, <1>4, <2>2, SMTT(30)
  <2>5. QED
    BY <1>2, <2>2, <2>3, <2>4
<1>6. CASE Len(p) > Limit
  <2>1. a = Append(Tail(p), now)
    BY <1>6 DEF Appended, p
  <2>2. p # <<>>
    BY <1>1, <1>6
  <2>3. /\ Tail(p) \in Seq(Time) /\ Len(Tail(p)) = Len(p) - 1
        /\ \A k \in 1 .. Len(Tail(p)) : Tail(p)[k] = p[k + 1]
    BY <1>3, <2>2, HeadTailProperties
  <2>4. /\ a \in Seq(Time) /\ Len(a) = Len(Tail(p)) + 1
        /\ \A k \in 1 .. Len(Tail(p)) : a[k] = Tail(p)[k]
        /\ a[Len(Tail(p)) + 1] = now
    BY <2>1, <2>3, AppendProperties
  <2>5. n + 1 \in 0 .. L /\ L = Limit + 1 /\ n = 0
    BY <1>1, <1>3, <1>6
  <2>6. /\ Len(a) = L - (n + 1) + 1 /\ Len(a) = Limit + 1
        /\ \A k \in 1 .. Len(a) - 1 : a[k] = attempts[n + 1 + k]
        /\ a[Len(a)] = now
        /\ \A k \in 1 .. Len(a) : now - a[k] < Window
    BY <1>1, <1>3, <1>4, <2>3, <2>4, <2>5
  <2>7. QED
    BY <1>1, <2>4, <2>5, <2>6
<1>7. QED
  BY <1>1, <1>3, <1>5, <1>6

\* A step that leaves both sequences alone, while time may pass, keeps the
\* invariants of the limiter.
LEMMA TimePasses ==
  ASSUME TypeOK, LimiterInv, now' \in Time, now' >= now, UNCHANGED <<attempts, failures>>
  PROVE  LimiterInv'
<1>1. /\ Len(failures) \in Nat /\ \A k \in 1 .. Len(failures) : failures[k] \in Time
      /\ Len(attempts) \in Nat /\ Window \in Nat /\ now \in Nat /\ now' \in Nat /\ Time \subseteq Nat
  BY ThrottleAssumption, LenProperties, ElementOfSeq DEF TypeOK, Time
<1>2. FailuresInOrder'
  <2>1. failures' = failures /\ \A k \in 1 .. Len(failures) : failures[k] <= now
    BY DEF LimiterInv, FailuresInOrder
  <2>2. ASSUME NEW k \in 1 .. Len(failures)
        PROVE  failures[k] <= now'
    <3>1. failures[k] \in Nat /\ failures[k] <= now
      BY <1>1, <2>1
    <3>2. QED
      BY <1>1, <3>1
  <2>3. QED
    BY <2>1, <2>2 DEF LimiterInv, FailuresInOrder
<1>3. DequeIsSuffix'
  BY DEF LimiterInv, DequeIsSuffix, Forgotten
<1>4. ForgottenAreOld'
  <2>1. Forgotten' = Forgotten /\ Forgotten \in Nat /\ Forgotten <= Len(failures)
    BY <1>1 DEF LimiterInv, DequeIsSuffix, Forgotten
  <2>2. SUFFICES ASSUME Len(attempts) <= Limit, NEW k \in 1 .. Forgotten
                 PROVE  now' - failures[k] >= Window
    BY <2>1 DEF ForgottenAreOld
  <2>3. now - failures[k] >= Window
    BY <2>2 DEF LimiterInv, ForgottenAreOld
  <2>4. failures[k] \in Nat
    <3>1. k \in 1 .. Len(failures)
      BY <1>1, <2>1
    <3>2. QED
      BY <1>1, <3>1
  <2>5. QED
    BY <1>1, <2>3, <2>4
<1>5. QED
  BY <1>2, <1>3, <1>4 DEF LimiterInv

\* The sequences after a failed login.
LEMMA LoginFailsStep ==
  ASSUME TypeOK, LimiterInv, LoginFails
  PROVE  /\ attempts' \in Seq(Time) /\ Len(attempts') <= Limit + 1 /\ failures' \in Seq(Time)
         /\ LimiterInv'
         /\ \A k \in 1 .. Len(attempts') : now - attempts'[k] < Window
<1> DEFINE F == Len(failures)
           L == Len(attempts)
<1>1. /\ F \in Nat /\ \A k \in 1 .. F : failures[k] \in Time
      /\ L \in Nat /\ \A k \in 1 .. L : attempts[k] \in Time
      /\ Window \in Nat \ {0} /\ Limit \in Nat \ {0} /\ now \in Nat /\ now \in Time /\ Time \subseteq Nat
      /\ now' = now
  <2>1. failures \in Seq(Time) /\ attempts \in Seq(Time) /\ now \in Time /\ now' = now
    BY DEF TypeOK, LoginFails
  <2>2. Window \in Nat \ {0} /\ Limit \in Nat \ {0} /\ now \in Nat /\ Time \subseteq Nat
    BY <2>1, ThrottleAssumption DEF Time
  <2>3. QED
    BY <2>1, <2>2, LenProperties, ElementOfSeq
<1>2. /\ F >= L
      /\ \A k \in 1 .. L : attempts[k] = failures[F - L + k]
  BY <1>1 DEF LimiterInv, DequeIsSuffix, Forgotten
<1>3. \A j, k \in 1 .. L : j <= k => attempts[j] <= attempts[k]
  <2>1. \A j, k \in 1 .. F : j <= k => failures[j] <= failures[k]
    BY DEF LimiterInv, FailuresInOrder
  <2>2. SUFFICES ASSUME NEW j \in 1 .. L, NEW k \in 1 .. L, j <= k
                 PROVE  failures[F - L + j] <= failures[F - L + k]
    BY <1>2
  <2>3. F - L + j \in 1 .. F /\ F - L + k \in 1 .. F /\ F - L + j <= F - L + k
    BY <1>1, <1>2, <2>2
  <2>4. QED
    BY <2>1, <2>3
<1>4. PICK m \in 0 .. L :
        /\ attempts' \in Seq(Time) /\ Len(attempts') = L - m + 1 /\ Len(attempts') <= Limit + 1
        /\ \A k \in 1 .. Len(attempts') - 1 : attempts'[k] = attempts[m + k]
        /\ attempts'[Len(attempts')] = now
        /\ \A k \in 1 .. Len(attempts') : now - attempts'[k] < Window
        /\ Len(attempts') <= Limit => \A k \in 1 .. m : now - attempts[k] >= Window
  <2>1. attempts' = Appended(Pruned(attempts))
    BY DEF LoginFails
  <2>2. attempts \in Seq(Time) /\ L <= Limit + 1
    BY DEF TypeOK
  <2>3. QED
    BY <1>1, <1>3, <2>1, <2>2, DequeStep
<1>5. /\ failures' \in Seq(Time) /\ Len(failures') = F + 1
      /\ \A k \in 1 .. F : failures'[k] = failures[k]
      /\ failures'[F + 1] = now
  <2>1. failures' = Append(failures, now) /\ failures \in Seq(Time)
    BY DEF LoginFails, TypeOK
  <2>2. QED
    BY <1>1, <2>1, AppendProperties
<1>6. FailuresInOrder'
  <2>1. \A k \in 1 .. F : failures[k] <= now
    BY DEF LimiterInv, FailuresInOrder
  <2>2. \A j, k \in 1 .. F : j <= k => failures[j] <= failures[k]
    BY DEF LimiterInv, FailuresInOrder
  <2>3. QED
    BY <1>1, <1>5, <2>1, <2>2, SMTT(30) DEF FailuresInOrder
<1>7. Forgotten' = F - L + m
  BY <1>1, <1>4, <1>5 DEF Forgotten
<1>8. DequeIsSuffix'
  <2>1. Forgotten' >= 0
    BY <1>1, <1>2, <1>7
  <2>2. ASSUME NEW k \in 1 .. Len(attempts')
        PROVE  attempts'[k] = failures'[Forgotten' + k]
    <3>1. CASE k = Len(attempts')
      <4>1. Forgotten' + k = F + 1
        BY <1>1, <1>4, <1>7, <3>1
      <4>2. QED
        BY <1>4, <1>5, <3>1, <4>1
    <3>2. CASE k # Len(attempts')
      <4>1. k \in 1 .. Len(attempts') - 1 /\ m + k \in 1 .. L
        <5>1. Len(attempts') = L - m + 1 /\ L \in Nat /\ m \in 0 .. L
          BY <1>1, <1>4
        <5>2. QED
          BY <3>2, <5>1
      <4>2. attempts'[k] = failures[F - L + (m + k)]
        BY <1>2, <1>4, <4>1
      <4>3. F - L + (m + k) = Forgotten' + k /\ Forgotten' + k \in 1 .. F
        BY <1>1, <1>2, <1>7, <4>1
      <4>4. QED
        BY <1>5, <4>2, <4>3
    <3>3. QED
      BY <3>1, <3>2
  <2>3. QED
    BY <2>1, <2>2 DEF DequeIsSuffix
<1>9. ForgottenAreOld'
  <2>1. SUFFICES ASSUME Len(attempts') <= Limit, NEW k \in 1 .. Forgotten'
                 PROVE  now - failures[k] >= Window
    <3>1. 1 .. Forgotten' \subseteq 1 .. F
      BY <1>1, <1>2, <1>7
    <3>2. QED
      BY <1>1, <1>5, <3>1 DEF ForgottenAreOld
  <2>2. CASE k <= F - L
    <3>1. CASE L <= Limit
      BY <1>1, <2>2, <3>1 DEF LimiterInv, ForgottenAreOld, Forgotten
    <3>2. CASE L > Limit
      <4>1. m >= 1 /\ 1 \in 1 .. L /\ F - L + 1 \in 1 .. F /\ k \in 1 .. F /\ k <= F - L + 1
        BY <1>1, <1>2, <1>4, <2>1, <2>2, <3>2
      <4>2. now - failures[F - L + 1] >= Window
        BY <1>1, <1>2, <1>4, <2>1, <4>1, SMTT(30)
      <4>3. failures[k] <= failures[F - L + 1]
        BY <4>1 DEF LimiterInv, FailuresInOrder
      <4>4. failures[k] \in Nat /\ failures[F - L + 1] \in Nat
        BY <1>1, <4>1
      <4>5. QED
        BY <1>1, <4>2, <4>3, <4>4
    <3>3. QED
      BY <1>1, <3>1, <3>2
  <2>3. CASE k > F - L
    <3>1. k - (F - L) \in 1 .. m /\ k - (F - L) \in 1 .. L /\ F - L + (k - (F - L)) = k
      BY <1>1, <1>2, <1>4, <1>7, <2>3
    <3>2. QED
      BY <1>2, <1>4, <2>1, <3>1
  <2>4. QED
    BY <1>1, <1>2, <2>2, <2>3
<1>10. QED
  BY <1>4, <1>5, <1>6, <1>8, <1>9 DEF LimiterInv

\* The answer to a failed login is the sliding window's.
LEMMA AnswerIsSlidingWindow ==
  ASSUME TypeOK, LimiterInv, LoginFails
  PROVE  LimiterIsSlidingWindow'
<1> DEFINE F == Len(failures')
           L == Len(attempts')
<1>1. /\ attempts' \in Seq(Time) /\ failures' \in Seq(Time) /\ LimiterInv'
      /\ L <= Limit + 1 /\ \A k \in 1 .. L : now - attempts'[k] < Window
  BY LoginFailsStep
<1>2. /\ F \in Nat /\ \A k \in 1 .. F : failures'[k] \in Nat
      /\ L \in Nat /\ Window \in Nat /\ Limit \in Nat /\ now \in Nat /\ now' = now
  BY <1>1, ThrottleAssumption, LenProperties, ElementOfSeq, SMTT(30) DEF TypeOK, Time, LoginFails
<1>3. F >= L /\ \A k \in 1 .. L : attempts'[k] = failures'[F - L + k]
  BY <1>1, <1>2 DEF LimiterInv, DequeIsSuffix, Forgotten
<1>4. F - L + 1 .. F \subseteq Recent'
  <2>1. SUFFICES ASSUME NEW k \in F - L + 1 .. F
                 PROVE  k \in 1 .. F /\ now - failures'[k] < Window
    BY <1>2 DEF Recent
  <2>2. k - (F - L) \in 1 .. L /\ F - L + (k - (F - L)) = k
    BY <1>2, <1>3
  <2>3. k \in 1 .. F
    BY <1>2, <1>3
  <2>4. attempts'[k - (F - L)] = failures'[k]
    BY <1>3, <2>2
  <2>5. QED
    BY <1>1, <2>2, <2>3, <2>4
<1>5. Recent' \subseteq 1 .. F
  BY DEF Recent
<1>6. IsFiniteSet(1 .. F) /\ IsFiniteSet(F - L + 1 .. F) /\ Cardinality(F - L + 1 .. F) = L
  <2>1. 1 \in Int /\ F \in Int /\ F - L + 1 \in Int
    BY <1>2
  <2>2. /\ IsFiniteSet(1 .. F) /\ IsFiniteSet(F - L + 1 .. F)
        /\ Cardinality(F - L + 1 .. F) = IF F - L + 1 > F THEN 0 ELSE F - (F - L + 1) + 1
    BY <2>1, FS_Interval
  <2>3. QED
    BY <1>2, <2>2
<1>7. IsFiniteSet(Recent')
  BY <1>5, <1>6, FS_Subset
<1>8. Cardinality(Recent') \in Nat /\ Cardinality(Recent') >= L
  BY <1>4, <1>6, <1>7, FS_Subset, FS_CardinalityType
<1>9. ASSUME L <= Limit
      PROVE  Cardinality(Recent') = L
  <2>1. \A k \in 1 .. F - L : now - failures'[k] >= Window
    BY <1>1, <1>2, <1>9 DEF LimiterInv, ForgottenAreOld, Forgotten
  <2>2. Recent' = F - L + 1 .. F
    BY <1>2, <1>4, <2>1 DEF Recent
  <2>3. QED
    BY <1>6, <2>2
<1>10. limited' = (IF L > Limit THEN "yes" ELSE "no")
  BY DEF LoginFails
<1>11. QED
  BY <1>2, <1>8, <1>9, <1>10 DEF LimiterIsSlidingWindow

-----------------------------------------------------------------------------
(* The alerts.                                                             *)

\* Types of what the alerts read and write.
LEMMA AlertTypes ==
  ASSUME TypeOK
  PROVE  /\ now \in Nat /\ Cooldown \in Nat \ {0} /\ Never \notin Nat
         /\ \A e \in AlertEvents :
              /\ lastSent[e] # Never => lastSent[e] \in Nat
              /\ reached[e] # Never => reached[e] \in Nat
         /\ flight # NoAlert => flight.event \in AlertEvents /\ flight.at \in Nat
BY ThrottleAssumption DEF TypeOK, Time

\* Every step keeps the invariants of the alerts.
LEMMA AlertStep ==
  ASSUME TypeOK, AlertInv, [Next]_vars
  PROVE  AlertInv'
<1> USE AlertTypes
<1>1. CASE Tick
  BY <1>1 DEF Tick, AlertInv, FlightOK, AnsweredWasReached
<1>2. CASE Restart
  BY <1>2 DEF Restart, AlertInv, FlightOK, AnsweredWasReached
<1>3. CASE UNCHANGED <<now, lastSent, flight, reached>>
  BY <1>3 DEF AlertInv, FlightOK, AnsweredWasReached
<1>4. ASSUME NEW e \in AlertEvents, SendAlert(e)
      PROVE  AlertInv'
  <2>1. flight' = [event |-> e, at |-> now, arrived |-> FALSE]
        /\ UNCHANGED <<now, lastSent, reached>> /\ ~InCooldown(e)
    BY <1>4 DEF SendAlert
  <2>2. lastSent[e] # Never => now >= lastSent[e] + Cooldown
    BY <2>1 DEF InCooldown
  <2>3. QED
    BY <2>1, <2>2 DEF AlertInv, FlightOK, AnsweredWasReached
<1>5. CASE AlertArrives
  <2>1. /\ flight # NoAlert /\ flight.event \in AlertEvents
        /\ reached' = [reached EXCEPT ![flight.event] = now]
        /\ flight' = [flight EXCEPT !.arrived = TRUE]
        /\ UNCHANGED <<now, lastSent>>
    BY <1>5 DEF AlertArrives
  <2>2. /\ flight'.event = flight.event /\ flight'.at = flight.at
        /\ reached'[flight.event] = now
        /\ \A e \in AlertEvents : e # flight.event => reached'[e] = reached[e]
    BY <2>1 DEF TypeOK
  <2>3. QED
    BY <2>1, <2>2 DEF AlertInv, FlightOK, AnsweredWasReached
<1>6. CASE AlertAnswered
  <2>1. /\ flight # NoAlert /\ flight.event \in AlertEvents /\ flight.arrived
        /\ lastSent' = [lastSent EXCEPT ![flight.event] = flight.at]
        /\ flight' = NoAlert
        /\ UNCHANGED <<now, reached>>
    BY <1>6 DEF AlertAnswered
  <2>2. /\ lastSent'[flight.event] = flight.at
        /\ \A e \in AlertEvents : e # flight.event => lastSent'[e] = lastSent[e]
    BY <2>1 DEF TypeOK
  <2>3. QED
    BY <2>1, <2>2 DEF AlertInv, FlightOK, AnsweredWasReached
<1>7. CASE AlertFails
  BY <1>7 DEF AlertFails, AlertInv, FlightOK, AnsweredWasReached
<1>8. QED
  BY <1>1, <1>2, <1>3, <1>4, <1>5, <1>6, <1>7 DEF Next, LoginFails, SuppressAlert, vars

-----------------------------------------------------------------------------
(* The theorems.                                                           *)

Inv == TypeOK /\ LimiterInv /\ AlertInv


\* The part of TypeOK that is not about the two sequences.
ScalarsOK ==
  /\ now \in Time
  /\ limited \in {"none", "yes", "no"} /\ held \in AlertEvents \cup {NoAlert}
  /\ lastSent \in [AlertEvents -> Time \cup {Never}]
  /\ flight \in [event: AlertEvents, at: Time, arrived: BOOLEAN] \cup {NoAlert}
  /\ reached \in [AlertEvents -> Time \cup {Never}]

\* Every step keeps that part, and the clock does not go back.
LEMMA ScalarStep ==
  ASSUME TypeOK, [Next]_vars
  PROVE  ScalarsOK' /\ now' >= now
<1> USE ThrottleAssumption DEF TypeOK, ScalarsOK, Time
<1>1. CASE Tick
  BY <1>1 DEF Tick, Quiet
<1>2. CASE Restart
  BY <1>2 DEF Restart, Quiet
<1>3. CASE LoginFails
  BY <1>3 DEF LoginFails
<1>4. ASSUME NEW e \in AlertEvents, SuppressAlert(e)
      PROVE  ScalarsOK' /\ now' >= now
  BY <1>4 DEF SuppressAlert
<1>5. ASSUME NEW e \in AlertEvents, SendAlert(e)
      PROVE  ScalarsOK' /\ now' >= now
  <2>1. flight' \in [event: AlertEvents, at: Time, arrived: BOOLEAN]
    BY <1>5 DEF SendAlert
  <2>2. QED
    BY <1>5, <2>1 DEF SendAlert, Quiet
<1>6. CASE AlertArrives
  <2>1. PICK f \in [event: AlertEvents, at: Time, arrived: BOOLEAN] : flight = f
    BY <1>6 DEF AlertArrives
  <2>2. flight' = [f EXCEPT !.arrived = TRUE] /\ reached' = [reached EXCEPT ![f.event] = now]
    BY <1>6, <2>1 DEF AlertArrives
  <2>3. flight' \in [event: AlertEvents, at: Time, arrived: BOOLEAN]
    BY <2>2
  <2>4. QED
    BY <1>6, <2>2, <2>3 DEF AlertArrives, Quiet
<1>7. CASE AlertAnswered
  BY <1>7 DEF AlertAnswered, Quiet
<1>8. CASE AlertFails
  BY <1>8 DEF AlertFails, Quiet
<1>9. CASE UNCHANGED vars
  BY <1>9 DEF vars
<1>10. QED
  BY <1>1, <1>2, <1>3, <1>4, <1>5, <1>6, <1>7, <1>8, <1>9 DEF Next

\* The initial state satisfies the invariant.
LEMMA InitInv == Init => Inv
<1> SUFFICES ASSUME Init PROVE Inv
  OBVIOUS
<1>1. Len(attempts) = 0 /\ Len(failures) = 0 /\ attempts \in Seq(Time) /\ failures \in Seq(Time)
  BY EmptySeq DEF Init
<1>2. TypeOK
  BY <1>1, ThrottleAssumption DEF Init, TypeOK, Time
<1>3. LimiterInv
  BY <1>1 DEF LimiterInv, FailuresInOrder, DequeIsSuffix, ForgottenAreOld, Forgotten
<1>4. AlertInv
  BY DEF Init, AlertInv, FlightOK, AnsweredWasReached
<1>5. QED
  BY <1>2, <1>3, <1>4 DEF Inv

\* Every step keeps the invariant.
LEMMA InvStep == Inv /\ [Next]_vars => Inv'
<1> SUFFICES ASSUME TypeOK, LimiterInv, AlertInv, [Next]_vars
             PROVE  Inv'
  BY DEF Inv
<1>1. ScalarsOK' /\ now' >= now
  BY ScalarStep
<1>2. AlertInv'
  BY AlertStep
<1>3. CASE LoginFails
  BY <1>1, <1>2, <1>3, LoginFailsStep DEF Inv, TypeOK, ScalarsOK
<1>4. CASE Restart
  <2>1. /\ Len(attempts)' = 0 /\ Len(failures)' = 0
        /\ attempts' \in Seq(Time) /\ failures' \in Seq(Time)
    BY <1>4, EmptySeq DEF Restart
  <2>2. LimiterInv'
    BY <2>1 DEF LimiterInv, FailuresInOrder, DequeIsSuffix, ForgottenAreOld, Forgotten
  <2>3. QED
    BY <1>1, <1>2, <2>1, <2>2, ThrottleAssumption DEF Inv, TypeOK, ScalarsOK
<1>5. CASE UNCHANGED <<attempts, failures>>
  <2>1. LimiterInv'
    BY <1>1, <1>5, TimePasses DEF ScalarsOK
  <2>2. QED
    BY <1>1, <1>2, <1>5, <2>1 DEF Inv, TypeOK, ScalarsOK
<1>6. QED
  BY <1>3, <1>4, <1>5
  DEF Next, Tick, SuppressAlert, SendAlert, AlertArrives, AlertAnswered, AlertFails, vars

\* The invariant holds in every reachable state.
LEMMA InvCorrect == Spec => []Inv
BY InitInv, InvStep, PTL DEF Spec

\* Every reachable state is well typed; in particular the deque never holds more
\* than Limit + 1 attempts.
THEOREM TypeCorrect == Spec => []TypeOK
<1>1. Inv => TypeOK
  BY DEF Inv
<1>2. QED
  BY <1>1, InvCorrect, PTL

\* _record_management_auth_failure answers 429 exactly when more than Limit logins
\* of the address failed within the window, for every limit and window.
THEOREM LimiterCorrect == Spec => []LimiterIsSlidingWindow
<1>1. Init => LimiterIsSlidingWindow
  BY DEF Init, LimiterIsSlidingWindow
<1>2. Inv /\ LimiterIsSlidingWindow /\ [Next]_vars => LimiterIsSlidingWindow'
  <2>1. SUFFICES ASSUME TypeOK, LimiterInv, LimiterIsSlidingWindow, [Next]_vars
                 PROVE  LimiterIsSlidingWindow'
    BY DEF Inv
  <2>2. CASE LoginFails
    BY <2>1, <2>2, AnswerIsSlidingWindow
  <2>3. CASE limited' = "none"
    BY <2>3 DEF LimiterIsSlidingWindow
  <2>4. CASE UNCHANGED vars
    BY <2>1, <2>4 DEF vars, LimiterIsSlidingWindow, Recent
  <2>5. QED
    BY <2>1, <2>2, <2>3, <2>4
    DEF Next, Tick, Restart, SuppressAlert, SendAlert, AlertArrives, AlertAnswered, AlertFails, Quiet
<1>3. QED
  BY <1>1, <1>2, InvCorrect, PTL DEF Spec

\* send_alert suppresses an alert only if the webhook got a request of its type
\* less than Cooldown ago and answered it, with whatever status.
THEOREM SuppressionCorrect == Spec => []SuppressedWasReached
<1>1. Init => SuppressedWasReached
  BY DEF Init, SuppressedWasReached
<1>2. Inv /\ SuppressedWasReached /\ [Next]_vars => SuppressedWasReached'
  <2>1. SUFFICES ASSUME TypeOK, AlertInv, SuppressedWasReached, [Next]_vars
                 PROVE  SuppressedWasReached'
    BY DEF Inv
  <2>2. ASSUME NEW e \in AlertEvents, SuppressAlert(e)
        PROVE  SuppressedWasReached'
    BY <2>1, <2>2, AlertTypes
    DEF SuppressAlert, InCooldown, SuppressedWasReached, AlertInv, AnsweredWasReached
  <2>3. CASE held' = NoAlert
    BY <2>3 DEF SuppressedWasReached
  <2>4. CASE UNCHANGED vars
    BY <2>1, <2>4 DEF vars, SuppressedWasReached
  <2>5. QED
    BY <2>1, <2>2, <2>3, <2>4
    DEF Next, Tick, Restart, LoginFails, SendAlert, AlertArrives, AlertAnswered, AlertFails, Quiet
<1>3. QED
  BY <1>1, <1>2, InvCorrect, PTL DEF Spec

\* Two answered alerts of one event type were sent at least Cooldown apart.
THEOREM AlertsApartCorrect == Spec => AnsweredAlertsApart
<1> DEFINE Apart == \A e \in AlertEvents :
              lastSent[e] # Never /\ lastSent'[e] # Never /\ lastSent'[e] # lastSent[e]
                => lastSent'[e] >= lastSent[e] + Cooldown
<1>1. Inv /\ [Next]_vars => [Apart]_vars
  <2>1. SUFFICES ASSUME TypeOK, AlertInv, Next
                 PROVE  Apart
    BY DEF Inv
  <2>2. CASE AlertAnswered
    BY <2>1, <2>2, AlertTypes DEF AlertAnswered, AlertInv, FlightOK, TypeOK
  <2>3. CASE Restart
    BY <2>3 DEF Restart
  <2>4. CASE UNCHANGED lastSent
    BY <2>4
  <2>5. QED
    BY <2>1, <2>2, <2>3, <2>4
    DEF Next, Tick, LoginFails, SuppressAlert, SendAlert, AlertArrives, AlertFails
<1>2. QED
  BY <1>1, InvCorrect, PTL DEF Spec, AnsweredAlertsApart
=============================================================================
