------------------------ MODULE RetryScheduleProofs -------------------------
(***************************************************************************)
(* Proofs about RetrySchedule, for every set of SETs, batch limit, back-off*)
(* and timing.                                                             *)
(*                                                                         *)
(* The order of the rows stays a strict total order although a commit may  *)
(* move a row backwards (OrderOK).  A SET no batch has come to is due all  *)
(* the time (UnseenDue) and behind every SET that was stored when its      *)
(* request began (BeforeAhead), and so is it in a batch (BatchOK): this is *)
(* why batches reach the SETs in that order.                               *)
(***************************************************************************)
EXTENDS RetrySchedule, FiniteSetTheorems, SequenceTheorems, TLAPS

OrderOK ==
  /\ IsFiniteSet(Rows)
  /\ \A i \in Items : ahead[i] \subseteq Rows /\ i \notin ahead[i] /\ (ahead[i] # {} => i \in Rows)
  /\ \A i, j \in Items : j \in ahead[i] => ahead[j] \subseteq ahead[i]
  /\ \A i, j \in Rows : i = j \/ i \in ahead[j] \/ j \in ahead[i]

UnseenDue == \A i \in Items : i \notin seen => wait[i] = 0

BeforeAhead ==
  \A i \in Items : \A j \in before[i] :
    /\ i # j /\ place[i] # "free" /\ place[j] \in {"pending", "gone"}
    /\ i \in Rows /\ j \in Pending \ seen => j \in ahead[i]

\* j has been seen, will never be, or comes before place n of the batch.
BatchOK ==
  \A n \in 1 .. Len(batch) :
    /\ place[batch[n]] \in {"pending", "gone"}
    /\ \A j \in before[batch[n]] :
         j \in seen \/ place[j] = "gone" \/ \E m \in 1 .. n - 1 : batch[m] = j

Inv == TypeOK /\ BackoffReachesCap /\ OrderOK /\ UnseenDue /\ BeforeAhead /\ BatchOK

-----------------------------------------------------------------------------
(* The back-off.                                                           *)

\* The powers of two that a delay is computed with.
LEMMA Powers ==
  ASSUME NEW n \in 0 .. MaxShift
  PROVE  2 ^ n \in Nat
<1>1. n \in 0 .. 10
  BY ScheduleAssumption
<1>2. \/ n = 0 \/ n = 1 \/ n = 2 \/ n = 3 \/ n = 4 \/ n = 5
      \/ n = 6 \/ n = 7 \/ n = 8 \/ n = 9 \/ n = 10
  BY <1>1
<1>3. \/ 2 ^ n = 2 ^ 0 \/ 2 ^ n = 2 ^ 1 \/ 2 ^ n = 2 ^ 2 \/ 2 ^ n = 2 ^ 3 \/ 2 ^ n = 2 ^ 4
      \/ 2 ^ n = 2 ^ 5 \/ 2 ^ n = 2 ^ 6 \/ 2 ^ n = 2 ^ 7 \/ 2 ^ n = 2 ^ 8 \/ 2 ^ n = 2 ^ 9
      \/ 2 ^ n = 2 ^ 10
  BY <1>2, Zenon
<1>4. /\ 2 ^ 0 \in Nat /\ 2 ^ 1 \in Nat /\ 2 ^ 2 \in Nat /\ 2 ^ 3 \in Nat /\ 2 ^ 4 \in Nat
      /\ 2 ^ 5 \in Nat /\ 2 ^ 6 \in Nat /\ 2 ^ 7 \in Nat /\ 2 ^ 8 \in Nat /\ 2 ^ 9 \in Nat
      /\ 2 ^ 10 \in Nat
  OBVIOUS
<1>5. QED
  BY <1>3, <1>4, Zenon

\* A delay is at most Cap, and the longest one is Cap.
LEMMA DelayBounds ==
  ASSUME NEW n \in 1 .. MaxShift + 1
  PROVE  Delay(n) \in Nat /\ Delay(n) <= Cap /\ (n > MaxShift => Delay(n) = Cap)
<1> DEFINE e == Lesser(n - 1, MaxShift)
<1>1. MaxShift \in Nat /\ Base \in Nat /\ Cap \in Nat
  BY ScheduleAssumption
<1>2. e \in 0 .. MaxShift /\ (n > MaxShift => e = MaxShift)
  BY <1>1 DEF Lesser
<1>3. 2 ^ e \in Nat
  BY <1>2, Powers
<1>4. PICK p \in Nat : p = 2 ^ e
  BY <1>3
<1>5. Base * p \in Nat
  BY <1>1
<1>6. Delay(n) = Lesser(Cap, Base * p)
  BY <1>4 DEF Delay
<1>7. n > MaxShift => Cap <= Base * p
  BY <1>2, <1>4, BackoffAssumption
<1> HIDE DEF e
<1>8. QED
  BY <1>1, <1>5, <1>6, <1>7 DEF Lesser

\* Waits get shorter, and end at zero.
LEMMA LaterBounds ==
  ASSUME NEW d \in Nat, wait \in [Items -> Nat]
  PROVE  /\ Later(d) \in [Items -> Nat]
         /\ \A i \in Items : Later(d)[i] <= wait[i]
BY DEF Later

\* The first SET of the batch and what is left of it.
LEMMA BatchHead ==
  ASSUME TypeOK, batch # <<>>
  PROVE  /\ Head(batch) \in Items /\ Head(batch) = batch[1]
         /\ Tail(batch) \in Seq(Items) /\ Len(Tail(batch)) = Len(batch) - 1 /\ Len(batch) \in Nat \ {0}
         /\ \A n \in 1 .. Len(batch) - 1 : Tail(batch)[n] = batch[n + 1]
<1>1. batch \in Seq(Items)
  BY DEF TypeOK
<1>2. /\ Head(batch) \in Items
      /\ Tail(batch) \in Seq(Items) /\ Len(Tail(batch)) = Len(batch) - 1
      /\ \A n \in 1 .. Len(Tail(batch)) : Tail(batch)[n] = batch[n + 1]
  BY <1>1, HeadTailProperties
<1>3. Len(batch) \in Nat \ {0}
  BY <1>1, EmptySeq
<1>4. Head(batch) = batch[1]
  BY <1>1, <1>3
<1>5. QED
  BY <1>2, <1>3, <1>4

\* An attempt at the first SET of the batch.
Attempt ==
  \/ PutOff
  \/ \E d \in 0 .. Deadline - 1 : Deliver(d)
  \/ \E d \in 0 .. Deadline : Fail(d)

\* What an attempt at SET i does to the waits and to the number of attempts.
AttemptWaits(i) ==
  /\ wait' \in [Items -> Nat] /\ tries' \in [Items -> 0 .. MaxShift + 1]
  /\ \A k \in Items : wait'[k] <= Cap /\ (k # i => wait'[k] <= wait[k])
  /\ enabled /\ place'[i] = "pending" /\ tries'[i] > MaxShift => wait'[i] = Cap

LEMMA AttemptStep ==
  ASSUME TypeOK, BackoffReachesCap, Attempt
  PROVE  AttemptWaits(Head(batch))
<1> DEFINE i == Head(batch)
<1>1. /\ Cap \in Nat /\ MaxShift \in Nat /\ Deadline \in Nat
      /\ PausedRecheck \in Nat /\ PausedRecheck <= Cap
  BY ScheduleAssumption
<1>2. i \in Items
  BY BatchHead DEF Attempt, PutOff, Deliver, Fail, TakeTurn
<1>3. /\ wait \in [Items -> Nat] /\ tries \in [Items -> 0 .. MaxShift + 1]
      /\ \A k \in Items : wait[k] <= Cap
  BY DEF TypeOK, BackoffReachesCap
<1> HIDE DEF i
<1>4. CASE PutOff
  <2>1. wait' = [wait EXCEPT ![i] = PausedRecheck] /\ tries' = tries /\ ~enabled
    BY <1>4 DEF PutOff, i
  <2>2. QED
    BY <1>1, <1>2, <1>3, <2>1 DEF AttemptWaits, i
<1>5. ASSUME NEW d \in 0 .. Deadline - 1, Deliver(d)
      PROVE  AttemptWaits(i)
  <2>1. wait' = Later(d) /\ tries' = [tries EXCEPT ![i] = 0] /\ place'[i] = "gone"
    BY <1>2, <1>5 DEF Deliver, Drop, i
  <2>2. /\ wait' \in [Items -> Nat]
        /\ \A k \in Items : wait'[k] <= wait[k]
    BY <1>1, <1>3, <2>1, LaterBounds
  <2>3. \A k \in Items : wait'[k] <= Cap
    BY <1>1, <1>3, <2>2
  <2>4. tries' \in [Items -> 0 .. MaxShift + 1]
    <3>1. 0 \in 0 .. MaxShift + 1
      BY <1>1
    <3>2. QED
      BY <1>3, <2>1, <3>1
  <2>5. QED
    BY <2>1, <2>2, <2>3, <2>4 DEF AttemptWaits
<1>6. ASSUME NEW d \in 0 .. Deadline, Fail(d)
      PROVE  AttemptWaits(i)
  <2>1. PICK n \in 1 .. MaxShift + 1 : n = Lesser(tries[i], MaxShift) + 1
    BY <1>1, <1>2, <1>3 DEF Lesser
  <2>2. /\ tries' = [tries EXCEPT ![i] = n]
        /\ wait' = [Later(d) EXCEPT ![i] = Delay(n)]
    BY <1>6, <2>1 DEF Fail, i
  <2>3. Delay(n) \in Nat /\ Delay(n) <= Cap /\ (n > MaxShift => Delay(n) = Cap)
    BY DelayBounds
  <2>4. /\ Later(d) \in [Items -> Nat]
        /\ \A k \in Items : Later(d)[k] <= wait[k]
    BY <1>1, <1>3, LaterBounds
  <2>5. QED
    BY <1>1, <1>2, <1>3, <2>2, <2>3, <2>4 DEF AttemptWaits
<1>7. QED
  BY <1>4, <1>5, <1>6 DEF Attempt, i

\* Every other step.
Elsewhere ==
  \/ \E i \in Items : Stamp(i) \/ Commit(i) \/ CommitRefused(i)
  \/ SetStatus \/ Discard \/ Poll \/ Skip \/ Sleep

LEMMA NextCases == Next <=> Elsewhere \/ Attempt
BY DEF Next, WorkerStep, Elsewhere, Attempt

\* What every other step does to the waits.
LEMMA ElsewhereStep ==
  ASSUME TypeOK, BackoffReachesCap, Elsewhere
  PROVE  /\ wait' \in [Items -> Nat] /\ tries' \in [Items -> 0 .. MaxShift + 1]
         /\ \A k \in Items : wait'[k] <= wait[k]
         /\ turn' = NoItem /\ seen' = seen
<1>1. CASE UNCHANGED <<wait, tries, seen>> /\ turn' = NoItem
  BY <1>1 DEF TypeOK
<1>2. CASE SetStatus
  BY <1>2 DEF SetStatus, TypeOK
<1>3. CASE Discard
  BY <1>3, ScheduleAssumption DEF Discard, TypeOK
<1>4. CASE Sleep
  <2>1. PollInterval \in Nat /\ wait \in [Items -> Nat]
    BY ScheduleAssumption DEF TypeOK
  <2>2. wait' \in [Items -> Nat] /\ \A k \in Items : wait'[k] <= wait[k]
    BY <1>4, <2>1, LaterBounds DEF Sleep
  <2>3. QED
    BY <1>4, <2>2 DEF Sleep, TypeOK
<1>5. QED
  BY <1>1, <1>2, <1>3, <1>4 DEF Elsewhere, Stamp, Commit, CommitRefused, Poll, Skip, rows

\* Every step keeps the bound on the waits.
LEMMA BackoffStep ==
  ASSUME TypeOK, BackoffReachesCap, [Next]_vars
  PROVE  BackoffReachesCap'
<1>1. CASE Elsewhere
  <2>1. \A k \in Items : wait[k] \in Nat /\ wait'[k] \in Nat /\ wait[k] <= Cap /\ Cap \in Nat
    BY <1>1, ElsewhereStep, ScheduleAssumption DEF TypeOK, BackoffReachesCap
  <2>2. QED
    BY <1>1, <2>1, ElsewhereStep, ScheduleAssumption DEF BackoffReachesCap
<1>2. CASE Attempt
  <2>1. turn' = Head(batch) /\ enabled' = enabled
    BY <1>2 DEF Attempt, PutOff, Deliver, Fail, Look, TakeTurn
  <2>2. QED
    BY <1>2, <2>1, AttemptStep DEF AttemptWaits, BackoffReachesCap
<1>3. CASE UNCHANGED vars
  BY <1>3 DEF vars, BackoffReachesCap
<1>4. QED
  BY <1>1, <1>2, <1>3, NextCases

\* A batch is finite.
LEMMA FirstRowsFinite ==
  ASSUME OrderOK
  PROVE  IsFiniteSet(DueRows) /\ IsFiniteSet(FirstRows) /\ Cardinality(FirstRows) \in Nat
<1>1. DueRows \subseteq Rows /\ FirstRows \subseteq Rows /\ IsFiniteSet(Rows)
  BY DEF OrderOK, FirstRows, DueRows, Due, Rows
<1>2. QED
  BY <1>1, FS_Subset, FS_CardinalityType

\* The part of TypeOK that is not about time and the batch.
RowsTypeOK ==
  /\ place \in [Items -> {"free", "stamped", "pending", "gone"}]
  /\ ahead \in [Items -> SUBSET Items] /\ before \in [Items -> SUBSET Items]
  /\ enabled \in BOOLEAN /\ wpc \in {"poll", "batch"}
  /\ turn \in Items \cup {NoItem} /\ seen \in SUBSET Items

\* Every step keeps the types.
LEMMA TypeStep ==
  ASSUME TypeOK, BackoffReachesCap, OrderOK, [Next]_vars
  PROVE  TypeOK'
<1>1. wait' \in [Items -> Nat] /\ tries' \in [Items -> 0 .. MaxShift + 1]
  BY AttemptStep, ElsewhereStep, NextCases DEF AttemptWaits, TypeOK, vars
<1>2. RowsTypeOK'
  <2> USE DEF TypeOK, RowsTypeOK
  <2>1. CASE \E i \in Items : Stamp(i)
    BY <2>1 DEF Stamp, Rows, Pending
  <2>2. CASE \E i \in Items : Commit(i)
    BY <2>2 DEF Commit, MoveBehind
  <2>3. CASE \E i \in Items : CommitRefused(i)
    BY <2>3 DEF CommitRefused, Drop
  <2>4. CASE Discard
    BY <2>4 DEF Discard, Drop
  <2>5. CASE SetStatus \/ Sleep \/ Poll \/ Skip \/ UNCHANGED vars
    BY <2>5 DEF SetStatus, Sleep, Poll, Skip, TakeTurn, rows, vars
  <2>6. CASE Attempt
    <3>1. Head(batch) \in Items
      BY <2>6, BatchHead DEF Attempt, PutOff, Deliver, Fail, TakeTurn
    <3>2. QED
      <4>1. CASE PutOff
        BY <3>1, <4>1 DEF PutOff, Look, TakeTurn
      <4>2. ASSUME NEW d, Deliver(d)
            PROVE  RowsTypeOK'
        BY <3>1, <4>2 DEF Deliver, Drop, Look, TakeTurn
      <4>3. ASSUME NEW d, Fail(d)
            PROVE  RowsTypeOK'
        BY <3>1, <4>3 DEF Fail, Look, TakeTurn
      <4>4. QED
        BY <2>6, <4>1, <4>2, <4>3 DEF Attempt
  <2>7. QED
    BY <2>1, <2>2, <2>3, <2>4, <2>5, <2>6, NextCases DEF Elsewhere
<1>3. batch' \in Seq(Items)
  <2>1. CASE Poll
    <3>1. PICK b \in [1 .. Cardinality(FirstRows) -> FirstRows] : batch' = b
      BY <2>1 DEF Poll
    <3>2. Cardinality(FirstRows) \in Nat /\ FirstRows \subseteq Items
      BY FirstRowsFinite DEF FirstRows, DueRows
    <3>3. QED
      BY <3>1, <3>2
  <2>2. CASE TakeTurn
    BY <2>2, BatchHead DEF TakeTurn
  <2>3. CASE UNCHANGED batch
    BY <2>3 DEF TypeOK
  <2>4. QED
    BY <2>1, <2>2, <2>3, NextCases
    DEF Elsewhere, Attempt, Stamp, Commit, CommitRefused, SetStatus, Discard, Sleep, Skip,
        PutOff, Deliver, Fail, vars
<1>4. QED
  BY <1>1, <1>2, <1>3 DEF TypeOK, RowsTypeOK

-----------------------------------------------------------------------------
(* The order of the rows.                                                  *)

\* Removing rows keeps the order of the others.
LEMMA DropOrder ==
  ASSUME TypeOK, OrderOK, NEW D \in SUBSET Items, Drop(D)
  PROVE  OrderOK'
<1>1. Rows' = Rows \ D
  BY DEF Drop, Rows, TypeOK
<1>2. \A i \in Items : ahead'[i] = IF i \in D THEN {} ELSE ahead[i] \ D
  BY DEF Drop
<1>3. IsFiniteSet(Rows')
  BY <1>1, FS_Subset DEF OrderOK
<1>4. ASSUME NEW i \in Items
      PROVE  ahead'[i] \subseteq Rows' /\ i \notin ahead'[i] /\ (ahead'[i] # {} => i \in Rows')
  <2>1. ahead[i] \subseteq Rows /\ i \notin ahead[i] /\ (ahead[i] # {} => i \in Rows)
    BY DEF OrderOK
  <2>2. ahead'[i] = IF i \in D THEN {} ELSE ahead[i] \ D
    BY <1>2
  <2>3. QED
    BY <1>1, <2>1, <2>2
<1>5. ASSUME NEW i \in Items, NEW j \in Items, j \in ahead'[i]
      PROVE  ahead'[j] \subseteq ahead'[i]
  <2>1. j \in ahead[i] => ahead[j] \subseteq ahead[i]
    BY DEF OrderOK
  <2>2. QED
    BY <1>2, <1>5, <2>1
<1>6. \A i, j \in Rows' : i = j \/ i \in ahead'[j] \/ j \in ahead'[i]
  <2>1. SUFFICES ASSUME NEW i \in Rows', NEW j \in Rows', i # j
                 PROVE  i \in ahead'[j] \/ j \in ahead'[i]
    OBVIOUS
  <2>2. i \in Rows \ D /\ j \in Rows \ D /\ Rows \subseteq Items
    BY <1>1 DEF Rows
  <2>3. i \in ahead[j] \/ j \in ahead[i]
    BY <2>1, <2>2 DEF OrderOK
  <2>4. QED
    BY <1>2, <2>2, <2>3
<1>7. QED
  BY <1>3, <1>4, <1>5, <1>6 DEF OrderOK

\* A stamped row is the last one.
LEMMA StampOrder ==
  ASSUME TypeOK, OrderOK, NEW i \in Items, Stamp(i)
  PROVE  OrderOK'
<1>1. Rows' = Rows \cup {i} /\ i \notin Rows
  BY DEF Stamp, Rows, TypeOK
<1>2. ahead'[i] = Rows /\ \A k \in Items : k # i => ahead'[k] = ahead[k]
  BY DEF Stamp, TypeOK
<1>3. IsFiniteSet(Rows')
  BY <1>1, FS_AddElement DEF OrderOK
<1>4. \A k \in Items : ahead'[k] \subseteq Rows' /\ k \notin ahead'[k] /\ (ahead'[k] # {} => k \in Rows')
  BY <1>1, <1>2 DEF OrderOK
<1>5. \A k, j \in Items : j \in ahead'[k] => ahead'[j] \subseteq ahead'[k]
  BY <1>1, <1>2 DEF OrderOK
<1>6. \A k, j \in Rows' : k = j \/ k \in ahead'[j] \/ j \in ahead'[k]
  <2>1. SUFFICES ASSUME NEW k \in Rows', NEW j \in Rows', k # j
                 PROVE  k \in ahead'[j] \/ j \in ahead'[k]
    OBVIOUS
  <2>2. CASE k = i \/ j = i
    BY <1>1, <1>2, <2>1, <2>2
  <2>3. CASE k # i /\ j # i
    <3>1. k \in Rows /\ j \in Rows /\ k \in Items /\ j \in Items
      BY <1>1, <2>3 DEF Rows
    <3>2. QED
      BY <1>2, <2>1, <2>3, <3>1 DEF OrderOK
  <2>4. QED
    BY <2>2, <2>3
<1>7. QED
  BY <1>3, <1>4, <1>5, <1>6 DEF OrderOK

\* The rows that a commit passes are those between its row and row j, which it
\* comes to be behind; the others keep their order.
LEMMA CommitOrder ==
  ASSUME TypeOK, OrderOK, NEW i \in Items, Commit(i)
  PROVE  /\ OrderOK'
         /\ Rows' = Rows
         /\ ahead[i] \subseteq ahead'[i]
         /\ \A k, j \in Items : k # i /\ j # i => (j \in ahead'[k] <=> j \in ahead[k])
<1>1. PICK j \in Pending \cup {i} : MoveBehind(i, j)
  BY DEF Commit
<1> DEFINE P == {k \in Items : i \in ahead[k] /\ (k = j \/ k \in ahead[j])}
<1>2. /\ i \in Rows /\ j \in Rows /\ Rows \subseteq Items
      /\ Rows' = Rows
  BY DEF Commit, Rows, Pending, TypeOK
<1>3. \A k \in Items : ahead'[k] = IF k = i THEN ahead[i] \cup P
                                   ELSE IF k \in P THEN ahead[k] \ {i} ELSE ahead[k]
  BY <1>1 DEF MoveBehind
<1>4. /\ ahead'[i] = ahead[i] \cup P
      /\ \A k \in Items : k # i => ahead'[k] = ahead[k] \/ (k \in P /\ ahead'[k] = ahead[k] \ {i})
      /\ \A k \in Items : k \in P /\ k # i => i \notin ahead'[k]
  BY <1>3
<1>5. /\ \A a, b \in Items : b \in ahead[a] => ahead[b] \subseteq ahead[a]
      /\ \A a \in Items : a \notin ahead[a]
      /\ \A a, b \in Rows : a = b \/ a \in ahead[b] \/ b \in ahead[a]
      /\ \A a \in Items : ahead[a] \subseteq Rows
      /\ \A a \in Items : ahead[a] # {} => a \in Rows
  BY DEF OrderOK
<1>6. /\ i \notin P /\ P \subseteq Rows
      /\ \A k \in Items : k \in P <=> i \in ahead[k] /\ (k = j \/ k \in ahead[j])
  BY <1>2, <1>5
<1> HIDE DEF P
<1>7. \A k \in Items : ahead'[k] \subseteq Rows /\ k \notin ahead'[k] /\ (ahead'[k] # {} => k \in Rows)
  <2>1. SUFFICES ASSUME NEW k \in Items
                 PROVE  ahead'[k] \subseteq Rows /\ k \notin ahead'[k] /\ (ahead'[k] # {} => k \in Rows)
    OBVIOUS
  <2>2. CASE k = i
    BY <1>2, <1>4, <1>5, <1>6, <2>2
  <2>3. CASE k # i
    <3>1. ahead'[k] \subseteq ahead[k]
      BY <1>4, <2>3
    <3>2. QED
      BY <1>5, <3>1
  <2>4. QED
    BY <2>2, <2>3
<1>8. \A k, x \in Items : x \in ahead'[k] => ahead'[x] \subseteq ahead'[k]
  <2>1. SUFFICES ASSUME NEW k \in Items, NEW x \in Items, x \in ahead'[k], NEW y \in ahead'[x]
                 PROVE  y \in ahead'[k]
    OBVIOUS
  <2>2. x \in Rows /\ y \in Rows /\ y \in Items /\ k \in Rows
    BY <1>2, <1>7, <2>1
  <2>3. CASE k = i
    <3>1. x # i
      BY <1>7, <2>1, <2>3
    <3>2. y \in ahead[x] /\ ~(y = i /\ x \in P)
      BY <1>4, <2>1, <2>2, <3>1
    <3>3. CASE x \in ahead[i]
      BY <1>4, <1>5, <2>2, <2>3, <3>2, <3>3
    <3>4. CASE x \in P
      <4>1. y # i
        BY <3>2, <3>4
      <4>2. CASE y \in ahead[i]
        BY <1>4, <2>3, <4>2
      <4>3. CASE i \in ahead[y]
        <5>1. y \in ahead[j]
          BY <1>2, <1>5, <1>6, <2>2, <3>2, <3>4
        <5>2. QED
          BY <1>4, <1>6, <2>2, <2>3, <4>3, <5>1
      <4>4. QED
        BY <1>2, <1>5, <2>2, <4>1, <4>2, <4>3
    <3>5. QED
      BY <1>4, <2>1, <2>3, <3>3, <3>4
  <2>4. CASE k # i /\ x = i
    <3>1. i \in ahead[k] /\ k \notin P
      BY <1>4, <2>1, <2>4
    <3>2. ahead'[k] = ahead[k]
      BY <1>4, <2>4, <3>1
    <3>3. CASE y \in ahead[i]
      BY <1>5, <3>1, <3>2, <3>3
    <3>4. CASE y \in P
      <4>1. k # j /\ k \notin ahead[j]
        BY <1>6, <3>1
      <4>2. j \in ahead[k]
        BY <1>2, <1>5, <2>2, <4>1
      <4>3. y = j \/ y \in ahead[j]
        BY <1>6, <2>2, <3>4
      <4>4. QED
        BY <1>2, <1>5, <3>2, <4>2, <4>3
    <3>5. QED
      BY <1>4, <2>1, <2>4, <3>3, <3>4
  <2>5. CASE k # i /\ x # i
    <3>1. x \in ahead[k] /\ y \in ahead[x]
      BY <1>4, <2>1, <2>2, <2>5
    <3>2. y \in ahead[k]
      BY <1>5, <2>2, <3>1
    <3>3. CASE y # i
      BY <1>4, <2>5, <3>2, <3>3
    <3>4. CASE y = i
      <4>1. x \notin P
        BY <1>4, <2>1, <2>2, <2>5, <3>4
      <4>2. k \notin P
        <5>1. SUFFICES ASSUME k \in P PROVE x \in P
          BY <4>1
        <5>2. k = j \/ k \in ahead[j]
          BY <1>6, <5>1
        <5>3. x \in ahead[j]
          BY <1>2, <1>5, <2>2, <3>1, <5>2
        <5>4. QED
          BY <1>6, <2>2, <3>1, <3>4, <5>3
      <4>3. QED
        BY <1>4, <2>5, <3>2, <4>2
    <3>5. QED
      BY <3>3, <3>4
  <2>6. QED
    BY <2>3, <2>4, <2>5
<1>9. \A k, x \in Rows : k = x \/ k \in ahead'[x] \/ x \in ahead'[k]
  <2>1. SUFFICES ASSUME NEW k \in Rows, NEW x \in Rows, k # x
                 PROVE  k \in ahead'[x] \/ x \in ahead'[k]
    OBVIOUS
  <2>2. k \in ahead[x] \/ x \in ahead[k]
    BY <1>5, <2>1
  <2>3. CASE k # i /\ x # i
    BY <1>2, <1>4, <2>2, <2>3
  <2>4. CASE k = i
    BY <1>2, <1>4, <2>1, <2>2, <2>4
  <2>5. CASE x = i
    BY <1>2, <1>4, <2>1, <2>2, <2>5
  <2>6. QED
    BY <2>3, <2>4, <2>5
<1>10. OrderOK'
  BY <1>2, <1>7, <1>8, <1>9 DEF OrderOK
<1>11. QED
  BY <1>2, <1>4, <1>10

\* Steps that delete rows or leave the table alone; the histories only grow and
\* shrink, respectively.
Removes(D) ==
  /\ D \subseteq Pending \cup {i \in Items : place[i] = "stamped"}
  /\ Drop(D) \/ (D = {} /\ UNCHANGED <<place, ahead>>)
  /\ seen \subseteq seen' /\ \A i \in Items : before'[i] \subseteq before[i]

LEMMA NextRemoves ==
  ASSUME TypeOK, [Next]_vars
  PROVE  (\E i \in Items : Stamp(i) \/ Commit(i)) \/ (\E D \in SUBSET Items : Removes(D))
<1> USE DEF TypeOK
<1>1. ASSUME NEW i \in Items, CommitRefused(i)
      PROVE  Removes({i})
  BY <1>1 DEF CommitRefused, Removes
<1>2. CASE Discard
  <2>1. Removes(Pending)
    BY <1>2 DEF Discard, Removes
  <2>2. QED
    BY <2>1 DEF Pending
<1>3. CASE SetStatus \/ Sleep \/ Poll \/ Skip \/ UNCHANGED vars
  <2>1. Removes({})
    BY <1>3 DEF SetStatus, Sleep, Poll, Skip, rows, vars, Removes
  <2>2. QED
    BY <2>1
<1>4. CASE Attempt
  <2>1. Head(batch) \in Items
    BY <1>4, BatchHead DEF Attempt, PutOff, Deliver, Fail, TakeTurn
  <2>2. seen \subseteq seen' /\ \A i \in Items : before'[i] \subseteq before[i]
    BY <1>4, <2>1 DEF Attempt, PutOff, Deliver, Fail, Look
  <2>3. ASSUME NEW d, Deliver(d)
        PROVE  Removes({Head(batch)})
    BY <2>1, <2>2, <2>3 DEF Deliver, Removes, Due, Pending
  <2>4. CASE UNCHANGED <<place, ahead>>
    <3>1. Removes({})
      BY <2>2, <2>4 DEF Removes
    <3>2. QED
      BY <3>1
  <2>5. QED
    BY <1>4, <2>1, <2>3, <2>4 DEF Attempt, PutOff, Fail
<1>5. QED
  BY <1>1, <1>2, <1>3, <1>4, NextCases DEF Elsewhere

\* Every step keeps the order of the rows.
LEMMA OrderStep ==
  ASSUME TypeOK, OrderOK, [Next]_vars
  PROVE  OrderOK'
<1>1. ASSUME NEW D \in SUBSET Items, Removes(D)
      PROVE  OrderOK'
  <2>1. CASE Drop(D)
    BY <2>1, DropOrder
  <2>2. CASE UNCHANGED <<place, ahead>>
    BY <2>2 DEF OrderOK, Rows
  <2>3. QED
    BY <1>1, <2>1, <2>2 DEF Removes
<1>2. QED
  BY <1>1, NextRemoves, StampOrder, CommitOrder

-----------------------------------------------------------------------------
(* First turns.                                                            *)

\* A SET waits only after its first attempt.
LEMMA UnseenStep ==
  ASSUME TypeOK, BackoffReachesCap, UnseenDue, [Next]_vars
  PROVE  UnseenDue'
<1>1. \A i \in Items : wait[i] \in Nat
  BY DEF TypeOK
<1>2. CASE Elsewhere
  BY <1>1, <1>2, ElsewhereStep DEF UnseenDue
<1>3. CASE Attempt
  <2>1. seen' = seen \cup {Head(batch)}
    BY <1>3 DEF Attempt, PutOff, Deliver, Fail, Look
  <2>2. QED
    BY <1>1, <1>3, <2>1, AttemptStep DEF AttemptWaits, UnseenDue
<1>4. CASE UNCHANGED vars
  BY <1>4 DEF vars, UnseenDue
<1>5. QED
  BY <1>2, <1>3, <1>4, NextCases

\* A SET stays behind those that were stored when its request began.
LEMMA BeforeStep ==
  ASSUME TypeOK, OrderOK, BeforeAhead, [Next]_vars
  PROVE  BeforeAhead'
<1>1. ASSUME NEW k \in Items, Stamp(k)
      PROVE  BeforeAhead'
  <2>1. /\ place[k] = "free" /\ seen' = seen
        /\ place'[k] = "stamped" /\ \A i \in Items : i # k => place'[i] = place[i]
        /\ ahead'[k] = Rows /\ \A i \in Items : i # k => ahead'[i] = ahead[i]
        /\ before'[k] = Pending \ seen /\ \A i \in Items : i # k => before'[i] = before[i]
    BY <1>1 DEF Stamp, TypeOK
  <2>2. SUFFICES ASSUME NEW i \in Items, NEW j \in before'[i]
                 PROVE  /\ i # j /\ place'[i] # "free" /\ place'[j] \in {"pending", "gone"}
                        /\ i \in Rows' /\ j \in Pending' \ seen' => j \in ahead'[i]
    BY DEF BeforeAhead
  <2>3. CASE i = k
    BY <2>1, <2>2, <2>3 DEF Pending, Rows
  <2>4. CASE i # k
    <3>1. j \in before[i] /\ j \in Items
      BY <2>1, <2>2, <2>4 DEF TypeOK
    <3>2. i # j /\ place[i] # "free" /\ place[j] \in {"pending", "gone"} /\ j # k
      BY <2>1, <3>1 DEF BeforeAhead
    <3>3. i \in Rows /\ j \in Pending \ seen => j \in ahead[i]
      BY <3>1 DEF BeforeAhead
    <3>4. QED
      BY <2>1, <2>4, <3>1, <3>2, <3>3 DEF Pending, Rows
  <2>5. QED
    BY <2>3, <2>4
<1>2. ASSUME NEW k \in Items, Commit(k)
      PROVE  BeforeAhead'
  <2>1. /\ place[k] = "stamped" /\ seen' = seen /\ before' = before
        /\ place'[k] = "pending" /\ \A i \in Items : i # k => place'[i] = place[i]
    BY <1>2 DEF Commit, TypeOK
  <2>2. /\ Rows' = Rows /\ ahead[k] \subseteq ahead'[k]
        /\ \A i, j \in Items : i # k /\ j # k => (j \in ahead'[i] <=> j \in ahead[i])
    BY <1>2, CommitOrder
  <2>3. SUFFICES ASSUME NEW i \in Items, NEW j \in before[i]
                 PROVE  /\ i # j /\ place'[i] # "free" /\ place'[j] \in {"pending", "gone"}
                        /\ i \in Rows' /\ j \in Pending' \ seen' => j \in ahead'[i]
    BY <2>1 DEF BeforeAhead
  <2>4. i # j /\ place[i] # "free" /\ place[j] \in {"pending", "gone"} /\ j # k /\ j \in Items
    BY <2>1, <2>3 DEF BeforeAhead, TypeOK
  <2>5. i \in Rows /\ j \in Pending \ seen => j \in ahead[i]
    BY <2>3 DEF BeforeAhead
  <2>6. QED
    BY <2>1, <2>2, <2>4, <2>5 DEF Pending
<1>3. ASSUME NEW D \in SUBSET Items, Removes(D)
      PROVE  BeforeAhead'
  <2>1. /\ \A i \in Items : place'[i] = IF i \in D THEN "gone" ELSE place[i]
        /\ \A i \in Items : i \notin D => ahead'[i] = ahead[i] \ D
        /\ seen \subseteq seen' /\ \A i \in Items : before'[i] \subseteq before[i]
    BY <1>3 DEF Removes, Drop
  <2>2. SUFFICES ASSUME NEW i \in Items, NEW j \in before[i]
                 PROVE  /\ i # j /\ place'[i] # "free" /\ place'[j] \in {"pending", "gone"}
                        /\ i \in Rows' /\ j \in Pending' \ seen' => j \in ahead'[i]
    BY <2>1 DEF BeforeAhead
  <2>3. i # j /\ place[i] # "free" /\ place[j] \in {"pending", "gone"} /\ j \in Items
    BY <2>2 DEF BeforeAhead, TypeOK
  <2>4. i \in Rows /\ j \in Pending \ seen => j \in ahead[i]
    BY <2>2 DEF BeforeAhead
  <2>5. QED
    BY <2>1, <2>3, <2>4 DEF Pending, Rows
<1>4. QED
  BY <1>1, <1>2, <1>3, NextRemoves

\* A new batch has the SETs in the order of their requests.
LEMMA PollBatch ==
  ASSUME TypeOK, OrderOK, UnseenDue, BeforeAhead, Poll
  PROVE  BatchOK'
<1>1. PICK b \in [1 .. Cardinality(FirstRows) -> FirstRows] : InOrder(b) /\ batch' = b
  BY DEF Poll
<1>2. Cardinality(FirstRows) \in Nat /\ IsFiniteSet(DueRows)
  BY FirstRowsFinite
<1>3. Len(b) = Cardinality(FirstRows) /\ \A n \in 1 .. Len(b) : b[n] \in FirstRows
  BY <1>1, <1>2
<1>4. UNCHANGED <<place, before, seen>>
  BY DEF Poll, rows
<1>5. SUFFICES ASSUME NEW n \in 1 .. Len(b)
               PROVE  /\ place[b[n]] \in {"pending", "gone"}
                      /\ \A j \in before[b[n]] :
                           j \in seen \/ place[j] = "gone" \/ \E m \in 1 .. n - 1 : b[m] = j
  BY <1>1, <1>4 DEF BatchOK
<1> DEFINE i == b[n]
<1>6. i \in Items /\ i \in FirstRows /\ i \in DueRows /\ place[i] = "pending" /\ i \in Rows
  BY <1>3, <1>5 DEF FirstRows, DueRows, Due, Rows
<1>7. SUFFICES ASSUME NEW j \in before[i], j \notin seen, place[j] # "gone"
               PROVE  \E m \in 1 .. n - 1 : b[m] = j
  BY <1>6
<1>8. j \in Items /\ i # j /\ place[j] = "pending" /\ j \in ahead[i]
  BY <1>6, <1>7 DEF BeforeAhead, TypeOK, Pending
<1>9. j \in DueRows
  BY <1>7, <1>8 DEF UnseenDue, DueRows, Due
<1>10. ahead[j] \subseteq ahead[i] /\ i \notin ahead[j]
  BY <1>6, <1>8 DEF OrderOK
<1>11. j \in FirstRows
  <2>1. /\ IsFiniteSet(ahead[i] \cap DueRows)
        /\ ahead[j] \cap DueRows \subseteq ahead[i] \cap DueRows
    BY <1>2, <1>10, FS_Subset
  <2>2. /\ Cardinality(ahead[j] \cap DueRows) <= Cardinality(ahead[i] \cap DueRows)
        /\ Cardinality(ahead[i] \cap DueRows) \in Nat
        /\ IsFiniteSet(ahead[j] \cap DueRows)
    BY <2>1, FS_Subset, FS_CardinalityType
  <2>3. Cardinality(ahead[j] \cap DueRows) \in Nat
    BY <2>2, FS_CardinalityType
  <2>4. Cardinality(ahead[i] \cap DueRows) < BatchLimit /\ BatchLimit \in Nat
    BY <1>6, ScheduleAssumption DEF FirstRows
  <2>5. Cardinality(ahead[j] \cap DueRows) < BatchLimit
    BY <2>2, <2>3, <2>4
  <2>6. QED
    BY <1>9, <2>5 DEF FirstRows
<1>12. PICK m \in 1 .. Len(b) : b[m] = j
  BY <1>1, <1>11 DEF InOrder
<1>13. ~ n < m /\ m # n
  BY <1>1, <1>5, <1>8, <1>10, <1>12 DEF InOrder
<1>14. m \in 1 .. n - 1
  BY <1>2, <1>3, <1>5, <1>13
<1>15. QED
  BY <1>12, <1>14

\* Every step keeps the batch in order.
LEMMA BatchStep ==
  ASSUME TypeOK, OrderOK, UnseenDue, BeforeAhead, BatchOK, [Next]_vars
  PROVE  BatchOK'
<1>1. \A n \in 1 .. Len(batch) : batch[n] \in Items
  BY ElementOfSeq DEF TypeOK
<1>2. \A i \in Items : \A j \in before[i] : j \in Items /\ place[j] \in {"pending", "gone"}
  BY DEF BeforeAhead, TypeOK
<1>3. ASSUME NEW k \in Items, Stamp(k) \/ Commit(k)
      PROVE  BatchOK'
  <2>1. /\ place[k] \in {"free", "stamped"} /\ \A i \in Items : i # k => place'[i] = place[i]
        /\ \A i \in Items : i # k => before'[i] = before[i]
        /\ UNCHANGED <<batch, seen>>
    BY <1>3 DEF Stamp, Commit, TypeOK
  <2>2. SUFFICES ASSUME NEW n \in 1 .. Len(batch)
                 PROVE  /\ place'[batch[n]] \in {"pending", "gone"}
                        /\ \A j \in before'[batch[n]] :
                             j \in seen \/ place'[j] = "gone" \/ \E m \in 1 .. n - 1 : batch[m] = j
    BY <2>1 DEF BatchOK
  <2>3. batch[n] \in Items /\ batch[n] # k /\ place[batch[n]] \in {"pending", "gone"}
    BY <1>1, <2>1, <2>2 DEF BatchOK
  <2>4. QED
    BY <1>2, <2>1, <2>2, <2>3 DEF BatchOK
<1>4. ASSUME NEW D \in SUBSET Items, Removes(D), UNCHANGED batch
      PROVE  BatchOK'
  <2>1. /\ \A i \in Items : place'[i] = IF i \in D THEN "gone" ELSE place[i]
        /\ seen \subseteq seen' /\ \A i \in Items : before'[i] \subseteq before[i]
    BY <1>4 DEF Removes, Drop
  <2>2. QED
    BY <1>1, <1>2, <1>4, <2>1 DEF BatchOK
<1>5. ASSUME NEW D \in SUBSET Items, Removes(D), TakeTurn,
             Head(batch) \in seen' \/ place'[Head(batch)] = "gone"
      PROVE  BatchOK'
  <2>1. /\ \A i \in Items : place'[i] = IF i \in D THEN "gone" ELSE place[i]
        /\ seen \subseteq seen' /\ \A i \in Items : before'[i] \subseteq before[i]
    BY <1>5 DEF Removes, Drop
  <2>2. /\ batch' = Tail(batch) /\ Head(batch) = batch[1]
        /\ Len(batch) \in Nat \ {0} /\ Len(Tail(batch)) = Len(batch) - 1
        /\ \A n \in 1 .. Len(batch) - 1 : Tail(batch)[n] = batch[n + 1]
    BY <1>5, BatchHead DEF TakeTurn
  <2>3. SUFFICES ASSUME NEW n \in 1 .. Len(batch) - 1
                 PROVE  /\ place'[batch[n + 1]] \in {"pending", "gone"}
                        /\ \A j \in before'[batch[n + 1]] :
                             \/ j \in seen' \/ place'[j] = "gone"
                             \/ \E m \in 1 .. n - 1 : batch[m + 1] = j
    <3>1. \A n \in 1 .. Len(batch) - 1 : 1 .. n - 1 \subseteq 1 .. Len(batch) - 1
      BY <2>2
    <3>2. QED
      BY <2>2, <3>1 DEF BatchOK
  <2>4. n + 1 \in 1 .. Len(batch) /\ batch[n + 1] \in Items
    BY <1>1, <2>2
  <2>5. place'[batch[n + 1]] \in {"pending", "gone"}
    BY <2>1, <2>4 DEF BatchOK
  <2>6. ASSUME NEW j \in before'[batch[n + 1]], j \notin seen', place'[j] # "gone"
        PROVE  \E m \in 1 .. n - 1 : batch[m + 1] = j
    <3>1. j \in before[batch[n + 1]] /\ j \notin seen /\ j \in Items /\ place[j] # "gone"
      BY <1>2, <2>1, <2>4, <2>6
    <3>2. PICK m \in 1 .. (n + 1) - 1 : batch[m] = j
      BY <2>4, <3>1 DEF BatchOK
    <3>3. m # 1
      BY <1>5, <2>2, <2>6, <3>2
    <3>4. m - 1 \in 1 .. n - 1 /\ (m - 1) + 1 = m
      BY <2>2, <3>3
    <3>5. QED
      BY <3>2, <3>4
  <2>7. QED
    BY <2>5, <2>6
<1>6. ASSUME Skip \/ Attempt
      PROVE  TakeTurn /\ (Head(batch) \in seen' \/ place'[Head(batch)] = "gone")
  <2>1. CASE Attempt
    BY <2>1 DEF Attempt, PutOff, Deliver, Fail, Look
  <2>2. CASE Skip
    <3>1. TakeTurn /\ ~Due(Head(batch)) /\ UNCHANGED <<place, seen>>
      BY <2>2 DEF Skip, rows
    <3>2. Head(batch) \in Items /\ Head(batch) = batch[1] /\ 1 \in 1 .. Len(batch)
      BY <3>1, BatchHead DEF TakeTurn
    <3>3. place[Head(batch)] \in {"pending", "gone"}
      BY <3>2 DEF BatchOK
    <3>4. QED
      BY <3>1, <3>2, <3>3 DEF Due, UnseenDue
  <2>3. QED
    BY <1>6, <2>1, <2>2
<1>7. CASE Poll
  BY <1>7, PollBatch
<1>8. CASE Skip \/ Attempt
  <2>1. PICK D \in SUBSET Items : Removes(D) \/ \E k \in Items : Stamp(k) \/ Commit(k)
    BY NextRemoves
  <2>2. QED
    BY <1>3, <1>5, <1>6, <1>8, <2>1
<1>9. CASE UNCHANGED batch
  <2>1. PICK D \in SUBSET Items : Removes(D) \/ \E k \in Items : Stamp(k) \/ Commit(k)
    BY NextRemoves
  <2>2. QED
    BY <1>3, <1>4, <1>9, <2>1
<1>10. QED
  BY <1>7, <1>8, <1>9, NextCases
  DEF Elsewhere, Stamp, Commit, CommitRefused, SetStatus, Discard, Sleep, vars

-----------------------------------------------------------------------------
(* The theorems.                                                           *)

\* The initial state satisfies the invariant.
LEMMA InitInv == Init => Inv
<1> SUFFICES ASSUME Init PROVE Inv
  OBVIOUS
<1>1. /\ MaxShift \in Nat /\ Cap \in Nat /\ NoItem \notin Items
  BY ScheduleAssumption
<1>2. batch \in Seq(Items) /\ Len(batch) = 0
  BY EmptySeq DEF Init
<1>3. TypeOK
  BY <1>1, <1>2 DEF Init, TypeOK
<1>4. BackoffReachesCap
  BY <1>1 DEF Init, BackoffReachesCap
<1>5. OrderOK
  <2>1. Rows = {}
    BY DEF Init, Rows
  <2>2. QED
    BY <2>1, FS_EmptySet DEF Init, OrderOK
<1>6. UnseenDue /\ BeforeAhead
  BY DEF Init, UnseenDue, BeforeAhead
<1>7. BatchOK
  BY <1>2 DEF BatchOK
<1>8. QED
  BY <1>3, <1>4, <1>5, <1>6, <1>7 DEF Inv

\* Every step keeps the invariant.
LEMMA InvStep == Inv /\ [Next]_vars => Inv'
BY TypeStep, BackoffStep, OrderStep, UnseenStep, BeforeStep, BatchStep DEF Inv

\* The invariant holds in every reachable state.
LEMMA InvCorrect == Spec => []Inv
BY InitInv, InvStep, PTL DEF Spec

\* Every reachable state is well typed; in particular no wait runs below zero.
THEOREM TypeCorrect == Spec => []TypeOK
<1>1. Inv => TypeOK
  BY DEF Inv
<1>2. QED
  BY <1>1, InvCorrect, PTL

\* The delays of _retry never exceed the cap, and reach it, for every base and cap
\* that the largest exponent covers.
THEOREM BackoffCorrect == Spec => []BackoffReachesCap
<1>1. Inv => BackoffReachesCap
  BY DEF Inv
<1>2. QED
  BY <1>1, InvCorrect, PTL

\* get_due_outbox is first in, first out: the worker's first turns follow the
\* order of the requests, for any number of SETs and every batch limit.
THEOREM FirstTurnsCorrect == Spec => FirstTurnsInOrder
<1> DEFINE Ordered == \A i \in seen' \ seen : \A j \in before[i] : j \in seen \/ place[j] = "gone"
<1>1. Inv /\ [Next]_vars => [Ordered]_vars
  <2>1. SUFFICES ASSUME Inv, Next
                 PROVE  Ordered
    OBVIOUS
  <2>2. CASE Elsewhere
    BY <2>1, <2>2, ElsewhereStep DEF Inv
  <2>3. CASE Attempt
    <3>1. seen' = seen \cup {Head(batch)} /\ batch # <<>>
      BY <2>3 DEF Attempt, PutOff, Deliver, Fail, Look, TakeTurn
    <3>2. Head(batch) = batch[1] /\ 1 \in 1 .. Len(batch)
      BY <2>1, <3>1, BatchHead DEF Inv
    <3>3. \A j \in before[batch[1]] :
            j \in seen \/ place[j] = "gone" \/ \E m \in 1 .. 1 - 1 : batch[m] = j
      BY <2>1, <3>2 DEF Inv, BatchOK
    <3>4. QED
      BY <3>1, <3>2, <3>3
  <2>4. QED
    BY <2>1, <2>2, <2>3, NextCases
<1>2. QED
  BY <1>1, InvCorrect, PTL DEF Spec, FirstTurnsInOrder
=============================================================================
