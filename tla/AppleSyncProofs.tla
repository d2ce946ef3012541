--------------------------- MODULE AppleSyncProofs --------------------------
(***************************************************************************)
(* Proofs about AppleSync, for every source, directory, update mode, page  *)
(* size and number of changes by others.                                   *)
(***************************************************************************)
EXTENDS AppleSync, FiniteSetTheorems, SequenceTheorems, TLAPS

Reading == {"list", "lookup", "verify"}
Working == {"user", "create", "query", "repair", "confirm", "patch"}

\* The loop, or a request on behalf of one user, is under way.
AtUser == pc \in Working \/ (pc \in Reading /\ goal # "preflight")

PosOK == /\ AtUser => pos <= Len(conf.source)
         /\ pc \in Reading /\ goal = "preflight" => pos = 1

CurOK == pc \in {"repair", "confirm", "patch"} \/ (pc \in Reading /\ goal # "preflight") => cur \in AtHand

FiniteOK == IsFiniteSet(Present)

ObjectOK == \A s \in index : object[s.id] # NoAccount

\* Nothing is written before the loop begins.
PreflightOK == pc = "aborted" \/ (pc \in Reading /\ goal = "preflight") => ~wrote

Inv == TypeOK /\ PosOK /\ CurOK /\ FiniteOK /\ ObjectOK /\ PreflightOK

-----------------------------------------------------------------------------
(* Types of the operators.                                                 *)

\* A user of the source is well typed, and could be an account.
LEMMA TheUserType ==
  ASSUME TypeOK, pos <= Len(conf.source)
  PROVE  TheUser \in User /\ TheUser \in Account
<1>1. conf.source \in Seq(User) /\ pos \in 1 .. Len(conf.source) + 1
  BY ValueAssumption DEF TypeOK
<1>2. pos \in 1 .. Len(conf.source)
  BY <1>1, LenProperties
<1>3. TheUser \in User
  BY <1>1, <1>2, ElementOfSeq DEF TheUser
<1>4. QED
  BY <1>3 DEF User, Account

\* What is read from the directory is an account.
LEMMA ReadType ==
  ASSUME TypeOK
  PROVE  /\ Present \subseteq AppleIds
         /\ \A i \in Present : dir[i] \in Account /\ Read(i) \in Seen /\ Read(i).id = i /\ Read(i).acc = dir[i]
BY DEF TypeOK, Present, Read, Seen

\* An update leaves an account well typed.
LEMMA UpdatedType ==
  ASSUME NEW acc \in Account, NEW u \in User
  PROVE  Updated(acc, u) \in Account
<1> DEFINE fields == IF conf.mode = "replace_all" THEN {"userName", "emails", "other"}
                     ELSE ActionableDiffs(cur.acc, u)
<1>1. Updated(acc, u) =
        [ext   |-> IF "externalId" \in fields THEN u.ext ELSE acc.ext,
         user  |-> IF "userName" \in fields THEN u.user ELSE acc.user,
         mail  |-> IF "emails" \in fields THEN u.mail ELSE acc.mail,
         other |-> IF "other" \in fields THEN u.other ELSE acc.other]
  BY DEF Updated
<1> HIDE DEF fields
<1>2. QED
  BY <1>1 DEF Account, User

\* What ByExt and ByName return.
LEMMA ByKey ==
  ASSUME NEW S \in SUBSET Seen, NEW k
  PROVE  /\ ByExt(S, k) # NoSeen => ByExt(S, k) \in S /\ ByExt(S, k).acc.ext = k
         /\ ByExt(S, k) = NoSeen => \A s \in S : s.acc.ext # k
         /\ ByName(S, k) # NoSeen => ByName(S, k) \in S /\ ByName(S, k).acc.user = k
         /\ ByName(S, k) = NoSeen => \A s \in S : s.acc.user # k
<1>1. NoSeen \notin S
  BY ValueAssumption
<1>2. /\ ByExt(S, k) # NoSeen => ByExt(S, k) \in S /\ ByExt(S, k).acc.ext = k
      /\ ByExt(S, k) = NoSeen => \A s \in S : s.acc.ext # k
  <2>1. CASE \E s \in S : s.acc.ext = k
    <3>1. ByExt(S, k) = CHOOSE s \in S : s.acc.ext = k
      BY <2>1 DEF ByExt
    <3>2. ByExt(S, k) \in S /\ ByExt(S, k).acc.ext = k
      BY <2>1, <3>1
    <3>3. QED
      BY <1>1, <3>2
  <2>2. CASE ~ \E s \in S : s.acc.ext = k
    BY <2>2 DEF ByExt
  <2>3. QED
    BY <2>1, <2>2
<1>3. /\ ByName(S, k) # NoSeen => ByName(S, k) \in S /\ ByName(S, k).acc.user = k
      /\ ByName(S, k) = NoSeen => \A s \in S : s.acc.user # k
  <2>1. CASE \E s \in S : s.acc.user = k
    <3>1. ByName(S, k) = CHOOSE s \in S : s.acc.user = k
      BY <2>1 DEF ByName
    <3>2. ByName(S, k) \in S /\ ByName(S, k).acc.user = k
      BY <2>1, <3>1
    <3>3. QED
      BY <1>1, <3>2
  <2>2. CASE ~ \E s \in S : s.acc.user = k
    BY <2>2 DEF ByName
  <2>3. QED
    BY <2>1, <2>2
<1>4. QED
  BY <1>2, <1>3

-----------------------------------------------------------------------------
(* The state of the loop.                                                  *)

PCs == {"list", "lookup", "verify", "user", "create", "query", "repair", "confirm", "patch",
        "done", "aborted", "crashed"}

LoopOK ==
  /\ pc \in PCs
  /\ pos \in 1 .. Len(conf.source) + 1
  /\ cur \in AtHand \cup {NoSeen}
  /\ result \in [Counters -> Nat]
  /\ PosOK /\ CurOK

\* A step of the loop ends outside of the reading states, or leaves it alone.
Looping == pc' \in PCs \ (Reading \cup {"aborted"})

LEMMA PlusType ==
  ASSUME NEW r \in [Counters -> Nat], NEW c \in Counters
  PROVE  Plus(r, c) \in [Counters -> Nat]
BY DEF Plus

LEMMA SettleOK ==
  ASSUME TypeOK, pos <= Len(conf.source), UNCHANGED conf,
         NEW r \in [Counters -> Nat], Settle(r)
  PROVE  LoopOK' /\ Looping
<1>1. Len(conf.source) \in Nat /\ pos \in 1 .. Len(conf.source)
  <2>1. conf.source \in Seq(User) /\ pos \in 1 .. Len(conf.source) + 1
    BY ValueAssumption DEF TypeOK
  <2>2. QED
    BY <2>1, LenProperties
<1>2. /\ result' = r /\ pos' = pos + 1 /\ cur' = NoSeen
      /\ pc' = IF pos = Len(conf.source) THEN "done" ELSE "user"
  BY DEF Settle
<1>3. pos' \in 1 .. Len(conf'.source) + 1 /\ (pc' = "user" => pos' <= Len(conf'.source))
  BY <1>1, <1>2
<1>4. PosOK' /\ CurOK'
  BY <1>2, <1>3 DEF PosOK, CurOK, AtUser, Working, Reading
<1>5. QED
  BY <1>2, <1>3, <1>4 DEF LoopOK, Looping, PCs, Reading

\* Staying with the user at hand.
LEMMA StayOK ==
  ASSUME TypeOK, pos <= Len(conf.source), UNCHANGED <<conf, pos>>, result' \in [Counters -> Nat],
         pc' \in Working, cur' \in AtHand
  PROVE  LoopOK' /\ Looping
BY DEF TypeOK, LoopOK, Looping, PCs, PosOK, CurOK, AtUser, Working, Reading

LEMMA PatchOrSettleOK ==
  ASSUME TypeOK, pos <= Len(conf.source), UNCHANGED conf,
         NEW a \in AtHand, NEW r \in [Counters -> Nat], NEW b \in BOOLEAN, PatchOrSettle(a, r, b)
  PROVE  LoopOK' /\ Looping
<1> DEFINE diffs == FieldDiffs(a.acc, TheUser)
           counted == IF diffs \ UpdateFields # {} THEN Plus(r, "outOfScope") ELSE r
<1>1. counted \in [Counters -> Nat] /\ Plus(counted, "unchanged") \in [Counters -> Nat]
  <2>1. Plus(r, "outOfScope") \in [Counters -> Nat]
    BY PlusType DEF Counters
  <2>2. counted \in [Counters -> Nat]
    BY <2>1
  <2>3. QED
    BY <2>2, PlusType DEF Counters
<1>2. CASE ActionableDiffs(a.acc, TheUser) # {}
  <2>1. result' = counted /\ cur' = a /\ pc' = "patch" /\ UNCHANGED pos
    BY <1>2 DEF PatchOrSettle
  <2>2. QED
    BY <1>1, <2>1, StayOK DEF Working
<1>3. CASE ActionableDiffs(a.acc, TheUser) = {}
  <2>1. Settle(IF b THEN counted ELSE Plus(counted, "unchanged"))
    BY <1>3 DEF PatchOrSettle
  <2> HIDE DEF counted
  <2>2. QED
    BY <1>1, <2>1, SettleOK
<1>4. QED
  BY <1>2, <1>3

LEMMA ReconcileOK ==
  ASSUME TypeOK, pos <= Len(conf.source), UNCHANGED conf,
         NEW a \in AtHand, NEW b \in BOOLEAN, Reconcile(a, b)
  PROVE  LoopOK' /\ Looping
<1>1. result \in [Counters -> Nat] /\ Plus(result, "conflicts") \in [Counters -> Nat]
  BY PlusType DEF TypeOK, Counters
<1>2. CASE Settle(Plus(result, "conflicts"))
  BY <1>1, <1>2, SettleOK
<1>3. CASE cur' = a /\ pc' = "repair" /\ UNCHANGED <<pos, result>>
  BY <1>1, <1>3, StayOK DEF Working
<1>4. CASE PatchOrSettle(a, result, FALSE)
  BY <1>1, <1>4, PatchOrSettleOK
<1>5. QED
  BY <1>2, <1>3, <1>4 DEF Reconcile

LEMMA ReadingFailsOK ==
  ASSUME TypeOK, PosOK, pc \in Reading, UNCHANGED conf, ReadingFails
  PROVE  LoopOK' /\ pc' \notin Reading /\ (pc' = "aborted" => goal = "preflight")
<1>1. CASE goal = "preflight"
  BY <1>1 DEF ReadingFails, TypeOK, LoopOK, PCs, PosOK, CurOK, AtUser, Working, Reading
<1>2. CASE goal # "preflight"
  <2>1. pos <= Len(conf.source)
    BY <1>2 DEF PosOK, AtUser
  <2>2. Plus(result, "errors") \in [Counters -> Nat]
    BY PlusType DEF TypeOK, Counters
  <2>3. Settle(Plus(result, "errors"))
    BY <1>2 DEF ReadingFails
  <2>4. LoopOK' /\ Looping
    BY <2>1, <2>2, <2>3, SettleOK
  <2>5. QED
    BY <2>4 DEF Looping
<1>3. QED
  BY <1>1, <1>2

-----------------------------------------------------------------------------
(* The state of the readings, of the snapshot and of the directory.        *)

DirOK == dir \in [AppleIds -> Account \cup {NoAccount}] /\ FiniteOK
ConfOK == conf \in [source: Sources, mode: Modes, recovery: BOOLEAN, style: Styles]
ReadOK ==
  /\ goal \in {"preflight", "conflict", "created"}
  /\ listing \in [start: Nat, total: Nat \cup {NoTotal}, seen: SUBSET Seen] /\ sample \subseteq Seen
  /\ looked \in Seq(Seen \cup {NoSeen})
SnapOK == index \subseteq Seen /\ object \in [AppleIds -> Account \cup {NoAccount}] /\ ObjectOK
HistOK == outside \in 0 .. MaxOutside /\ wrote \in BOOLEAN

LEMMA InvParts ==
  Inv <=> DirOK /\ ConfOK /\ ReadOK /\ SnapOK /\ LoopOK /\ HistOK /\ PreflightOK
BY DEF Inv, TypeOK, DirOK, ConfOK, ReadOK, SnapOK, LoopOK, HistOK, PCs

LEMMA InvPartsNext ==
  ASSUME DirOK', ConfOK', ReadOK', SnapOK', LoopOK', HistOK', PreflightOK'
  PROVE  Inv'
BY DEF Inv, TypeOK, DirOK, ConfOK, ReadOK, SnapOK, LoopOK, HistOK, PCs

LEMMA NoWriteOK ==
  ASSUME Inv, NoWrite
  PROVE  DirOK' /\ ConfOK' /\ HistOK' /\ UNCHANGED <<dir, conf, outside, wrote>>
BY DEF Inv, TypeOK, NoWrite, DirOK, ConfOK, HistOK, FiniteOK, Present

LEMMA ReadingOverOK ==
  ASSUME Inv, ReadingOver
  PROVE  ReadOK' /\ UNCHANGED goal
<1>1. <<>> \in Seq(Seen \cup {NoSeen})
  BY EmptySeq
<1>2. NewListing \in [start: Nat, total: Nat \cup {NoTotal}, seen: SUBSET Seen]
  BY DEF NewListing
<1>3. QED
  BY <1>1, <1>2 DEF ReadingOver, ReadOK, Inv, TypeOK

LEMMA SameReading ==
  ASSUME Inv, UNCHANGED reading
  PROVE  ReadOK' /\ UNCHANGED goal
BY DEF Inv, TypeOK, ReadOK, reading

LEMMA SameSnapshot ==
  ASSUME Inv, UNCHANGED snapshot
  PROVE  SnapOK'
BY DEF Inv, TypeOK, SnapOK, ObjectOK, snapshot

\* A change of one account leaves the directory finite.
LEMMA ChangeOK ==
  ASSUME Inv, NEW i \in AppleIds, NEW a \in Account \cup {NoAccount}, dir' = [dir EXCEPT ![i] = a]
  PROVE  DirOK'
<1>1. dir' \in [AppleIds -> Account \cup {NoAccount}]
  BY DEF Inv, TypeOK
<1>2. Present' \subseteq Present \cup {i}
  BY DEF Inv, TypeOK, Present
<1>3. IsFiniteSet(Present \cup {i})
  BY FS_AddElement DEF Inv, FiniteOK
<1>4. IsFiniteSet(Present')
  BY <1>2, <1>3, FS_Subset
<1>5. QED
  BY <1>1, <1>4 DEF DirOK, FiniteOK

LEMMA StoreOK ==
  ASSUME Inv, NEW i \in AppleIds, NEW a \in Account, Store(i, a)
  PROVE  DirOK' /\ ConfOK' /\ HistOK' /\ wrote' /\ UNCHANGED conf
<1>1. DirOK'
  BY ChangeOK DEF Store
<1>2. QED
  BY <1>1 DEF Inv, TypeOK, Store, ConfOK, HistOK

LEMMA ReadingDoneOK ==
  ASSUME Inv, pc \in Reading, UNCHANGED conf, NEW S \in SUBSET Seen, ReadingDone(S)
  PROVE  LoopOK' /\ SnapOK' /\ Looping
<1> TypeOK /\ PosOK /\ CurOK
  BY DEF Inv
<1>1. CASE goal = "preflight"
  <2>1. /\ index' = S
        /\ object' = [i \in AppleIds |-> IF \E s \in S : s.id = i THEN (CHOOSE s \in S : s.id = i).acc
                                         ELSE NoAccount]
        /\ pc' = IF conf.source = <<>> THEN "done" ELSE "user"
        /\ UNCHANGED <<cur, pos, result>>
    BY <1>1 DEF ReadingDone
  <2>2. SnapOK'
    <3>1. \A i \in AppleIds : (\E s \in S : s.id = i) => object'[i] \in Account
      <4>1. SUFFICES ASSUME NEW i \in AppleIds, \E s \in S : s.id = i
                     PROVE  object'[i] \in Account
        OBVIOUS
      <4>2. object'[i] = (CHOOSE s \in S : s.id = i).acc
        BY <2>1, <4>1
      <4>3. (CHOOSE s \in S : s.id = i) \in S
        BY <4>1
      <4>4. QED
        BY <4>2, <4>3 DEF Seen
    <3>2. \A i \in AppleIds : object'[i] \in Account \cup {NoAccount}
      BY <2>1, <3>1
    <3>3. object' \in [AppleIds -> Account \cup {NoAccount}]
      BY <2>1, <3>2
    <3>4. ObjectOK'
      <4>1. SUFFICES ASSUME NEW s \in S PROVE object'[s.id] # NoAccount
        BY <2>1 DEF ObjectOK
      <4>2. s.id \in AppleIds
        BY DEF Seen
      <4>3. QED
        BY <3>1, <4>2, ValueAssumption
    <3>5. QED
      BY <2>1, <3>3, <3>4 DEF SnapOK
  <2>3. conf.source # <<>> => 1 <= Len(conf.source)
    <3>1. conf.source \in Seq(User)
      BY ValueAssumption DEF TypeOK
    <3>2. QED
      BY <3>1, EmptySeq, LenProperties
  <2>4. pos = 1
    BY <1>1 DEF PosOK
  <2>5. QED
    BY <2>1, <2>2, <2>3, <2>4 DEF TypeOK, LoopOK, Looping, PCs, PosOK, CurOK, AtUser, Working, Reading
<1>2. CASE goal # "preflight"
  <2>1. pos <= Len(conf.source) /\ UNCHANGED snapshot /\ cur \in AtHand
    BY <1>2 DEF PosOK, CurOK, AtUser, ReadingDone
  <2>2. SnapOK'
    BY <2>1, SameSnapshot
  <2>3. \A c \in Counters : Plus(result, c) \in [Counters -> Nat]
    BY PlusType DEF TypeOK
  <2>4. CASE goal = "conflict"
    <3> DEFINE listed == ByName(S, TheUser.user)
    <3>1. CASE Settle(Plus(result, "errors"))
      BY <2>1, <2>2, <2>3, <3>1, SettleOK DEF Counters
    <3>2. CASE listed # NoSeen /\ Reconcile(Shared(listed, FALSE), TRUE)
      <4>1. listed \in Seen
        BY <3>2, ByKey
      <4>2. Shared(listed, FALSE) \in AtHand
        BY <4>1 DEF Shared, Seen, AtHand
      <4>3. QED
        BY <2>1, <2>2, <3>2, <4>2, ReconcileOK
    <3>3. QED
      BY <2>4, <3>1, <3>2 DEF ReadingDone
  <2>5. CASE goal = "created"
    <3>1. PICK c \in Counters : Settle(Plus(result, c))
      BY <2>5 DEF ReadingDone, Counters
    <3>2. QED
      BY <2>1, <2>2, <2>3, <3>1, SettleOK
  <2>6. QED
    BY <1>2, <2>4, <2>5 DEF TypeOK
<1>3. QED
  BY <1>1, <1>2

-----------------------------------------------------------------------------
(* The readings.                                                           *)

\* One entry is read per account.
LEMMA ReadsFinite ==
  ASSUME Inv, NEW T \in SUBSET Present
  PROVE  LET R == {Read(i) : i \in T}
         IN R \subseteq Seen /\ IsFiniteSet(R) /\ Cardinality(R) \in Nat /\ Cardinality(R) = Cardinality(T)
<1> DEFINE R == {Read(i) : i \in T}
           f == [i \in T |-> Read(i)]
<1>1. R \subseteq Seen
  BY ReadType DEF Inv
<1>2. \A i, j \in T : Read(i) = Read(j) => i = j
  BY ReadType DEF Inv
<1>3. f \in [T -> R]
  OBVIOUS
<1>4. f \in Surjection(T, R)
  BY <1>3 DEF Surjection
<1>5. f \in Injection(T, R)
  BY <1>2, <1>3 DEF Injection, IsInjective
<1>6. IsFiniteSet(T)
  BY FS_Subset DEF Inv, FiniteOK
<1> HIDE DEF R, f
<1>7. IsFiniteSet(R) /\ Cardinality(R) = Cardinality(T)
  BY <1>4, <1>5, <1>6, FS_Surjection
<1>8. Cardinality(R) \in Nat
  BY <1>7, FS_CardinalityType
<1>9. QED
  BY <1>1, <1>7, <1>8 DEF R

\* A step of a reading that goes on.
LEMMA ReadingGoesOn ==
  ASSUME Inv, pc \in Reading, pc' \in Reading, ReadOK', UNCHANGED <<goal, cur, pos, result>>,
         UNCHANGED snapshot, NoWrite
  PROVE  Inv'
<1>1. DirOK' /\ ConfOK' /\ HistOK' /\ UNCHANGED <<dir, conf, outside, wrote>>
  BY NoWriteOK
<1>2. SnapOK'
  BY SameSnapshot
<1>3. LoopOK' /\ PreflightOK'
  BY <1>1 DEF Inv, TypeOK, LoopOK, PCs, PosOK, CurOK, AtUser, Working, Reading, PreflightOK
<1>4. QED
  BY <1>1, <1>2, <1>3, InvPartsNext

\* A reading that fails.
LEMMA ReadingEnds ==
  ASSUME Inv, pc \in Reading, ReadingFails, ReadingOver, UNCHANGED snapshot, NoWrite
  PROVE  Inv'
<1>1. DirOK' /\ ConfOK' /\ HistOK' /\ UNCHANGED <<dir, conf, outside, wrote>>
  BY NoWriteOK
<1>2. SnapOK'
  BY SameSnapshot
<1>3. ReadOK' /\ UNCHANGED goal
  BY ReadingOverOK
<1>4. LoopOK' /\ pc' \notin Reading /\ (pc' = "aborted" => goal = "preflight")
  BY <1>1, ReadingFailsOK DEF Inv
<1>5. PreflightOK'
  BY <1>1, <1>4 DEF Inv, PreflightOK
<1>6. QED
  BY <1>1, <1>2, <1>3, <1>4, <1>5, InvPartsNext

\* A reading that succeeds.
LEMMA ReadingSucceeds ==
  ASSUME Inv, pc \in Reading, NEW S \in SUBSET Seen, ReadingDone(S), ReadingOver, NoWrite
  PROVE  Inv'
<1>1. DirOK' /\ ConfOK' /\ HistOK' /\ UNCHANGED <<dir, conf, outside, wrote>>
  BY NoWriteOK
<1>2. ReadOK'
  BY ReadingOverOK
<1>3. LoopOK' /\ SnapOK' /\ Looping
  BY <1>1, ReadingDoneOK
<1>4. PreflightOK'
  BY <1>3 DEF PreflightOK, Looping
<1>5. QED
  BY <1>1, <1>2, <1>3, <1>4, InvPartsNext

LEMMA ListPageOK ==
  ASSUME Inv, ListPage
  PROVE  Inv'
<1> DEFINE total == Cardinality(Present)
           Rank(i) == Cardinality({j \in Present : j <= i})
           T == {j \in Present : Rank(j) \in listing.start .. listing.start + PageSize - 1}
           new == {Read(i) : i \in T}
           seen == listing.seen \cup new
           start == listing.start + Cardinality(new)
<1>1. pc \in Reading /\ NoWrite
  BY DEF ListPage, Reading
<1>2. new \subseteq Seen /\ Cardinality(new) \in Nat
  <2>1. T \in SUBSET Present
    OBVIOUS
  <2> HIDE DEF T
  <2>2. QED
    BY <2>1, ReadsFinite
<1>3. total \in Nat
  BY FS_CardinalityType DEF Inv, FiniteOK
<1>4. CASE ReadingFails /\ ReadingOver /\ UNCHANGED snapshot
  BY <1>1, <1>4, ReadingEnds
<1>5. CASE /\ listing' = [start |-> start, total |-> total, seen |-> seen]
           /\ UNCHANGED <<pc, goal, sample, looked, snapshot, cur, pos, result>>
  <2> HIDE DEF new, total
  <2>1. ReadOK'
    BY <1>2, <1>3, <1>5 DEF Inv, TypeOK, ReadOK
  <2>2. QED
    BY <1>1, <1>5, <2>1, ReadingGoesOn
<1>6. CASE ReadingDone(seen) /\ ReadingOver
  <2> HIDE DEF new
  <2>1. seen \in SUBSET Seen
    BY <1>2 DEF Inv, TypeOK
  <2>2. QED
    BY <1>1, <1>6, <2>1, ReadingSucceeds
<1>7. QED
  BY <1>4, <1>5, <1>6 DEF ListPage

LEMMA ListSampleOK ==
  ASSUME Inv, ListSample
  PROVE  Inv'
<1>1. pc \in Reading /\ NoWrite /\ UNCHANGED snapshot
  BY DEF ListSample, Reading
<1>2. CASE ReadingFails /\ ReadingOver
  BY <1>1, <1>2, ReadingEnds
<1>3. CASE \E S \in SUBSET Present :
             /\ sample' = {Read(i) : i \in S} /\ pc' = "lookup"
             /\ UNCHANGED <<goal, listing, looked, cur, pos, result>>
  <2>1. sample' \subseteq Seen
    BY <1>3, ReadType DEF Inv
  <2>2. ReadOK' /\ pc' \in Reading
    BY <1>3, <2>1 DEF Inv, TypeOK, ReadOK, Reading
  <2>3. QED
    BY <1>1, <1>3, <2>2, ReadingGoesOn
<1>4. QED
  BY <1>2, <1>3 DEF ListSample

LEMMA LookupUserOK ==
  ASSUME Inv, LookupUser
  PROVE  Inv'
<1> DEFINE k == Len(looked) + 1
           u == Lookups[(k + 1) \div 2]
           byExt == k % 2 = 1
           Matches(acc) == IF byExt THEN acc.ext = u.ext ELSE acc.user = u.user
           found == {Read(i) : i \in {j \in Present : Matches(dir[j])}}
           one == IF found = {} THEN NoSeen ELSE CHOOSE s \in found : TRUE
<1>1. pc \in Reading /\ NoWrite /\ UNCHANGED snapshot
  BY DEF LookupUser, Reading
<1>2. one \in Seen \cup {NoSeen}
  <2>1. found \subseteq Seen
    BY ReadType DEF Inv
  <2> HIDE DEF found
  <2>2. QED
    BY <2>1
<1>3. CASE ReadingFails /\ ReadingOver
  BY <1>1, <1>3, ReadingEnds
<1>4. CASE looked' = Append(looked, one) /\ UNCHANGED <<pc, goal, listing, sample, cur, pos, result>>
  <2> HIDE DEF one
  <2>1. looked' \in Seq(Seen \cup {NoSeen})
    BY <1>2, <1>4, AppendProperties DEF Inv, TypeOK
  <2>2. ReadOK'
    BY <1>4, <2>1 DEF Inv, TypeOK, ReadOK
  <2>3. QED
    BY <1>1, <1>4, <2>2, ReadingGoesOn
<1>5. QED
  BY <1>3, <1>4 DEF LookupUser

LEMMA LookupsDoneOK ==
  ASSUME Inv, LookupsDone
  PROVE  Inv'
<1>1. /\ pc \in Reading /\ pc' \in Reading /\ NoWrite /\ UNCHANGED snapshot
      /\ UNCHANGED <<goal, cur, pos, result>> /\ UNCHANGED reading
  BY DEF LookupsDone, Reading, reading
<1>2. ReadOK'
  BY <1>1, SameReading
<1>3. QED
  BY <1>1, <1>2, ReadingGoesOn

LEMMA UnverifiedType ==
  ASSUME Inv
  PROVE  Unverified \subseteq AppleIds
<1>1. SUFFICES ASSUME NEW k \in 1 .. Len(looked), looked[k] # NoSeen
               PROVE  looked[k].id \in AppleIds
  BY DEF Unverified
<1>2. looked[k] \in Seen \cup {NoSeen}
  BY ElementOfSeq DEF Inv, TypeOK
<1>3. QED
  BY <1>1, <1>2 DEF Seen

LEMMA VerifyUserOK ==
  ASSUME Inv, VerifyUser
  PROVE  Inv'
<1>1. pc \in Reading /\ NoWrite /\ UNCHANGED snapshot
  BY DEF VerifyUser, Reading
<1>2. CASE ReadingFails /\ ReadingOver
  BY <1>1, <1>2, ReadingEnds
<1>3. CASE \E i \in Unverified :
             /\ dir[i] # NoAccount
             /\ listing' = [listing EXCEPT !.seen = @ \cup {Read(i)}]
             /\ UNCHANGED <<pc, goal, sample, looked, cur, pos, result>>
  <2>1. PICK i \in Unverified :
             /\ dir[i] # NoAccount
             /\ listing' = [listing EXCEPT !.seen = @ \cup {Read(i)}]
             /\ UNCHANGED <<pc, goal, sample, looked, cur, pos, result>>
    BY <1>3
  <2>2. Read(i) \in Seen
    BY <2>1, UnverifiedType, ReadType DEF Inv, Present
  <2>3. ReadOK'
    BY <2>1, <2>2 DEF Inv, TypeOK, ReadOK
  <2>4. QED
    BY <1>1, <2>1, <2>3, ReadingGoesOn
<1>4. QED
  BY <1>2, <1>3 DEF VerifyUser

LEMMA VerifyDoneOK ==
  ASSUME Inv, VerifyDone
  PROVE  Inv'
<1>1. pc \in Reading /\ NoWrite /\ ReadingOver
  BY DEF VerifyDone, Reading
<1>2. CASE ReadingFails /\ UNCHANGED snapshot
  BY <1>1, <1>2, ReadingEnds
<1>3. CASE ReadingDone(listing.seen)
  <2>1. listing.seen \in SUBSET Seen
    BY DEF Inv, TypeOK
  <2>2. QED
    BY <1>1, <1>3, <2>1, ReadingSucceeds
<1>4. QED
  BY <1>2, <1>3 DEF VerifyDone

LEMMA ReadFailsOK ==
  ASSUME Inv, ReadFails
  PROVE  Inv'
BY ReadingEnds DEF ReadFails, Reading

-----------------------------------------------------------------------------
(* The loop.                                                               *)

\* While a user is at hand there is one, and the counters can be raised.
LEMMA WorkingOK ==
  ASSUME Inv, pc \in Working
  PROVE  /\ TypeOK /\ pos <= Len(conf.source) /\ TheUser \in User /\ TheUser \in Account
         /\ \A c \in Counters : Plus(result, c) \in [Counters -> Nat]
         /\ pc \in {"repair", "confirm", "patch"} => cur \in AtHand
<1>1. pos <= Len(conf.source)
  BY DEF Inv, PosOK, AtUser
<1>2. QED
  BY <1>1, TheUserType, PlusType DEF Inv, TypeOK, CurOK

\* A step that stays in the loop, or ends it, and writes nothing.
LEMMA LoopGoesOn ==
  ASSUME Inv, NoWrite, UNCHANGED <<reading, snapshot>>, LoopOK', Looping
  PROVE  Inv'
<1>1. DirOK' /\ ConfOK' /\ HistOK'
  BY NoWriteOK
<1>2. SnapOK'
  BY SameSnapshot
<1>3. ReadOK'
  BY SameReading
<1>4. PreflightOK'
  BY DEF PreflightOK, Looping
<1>5. QED
  BY <1>1, <1>2, <1>3, <1>4, InvPartsNext

LEMMA SettledOK ==
  ASSUME Inv, pc \in Working, NEW c \in Counters, Settle(Plus(result, c)), NoWrite,
         UNCHANGED <<reading, snapshot>>
  PROVE  Inv'
<1>1. LoopOK' /\ Looping
  BY WorkingOK, SettleOK DEF NoWrite
<1>2. QED
  BY <1>1, LoopGoesOn

LEMMA MatchUserOK ==
  ASSUME Inv, MatchUser
  PROVE  Inv'
<1> DEFINE e == ByExt(index, TheUser.ext)
           n == ByName(index, TheUser.user)
           Object(s) == [id |-> s.id, acc |-> object[s.id], shared |-> TRUE]
<1>1. pc \in Working /\ NoWrite /\ UNCHANGED <<reading, snapshot>> /\ UNCHANGED conf
  BY DEF MatchUser, Working, NoWrite
<1>2. /\ TypeOK /\ pos <= Len(conf.source)
      /\ \A c \in Counters : Plus(result, c) \in [Counters -> Nat]
  BY <1>1, WorkingOK
<1>3. \A s \in index : Object(s) \in AtHand
  BY DEF Inv, ObjectOK, TypeOK, AtHand, Seen
<1>4. (e # NoSeen => e \in index) /\ (n # NoSeen => n \in index)
  BY ByKey DEF Inv, TypeOK
<1>5. CASE Settle(Plus(result, "conflicts"))
  BY <1>1, <1>5, SettledOK DEF Counters
<1>6. CASE \E s \in index, b \in BOOLEAN : Reconcile(Object(s), b)
  <2>1. LoopOK' /\ Looping
    BY <1>1, <1>2, <1>3, <1>6, ReconcileOK
  <2>2. QED
    BY <1>1, <2>1, LoopGoesOn
<1>7. CASE pc' = "create" /\ UNCHANGED <<cur, pos, result>>
  <2>1. LoopOK' /\ Looping
    BY <1>1, <1>2, <1>7
       DEF TypeOK, LoopOK, Looping, PCs, PosOK, CurOK, AtUser, Working, Reading
  <2>2. QED
    BY <1>1, <2>1, LoopGoesOn
<1>8. QED
  BY <1>4, <1>5, <1>6, <1>7 DEF MatchUser

LEMMA NameIsNullOK ==
  ASSUME Inv, NameIsNull
  PROVE  Inv'
<1>1. DirOK' /\ ConfOK' /\ HistOK' /\ ReadOK' /\ SnapOK'
  BY NoWriteOK, ReadingOverOK, SameSnapshot DEF NameIsNull
<1>2. pc' = "crashed" /\ UNCHANGED <<conf, pos, cur, result>>
  BY NoWriteOK DEF NameIsNull
<1>3. LoopOK' /\ PreflightOK'
  BY <1>2 DEF Inv, TypeOK, LoopOK, PCs, PosOK, CurOK, AtUser, Working, Reading, PreflightOK
<1>4. QED
  BY <1>1, <1>3, InvPartsNext

LEMMA RefusedOK ==
  ASSUME Inv, Refused
  PROVE  Inv'
BY SettledOK DEF Refused, Working, Counters

LEMMA CreateUserOK ==
  ASSUME Inv, NEW lost \in BOOLEAN, CreateUser(lost)
  PROVE  Inv'
<1>1. pc \in Working /\ UNCHANGED snapshot
  BY DEF CreateUser, Working
<1>2. /\ TypeOK /\ pos <= Len(conf.source) /\ TheUser \in Account
      /\ \A c \in Counters : Plus(result, c) \in [Counters -> Nat]
  BY <1>1, WorkingOK
<1>3. PICK i \in AppleIds \ Present :
        /\ Store(i, TheUser)
        /\ IF ~lost /\ conf.style = "single"
             THEN /\ cur' = [id |-> i, acc |-> TheUser, shared |-> FALSE]
                  /\ goal' = "created" /\ pc' = "lookup"
                  /\ UNCHANGED <<listing, sample, looked, pos, result>>
             ELSE Settle(Plus(result, IF lost THEN "errors" ELSE "created")) /\ UNCHANGED reading
  BY DEF CreateUser
<1>4. DirOK' /\ ConfOK' /\ HistOK' /\ wrote' /\ UNCHANGED conf
  BY <1>2, <1>3, StoreOK
<1>5. SnapOK'
  BY <1>1, SameSnapshot
<1>6. CASE /\ cur' = [id |-> i, acc |-> TheUser, shared |-> FALSE]
           /\ goal' = "created" /\ pc' = "lookup"
           /\ UNCHANGED <<listing, sample, looked, pos, result>>
  <2>1. cur' \in AtHand
    BY <1>2, <1>6 DEF AtHand
  <2>2. LoopOK' /\ PreflightOK'
    BY <1>2, <1>4, <1>6, <2>1
       DEF TypeOK, LoopOK, PCs, PosOK, CurOK, AtUser, Working, Reading, PreflightOK
  <2>3. ReadOK'
    BY <1>2, <1>6 DEF TypeOK, ReadOK
  <2>4. QED
    BY <1>4, <1>5, <2>2, <2>3, InvPartsNext
<1>7. CASE \E c \in Counters : Settle(Plus(result, c)) /\ UNCHANGED reading
  <2>1. LoopOK' /\ Looping
    BY <1>2, <1>4, <1>7, SettleOK
  <2>2. ReadOK'
    BY <1>7, SameReading
  <2>3. PreflightOK'
    BY <2>1 DEF PreflightOK, Looping
  <2>4. QED
    BY <1>4, <1>5, <2>1, <2>2, <2>3, InvPartsNext
<1>8. QED
  BY <1>3, <1>6, <1>7 DEF Counters

LEMMA CreateConflictsOK ==
  ASSUME Inv, CreateConflicts
  PROVE  Inv'
<1>1. /\ pc \in Working /\ NoWrite /\ UNCHANGED <<reading, snapshot>> /\ UNCHANGED conf
      /\ pc' = "query" /\ UNCHANGED <<cur, pos, result>>
  BY DEF CreateConflicts, Working, NoWrite
<1>2. TypeOK /\ pos <= Len(conf.source)
  BY <1>1, WorkingOK
<1>3. LoopOK' /\ Looping
  BY <1>1, <1>2 DEF TypeOK, LoopOK, Looping, PCs, PosOK, CurOK, AtUser, Working, Reading
<1>4. QED
  BY <1>1, <1>3, LoopGoesOn

LEMMA Handle409OK ==
  ASSUME Inv, NEW zeroBased \in BOOLEAN, Handle409(zeroBased)
  PROVE  Inv'
<1> DEFINE found == {Read(i) : i \in {j \in Present : dir[j].user = TheUser.user}}
           s == CHOOSE s \in found : TRUE
<1>1. pc \in Working /\ NoWrite /\ UNCHANGED snapshot /\ UNCHANGED conf
  BY DEF Handle409, Working, NoWrite
<1>2. TypeOK /\ pos <= Len(conf.source)
  BY <1>1, WorkingOK
<1>3. CASE Settle(Plus(result, "conflicts")) /\ UNCHANGED reading
  BY <1>1, <1>3, SettledOK DEF Counters
<1>4. CASE /\ Cardinality(found) = 1
           /\ \/ /\ cur' = Shared(s, FALSE)
                 /\ goal' = "conflict" /\ pc' = "list"
                 /\ UNCHANGED <<listing, sample, looked, pos, result>>
              \/ Reconcile(Shared(s, FALSE), TRUE) /\ UNCHANGED reading
  <2>1. found \subseteq Seen
    BY <1>2, ReadType
  <2>2. found # {}
    BY <1>4, FS_EmptySet
  <2> HIDE DEF found
  <2>3. s \in Seen
    BY <2>1, <2>2
  <2>4. Shared(s, FALSE) \in AtHand
    BY <2>3 DEF Shared, Seen, AtHand
  <2> HIDE DEF s
  <2>5. CASE /\ cur' = Shared(s, FALSE)
             /\ goal' = "conflict" /\ pc' = "list"
             /\ UNCHANGED <<listing, sample, looked, pos, result>>
    <3>1. LoopOK' /\ PreflightOK'
      BY <1>1, <1>2, <2>4, <2>5
         DEF TypeOK, LoopOK, PCs, PosOK, CurOK, AtUser, Working, Reading, PreflightOK
    <3>2. ReadOK'
      BY <1>2, <2>5 DEF TypeOK, ReadOK
    <3>3. SnapOK' /\ DirOK' /\ ConfOK' /\ HistOK'
      BY <1>1, SameSnapshot, NoWriteOK
    <3>4. QED
      BY <3>1, <3>2, <3>3, InvPartsNext
  <2>6. CASE Reconcile(Shared(s, FALSE), TRUE) /\ UNCHANGED reading
    <3>1. LoopOK' /\ Looping
      BY <1>1, <1>2, <2>4, <2>6, ReconcileOK
    <3>2. QED
      BY <1>1, <2>6, <3>1, LoopGoesOn
  <2>7. QED
    BY <1>4, <2>5, <2>6
<1>5. QED
  BY <1>3, <1>4 DEF Handle409

LEMMA Handle409FailsOK ==
  ASSUME Inv, Handle409Fails
  PROVE  Inv'
BY SettledOK DEF Handle409Fails, Working, Counters

\* A write to the account at hand.
LEMMA WriteOK ==
  ASSUME Inv, pc \in Working, NEW i \in AppleIds, NEW a \in Account, Store(i, a), LoopOK', Looping,
         UNCHANGED <<reading, snapshot>>
  PROVE  Inv'
<1>1. DirOK' /\ ConfOK' /\ HistOK'
  BY StoreOK
<1>2. SnapOK' /\ ReadOK'
  BY SameSnapshot, SameReading
<1>3. PreflightOK'
  BY DEF PreflightOK, Looping
<1>4. QED
  BY <1>1, <1>2, <1>3, InvPartsNext

LEMMA RepairExternalIdOK ==
  ASSUME Inv, NEW lost \in BOOLEAN, RepairExternalId(lost)
  PROVE  Inv'
<1> DEFINE a == [dir[cur.id] EXCEPT !.ext = TheUser.ext]
<1>1. /\ pc \in Working /\ pc = "repair" /\ UNCHANGED <<reading, snapshot>> /\ cur.id \in Present
      /\ Store(cur.id, a) /\ UNCHANGED conf
  BY DEF RepairExternalId, Working, Store
<1>2. /\ TypeOK /\ pos <= Len(conf.source) /\ TheUser \in User /\ cur \in AtHand
      /\ \A c \in Counters : Plus(result, c) \in [Counters -> Nat]
  BY <1>1, WorkingOK
<1>3. cur.id \in AppleIds /\ dir[cur.id] \in Account
  BY <1>1, <1>2, ReadType
<1>4. a \in Account
  BY <1>2, <1>3 DEF Account, User
<1>5. LoopOK' /\ Looping
  <2>1. CASE Settle(Plus(result, "errors"))
    BY <1>1, <1>2, <2>1, SettleOK DEF Counters
  <2>2. CASE pc' = "confirm" /\ UNCHANGED <<cur, pos, result>>
    <3>1. result' \in [Counters -> Nat] /\ cur' \in AtHand
      BY <1>2, <2>2 DEF TypeOK
    <3>2. QED
      BY <1>1, <1>2, <2>2, <3>1, StayOK DEF Working
  <2>3. QED
    BY <2>1, <2>2 DEF RepairExternalId
<1>6. QED
  BY <1>1, <1>3, <1>4, <1>5, WriteOK

LEMMA ConfirmRepairOK ==
  ASSUME Inv, ConfirmRepair
  PROVE  Inv'
<1> DEFINE a == [cur EXCEPT !.acc = dir[cur.id]]
<1>1. /\ pc \in Working /\ pc = "confirm" /\ UNCHANGED <<reading, index>> /\ UNCHANGED conf
      /\ cur.id \in Present /\ NoWrite /\ object' = Refreshed(cur.id)
      /\ PatchOrSettle(a, Plus(result, "updated"), TRUE)
  BY DEF ConfirmRepair, Working, NoWrite
<1>2. /\ TypeOK /\ pos <= Len(conf.source) /\ cur \in AtHand
      /\ \A c \in Counters : Plus(result, c) \in [Counters -> Nat]
  BY <1>1, WorkingOK
<1>3. cur.id \in AppleIds /\ dir[cur.id] \in Account /\ a \in AtHand
  BY <1>1, <1>2, ReadType DEF AtHand
<1>4. LoopOK' /\ Looping
  BY <1>1, <1>2, <1>3, PatchOrSettleOK DEF Counters
<1>5. SnapOK'
  <2>1. object' = object \/ object' = [object EXCEPT ![cur.id] = dir[cur.id]]
    BY <1>1 DEF Refreshed
  <2>2. object' \in [AppleIds -> Account \cup {NoAccount}]
    BY <1>2, <1>3, <2>1 DEF TypeOK
  <2>3. ObjectOK'
    <3>1. SUFFICES ASSUME NEW s \in index PROVE object'[s.id] # NoAccount
      BY <1>1 DEF ObjectOK
    <3>2. s.id \in AppleIds /\ object[s.id] # NoAccount
      BY DEF Inv, TypeOK, ObjectOK, Seen
    <3>3. QED
      BY <1>2, <1>3, <2>1, <3>2, ValueAssumption DEF TypeOK
  <2>4. QED
    BY <1>1, <1>2, <2>2, <2>3 DEF SnapOK, TypeOK
<1>6. DirOK' /\ ConfOK' /\ HistOK' /\ ReadOK'
  BY <1>1, NoWriteOK, SameReading
<1>7. PreflightOK'
  BY <1>4 DEF PreflightOK, Looping
<1>8. QED
  BY <1>4, <1>5, <1>6, <1>7, InvPartsNext

LEMMA ConfirmFailsOK ==
  ASSUME Inv, ConfirmFails
  PROVE  Inv'
BY SettledOK DEF ConfirmFails, Working, Counters

LEMMA PatchUserOK ==
  ASSUME Inv, NEW lost \in BOOLEAN, PatchUser(lost)
  PROVE  Inv'
<1>1. /\ pc \in Working /\ pc = "patch" /\ UNCHANGED <<reading, snapshot>> /\ cur.id \in Present
      /\ Store(cur.id, Updated(dir[cur.id], TheUser)) /\ UNCHANGED conf
  BY DEF PatchUser, Working, Store
<1>2. /\ TypeOK /\ pos <= Len(conf.source) /\ TheUser \in User /\ cur \in AtHand
      /\ \A c \in Counters : Plus(result, c) \in [Counters -> Nat]
  BY <1>1, WorkingOK
<1>3. cur.id \in AppleIds /\ dir[cur.id] \in Account
  BY <1>1, <1>2, ReadType
<1>4. Updated(dir[cur.id], TheUser) \in Account
  BY <1>2, <1>3, UpdatedType
<1>5. PICK c \in Counters : Settle(Plus(result, c))
  BY DEF PatchUser, Counters
<1>6. LoopOK' /\ Looping
  BY <1>1, <1>2, <1>5, SettleOK
<1>7. QED
  BY <1>1, <1>3, <1>4, <1>6, WriteOK

LEMMA OutsideChangeOK ==
  ASSUME Inv, OutsideChange
  PROVE  Inv'
<1>1. DirOK'
  BY ChangeOK DEF OutsideChange
<1>2. UNCHANGED <<conf, pc, reading, snapshot, pos, cur, result, wrote>>
  BY DEF OutsideChange
<1>3. UNCHANGED <<goal, listing, sample, looked, index, object>>
  BY <1>2 DEF reading, snapshot
<1>4. ConfOK' /\ ReadOK' /\ SnapOK'
  BY <1>2, SameReading, SameSnapshot DEF Inv, TypeOK, ConfOK
<1>5. HistOK'
  BY <1>2, SyncAssumption DEF OutsideChange, Inv, TypeOK, HistOK
<1>6. LoopOK' /\ PreflightOK'
  BY <1>2, <1>3
     DEF Inv, TypeOK, LoopOK, PCs, PosOK, CurOK, AtUser, Working, Reading, PreflightOK
<1>7. QED
  BY <1>1, <1>4, <1>5, <1>6, InvPartsNext

-----------------------------------------------------------------------------
(* Every reachable state.                                                  *)

LEMMA InitOK ==
  ASSUME Init
  PROVE  Inv
<1>1. PICK f \in [InitialIds -> Account \cup {NoAccount}] :
        dir = [i \in AppleIds |-> IF i \in InitialIds THEN f[i] ELSE NoAccount]
  BY DEF Init
<1>2. DirOK
  <2>1. dir \in [AppleIds -> Account \cup {NoAccount}]
    BY <1>1
  <2>2. Present \subseteq InitialIds
    BY <1>1 DEF Present
  <2>3. QED
    BY <2>1, <2>2, FS_Subset, SyncAssumption DEF DirOK, FiniteOK
<1>3. conf.source \in Seq(User) /\ Len(conf.source) \in Nat
  BY ValueAssumption, LenProperties DEF Init
<1>4. ConfOK /\ LoopOK /\ PreflightOK
  BY <1>3 DEF Init, ConfOK, LoopOK, PCs, PosOK, CurOK, AtUser, Working, Reading, PreflightOK
<1>5. ReadOK
  <2>1. <<>> \in Seq(Seen \cup {NoSeen})
    BY EmptySeq
  <2>2. QED
    BY <2>1 DEF Init, ReadOK, NewListing
<1>6. SnapOK
  BY DEF Init, SnapOK, ObjectOK
<1>7. HistOK
  <2>1. outside \in 0 .. MaxOutside
    BY SyncAssumption DEF Init
  <2>2. wrote \in BOOLEAN
    BY DEF Init
  <2>3. QED
    BY <2>1, <2>2 DEF HistOK
<1>8. QED
  BY <1>2, <1>4, <1>5, <1>6, <1>7, InvParts

LEMMA NextOK ==
  ASSUME Inv, [Next]_vars
  PROVE  Inv'
<1>1. CASE SyncStep
  BY <1>1, ListPageOK, ListSampleOK, LookupUserOK, LookupsDoneOK, VerifyUserOK, VerifyDoneOK,
     ReadFailsOK, MatchUserOK, NameIsNullOK, RefusedOK, CreateConflictsOK, Handle409FailsOK,
     ConfirmRepairOK, ConfirmFailsOK, CreateUserOK, RepairExternalIdOK, PatchUserOK, Handle409OK
     DEF SyncStep
<1>2. CASE OutsideChange
  BY <1>2, OutsideChangeOK
<1>3. CASE UNCHANGED vars
  BY <1>3 DEF vars, Inv, TypeOK, PosOK, CurOK, FiniteOK, ObjectOK, PreflightOK, AtUser, Present
<1>4. QED
  BY <1>1, <1>2, <1>3 DEF Next, Over

LEMMA Invariance == Spec => []Inv
<1>1. Init => Inv
  BY InitOK
<1>2. Inv /\ [Next]_vars => Inv'
  BY NextOK
<1>3. QED
  BY <1>1, <1>2, PTL DEF Spec

\* Every variable of the run keeps its type: in particular the counters stay in
\* Nat, the source user at hand exists while one is needed, and the listing is
\* finite, whatever Apple answers (sync_users, app/scim/apple.py).
THEOREM TypeCorrect == Spec => []TypeOK
<1>1. Inv => TypeOK
  BY DEF Inv
<1>2. QED
  BY <1>1, Invariance, PTL

\* "Failed preflight requests ... stop the sync before user writes": a run that
\* ends in an abort has changed nothing, while a verification after a 409 or a
\* creation fails only its own user.
THEOREM AbortSafe == Spec => []AbortedBeforeWrites
<1>1. Inv => AbortedBeforeWrites
  BY DEF Inv, PreflightOK, AbortedBeforeWrites
<1>2. QED
  BY <1>1, Invariance, PTL
=============================================================================
