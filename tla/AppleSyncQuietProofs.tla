------------------------ MODULE AppleSyncQuietProofs ------------------------
(***************************************************************************)
(* Proofs about AppleSync for runs that nobody interferes with: the run    *)
(* writes only to accounts of its users, leaves a directory that agrees    *)
(* with the source alone, and is right when it reports success.            *)
(***************************************************************************)
EXTENDS AppleSyncProofs

\* What a reading of the directory may show.
Reads == {Read(i) : i \in Present}

SeenOK ==
  /\ listing.seen \subseteq Reads
  /\ pc \notin Reading => listing = NewListing /\ looked = <<>>

\* One entry per account, and the accounts are still there.
IndexOK ==
  /\ \A s \in index : s.id \in Present
  /\ \A s, t \in index : s.id = t.id => s = t
  /\ pc \in Reading /\ goal = "preflight" => index = {}

\* A link the snapshot shows is the account's link, and an account that was
\* read unlinked keeps its userName.
LinkOK ==
  \A s \in index :
    /\ s.acc.ext # NoExt => dir[s.id].ext = s.acc.ext /\ object[s.id].ext = s.acc.ext
    /\ object[s.id].ext # NoExt => dir[s.id].ext = object[s.id].ext
    /\ s.acc.ext = NoExt => dir[s.id].user = s.acc.user

Confirming(s) == pc = "confirm" /\ cur.shared /\ cur.id = s.id
Reported(s) == result["errors"] > 0 /\ \E k \in 1 .. pos - 1 : conf.source[k].user = s.acc.user

\* A link the snapshot does not show was made for an earlier user with the
\* userName of the account, and something failed.
StaleOK ==
  \A s \in index :
    object[s.id].ext = NoExt /\ dir[s.id].ext # NoExt => Reported(s) \/ Confirming(s)

\* Nobody in the snapshot has the externalId or the userName of the user at hand.
Unmatched == \A s \in index : s.acc.ext # TheUser.ext /\ s.acc.user # TheUser.user

\* The account at hand, before it is written to.
HandOK ==
  /\ pc \in {"create", "query"} \/ (pc \in Reading /\ goal = "conflict") => Unmatched
  /\ pc \in {"repair", "confirm", "patch"} =>
       /\ cur.id \in Present
       /\ cur.shared => \E s \in index :
            /\ s.id = cur.id
            /\ \/ s.acc.user = TheUser.user /\ s.acc.ext = NoExt
               \/ s.acc.ext = TheUser.ext /\ pc = "patch"
       /\ ~cur.shared => Unmatched /\ dir[cur.id].user = TheUser.user
  /\ pc = "repair" =>
       /\ conf.recovery
       /\ IF cur.shared THEN object[cur.id].ext = NoExt ELSE dir[cur.id].ext = NoExt
  /\ pc = "confirm" => dir[cur.id].ext = TheUser.ext /\ (cur.shared => object[cur.id].ext = NoExt)
  /\ pc = "patch" => dir[cur.id].ext = TheUser.ext /\ cur.acc.ext = TheUser.ext

LinkInv == SeenOK /\ IndexOK /\ LinkOK /\ StaleOK /\ HandOK

-----------------------------------------------------------------------------
(* Counters.                                                               *)

\* Counters are only raised.
Grown(r) ==
  /\ r \in [Counters -> Nat] /\ result \in [Counters -> Nat]
  /\ \A c \in Counters : r[c] >= result[c]

LEMMA PlusGrown ==
  ASSUME NEW r, Grown(r), NEW c \in Counters
  PROVE  Grown(Plus(r, c)) /\ Plus(r, c)[c] = r[c] + 1 /\ \A d \in Counters \ {c} : Plus(r, c)[d] = r[d]
<1>1. r \in [Counters -> Nat]
  BY DEF Grown
<1>2. Plus(r, c) \in [Counters -> Nat]
  BY <1>1, PlusType
<1>3. \A d \in Counters : Plus(r, c)[d] = IF d = c THEN r[d] + 1 ELSE r[d]
  BY <1>1 DEF Plus
<1>4. ASSUME NEW d \in Counters PROVE Plus(r, c)[d] >= result[d]
  <2>1. r[d] \in Nat /\ result[d] \in Nat /\ r[d] >= result[d]
    BY DEF Grown
  <2>2. Plus(r, c)[d] = r[d] \/ Plus(r, c)[d] = r[d] + 1
    BY <1>3
  <2>3. QED
    BY <2>1, <2>2
<1>5. QED
  BY <1>1, <1>2, <1>3, <1>4 DEF Grown

LEMMA ResultGrown ==
  ASSUME TypeOK, NEW c \in Counters
  PROVE  Grown(Plus(result, c))
<1>1. Grown(result)
  BY DEF Grown, TypeOK
<1>2. QED
  BY <1>1, PlusGrown

\* What a step that takes no decision about an account does to the loop.
Settled(r) == Settle(r) /\ Grown(r)

LEMMA PatchOrSettleSteps ==
  ASSUME NEW a, NEW r, Grown(r), NEW b \in BOOLEAN, PatchOrSettle(a, r, b)
  PROVE  \/ /\ ActionableDiffs(a.acc, TheUser) # {}
            /\ Grown(result') /\ cur' = a /\ pc' = "patch" /\ UNCHANGED pos
            /\ result'["errors"] = r["errors"] /\ result'["conflicts"] = r["conflicts"]
            /\ result'["outOfScope"] = 0 =>
                 FieldDiffs(a.acc, TheUser) \subseteq UpdateFields /\ r["outOfScope"] = 0
         \/ /\ ActionableDiffs(a.acc, TheUser) = {}
            /\ Settled(result')
            /\ result'["errors"] = r["errors"] /\ result'["conflicts"] = r["conflicts"]
            /\ result'["outOfScope"] = 0 =>
                 FieldDiffs(a.acc, TheUser) \subseteq UpdateFields /\ r["outOfScope"] = 0
<1> DEFINE diffs == FieldDiffs(a.acc, TheUser)
           counted == IF diffs \ UpdateFields # {} THEN Plus(r, "outOfScope") ELSE r
           final == IF b THEN counted ELSE Plus(counted, "unchanged")
           Kept(q) == /\ Grown(q) /\ q["errors"] = r["errors"] /\ q["conflicts"] = r["conflicts"]
                      /\ q["outOfScope"] = 0 => diffs \subseteq UpdateFields /\ r["outOfScope"] = 0
<1> "outOfScope" \in Counters /\ "unchanged" \in Counters /\ "errors" \in Counters /\ "conflicts" \in Counters
  BY DEF Counters
<1>1. /\ Grown(Plus(r, "outOfScope")) /\ r["outOfScope"] \in Nat
      /\ Plus(r, "outOfScope")["outOfScope"] = r["outOfScope"] + 1
      /\ Plus(r, "outOfScope")["errors"] = r["errors"]
      /\ Plus(r, "outOfScope")["conflicts"] = r["conflicts"]
  BY PlusGrown DEF Grown
<1>2. Kept(counted)
  BY <1>1
<1> HIDE DEF counted
<1>3. Kept(final)
  <2>1. Grown(counted)
    BY <1>2
  <2>2. /\ Grown(Plus(counted, "unchanged"))
        /\ Plus(counted, "unchanged")["errors"] = counted["errors"]
        /\ Plus(counted, "unchanged")["conflicts"] = counted["conflicts"]
        /\ Plus(counted, "unchanged")["outOfScope"] = counted["outOfScope"]
    <3>1. \A d \in Counters \ {"unchanged"} : Plus(counted, "unchanged")[d] = counted[d]
      BY <2>1, PlusGrown
    <3>2. {"errors", "conflicts", "outOfScope"} \subseteq Counters \ {"unchanged"}
      BY DEF Counters
    <3>3. QED
      BY <2>1, <3>1, <3>2, PlusGrown
  <2>3. QED
    BY <1>2, <2>2
<1> HIDE DEF final
<1>4. CASE ActionableDiffs(a.acc, TheUser) # {}
  <2>1. result' = counted /\ cur' = a /\ pc' = "patch" /\ UNCHANGED pos
    BY <1>4 DEF PatchOrSettle, counted
  <2>2. QED
    BY <1>2, <1>4, <2>1
<1>5. CASE ActionableDiffs(a.acc, TheUser) = {}
  <2>1. Settle(final)
    BY <1>5 DEF PatchOrSettle, counted, final
  <2>2. result' = final
    BY <2>1 DEF Settle
  <2>3. QED
    BY <1>3, <1>5, <2>1, <2>2 DEF Settled
<1>6. QED
  BY <1>4, <1>5

LEMMA ReconcileSteps ==
  ASSUME Inv, NEW a, NEW b \in BOOLEAN, Reconcile(a, b)
  PROVE  \/ Settled(result') /\ result'["conflicts"] > 0
         \/ /\ b /\ a.acc.ext = NoExt /\ conf.recovery
            /\ cur' = a /\ pc' = "repair" /\ UNCHANGED <<pos, result>>
         \/ (b => a.acc.ext = TheUser.ext) /\ PatchOrSettle(a, result, FALSE)
<1>1. CASE Settle(Plus(result, "conflicts"))
  <2>1. Grown(result) /\ "conflicts" \in Counters /\ result["conflicts"] \in Nat
    BY DEF Inv, TypeOK, Grown, Counters
  <2>2. Grown(Plus(result, "conflicts")) /\ Plus(result, "conflicts")["conflicts"] > 0
    BY <2>1, PlusGrown
  <2>3. result' = Plus(result, "conflicts")
    BY <1>1 DEF Settle
  <2>4. QED
    BY <1>1, <2>2, <2>3 DEF Settled
<1>2. CASE b /\ ~CanRecoverByUsername(a.acc, TheUser)
  BY <1>1, <1>2 DEF Reconcile
<1>3. CASE ~(b /\ ~CanRecoverByUsername(a.acc, TheUser))
  BY <1>3 DEF Reconcile, CanRecoverByUsername
<1>4. QED
  BY <1>2, <1>3

LEMMA PlusSettled ==
  ASSUME Inv, NEW c \in Counters, Settle(Plus(result, c))
  PROVE  Settled(result') /\ result'[c] > 0 /\ \A d \in Counters \ {c} : result'[d] = result[d]
<1>1. Grown(result) /\ result[c] \in Nat
  BY DEF Inv, TypeOK, Grown
<1>2. result' = Plus(result, c)
  BY DEF Settle
<1>3. QED
  BY <1>1, <1>2, PlusGrown DEF Settled

\* How a reading may fail.
Stopped ==
  \/ Settled(result') /\ result'["errors"] > 0
  \/ pc' = "aborted" /\ UNCHANGED <<cur, pos, result>>

LEMMA ReadingFailsSteps ==
  ASSUME Inv, ReadingFails
  PROVE  Stopped
BY PlusSettled DEF ReadingFails, Stopped, Counters

-----------------------------------------------------------------------------
(* Steps that do not touch the directory.                                  *)

LEMMA Below ==
  ASSUME NEW p \in Nat, NEW q \in Nat, q >= p, NEW k \in 1 .. p - 1
  PROVE  k \in 1 .. q - 1
OBVIOUS

LEMMA Counting ==
  ASSUME Inv, Grown(result'), pos' \in {pos, pos + 1}
  PROVE  /\ result["errors"] \in Nat /\ result'["errors"] \in Nat /\ result'["errors"] >= result["errors"]
         /\ pos \in Nat /\ pos >= 1 /\ pos' \in Nat /\ pos' >= pos
<1>1. pos \in 1 .. Len(conf.source) + 1 /\ Len(conf.source) \in Nat
  BY ValueAssumption, LenProperties DEF Inv, TypeOK
<1>2. pos \in Nat /\ pos >= 1
  BY <1>1
<1>3. pos' \in Nat /\ pos' >= pos
  BY <1>2
<1>4. QED
  BY <1>2, <1>3 DEF Grown, Counters

LEMMA ReportedStays ==
  ASSUME Inv, Grown(result'), pos' \in {pos, pos + 1}, UNCHANGED conf, NEW s \in index, Reported(s)
  PROVE  Reported(s)'
<1>1. PICK k \in 1 .. pos - 1 : conf.source[k].user = s.acc.user
  BY DEF Reported
<1>2. k \in 1 .. pos' - 1
  BY Counting, Below
<1>3. result'["errors"] > 0
  BY Counting DEF Reported
<1>4. QED
  BY <1>1, <1>2, <1>3 DEF Reported

LEMMA NewlyReported ==
  ASSUME Inv, Grown(result'), result'["errors"] > 0, pos' = pos + 1, UNCHANGED conf,
         NEW s \in index, s.acc.user = TheUser.user
  PROVE  Reported(s)'
<1>1. pos \in Nat /\ pos >= 1
  BY Counting
<1>2. pos \in 1 .. pos' - 1
  BY <1>1
<1>3. QED
  BY <1>2 DEF Reported, TheUser

LEMMA StillOK ==
  ASSUME Inv, LinkInv, UNCHANGED <<dir, conf, index, object>>, Grown(result'), pos' \in {pos, pos + 1},
         pc = "confirm" => (pc' = "confirm" /\ UNCHANGED cur) \/ (result'["errors"] > 0 /\ pos' = pos + 1),
         pc' \in Reading /\ goal' = "preflight" => pc \in Reading /\ goal = "preflight"
  PROVE  IndexOK' /\ LinkOK' /\ StaleOK'
<1>1. IndexOK'
  BY DEF LinkInv, IndexOK, Present
<1>2. LinkOK'
  BY DEF LinkInv, LinkOK
<1>3. StaleOK'
  <2>1. SUFFICES ASSUME NEW s \in index, object[s.id].ext = NoExt, dir[s.id].ext # NoExt
                 PROVE  Reported(s)' \/ Confirming(s)'
    BY DEF StaleOK
  <2>2. CASE Reported(s)
    BY <2>2, ReportedStays
  <2>3. CASE Confirming(s)
    <3>1. PICK t \in index : t.id = cur.id /\ t.acc.user = TheUser.user
      BY <2>3 DEF LinkInv, HandOK, Confirming
    <3>2. t = s
      BY <2>3, <3>1 DEF LinkInv, IndexOK, Confirming
    <3>3. CASE pc' = "confirm" /\ UNCHANGED cur
      BY <2>3, <3>3 DEF Confirming
    <3>4. CASE result'["errors"] > 0 /\ pos' = pos + 1
      BY <3>1, <3>2, <3>4, NewlyReported
    <3>5. QED
      BY <2>3, <3>3, <3>4 DEF Confirming
  <2>4. QED
    BY <2>1, <2>2, <2>3 DEF LinkInv, StaleOK
<1>4. QED
  BY <1>1, <1>2, <1>3

LEMMA SettledHand ==
  ASSUME NEW r, Settle(r)
  PROVE  HandOK' /\ pc' \in {"done", "user"} /\ pos' = pos + 1
BY DEF Settle, HandOK, Reading

\* Done with a user, without a write.
LEMMA SettledLink ==
  ASSUME Inv, LinkInv, UNCHANGED <<dir, conf, index, object>>, Settled(result'), SeenOK',
         pc = "confirm" => result'["errors"] > 0
  PROVE  LinkInv'
<1>1. HandOK' /\ pc' \in {"done", "user"} /\ pos' = pos + 1
  BY SettledHand DEF Settled
<1>2. IndexOK' /\ LinkOK' /\ StaleOK'
  BY <1>1, StillOK DEF Settled, Reading
<1>3. QED
  BY <1>1, <1>2 DEF LinkInv

\* Where the account that _reconcile_diffs is given comes from.
FromSnapshot(a, b) ==
  /\ a.shared
  /\ \E s \in index :
       /\ s.id = a.id /\ a.acc = object[s.id]
       /\ IF b THEN s.acc.user = TheUser.user /\ \A t \in index : t.acc.ext # TheUser.ext
          ELSE s.acc.ext = TheUser.ext
FromDirectory(a) == ~a.shared /\ Unmatched /\ a.id \in Present /\ a.acc = dir[a.id] /\ a.acc.user = TheUser.user

LEMMA ReconcileLink ==
  ASSUME Inv, LinkInv, UNCHANGED <<dir, conf, index, object>>, pc # "confirm", SeenOK',
         pos <= Len(conf.source),
         NEW a \in AtHand, NEW b \in BOOLEAN, Reconcile(a, b), FromSnapshot(a, b) \/ (b /\ FromDirectory(a))
  PROVE  LinkInv'
<1>1. TheUser \in User /\ TheUser.ext # NoExt
  BY TheUserType, SyncAssumption DEF Inv, User
<1>2. CASE Settled(result')
  BY <1>2, SettledLink
<1>3. ASSUME cur' = a, pc' \in {"repair", "patch"}, UNCHANGED pos, Grown(result')
      PROVE  /\ IndexOK' /\ LinkOK' /\ StaleOK' /\ UNCHANGED <<Present, TheUser>>
             /\ Unmatched' = Unmatched
  BY <1>3, StillOK DEF Reading, Present, TheUser, Unmatched
<1>4. ASSUME FromSnapshot(a, b)
      PROVE  \E s \in index : /\ s.id = a.id /\ a.acc = object[s.id] /\ s.id \in Present
                              /\ b /\ a.acc.ext \in {NoExt, TheUser.ext} =>
                                   s.acc.user = TheUser.user /\ s.acc.ext = NoExt
                              /\ ~b => s.acc.ext = TheUser.ext /\ a.acc.ext = TheUser.ext
                              /\ a.acc.ext # NoExt => dir[s.id].ext = a.acc.ext
  BY <1>1, <1>4 DEF FromSnapshot, LinkInv, LinkOK, IndexOK
<1>5. CASE b /\ a.acc.ext = NoExt /\ conf.recovery /\ cur' = a /\ pc' = "repair" /\ UNCHANGED <<pos, result>>
  <2>1. Grown(result')
    BY <1>5 DEF Inv, TypeOK, Grown
  <2>2. /\ IndexOK' /\ LinkOK' /\ StaleOK' /\ UNCHANGED <<Present, TheUser>>
        /\ Unmatched' = Unmatched
    BY <1>3, <1>5, <2>1
  <2>3. HandOK'
    BY <1>4, <1>5, <2>2 DEF HandOK, FromSnapshot, FromDirectory, Reading
  <2>4. QED
    BY <2>2, <2>3 DEF LinkInv
<1>6. CASE (b => a.acc.ext = TheUser.ext) /\ PatchOrSettle(a, result, FALSE)
  <2>1. Grown(result)
    BY DEF Inv, TypeOK, Grown
  <2>2. \/ Settled(result')
        \/ Grown(result') /\ cur' = a /\ pc' = "patch" /\ UNCHANGED pos
    BY <1>6, <2>1, PatchOrSettleSteps
  <2>3. CASE Grown(result') /\ cur' = a /\ pc' = "patch" /\ UNCHANGED pos
    <3>1. /\ IndexOK' /\ LinkOK' /\ StaleOK' /\ UNCHANGED <<Present, TheUser>>
          /\ Unmatched' = Unmatched
      BY <1>3, <2>3
    <3>2. HandOK'
      BY <1>1, <1>4, <1>6, <2>3, <3>1 DEF HandOK, FromSnapshot, FromDirectory, Reading
    <3>3. QED
      BY <3>1, <3>2 DEF LinkInv
  <2>4. QED
    BY <1>2, <2>2, <2>3
<1>7. QED
  BY <1>2, <1>5, <1>6, ReconcileSteps

-----------------------------------------------------------------------------
(* The readings, and the snapshot they leave.                              *)

LEMMA OverSeen ==
  ASSUME ReadingOver
  PROVE  SeenOK'
BY DEF ReadingOver, SeenOK, NewListing

LEMMA IdleSeen ==
  ASSUME LinkInv, pc \notin Reading, UNCHANGED <<listing, looked>>
  PROVE  SeenOK'
BY DEF LinkInv, SeenOK, NewListing

LEMMA ReadsType ==
  ASSUME Inv, NEW s \in Reads
  PROVE  s \in Seen /\ s.id \in Present /\ s = Read(s.id) /\ s.acc = dir[s.id]
BY ReadType DEF Inv, Reads

LEMMA ReadingGoesOnLink ==
  ASSUME Inv, LinkInv, pc \in Reading, pc' \in Reading, UNCHANGED <<goal, cur, pos, result>>,
         UNCHANGED snapshot, NoWrite, listing'.seen \subseteq Reads
  PROVE  LinkInv'
<1>1. UNCHANGED <<dir, conf, index, object>>
  BY DEF NoWrite, snapshot
<1>2. Grown(result')
  BY DEF Inv, TypeOK, Grown
<1>3. IndexOK' /\ LinkOK' /\ StaleOK'
  BY <1>1, <1>2, StillOK DEF Reading
<1>4. SeenOK'
  BY <1>1 DEF SeenOK, Reads, Read, Present
<1>5. HandOK'
  BY <1>1 DEF LinkInv, HandOK, Reading, Unmatched, TheUser
<1>6. QED
  BY <1>3, <1>4, <1>5 DEF LinkInv

LEMMA ReadingEndsLink ==
  ASSUME Inv, LinkInv, pc \in Reading, ReadingFails, ReadingOver, UNCHANGED snapshot, NoWrite
  PROVE  LinkInv'
<1>1. UNCHANGED <<dir, conf, index, object>>
  BY DEF NoWrite, snapshot
<1>2. SeenOK'
  BY OverSeen
<1>3. CASE Settled(result')
  BY <1>1, <1>2, <1>3, SettledLink DEF Reading
<1>4. CASE pc' = "aborted" /\ UNCHANGED <<cur, pos, result>>
  <2>1. Grown(result')
    BY <1>4 DEF Inv, TypeOK, Grown
  <2>2. IndexOK' /\ LinkOK' /\ StaleOK'
    BY <1>1, <1>4, <2>1, StillOK DEF Reading
  <2>3. HandOK'
    BY <1>4 DEF HandOK, Reading
  <2>4. QED
    BY <1>2, <2>2, <2>3 DEF LinkInv
<1>5. QED
  BY <1>3, <1>4, ReadingFailsSteps DEF Stopped

\* The snapshot a reading leaves behind is the directory as it is.
LEMMA SnapshotFresh ==
  ASSUME Inv, NEW S \in SUBSET Reads, ReadingDone(S), goal = "preflight"
  PROVE  /\ index' = S
         /\ \A s \in S : object'[s.id] = dir[s.id] /\ s.acc = dir[s.id] /\ s.id \in Present
         /\ \A s, t \in S : s.id = t.id => s = t
         /\ pc' \in {"user", "done"} /\ (pc' = "done" => conf.source = <<>>)
         /\ UNCHANGED <<cur, pos, result>>
<1>1. /\ index' = S
      /\ object' = [i \in AppleIds |-> IF \E s \in S : s.id = i THEN (CHOOSE s \in S : s.id = i).acc
                                       ELSE NoAccount]
      /\ pc' = IF conf.source = <<>> THEN "done" ELSE "user"
      /\ UNCHANGED <<cur, pos, result>>
  BY DEF ReadingDone
<1>2. ASSUME NEW s \in S
      PROVE  object'[s.id] = dir[s.id] /\ s.acc = dir[s.id] /\ s.id \in Present
  <2>1. s.id \in Present /\ s.acc = dir[s.id] /\ s.id \in AppleIds
    BY ReadsType DEF Present
  <2> DEFINE t == CHOOSE t \in S : t.id = s.id
  <2>2. t \in S /\ t.id = s.id
    OBVIOUS
  <2>3. object'[s.id] = t.acc
    BY <1>1, <2>1
  <2> HIDE DEF t
  <2>4. t.acc = dir[s.id]
    BY <2>2, ReadsType
  <2>5. QED
    BY <2>1, <2>3, <2>4
<1>3. \A s, t \in S : s.id = t.id => s = t
  BY ReadsType
<1>4. QED
  BY <1>1, <1>2, <1>3

LEMMA ReadingSucceedsLink ==
  ASSUME Inv, LinkInv, pc \in Reading, NEW S \in SUBSET Reads, ReadingDone(S), ReadingOver, NoWrite
  PROVE  LinkInv'
<1>1. SeenOK' /\ UNCHANGED <<dir, conf>>
  BY OverSeen DEF NoWrite
<1>2. CASE goal = "preflight"
  <2>1. /\ index' = S
        /\ \A s \in S : object'[s.id] = dir[s.id] /\ s.acc = dir[s.id] /\ s.id \in Present
        /\ \A s, t \in S : s.id = t.id => s = t
        /\ pc' \in {"user", "done"}
    BY <1>2, SnapshotFresh
  <2>2. IndexOK'
    BY <1>1, <2>1 DEF IndexOK, Present, Reading
  <2>3. LinkOK' /\ StaleOK'
    BY <1>1, <2>1 DEF LinkOK, StaleOK
  <2>4. HandOK'
    BY <2>1 DEF HandOK, Reading
  <2>5. QED
    BY <1>1, <2>2, <2>3, <2>4 DEF LinkInv
<1>3. CASE goal = "conflict"
  <2>1. UNCHANGED <<dir, conf, index, object>> /\ Unmatched /\ pos <= Len(conf.source) /\ pc # "confirm"
    BY <1>1, <1>3 DEF ReadingDone, snapshot, LinkInv, HandOK, Inv, PosOK, AtUser, Reading
  <2> DEFINE listed == ByName(S, TheUser.user)
  <2>2. CASE Settle(Plus(result, "errors"))
    <3>1. Settled(result')
      BY <2>2, PlusSettled DEF Counters
    <3>2. QED
      BY <1>1, <2>1, <3>1, SettledLink
  <2>3. CASE listed # NoSeen /\ Reconcile(Shared(listed, FALSE), TRUE)
    <3>1. S \in SUBSET Seen
      BY ReadsType
    <3>2. listed \in S /\ listed.acc.user = TheUser.user
      BY <2>3, <3>1, ByKey
    <3> HIDE DEF listed
    <3>3. listed \in Seen /\ listed.id \in Present /\ listed.acc = dir[listed.id]
      BY <3>2, ReadsType
    <3>4. Shared(listed, FALSE) \in AtHand
      BY <3>3 DEF Shared, Seen, AtHand
    <3>5. FromDirectory(Shared(listed, FALSE))
      BY <2>1, <3>2, <3>3 DEF FromDirectory, Shared
    <3>6. QED
      BY <1>1, <2>1, <2>3, <3>4, <3>5, ReconcileLink
  <2>4. QED
    BY <1>3, <2>2, <2>3 DEF ReadingDone
<1>4. CASE goal = "created"
  <2>1. UNCHANGED <<dir, conf, index, object>> /\ pc # "confirm"
    BY <1>1, <1>4 DEF ReadingDone, snapshot, Reading
  <2>2. PICK c \in Counters : Settle(Plus(result, c))
    BY <1>4 DEF ReadingDone, Counters
  <2>3. Settled(result')
    BY <2>2, PlusSettled
  <2>4. QED
    BY <1>1, <2>1, <2>3, SettledLink
<1>5. QED
  BY <1>2, <1>3, <1>4 DEF Inv, TypeOK

\* A page, a sample, a lookup and a direct read show the directory as it is.
LEMMA ReadingStepsLink ==
  ASSUME Inv, LinkInv,
         ListPage \/ ListSample \/ LookupUser \/ LookupsDone \/ VerifyUser \/ VerifyDone \/ ReadFails
  PROVE  LinkInv'
<1>1. listing.seen \subseteq Reads
  BY DEF LinkInv, SeenOK
<1>2. CASE ListPage
  <2> DEFINE total == Cardinality(Present)
             Rank(i) == Cardinality({j \in Present : j <= i})
             T == {j \in Present : Rank(j) \in listing.start .. listing.start + PageSize - 1}
             new == {Read(i) : i \in T}
             seen == listing.seen \cup new
             start == listing.start + Cardinality(new)
  <2>1. pc \in Reading /\ NoWrite
    BY <1>2 DEF ListPage, Reading
  <2>2. seen \subseteq Reads
    BY <1>1 DEF Reads
  <2>3. CASE ReadingFails /\ ReadingOver /\ UNCHANGED snapshot
    BY <2>1, <2>3, ReadingEndsLink
  <2>4. CASE /\ listing' = [start |-> start, total |-> total, seen |-> seen]
             /\ UNCHANGED <<pc, goal, sample, looked, snapshot, cur, pos, result>>
    <3>1. listing'.seen = seen
      BY <2>4
    <3> HIDE DEF seen
    <3>2. QED
      BY <2>1, <2>2, <2>4, <3>1, ReadingGoesOnLink
  <2>5. CASE ReadingDone(seen) /\ ReadingOver
    <3> HIDE DEF seen
    <3>1. QED
      BY <2>1, <2>2, <2>5, ReadingSucceedsLink
  <2>6. QED
    BY <1>2, <2>3, <2>4, <2>5 DEF ListPage
<1>3. CASE ListSample \/ LookupUser
  <2>1. /\ pc \in Reading /\ NoWrite /\ UNCHANGED snapshot
        /\ \/ ReadingFails /\ ReadingOver
           \/ pc' \in Reading /\ UNCHANGED <<goal, listing, cur, pos, result>>
    BY <1>3 DEF ListSample, LookupUser, Reading
  <2>2. QED
    BY <1>1, <2>1, ReadingEndsLink, ReadingGoesOnLink
<1>4. CASE LookupsDone
  <2>1. /\ pc \in Reading /\ pc' \in Reading /\ NoWrite /\ UNCHANGED snapshot
        /\ UNCHANGED <<goal, listing, cur, pos, result>>
    BY <1>4 DEF LookupsDone, Reading, reading
  <2>2. QED
    BY <1>1, <2>1, ReadingGoesOnLink
<1>5. CASE VerifyUser
  <2>1. pc \in Reading /\ NoWrite /\ UNCHANGED snapshot
    BY <1>5 DEF VerifyUser, Reading
  <2>2. CASE ReadingFails /\ ReadingOver
    BY <2>1, <2>2, ReadingEndsLink
  <2>3. CASE \E i \in Unverified :
               /\ dir[i] # NoAccount
               /\ listing' = [listing EXCEPT !.seen = @ \cup {Read(i)}]
               /\ UNCHANGED <<pc, goal, sample, looked, cur, pos, result>>
    <3>1. PICK i \in Unverified :
               /\ dir[i] # NoAccount
               /\ listing' = [listing EXCEPT !.seen = @ \cup {Read(i)}]
               /\ UNCHANGED <<pc, goal, sample, looked, cur, pos, result>>
      BY <2>3
    <3>2. Read(i) \in Reads
      BY <3>1, UnverifiedType DEF Reads, Present
    <3>3. listing'.seen = listing.seen \cup {Read(i)}
      BY <3>1 DEF Inv, TypeOK
    <3>4. QED
      BY <1>1, <2>1, <3>1, <3>2, <3>3, ReadingGoesOnLink
  <2>4. QED
    BY <1>5, <2>2, <2>3 DEF VerifyUser
<1>6. CASE VerifyDone
  <2>1. pc \in Reading /\ NoWrite /\ ReadingOver
    BY <1>6 DEF VerifyDone, Reading
  <2>2. QED
    BY <1>1, <1>6, <2>1, ReadingEndsLink, ReadingSucceedsLink DEF VerifyDone
<1>7. CASE ReadFails
  BY <1>7, ReadingEndsLink DEF ReadFails, Reading
<1>8. QED
  BY <1>2, <1>3, <1>4, <1>5, <1>6, <1>7

-----------------------------------------------------------------------------
(* The loop.                                                               *)

\* The steps of the loop that end with an error and write nothing.
LEMMA FailsLink ==
  ASSUME Inv, LinkInv, Refused \/ Handle409Fails \/ ConfirmFails
  PROVE  LinkInv'
<1>1. /\ UNCHANGED <<dir, conf, index, object, listing, looked>> /\ pc \notin Reading
      /\ Settle(Plus(result, "errors"))
  BY DEF Refused, Handle409Fails, ConfirmFails, NoWrite, snapshot, reading, Reading
<1>2. Settled(result') /\ result'["errors"] > 0
  BY <1>1, PlusSettled DEF Counters
<1>3. SeenOK'
  BY <1>1, IdleSeen
<1>4. QED
  BY <1>1, <1>2, <1>3, SettledLink

LEMMA MatchUserLink ==
  ASSUME Inv, LinkInv, MatchUser
  PROVE  LinkInv'
<1> DEFINE e == ByExt(index, TheUser.ext)
           n == ByName(index, TheUser.user)
           Object(s) == [id |-> s.id, acc |-> object[s.id], shared |-> TRUE]
<1>1. /\ UNCHANGED <<dir, conf, index, object, listing, looked>> /\ pc = "user" /\ pc \notin Reading
      /\ pc \in Working
  BY DEF MatchUser, NoWrite, snapshot, reading, Reading, Working
<1>2. pos <= Len(conf.source)
  BY <1>1, WorkingOK
<1>3. SeenOK'
  BY <1>1, IdleSeen
<1>4. /\ e # NoSeen => e \in index /\ e.acc.ext = TheUser.ext
      /\ e = NoSeen => \A s \in index : s.acc.ext # TheUser.ext
      /\ n # NoSeen => n \in index /\ n.acc.user = TheUser.user
      /\ n = NoSeen => \A s \in index : s.acc.user # TheUser.user
  <2>1. index \in SUBSET Seen
    BY DEF Inv, TypeOK
  <2>2. /\ e # NoSeen => e \in index /\ e.acc.ext = TheUser.ext
        /\ e = NoSeen => \A s \in index : s.acc.ext # TheUser.ext
    BY <2>1, ByKey
  <2>3. /\ n # NoSeen => n \in index /\ n.acc.user = TheUser.user
        /\ n = NoSeen => \A s \in index : s.acc.user # TheUser.user
    BY <2>1, ByKey
  <2>4. QED
    BY <2>2, <2>3
<1>5. \A s \in index : Object(s) \in AtHand
  BY DEF Inv, ObjectOK, TypeOK, AtHand, Seen
<1> HIDE DEF e, n
<1>6. CASE Settle(Plus(result, "conflicts"))
  <2>1. Settled(result')
    BY <1>6, PlusSettled DEF Counters
  <2>2. QED
    BY <1>1, <1>3, <2>1, SettledLink
<1>7. CASE e # NoSeen /\ Reconcile(Object(e), FALSE)
  <2>1. FromSnapshot(Object(e), FALSE)
    BY <1>4, <1>7 DEF FromSnapshot
  <2>2. Object(e) \in AtHand
    BY <1>4, <1>5, <1>7
  <2> HIDE DEF Object
  <2>3. QED
    BY <1>1, <1>2, <1>3, <1>7, <2>1, <2>2, ReconcileLink
<1>8. CASE e = NoSeen /\ n # NoSeen /\ Reconcile(Object(n), TRUE)
  <2>1. FromSnapshot(Object(n), TRUE)
    BY <1>4, <1>8 DEF FromSnapshot
  <2>2. Object(n) \in AtHand
    BY <1>4, <1>5, <1>8
  <2> HIDE DEF Object
  <2>3. QED
    BY <1>1, <1>2, <1>3, <1>8, <2>1, <2>2, ReconcileLink
<1>9. CASE e = NoSeen /\ n = NoSeen /\ pc' = "create" /\ UNCHANGED <<cur, pos, result>>
  <2>1. Grown(result')
    BY <1>9 DEF Inv, TypeOK, Grown
  <2>2. IndexOK' /\ LinkOK' /\ StaleOK'
    BY <1>1, <1>9, <2>1, StillOK DEF Reading
  <2>3. HandOK'
    BY <1>1, <1>4, <1>9 DEF HandOK, Unmatched, TheUser, Reading
  <2>4. QED
    BY <1>3, <2>2, <2>3 DEF LinkInv
<1>10. QED
  BY <1>6, <1>7, <1>8, <1>9 DEF MatchUser, e, n

LEMMA NameIsNullLink ==
  ASSUME Inv, LinkInv, NameIsNull
  PROVE  LinkInv'
<1>1. /\ UNCHANGED <<dir, conf, index, object, cur, pos, result>>
      /\ pc # "confirm" /\ pc' = "crashed"
  BY DEF NameIsNull, NoWrite, snapshot
<1>2. SeenOK' /\ Grown(result')
  BY <1>1, OverSeen DEF NameIsNull, Inv, TypeOK, Grown
<1>3. IndexOK' /\ LinkOK' /\ StaleOK'
  BY <1>1, <1>2, StillOK DEF Reading
<1>4. HandOK'
  BY <1>1 DEF HandOK, Reading
<1>5. QED
  BY <1>2, <1>3, <1>4 DEF LinkInv

LEMMA CreateConflictsLink ==
  ASSUME Inv, LinkInv, CreateConflicts
  PROVE  LinkInv'
<1>1. /\ UNCHANGED <<dir, conf, index, object, listing, looked, cur, pos, result>>
      /\ pc = "create" /\ pc' = "query" /\ pc \notin Reading
  BY DEF CreateConflicts, NoWrite, snapshot, reading, Reading
<1>2. SeenOK' /\ Grown(result')
  BY <1>1, IdleSeen DEF Inv, TypeOK, Grown
<1>3. IndexOK' /\ LinkOK' /\ StaleOK'
  BY <1>1, <1>2, StillOK DEF Reading
<1>4. HandOK'
  BY <1>1 DEF LinkInv, HandOK, Unmatched, TheUser, Reading
<1>5. QED
  BY <1>2, <1>3, <1>4 DEF LinkInv

LEMMA Handle409Link ==
  ASSUME Inv, LinkInv, NEW zeroBased \in BOOLEAN, Handle409(zeroBased)
  PROVE  LinkInv'
<1> DEFINE found == {Read(i) : i \in {j \in Present : dir[j].user = TheUser.user}}
           s == CHOOSE s \in found : TRUE
<1>1. /\ UNCHANGED <<dir, conf, index, object, listing, looked>> /\ pc = "query" /\ pc \notin Reading
      /\ pc \in Working /\ Unmatched
  BY DEF Handle409, NoWrite, snapshot, reading, Reading, Working, LinkInv, HandOK
<1>2. pos <= Len(conf.source) /\ TypeOK
  BY <1>1, WorkingOK
<1>3. SeenOK'
  BY <1>1, IdleSeen
<1>4. CASE Settle(Plus(result, "conflicts"))
  <2>1. Settled(result')
    BY <1>4, PlusSettled DEF Counters
  <2>2. QED
    BY <1>1, <1>3, <2>1, SettledLink
<1>5. CASE cur' = Shared(s, FALSE) /\ goal' = "conflict" /\ pc' = "list" /\ UNCHANGED <<pos, result>>
  <2>1. Grown(result')
    BY <1>5 DEF Inv, TypeOK, Grown
  <2>2. IndexOK' /\ LinkOK' /\ StaleOK'
    BY <1>1, <1>5, <2>1, StillOK
  <2>3. HandOK'
    BY <1>1, <1>5 DEF HandOK, Unmatched, TheUser
  <2>4. QED
    BY <1>3, <2>2, <2>3 DEF LinkInv
<1>6. CASE Cardinality(found) = 1 /\ Reconcile(Shared(s, FALSE), TRUE)
  <2>1. \A t \in found : t \in Seen /\ t.id \in Present /\ t.acc = dir[t.id] /\ t.acc.user = TheUser.user
    BY <1>2, ReadType
  <2>2. found # {}
    BY <1>6, FS_EmptySet
  <2> HIDE DEF found
  <2>3. s \in found
    BY <2>2
  <2> HIDE DEF s
  <2>4. Shared(s, FALSE) \in AtHand
    BY <2>1, <2>3 DEF Shared, Seen, AtHand
  <2>5. FromDirectory(Shared(s, FALSE))
    BY <1>1, <2>1, <2>3 DEF FromDirectory, Shared
  <2>6. QED
    BY <1>1, <1>2, <1>3, <1>6, <2>4, <2>5, ReconcileLink
<1>7. QED
  BY <1>4, <1>5, <1>6 DEF Handle409

-----------------------------------------------------------------------------
(* The writes.                                                             *)

LEMMA RepairedFields ==
  ASSUME NEW acc \in Account, NEW x
  PROVE  LET r == [acc EXCEPT !.ext = x]
         IN r.ext = x /\ r.user = acc.user /\ r.mail = acc.mail /\ r.other = acc.other
BY DEF Account

\* The diff of an account is decided field by field.
LEMMA DiffFields ==
  ASSUME NEW acc, NEW u
  PROVE  /\ FieldDiffs(acc, u) \subseteq {"externalId", "userName", "emails", "other"}
         /\ "externalId" \in FieldDiffs(acc, u) <=> acc.ext # u.ext
         /\ "userName" \in FieldDiffs(acc, u) <=> acc.user # u.user
         /\ "emails" \in FieldDiffs(acc, u) <=> acc.mail # u.mail
         /\ "other" \in FieldDiffs(acc, u) <=> acc.other # u.other
BY DEF FieldDiffs

\* The fields of an update.
LEMMA UpdatedFields ==
  ASSUME NEW acc \in Account, NEW u \in User
  PROVE  LET fields == IF conf.mode = "replace_all" THEN {"userName", "emails", "other"}
                       ELSE ActionableDiffs(cur.acc, u)
             r == Updated(acc, u)
         IN /\ r.ext = IF "externalId" \in fields THEN u.ext ELSE acc.ext
            /\ r.user = IF "userName" \in fields THEN u.user ELSE acc.user
            /\ r.mail = IF "emails" \in fields THEN u.mail ELSE acc.mail
            /\ r.other = IF "other" \in fields THEN u.other ELSE acc.other
<1> DEFINE fields == IF conf.mode = "replace_all" THEN {"userName", "emails", "other"}
                     ELSE ActionableDiffs(cur.acc, u)
<1>1. Updated(acc, u) =
        [ext   |-> IF "externalId" \in fields THEN u.ext ELSE acc.ext,
         user  |-> IF "userName" \in fields THEN u.user ELSE acc.user,
         mail  |-> IF "emails" \in fields THEN u.mail ELSE acc.mail,
         other |-> IF "other" \in fields THEN u.other ELSE acc.other]
  BY DEF Updated
<1> HIDE DEF fields
<1>2. /\ Updated(acc, u).ext = IF "externalId" \in fields THEN u.ext ELSE acc.ext
      /\ Updated(acc, u).user = IF "userName" \in fields THEN u.user ELSE acc.user
      /\ Updated(acc, u).mail = IF "emails" \in fields THEN u.mail ELSE acc.mail
      /\ Updated(acc, u).other = IF "other" \in fields THEN u.other ELSE acc.other
  BY <1>1
<1>3. QED
  BY <1>2 DEF fields

\* An update of a linked account does not change its link.
LEMMA UpdateKeepsLink ==
  ASSUME NEW acc \in Account, NEW u \in User, cur.acc.ext = u.ext
  PROVE  Updated(acc, u).ext = acc.ext /\ Updated(acc, u).user \in {acc.user, u.user}
<1>1. "externalId" \notin ActionableDiffs(cur.acc, u)
  BY DiffFields DEF ActionableDiffs
<1>2. QED
  BY <1>1, UpdatedFields

\* The directory after a write to account i.
LEMMA StoreFacts ==
  ASSUME Inv, NEW i \in AppleIds, NEW a \in Account, Store(i, a)
  PROVE  /\ \A j \in AppleIds : dir'[j] = IF j = i THEN a ELSE dir[j]
         /\ Present' = Present \cup {i} /\ UNCHANGED conf
<1>1. \A j \in AppleIds : dir'[j] = IF j = i THEN a ELSE dir[j]
  BY DEF Store, Inv, TypeOK
<1>2. a # NoAccount
  BY ValueAssumption
<1>3. QED
  BY <1>1, <1>2 DEF Present, Store

LEMMA CreateUserLink ==
  ASSUME Inv, LinkInv, NEW lost \in BOOLEAN, CreateUser(lost)
  PROVE  LinkInv'
<1>1. /\ UNCHANGED <<index, object, listing, looked>> /\ pc = "create" /\ pc \notin Reading /\ pc \in Working
  BY DEF CreateUser, snapshot, reading, Reading, Working
<1>2. pos <= Len(conf.source) /\ TheUser \in Account
  BY <1>1, WorkingOK
<1>3. PICK i \in AppleIds \ Present : Store(i, TheUser)
  BY DEF CreateUser
<1>4. /\ \A j \in AppleIds : dir'[j] = IF j = i THEN TheUser ELSE dir[j]
      /\ Present' = Present \cup {i} /\ UNCHANGED conf
  BY <1>2, <1>3, StoreFacts
<1>5. \A s \in index : dir'[s.id] = dir[s.id] /\ s.id \in Present'
  BY <1>3, <1>4 DEF LinkInv, IndexOK, Present
<1>6. /\ Grown(result') /\ pos' \in {pos, pos + 1}
      /\ \/ pc' \in {"done", "user"}
         \/ pc' = "lookup" /\ goal' = "created"
  <2>1. CASE \E c \in Counters : Settle(Plus(result, c))
    BY <2>1, PlusSettled DEF Settled, Settle
  <2>2. CASE goal' = "created" /\ pc' = "lookup" /\ UNCHANGED <<pos, result>>
    BY <2>2 DEF Inv, TypeOK, Grown
  <2>3. QED
    BY <2>1, <2>2 DEF CreateUser, Counters
<1>7. SeenOK'
  BY <1>1, IdleSeen
<1>8. IndexOK' /\ LinkOK'
  BY <1>1, <1>5, <1>6 DEF LinkInv, IndexOK, LinkOK, Reading
<1>9. StaleOK'
  BY <1>1, <1>4, <1>5, <1>6, ReportedStays DEF LinkInv, StaleOK, Confirming
<1>10. HandOK'
  BY <1>6 DEF HandOK, Reading
<1>11. QED
  BY <1>7, <1>8, <1>9, <1>10 DEF LinkInv

\* An entry of the account to be linked was read unlinked, and matched by name.
LEMMA RepairedEntry ==
  ASSUME LinkInv, pc = "repair", cur \in AtHand, NEW s \in index, s.id = cur.id
  PROVE  /\ s.acc.ext = NoExt /\ object[s.id].ext = NoExt
         /\ cur.shared /\ s.acc.user = TheUser.user
<1>1. CASE cur.shared
  <2>1. PICK t \in index : t.id = cur.id /\ t.acc.user = TheUser.user /\ t.acc.ext = NoExt
    BY <1>1 DEF LinkInv, HandOK
  <2>2. t = s
    BY <2>1 DEF LinkInv, IndexOK
  <2>3. QED
    BY <1>1, <2>1, <2>2 DEF LinkInv, HandOK
<1>2. CASE ~cur.shared
  <2>1. dir[s.id].ext = NoExt /\ dir[s.id].user = TheUser.user /\ Unmatched
    BY <1>2 DEF LinkInv, HandOK
  <2>2. s.acc.ext = NoExt
    BY <2>1 DEF LinkInv, LinkOK
  <2>3. s.acc.user = TheUser.user
    BY <2>1, <2>2 DEF LinkInv, LinkOK
  <2>4. QED
    BY <2>1, <2>3 DEF Unmatched
<1>3. QED
  BY <1>1, <1>2 DEF AtHand

LEMMA RepairExternalIdLink ==
  ASSUME Inv, LinkInv, NEW lost \in BOOLEAN, RepairExternalId(lost)
  PROVE  LinkInv'
<1> DEFINE a == [dir[cur.id] EXCEPT !.ext = TheUser.ext]
<1>1. /\ UNCHANGED <<index, object, listing, looked>> /\ pc = "repair" /\ pc \notin Reading /\ pc \in Working
      /\ cur.id \in Present /\ Store(cur.id, a)
  BY DEF RepairExternalId, snapshot, reading, Reading, Working
<1>2. TypeOK /\ TheUser \in User /\ cur \in AtHand /\ cur.id \in AppleIds /\ dir[cur.id] \in Account
  BY <1>1, WorkingOK, ReadType
<1>3. a \in Account /\ a.ext = TheUser.ext /\ a.user = dir[cur.id].user
  BY <1>2, RepairedFields DEF Account, User
<1> HIDE DEF a
<1>4. /\ \A j \in AppleIds : dir'[j] = IF j = cur.id THEN a ELSE dir[j]
      /\ Present' = Present /\ UNCHANGED conf
  BY <1>1, <1>2, <1>3, StoreFacts
<1>5. \A s \in index : s.id \in AppleIds /\ s.id \in Present
  BY DEF LinkInv, IndexOK, Present
<1>6. /\ Grown(result')
      /\ \/ Settled(result') /\ result'["errors"] > 0 /\ pos' = pos + 1 /\ pc' \in {"done", "user"}
         \/ pc' = "confirm" /\ UNCHANGED <<cur, pos, result>>
  <2>1. CASE Settle(Plus(result, "errors"))
    BY <2>1, PlusSettled DEF Settled, Settle, Counters
  <2>2. CASE pc' = "confirm" /\ UNCHANGED <<cur, pos, result>>
    BY <2>2 DEF Inv, TypeOK, Grown
  <2>3. QED
    BY <2>1, <2>2 DEF RepairExternalId
<1>7. SeenOK'
  BY <1>1, IdleSeen
<1>8. ASSUME NEW s \in index, s.id = cur.id
      PROVE  /\ s.acc.ext = NoExt /\ object[s.id].ext = NoExt
             /\ cur.shared /\ s.acc.user = TheUser.user
  BY <1>1, <1>2, <1>8, RepairedEntry
<1>9. IndexOK'
  BY <1>1, <1>4, <1>6 DEF LinkInv, IndexOK, Reading
<1>10. LinkOK'
  <2>1. ASSUME NEW s \in index
        PROVE  /\ s.acc.ext # NoExt => dir'[s.id].ext = s.acc.ext /\ object[s.id].ext = s.acc.ext
               /\ object[s.id].ext # NoExt => dir'[s.id].ext = object[s.id].ext
               /\ s.acc.ext = NoExt => dir'[s.id].user = s.acc.user
    <3>1. CASE s.id = cur.id
      BY <1>3, <1>4, <1>5, <1>8, <3>1 DEF LinkInv, LinkOK
    <3>2. CASE s.id # cur.id
      BY <1>4, <1>5, <3>2 DEF LinkInv, LinkOK
    <3>3. QED
      BY <3>1, <3>2
  <2>2. QED
    BY <1>1, <2>1 DEF LinkOK
<1>11. StaleOK'
  <2>1. ASSUME NEW s \in index, object[s.id].ext = NoExt, dir'[s.id].ext # NoExt
        PROVE  Reported(s)' \/ Confirming(s)'
    <3>1. CASE s.id = cur.id
      <4>1. CASE pc' = "confirm" /\ UNCHANGED <<cur, pos, result>>
        BY <1>8, <3>1, <4>1 DEF Confirming
      <4>2. CASE result'["errors"] > 0 /\ pos' = pos + 1
        BY <1>4, <1>6, <1>8, <3>1, <4>2, NewlyReported
      <4>3. QED
        BY <1>6, <4>1, <4>2
    <3>2. CASE s.id # cur.id
      <4>1. Reported(s)
        BY <1>1, <1>4, <1>5, <2>1, <3>2 DEF LinkInv, StaleOK, Confirming
      <4>2. QED
        BY <1>4, <1>6, <4>1, ReportedStays
    <3>3. QED
      BY <3>1, <3>2
  <2>2. QED
    BY <1>1, <2>1 DEF StaleOK
<1>12. HandOK'
  <2>1. CASE Settled(result')
    BY <2>1, SettledHand DEF Settled
  <2>2. CASE pc' = "confirm" /\ UNCHANGED <<cur, pos, result>>
    <3>1. TheUser' = TheUser /\ Unmatched' = Unmatched
      BY <1>1, <1>4, <2>2 DEF TheUser, Unmatched
    <3>2. QED
      BY <1>1, <1>2, <1>3, <1>4, <2>2, <3>1 DEF LinkInv, HandOK, Reading
  <2>3. QED
    BY <1>6, <2>1, <2>2
<1>13. QED
  BY <1>7, <1>9, <1>10, <1>11, <1>12 DEF LinkInv

LEMMA ConfirmRepairLink ==
  ASSUME Inv, LinkInv, ConfirmRepair
  PROVE  LinkInv'
<1> DEFINE a == [cur EXCEPT !.acc = dir[cur.id]]
<1>1. /\ UNCHANGED <<dir, conf, index, listing, looked>> /\ pc = "confirm" /\ pc \notin Reading
      /\ pc \in Working /\ cur.id \in Present /\ object' = Refreshed(cur.id)
      /\ PatchOrSettle(a, Plus(result, "updated"), TRUE)
  BY DEF ConfirmRepair, NoWrite, reading, Reading, Working
<1>2. TypeOK /\ TheUser \in User /\ TheUser.ext # NoExt /\ cur \in AtHand /\ cur.id \in AppleIds
  <2>1. TypeOK /\ TheUser \in User /\ cur \in AtHand /\ cur.id \in AppleIds
    BY <1>1, WorkingOK, ReadType
  <2>2. QED
    BY <2>1, SyncAssumption DEF User
<1>3. a.id = cur.id /\ a.shared = cur.shared /\ a.acc = dir[cur.id] /\ a.acc.ext = TheUser.ext
  BY <1>1, <1>2 DEF AtHand, LinkInv, HandOK
<1> HIDE DEF a
<1>4. /\ Grown(result')
      /\ \/ Settled(result') /\ pos' = pos + 1 /\ pc' \in {"done", "user"}
         \/ cur' = a /\ pc' = "patch" /\ UNCHANGED pos
  <2>1. Grown(Plus(result, "updated"))
    BY <1>2, ResultGrown DEF Counters
  <2>2. QED
    BY <1>1, <2>1, PatchOrSettleSteps DEF Settled, Settle
<1>5. \A s \in index : /\ s.id \in AppleIds /\ s.id \in Present
                       /\ object'[s.id] = IF cur.shared /\ s.id = cur.id THEN dir[s.id] ELSE object[s.id]
  BY <1>1, <1>2 DEF LinkInv, IndexOK, Present, Refreshed, TypeOK
<1>6. SeenOK'
  BY <1>1, IdleSeen
<1>7. IndexOK' /\ LinkOK'
  BY <1>1, <1>4, <1>5 DEF LinkInv, IndexOK, LinkOK, Present, Reading
<1>8. StaleOK'
  <2>1. ASSUME NEW s \in index, object'[s.id].ext = NoExt, dir[s.id].ext # NoExt
        PROVE  Reported(s)'
    <3>1. ~(cur.shared /\ s.id = cur.id) /\ object[s.id].ext = NoExt
      BY <1>5, <2>1
    <3>2. Reported(s)
      BY <2>1, <3>1 DEF LinkInv, StaleOK, Confirming
    <3>3. QED
      BY <1>1, <1>4, <3>2, ReportedStays
  <2>2. QED
    BY <1>1, <2>1 DEF StaleOK
<1>9. HandOK'
  <2>1. CASE Settled(result')
    BY <2>1, SettledHand DEF Settled
  <2>2. CASE cur' = a /\ pc' = "patch" /\ UNCHANGED pos
    <3>1. TheUser' = TheUser /\ Unmatched' = Unmatched /\ Present' = Present
      BY <1>1, <2>2 DEF TheUser, Unmatched, Present
    <3>2. QED
      BY <1>1, <1>2, <1>3, <2>2, <3>1 DEF LinkInv, HandOK, Reading
  <2>3. QED
    BY <1>4, <2>1, <2>2
<1>10. QED
  BY <1>6, <1>7, <1>8, <1>9 DEF LinkInv

LEMMA PatchUserLink ==
  ASSUME Inv, LinkInv, NEW lost \in BOOLEAN, PatchUser(lost)
  PROVE  LinkInv'
<1> DEFINE a == Updated(dir[cur.id], TheUser)
<1>1. /\ UNCHANGED <<index, object, listing, looked>> /\ pc = "patch" /\ pc \notin Reading /\ pc \in Working
      /\ cur.id \in Present /\ Store(cur.id, a)
  BY DEF PatchUser, snapshot, reading, Reading, Working
<1>2. /\ TypeOK /\ TheUser \in User /\ TheUser.ext # NoExt /\ cur \in AtHand /\ cur.id \in AppleIds
      /\ dir[cur.id] \in Account /\ cur.acc.ext = TheUser.ext
  <2>1. TypeOK /\ TheUser \in User /\ cur \in AtHand /\ cur.id \in AppleIds /\ dir[cur.id] \in Account
    BY <1>1, WorkingOK, ReadType
  <2>2. QED
    BY <1>1, <2>1, SyncAssumption DEF User, LinkInv, HandOK
<1>3. a \in Account /\ a.ext = dir[cur.id].ext /\ a.user \in {dir[cur.id].user, TheUser.user}
  BY <1>2, UpdatedType, UpdateKeepsLink
<1> HIDE DEF a
<1>4. /\ \A j \in AppleIds : dir'[j] = IF j = cur.id THEN a ELSE dir[j]
      /\ Present' = Present /\ UNCHANGED conf
  BY <1>1, <1>2, <1>3, StoreFacts
<1>5. \A s \in index : s.id \in AppleIds /\ s.id \in Present
  BY DEF LinkInv, IndexOK, Present
<1>6. Settled(result') /\ Grown(result') /\ pos' = pos + 1 /\ pc' \in {"done", "user"}
  <2>1. PICK c \in Counters : Settle(Plus(result, c))
    BY DEF PatchUser, Counters
  <2>2. QED
    BY <2>1, PlusSettled DEF Settled, Settle
<1>7. SeenOK' /\ HandOK'
  BY <1>1, <1>6, IdleSeen, SettledHand DEF Settled
<1>8. ASSUME NEW s \in index
      PROVE  /\ dir'[s.id].ext = dir[s.id].ext
             /\ s.acc.ext = NoExt => dir'[s.id].user = dir[s.id].user
  <2>1. CASE s.id # cur.id
    BY <1>4, <1>5, <2>1
  <2>2. CASE s.id = cur.id
    <3>1. dir'[s.id] = a
      BY <1>4, <1>5, <2>2
    <3>2. ASSUME s.acc.ext = NoExt PROVE dir[s.id].user = TheUser.user
      <4>1. CASE cur.shared
        <5>1. PICK t \in index : t.id = cur.id /\ (t.acc.user = TheUser.user \/ t.acc.ext = TheUser.ext)
          BY <1>1, <4>1 DEF LinkInv, HandOK
        <5>2. t = s
          BY <2>2, <5>1 DEF LinkInv, IndexOK
        <5>3. s.acc.user = TheUser.user
          BY <1>2, <3>2, <5>1, <5>2
        <5>4. QED
          BY <3>2, <5>3 DEF LinkInv, LinkOK
      <4>2. CASE ~cur.shared
        BY <1>1, <2>2, <4>2 DEF LinkInv, HandOK
      <4>3. QED
        BY <4>1, <4>2
    <3>3. QED
      BY <1>3, <2>2, <3>1, <3>2
  <2>3. QED
    BY <2>1, <2>2
<1>9. IndexOK' /\ LinkOK'
  BY <1>1, <1>4, <1>6, <1>8 DEF LinkInv, IndexOK, LinkOK, Reading
<1>10. StaleOK'
  <2>1. ASSUME NEW s \in index, object[s.id].ext = NoExt, dir'[s.id].ext # NoExt
        PROVE  Reported(s)'
    <3>1. Reported(s)
      BY <1>1, <1>8, <2>1 DEF LinkInv, StaleOK, Confirming
    <3>2. QED
      BY <1>4, <1>6, <3>1, ReportedStays
  <2>2. QED
    BY <1>1, <2>1 DEF StaleOK
<1>11. QED
  BY <1>7, <1>9, <1>10 DEF LinkInv

LEMMA InitLink ==
  ASSUME Init
  PROVE  LinkInv
BY DEF Init, LinkInv, SeenOK, IndexOK, LinkOK, StaleOK, HandOK, NewListing, Reading, Unmatched

LEMMA SyncStepLink ==
  ASSUME Inv, LinkInv, SyncStep
  PROVE  LinkInv'
BY ReadingStepsLink, FailsLink, MatchUserLink, NameIsNullLink, CreateConflictsLink, Handle409Link,
   CreateUserLink, RepairExternalIdLink, ConfirmRepairLink, PatchUserLink
   DEF SyncStep

LEMMA SameLink ==
  ASSUME LinkInv, UNCHANGED vars
  PROVE  LinkInv'
<1>1. UNCHANGED <<Present, Reads, TheUser, Unmatched>>
  BY DEF vars, Present, Reads, Read, TheUser, Unmatched
<1>2. SeenOK' /\ IndexOK'
  BY <1>1 DEF vars, LinkInv, SeenOK, IndexOK
<1>3. LinkOK' /\ StaleOK'
  BY <1>1 DEF vars, LinkInv, LinkOK, StaleOK, Reported, Confirming
<1>4. HandOK'
  BY <1>1 DEF vars, LinkInv, HandOK
<1>5. QED
  BY <1>2, <1>3, <1>4 DEF LinkInv

\* Somebody else's change ends the quiet.
LEMMA QuietSteps ==
  ASSUME Inv, [Next]_vars, Quiet'
  PROVE  Quiet /\ (SyncStep \/ UNCHANGED vars)
<1>1. CASE SyncStep
  <2>1. outside' = outside
    BY <1>1 DEF SyncStep, ListPage, ListSample, LookupUser, LookupsDone, VerifyUser, VerifyDone,
       ReadFails, MatchUser, NameIsNull, Refused, CreateConflicts, Handle409Fails, ConfirmRepair,
       ConfirmFails, CreateUser, RepairExternalId, PatchUser, Handle409, NoWrite, Store
  <2>2. QED
    BY <1>1, <2>1 DEF Quiet
<1>2. CASE OutsideChange
  BY <1>2, SyncAssumption DEF OutsideChange, Quiet, Inv, TypeOK
<1>3. CASE UNCHANGED vars
  BY <1>3 DEF vars, Quiet
<1>4. QED
  BY <1>1, <1>2, <1>3 DEF Next, Over

LinkedWhileQuiet == Quiet => LinkInv

LEMMA LinkInvariance == Spec => []LinkedWhileQuiet
<1>1. Init => LinkedWhileQuiet
  BY InitLink DEF LinkedWhileQuiet
<1>2. Inv /\ LinkedWhileQuiet /\ [Next]_vars => LinkedWhileQuiet'
  BY QuietSteps, SyncStepLink, SameLink DEF LinkedWhileQuiet
<1>3. QED
  BY <1>1, <1>2, Invariance, PTL DEF Spec

-----------------------------------------------------------------------------
(* Only own accounts.                                                      *)

\* The three requests that change the directory.
Writes(lost) == CreateUser(lost) \/ RepairExternalId(lost) \/ PatchUser(lost)

LEMMA WriteSteps ==
  ASSUME SyncStep, dir' # dir
  PROVE  \E lost \in BOOLEAN : Writes(lost)
BY DEF SyncStep, ListPage, ListSample, LookupUser, LookupsDone, VerifyUser, VerifyDone,
   ReadFails, MatchUser, NameIsNull, Refused, CreateConflicts, Handle409Fails, ConfirmRepair,
   ConfirmFails, Handle409, NoWrite, Writes

\* A write changes one account: a new one, or the one at hand.
LEMMA WhatIsWritten ==
  ASSUME Inv, NEW lost \in BOOLEAN, Writes(lost), NEW i \in Present, dir'[i] # dir[i]
  PROVE  i = cur.id /\ pc \in {"repair", "patch"}
<1>1. i \in AppleIds
  BY DEF Present
<1>2. CASE CreateUser(lost)
  <2>1. pc \in Working
    BY <1>2 DEF CreateUser, Working
  <2>2. PICK j \in AppleIds \ Present : Store(j, TheUser)
    BY <1>2 DEF CreateUser
  <2>3. TheUser \in Account
    BY <2>1, WorkingOK
  <2>4. dir'[i] = IF i = j THEN TheUser ELSE dir[i]
    BY <1>1, <2>2, <2>3, StoreFacts
  <2>5. QED
    BY <2>2, <2>4
<1>3. CASE RepairExternalId(lost)
  BY <1>1, <1>3 DEF RepairExternalId, Store, Inv, TypeOK
<1>4. CASE PatchUser(lost)
  BY <1>1, <1>4 DEF PatchUser, Store, Inv, TypeOK
<1>5. QED
  BY <1>2, <1>3, <1>4 DEF Writes

\* A link the snapshot hides belongs to an earlier user of the same name, or
\* follows a failed request; without either the account to be linked is free.
LEMMA FreeToLink ==
  ASSUME Inv, LinkInv, pc = "repair", result["errors"] = 0 \/ SourceIdentitiesValid(conf.source)
  PROVE  dir[cur.id].ext = NoExt /\ dir[cur.id].user = TheUser.user /\ conf.recovery
<1>1. conf.recovery
  BY DEF LinkInv, HandOK
<1>2. CASE ~cur.shared
  BY <1>1, <1>2 DEF LinkInv, HandOK
<1>3. CASE cur.shared
  <2>1. PICK s \in index : s.id = cur.id /\ s.acc.user = TheUser.user /\ s.acc.ext = NoExt
    BY <1>3 DEF LinkInv, HandOK
  <2>2. object[s.id].ext = NoExt /\ dir[s.id].user = TheUser.user
    BY <1>3, <2>1 DEF LinkInv, HandOK, LinkOK
  <2>3. ~Reported(s)
    <3>1. SUFFICES ASSUME Reported(s) PROVE FALSE
      OBVIOUS
    <3>2. result["errors"] \in Nat /\ result["errors"] # 0
      BY <3>1 DEF Reported, Inv, TypeOK, Counters
    <3>3. PICK k \in 1 .. pos - 1 : conf.source[k].user = s.acc.user
      BY <3>1 DEF Reported
    <3>4. pos <= Len(conf.source) /\ pos \in 1 .. Len(conf.source) + 1 /\ Len(conf.source) \in Nat
      BY ValueAssumption, LenProperties DEF Inv, TypeOK, PosOK, AtUser, Working
    <3>5. k \in 1 .. Len(conf.source) /\ pos \in 1 .. Len(conf.source) /\ k # pos
      BY <3>4
    <3>6. conf.source[k].user # conf.source[pos].user
      BY <3>2, <3>5 DEF SourceIdentitiesValid
    <3>7. QED
      BY <2>1, <3>3, <3>6 DEF TheUser
  <2>4. dir[s.id].ext = NoExt
    BY <2>2, <2>3 DEF LinkInv, StaleOK, Confirming
  <2>5. QED
    BY <1>1, <2>1, <2>2, <2>4
<1>4. QED
  BY <1>2, <1>3

\* "A matching username with a different externalId is always a conflict": while
\* nobody else changes the directory, and unless a request of the run has failed
\* and two source users share a userName, the run writes to no account but its
\* user's own, or one that is unlinked when recovery is enabled.
THEOREM OwnAccountsOnly == Spec => OnlyOwnAccounts
<1>1. ASSUME Inv, LinkedWhileQuiet, [Next]_vars, result["errors"] = 0 \/ SourceIdentitiesValid(conf.source)
      PROVE  OwnWrite
  <2>1. SUFFICES ASSUME Quiet, outside' = outside, NEW i \in Present, dir'[i] # dir[i]
                 PROVE  MayWrite(dir[i], TheUser)
    BY DEF OwnWrite
  <2>2. LinkInv /\ SyncStep
    BY <1>1, <2>1, QuietSteps DEF Quiet, LinkedWhileQuiet, vars
  <2>3. PICK lost \in BOOLEAN : Writes(lost)
    BY <2>1, <2>2, WriteSteps
  <2>4. i = cur.id /\ pc \in {"repair", "patch"}
    BY <1>1, <2>1, <2>3, WhatIsWritten
  <2>5. CASE pc = "repair"
    BY <1>1, <2>2, <2>4, <2>5, FreeToLink DEF MayWrite
  <2>6. CASE pc = "patch"
    BY <2>2, <2>4, <2>6 DEF LinkInv, HandOK, MayWrite
  <2>7. QED
    BY <2>4, <2>5, <2>6
<1>2. QED
  BY <1>1, Invariance, LinkInvariance, PTL DEF Spec, OnlyOwnAccounts

-----------------------------------------------------------------------------
(* One account per user: the snapshot is complete for the source users, and *)
(* while a user is at hand no other account has its externalId.             *)

DistinctOK(S) == \A x, y \in S : x.acc.ext = y.acc.ext /\ x.acc.ext # NoExt => x = y

\* The progress of a listing is the number of accounts seen.
ListedOK ==
  /\ DistinctOK(listing.seen) /\ IsFiniteSet(listing.seen)
  /\ pc = "list" => listing.start = Cardinality(listing.seen) + 1 /\ looked = <<>>

\* A lookup by externalId found the only account that has it, if there is one.
LookedOK ==
  pc \in {"lookup", "verify"} /\ goal = "preflight" =>
    /\ pc = "verify" => Len(looked) = 2 * Len(conf.source)
    /\ \A k \in 1 .. Len(conf.source) : 2 * k - 1 <= Len(looked) =>
         \A i \in Present : dir[i].ext = conf.source[k].ext => looked[2 * k - 1] = Read(i)

Expected(k) ==
  \A i \in Present : dir[i].ext = conf.source[k].ext =>
    \E s \in index : s.id = i /\ s.acc.ext = conf.source[k].ext

Nobody == \A i \in Present : dir[i].ext # TheUser.ext
OnlyAtHand == \A i \in Present : dir[i].ext = TheUser.ext => i = cur.id

ExpectOK ==
  /\ AtUser => \A k \in pos + 1 .. Len(conf.source) : Expected(k)
  /\ pc = "user" => Expected(pos)
  /\ pc \in {"create", "query", "repair"} \/ (pc \in Reading /\ goal = "conflict") => Nobody
  /\ pc \in {"confirm", "patch"} \/ (pc \in Reading /\ goal = "created") => OnlyAtHand

OneInv == DistinctOK(index) /\ ListedOK /\ LookedOK /\ ExpectOK

LEMMA SourceBounds ==
  ASSUME Inv
  PROVE  /\ conf.source \in Seq(User) /\ Len(conf.source) \in Nat /\ pos \in Nat /\ pos >= 1
         /\ \A k \in 1 .. Len(conf.source) : conf.source[k] \in User /\ conf.source[k].ext # NoExt
<1>1. conf.source \in Seq(User) /\ Len(conf.source) \in Nat /\ pos \in 1 .. Len(conf.source) + 1
  BY ValueAssumption, LenProperties DEF Inv, TypeOK
<1>2. \A k \in 1 .. Len(conf.source) : conf.source[k] \in User
  BY <1>1, ElementOfSeq
<1>3. QED
  BY <1>1, <1>2, SyncAssumption DEF User

LEMMA NewListed ==
  ASSUME listing = NewListing, looked = <<>>
  PROVE  ListedOK
BY FS_EmptySet DEF NewListing, ListedOK, DistinctOK

LEMMA NewListedNext ==
  ASSUME listing' = NewListing, looked' = <<>>
  PROVE  ListedOK'
BY FS_EmptySet DEF NewListing, ListedOK, DistinctOK

\* Outside of the readings.
LEMMA IdleListed ==
  ASSUME SeenOK', pc' \notin Reading
  PROVE  ListedOK' /\ LookedOK'
<1>1. ListedOK'
  BY NewListedNext DEF SeenOK
<1>2. LookedOK'
  BY DEF LookedOK, Reading
<1>3. QED
  BY <1>1, <1>2

\* The later users: the steps of one user touch no account of another.
LEMMA LaterUsers ==
  ASSUME Inv, AtUser, ExpectOK, UNCHANGED <<conf, index>>,
         \A i \in Present' : dir'[i].ext = TheUser.ext \/ (i \in Present /\ dir'[i].ext = dir[i].ext)
  PROVE  \A k \in pos + 1 .. Len(conf.source) : Expected(k)'
<1>1. TAKE k \in pos + 1 .. Len(conf.source)
<1>2. /\ k \in 1 .. Len(conf.source) /\ pos \in 1 .. Len(conf.source) /\ k # pos
  BY SourceBounds DEF Inv, PosOK
<1>3. conf.source[k].ext # TheUser.ext
  BY <1>2, PrimaryKeysDistinct DEF TheUser, Inv, TypeOK
<1>4. Expected(k)
  BY DEF ExpectOK
<1>5. QED
  BY <1>3, <1>4 DEF Expected

\* The next user is at hand, or the loop is over.
LEMMA SettledExpect ==
  ASSUME Inv, AtUser, ExpectOK, UNCHANGED <<conf, index>>, NEW r, Settle(r),
         \A i \in Present' : dir'[i].ext = TheUser.ext \/ (i \in Present /\ dir'[i].ext = dir[i].ext)
  PROVE  ExpectOK'
<1>1. \A k \in pos + 1 .. Len(conf.source) : Expected(k)'
  BY LaterUsers
<1>2. pos' = pos + 1 /\ pc' = IF pos = Len(conf.source) THEN "done" ELSE "user"
  BY DEF Settle
<1>3. pos \in Nat /\ Len(conf.source) \in Nat /\ pos <= Len(conf.source)
  BY SourceBounds DEF Inv, PosOK
<1>4. pc' = "user" => pos' \in pos + 1 .. Len(conf.source)
  BY <1>2, <1>3
<1>5. pc' = "user" => Expected(pos)'
  <2>1. ASSUME pc' = "user" PROVE Expected(pos)'
    <3>1. PICK k \in pos + 1 .. Len(conf.source) : k = pos'
      BY <1>4, <2>1
    <3>2. Expected(k)'
      BY <1>1
    <3>3. QED
      BY <3>1, <3>2 DEF Expected
  <2>2. QED
    BY <2>1
<1>6. AtUser' => \A k \in pos' + 1 .. Len(conf'.source) : Expected(k)'
  <2>1. pos' + 1 .. Len(conf.source) \subseteq pos + 1 .. Len(conf.source)
    BY <1>2, <1>3
  <2>2. QED
    BY <1>1, <2>1
<1>7. QED
  BY <1>2, <1>5, <1>6 DEF ExpectOK, Reading

\* The same user stays at hand.
LEMMA StayExpect ==
  ASSUME Inv, AtUser, ExpectOK, UNCHANGED <<conf, index, pos>>, pc' # "user",
         \A i \in Present' : dir'[i].ext = TheUser.ext \/ (i \in Present /\ dir'[i].ext = dir[i].ext),
         pc' \in {"create", "query", "repair"} \/ (pc' \in Reading /\ goal' = "conflict") => Nobody',
         pc' \in {"confirm", "patch"} \/ (pc' \in Reading /\ goal' = "created") => OnlyAtHand'
  PROVE  ExpectOK'
<1>1. \A k \in pos + 1 .. Len(conf.source) : Expected(k)'
  BY LaterUsers
<1>2. QED
  BY <1>1 DEF ExpectOK

LEMMA SameDirectory ==
  ASSUME UNCHANGED dir
  PROVE  \A i \in Present' : i \in Present /\ dir'[i].ext = dir[i].ext
BY DEF Present

\* An account for the user at hand, or none.
LEMMA ReconcileExpect ==
  ASSUME Inv, AtUser, ExpectOK, UNCHANGED <<dir, conf, index>>,
         NEW a \in AtHand, NEW b \in BOOLEAN, Reconcile(a, b),
         b => Nobody, \A i \in Present : dir[i].ext = TheUser.ext => i = a.id
  PROVE  ExpectOK'
<1>1. \A i \in Present' : i \in Present /\ dir'[i].ext = dir[i].ext
  BY SameDirectory
<1>2. CASE Settled(result')
  BY <1>1, <1>2, SettledExpect DEF Settled
<1>3. CASE b /\ cur' = a /\ pc' = "repair" /\ UNCHANGED pos
  <2>1. Nobody'
    BY <1>1, <1>3 DEF Nobody, TheUser
  <2>2. QED
    BY <1>1, <1>3, <2>1, StayExpect DEF Reading
<1>4. CASE cur' = a /\ pc' = "patch" /\ UNCHANGED pos
  <2>1. OnlyAtHand'
    BY <1>1, <1>4 DEF OnlyAtHand, TheUser
  <2>2. QED
    BY <1>1, <1>4, <2>1, StayExpect DEF Reading
<1>5. Grown(result)
  BY DEF Inv, TypeOK, Grown
<1>6. QED
  BY <1>2, <1>3, <1>4, <1>5, ReconcileSteps, PatchOrSettleSteps

-----------------------------------------------------------------------------
(* The readings: nothing is overlooked.                                    *)

LEMMA ReadingGoesOnOne ==
  ASSUME Inv, LinkInv, OneInv, pc \in Reading, pc' \in Reading, UNCHANGED <<goal, cur, pos, result>>,
         UNCHANGED snapshot, NoWrite, ListedOK', LookedOK'
  PROVE  OneInv'
<1>1. UNCHANGED <<dir, conf, index, object>>
  BY DEF NoWrite, snapshot
<1>2. DistinctOK(index)'
  BY <1>1 DEF OneInv, DistinctOK
<1>3. ExpectOK'
  <2>1. CASE goal = "preflight"
    BY <2>1 DEF ExpectOK, AtUser, Working, Reading
  <2>2. CASE goal # "preflight"
    <3>1. \A i \in Present' : i \in Present /\ dir'[i].ext = dir[i].ext
      BY <1>1, SameDirectory
    <3>2. AtUser /\ ExpectOK
      BY <2>2 DEF AtUser, OneInv
    <3>3. goal = "conflict" => Nobody'
      BY <1>1, <3>1 DEF OneInv, ExpectOK, Nobody, TheUser
    <3>4. goal = "created" => OnlyAtHand'
      BY <1>1, <3>1 DEF OneInv, ExpectOK, OnlyAtHand, TheUser
    <3>5. QED
      BY <1>1, <3>1, <3>2, <3>3, <3>4, StayExpect DEF Reading
  <2>3. QED
    BY <2>1, <2>2
<1>4. QED
  BY <1>2, <1>3 DEF OneInv

LEMMA ReadingEndsOne ==
  ASSUME Inv, LinkInv, OneInv, pc \in Reading, ReadingFails, ReadingOver, UNCHANGED snapshot, NoWrite
  PROVE  OneInv'
<1>1. UNCHANGED <<dir, conf, index, object>>
  BY DEF NoWrite, snapshot
<1>2. DistinctOK(index)'
  BY <1>1 DEF OneInv, DistinctOK
<1>3. CASE goal = "preflight"
  <2>1. pc' = "aborted"
    BY <1>3 DEF ReadingFails
  <2>2. ExpectOK' /\ pc' \notin Reading
    BY <2>1 DEF ExpectOK, AtUser, Working, Reading
  <2>3. QED
    BY <1>2, <2>2, OverSeen, IdleListed DEF OneInv
<1>4. CASE goal # "preflight"
  <2>1. Settle(Plus(result, "errors")) /\ AtUser /\ ExpectOK
    BY <1>4 DEF ReadingFails, AtUser, OneInv
  <2>2. ExpectOK'
    BY <1>1, <2>1, SameDirectory, SettledExpect
  <2>3. pc' \notin Reading
    BY <2>1 DEF Settle, Reading
  <2>4. QED
    BY <1>2, <2>2, <2>3, OverSeen, IdleListed DEF OneInv
<1>5. QED
  BY <1>3, <1>4

\* S shows every account that has the externalId of a source user.
Complete(S) ==
  \A k \in 1 .. Len(conf.source), i \in Present : dir[i].ext = conf.source[k].ext => Read(i) \in S

LEMMA ReadingSucceedsOne ==
  ASSUME Inv, LinkInv, OneInv, pc \in Reading, NEW S \in SUBSET Reads, ReadingDone(S), ReadingOver, NoWrite,
         DistinctOK(S), goal = "preflight" => Complete(S)
  PROVE  OneInv'
<1>1. SeenOK' /\ UNCHANGED <<dir, conf>>
  BY OverSeen DEF NoWrite
<1>2. \A i \in Present' : i \in Present /\ dir'[i].ext = dir[i].ext
  BY <1>1, SameDirectory
<1>3. CASE goal = "preflight"
  <2>1. index' = S /\ pc' \in {"user", "done"} /\ UNCHANGED <<cur, pos, result>>
    BY <1>3, SnapshotFresh
  <2>2. DistinctOK(index)'
    BY <2>1 DEF DistinctOK
  <2>3. \A k \in 1 .. Len(conf.source) : Expected(k)'
    <3>1. SUFFICES ASSUME NEW k \in 1 .. Len(conf.source), NEW i \in Present, dir[i].ext = conf.source[k].ext
                   PROVE  \E s \in S : s.id = i /\ s.acc.ext = conf.source[k].ext
      BY <1>1, <1>2, <2>1 DEF Expected
    <3>2. Read(i) \in S
      BY <1>3, <3>1 DEF Complete
    <3>3. Read(i).id = i /\ Read(i).acc = dir[i]
      BY ReadType DEF Inv
    <3>4. QED
      BY <3>1, <3>2, <3>3
  <2>4. pos = 1
    BY <1>3 DEF Inv, PosOK
  <2>5. pc' = "user" => 1 \in 1 .. Len(conf.source)
    <3>1. ReadingDone(S) /\ goal = "preflight" => pc' = IF conf.source = <<>> THEN "done" ELSE "user"
      BY DEF ReadingDone
    <3>2. conf.source # <<>> => 1 <= Len(conf.source)
      BY SourceBounds, EmptySeq
    <3>3. QED
      BY <1>3, <3>1, <3>2, SourceBounds
  <2>6. pc' = "user" => Expected(pos)'
    <3>1. pc' = "user" => Expected(1)'
      BY <2>3, <2>5
    <3>2. QED
      BY <2>1, <2>4, <3>1 DEF Expected
  <2>7. AtUser' => \A k \in pos' + 1 .. Len(conf'.source) : Expected(k)'
    <3>1. pos' + 1 .. Len(conf'.source) \subseteq 1 .. Len(conf.source)
      BY <1>1, <2>1, <2>4, SourceBounds
    <3>2. QED
      BY <2>3, <3>1
  <2>8. ExpectOK' /\ pc' \notin Reading
    BY <2>1, <2>6, <2>7 DEF ExpectOK, Reading
  <2>9. QED
    BY <1>1, <2>2, <2>8, IdleListed DEF OneInv
<1>4. ASSUME goal # "preflight"
      PROVE  /\ AtUser /\ ExpectOK /\ UNCHANGED <<dir, conf, index>> /\ DistinctOK(index)'
             /\ pos <= Len(conf.source)
  BY <1>1, <1>4 DEF AtUser, OneInv, ReadingDone, snapshot, DistinctOK, Inv, PosOK
<1>5. CASE goal = "conflict"
  <2> DEFINE listed == ByName(S, TheUser.user)
  <2>1. Nobody /\ goal # "preflight"
    BY <1>5 DEF OneInv, ExpectOK
  <2>2. CASE Settle(Plus(result, "errors"))
    <3>1. ExpectOK' /\ pc' \notin Reading
      BY <1>2, <1>4, <2>1, <2>2, SettledExpect DEF Settle, Reading
    <3>2. QED
      BY <1>1, <1>4, <2>1, <3>1, IdleListed DEF OneInv
  <2>3. CASE listed # NoSeen /\ Reconcile(Shared(listed, FALSE), TRUE)
    <3>1. S \in SUBSET Seen
      BY ReadsType
    <3>2. listed \in Seen
      BY <2>3, <3>1, ByKey
    <3> HIDE DEF listed
    <3>3. Shared(listed, FALSE) \in AtHand
      BY <3>2 DEF Shared, Seen, AtHand
    <3>4. ExpectOK'
      BY <1>4, <2>1, <2>3, <3>3, ReconcileExpect DEF Nobody
    <3>5. pc' \notin Reading
      BY <1>1, <1>4, <2>1, <2>3, <3>3, ReconcileOK DEF Inv, Looping
    <3>6. QED
      BY <1>1, <1>4, <2>1, <3>4, <3>5, IdleListed DEF OneInv
  <2>4. QED
    BY <1>5, <2>2, <2>3 DEF ReadingDone
<1>6. CASE goal = "created"
  <2>1. PICK c \in Counters : Settle(Plus(result, c))
    BY <1>6 DEF ReadingDone, Counters
  <2>2. ExpectOK' /\ pc' \notin Reading
    BY <1>2, <1>4, <1>6, <2>1, SettledExpect DEF Settle, Reading
  <2>3. QED
    BY <1>1, <1>4, <1>6, <2>2, IdleListed DEF OneInv
<1>7. QED
  BY <1>3, <1>5, <1>6 DEF Inv, TypeOK

LEMMA DistinctUnion ==
  ASSUME Inv, NEW old \in SUBSET Reads, NEW new \in SUBSET Reads, DistinctOK(old), Indexable(old, new)
  PROVE  DistinctOK(old \cup new) /\ old \cap new = {}
<1>1. \A x \in old, y \in new : x # y /\ ~(x.acc.ext = y.acc.ext /\ x.acc.ext # NoExt)
  BY DEF Indexable, Clash
<1>2. ASSUME NEW x \in new, NEW y \in new, x.acc.ext = y.acc.ext, x.acc.ext # NoExt
      PROVE  x = y
  <2>1. x.id = y.id
    BY <1>2 DEF Indexable, Clash
  <2>2. QED
    BY <2>1, ReadsType
<1>3. QED
  BY <1>1, <1>2 DEF DistinctOK

\* The listing ends when as many accounts have been seen as there are.
LEMMA ListPageOne ==
  ASSUME Inv, LinkInv, OneInv, ListPage
  PROVE  OneInv'
<1> DEFINE total == Cardinality(Present)
           Rank(i) == Cardinality({j \in Present : j <= i})
           T == {j \in Present : Rank(j) \in listing.start .. listing.start + PageSize - 1}
           new == {Read(i) : i \in T}
           seen == listing.seen \cup new
           start == listing.start + Cardinality(new)
<1>1. pc = "list" /\ pc \in Reading /\ NoWrite
  BY DEF ListPage, Reading
<1>2. T \in SUBSET Present
  OBVIOUS
<1>3. new \subseteq Reads
  BY DEF Reads
<1> HIDE DEF T
<1>4. IsFiniteSet(new) /\ Cardinality(new) \in Nat
  BY <1>2, ReadsFinite
<1>5. IsFiniteSet(Reads) /\ Cardinality(Reads) = total /\ total \in Nat
  BY ReadsFinite DEF Reads
<1>6. /\ listing.seen \subseteq Reads /\ DistinctOK(listing.seen) /\ IsFiniteSet(listing.seen)
      /\ Cardinality(listing.seen) \in Nat
      /\ listing.start = Cardinality(listing.seen) + 1 /\ looked = <<>>
  BY <1>1, FS_CardinalityType DEF LinkInv, SeenOK, OneInv, ListedOK
<1> HIDE DEF new
<1>7. ASSUME Indexable(listing.seen, new)
      PROVE  /\ seen \subseteq Reads /\ DistinctOK(seen) /\ IsFiniteSet(seen)
             /\ start = Cardinality(seen) + 1
             /\ start > total => seen = Reads
  <2>1. DistinctOK(seen) /\ listing.seen \cap new = {} /\ seen \subseteq Reads
    BY <1>3, <1>6, <1>7, DistinctUnion
  <2>2. IsFiniteSet(seen) /\ Cardinality(seen) = Cardinality(listing.seen) + Cardinality(new)
    <3>1. /\ IsFiniteSet(seen)
          /\ Cardinality(seen) =
               Cardinality(listing.seen) + Cardinality(new) - Cardinality(listing.seen \cap new)
      BY <1>4, <1>6, FS_Union
    <3>2. Cardinality(listing.seen \cap new) = 0
      BY <2>1, FS_EmptySet
    <3>3. QED
      BY <1>4, <1>6, <3>1, <3>2
  <2>3. start = Cardinality(seen) + 1
    BY <1>4, <1>6, <2>2
  <2>4. start > total => seen = Reads
    <3>1. Cardinality(seen) <= Cardinality(Reads) /\ (Cardinality(Reads) = Cardinality(seen) => Reads = seen)
      BY <1>5, <2>1, FS_Subset
    <3>2. Cardinality(seen) \in Nat
      BY <2>2, FS_CardinalityType
    <3>3. QED
      BY <1>5, <2>3, <3>1, <3>2
  <2>5. QED
    BY <2>1, <2>2, <2>3, <2>4
<1>8. CASE ReadingFails /\ ReadingOver /\ UNCHANGED snapshot
  BY <1>1, <1>8, ReadingEndsOne
<1>9. CASE /\ Indexable(listing.seen, new)
           /\ listing' = [start |-> start, total |-> total, seen |-> seen]
           /\ UNCHANGED <<pc, goal, sample, looked, snapshot, cur, pos, result>>
  <2>1. listing'.seen = seen /\ listing'.start = start
    BY <1>9
  <2> HIDE DEF seen, start
  <2>2. ListedOK'
    BY <1>6, <1>7, <1>9, <2>1 DEF ListedOK, DistinctOK
  <2>3. LookedOK'
    BY <1>1, <1>9 DEF LookedOK
  <2>4. QED
    BY <1>1, <1>9, <2>2, <2>3, ReadingGoesOnOne
<1>10. CASE Indexable(listing.seen, new) /\ ~(start <= total) /\ ReadingDone(seen) /\ ReadingOver
  <2>1. start \in Nat
    BY <1>4, <1>6
  <2>2. start > total
    BY <1>5, <1>10, <2>1
  <2>3. seen = Reads /\ DistinctOK(seen)
    BY <1>7, <1>10, <2>2
  <2> HIDE DEF seen
  <2>4. Complete(seen)
    BY <2>3 DEF Complete, Reads
  <2>5. QED
    BY <1>1, <1>10, <2>3, <2>4, ReadingSucceedsOne
<1>11. QED
  BY <1>8, <1>9, <1>10 DEF ListPage, PageAccepted, new, T

LEMMA ListSampleOne ==
  ASSUME Inv, LinkInv, OneInv, ListSample
  PROVE  OneInv'
<1>1. pc = "list" /\ pc \in Reading /\ NoWrite /\ UNCHANGED snapshot
  BY DEF ListSample, Reading
<1>2. CASE ReadingFails /\ ReadingOver
  BY <1>1, <1>2, ReadingEndsOne
<1>3. CASE pc' = "lookup" /\ UNCHANGED <<goal, listing, looked, cur, pos, result>>
  <2>1. ListedOK'
    BY <1>1, <1>3 DEF OneInv, ListedOK, DistinctOK
  <2>2. LookedOK'
    <3>1. Len(looked') = 0
      BY <1>1, <1>3, EmptySeq DEF OneInv, ListedOK
    <3>2. \A k \in 1 .. Len(conf.source) : ~(2 * k - 1 <= 0)
      BY SourceBounds
    <3>3. QED
      BY <1>1, <1>3, <3>1, <3>2 DEF LookedOK, NoWrite
  <2>3. QED
    BY <1>1, <1>3, <2>1, <2>2, ReadingGoesOnOne DEF Reading
<1>4. QED
  BY <1>2, <1>3 DEF ListSample

LEMMA LookupUserOne ==
  ASSUME Inv, LinkInv, OneInv, LookupUser
  PROVE  OneInv'
<1> DEFINE k == Len(looked) + 1
           u == Lookups[(k + 1) \div 2]
           byExt == k % 2 = 1
           Matches(acc) == IF byExt THEN acc.ext = u.ext ELSE acc.user = u.user
           found == {Read(i) : i \in {j \in Present : Matches(dir[j])}}
           one == IF found = {} THEN NoSeen ELSE CHOOSE s \in found : TRUE
<1>1. pc = "lookup" /\ pc \in Reading /\ NoWrite /\ UNCHANGED snapshot
  BY DEF LookupUser, Reading
<1>2. CASE ReadingFails /\ ReadingOver
  BY <1>1, <1>2, ReadingEndsOne
<1>3. CASE /\ Cardinality(found) <= 1
           /\ looked' = Append(looked, one)
           /\ UNCHANGED <<pc, goal, listing, sample, cur, pos, result>>
  <2>1. ListedOK'
    BY <1>1, <1>3 DEF OneInv, ListedOK, DistinctOK
  <2>2. /\ looked \in Seq(Seen \cup {NoSeen}) /\ Len(looked) \in Nat /\ Len(looked') = Len(looked) + 1
        /\ looked'[Len(looked) + 1] = one
        /\ \A m \in 1 .. Len(looked) : looked'[m] = looked[m]
    <3>1. looked \in Seq(Seen \cup {NoSeen}) /\ one \in Seen \cup {NoSeen}
      <4>1. found \subseteq Seen
        BY ReadType DEF Inv
      <4> HIDE DEF found
      <4>2. QED
        BY <4>1 DEF Inv, TypeOK
    <3> HIDE DEF one
    <3>2. QED
      BY <1>3, <3>1, LenProperties, AppendProperties
  <2>3. \A i \in Present : byExt /\ dir[i].ext = u.ext => one = Read(i)
    <3>1. SUFFICES ASSUME NEW i \in Present, byExt, dir[i].ext = u.ext PROVE one = Read(i)
      OBVIOUS
    <3>2. Read(i) \in found
      BY <3>1
    <3>3. found \subseteq {Read(j) : j \in Present}
      OBVIOUS
    <3>4. IsFiniteSet(found)
      BY <3>3, ReadsFinite, FS_Subset
    <3> HIDE DEF found
    <3>5. found # {} /\ Cardinality(found) = 1
      BY <1>3, <3>2, <3>4, FS_EmptySet, FS_CardinalityType
    <3>6. PICK x : found = {x}
      BY <3>4, <3>5, FS_Singleton
    <3>7. QED
      BY <3>2, <3>6
  <2>4. LookedOK'
    <3>1. SUFFICES ASSUME goal = "preflight", NEW m \in 1 .. Len(conf.source), 2 * m - 1 <= Len(looked'),
                          NEW i \in Present, dir[i].ext = conf.source[m].ext
                   PROVE  looked'[2 * m - 1] = Read(i)
      BY <1>1, <1>3 DEF LookedOK, NoWrite, Present, Read
    <3>2. m \in Nat /\ m >= 1
      BY SourceBounds
    <3>3. CASE 2 * m - 1 <= Len(looked)
      <4>1. 2 * m - 1 \in 1 .. Len(looked)
        BY <2>2, <3>2, <3>3
      <4>2. looked[2 * m - 1] = Read(i)
        BY <1>1, <3>1, <3>3 DEF OneInv, LookedOK
      <4>3. QED
        BY <2>2, <4>1, <4>2
    <3>4. CASE 2 * m - 1 = Len(looked) + 1
      <4>1. k % 2 = 1 /\ (k + 1) \div 2 = m
        BY <2>2, <3>2, <3>4
      <4>2. u = conf.source[m]
        BY <3>1, <4>1 DEF Lookups
      <4>3. one = Read(i)
        BY <2>3, <3>1, <4>1, <4>2
      <4> HIDE DEF one
      <4>4. QED
        BY <2>2, <3>4, <4>3
    <3>5. QED
      BY <2>2, <3>1, <3>2, <3>3, <3>4
  <2>5. QED
    BY <1>1, <1>3, <2>1, <2>4, ReadingGoesOnOne
<1>4. QED
  BY <1>2, <1>3 DEF LookupUser

LEMMA LookupsDoneOne ==
  ASSUME Inv, LinkInv, OneInv, LookupsDone
  PROVE  OneInv'
<1>1. /\ pc = "lookup" /\ pc \in Reading /\ pc' = "verify" /\ pc' \in Reading /\ NoWrite /\ UNCHANGED snapshot
      /\ UNCHANGED <<goal, listing, looked, cur, pos, result>> /\ Len(looked) = 2 * Len(Lookups)
  BY DEF LookupsDone, Reading, reading
<1>2. ListedOK'
  BY <1>1 DEF OneInv, ListedOK, DistinctOK
<1>3. LookedOK'
  BY <1>1 DEF OneInv, LookedOK, NoWrite, Present, Read, Lookups
<1>4. QED
  BY <1>1, <1>2, <1>3, ReadingGoesOnOne

LEMMA VerifyUserOne ==
  ASSUME Inv, LinkInv, OneInv, VerifyUser
  PROVE  OneInv'
<1>1. pc = "verify" /\ pc \in Reading /\ NoWrite /\ UNCHANGED snapshot
  BY DEF VerifyUser, Reading
<1>2. CASE ReadingFails /\ ReadingOver
  BY <1>1, <1>2, ReadingEndsOne
<1>3. CASE \E i \in Unverified :
             /\ dir[i] # NoAccount /\ Indexable(listing.seen, {Read(i)})
             /\ listing' = [listing EXCEPT !.seen = @ \cup {Read(i)}]
             /\ UNCHANGED <<pc, goal, sample, looked, cur, pos, result>>
  <2>1. PICK i \in Unverified :
             /\ dir[i] # NoAccount /\ Indexable(listing.seen, {Read(i)})
             /\ listing' = [listing EXCEPT !.seen = @ \cup {Read(i)}]
             /\ UNCHANGED <<pc, goal, sample, looked, cur, pos, result>>
    BY <1>3
  <2>2. {Read(i)} \in SUBSET Reads
    BY <2>1, UnverifiedType DEF Reads, Present
  <2>3. listing'.seen = listing.seen \cup {Read(i)}
    BY <2>1 DEF Inv, TypeOK
  <2>4. DistinctOK(listing.seen \cup {Read(i)})
    BY <2>1, <2>2, DistinctUnion DEF LinkInv, SeenOK, OneInv, ListedOK
  <2>5. IsFiniteSet(listing.seen \cup {Read(i)})
    BY FS_AddElement DEF OneInv, ListedOK
  <2>6. ListedOK'
    BY <1>1, <2>1, <2>3, <2>4, <2>5 DEF ListedOK, DistinctOK
  <2>7. LookedOK'
    BY <1>1, <2>1 DEF OneInv, LookedOK, NoWrite, Present, Read
  <2>8. QED
    BY <1>1, <2>1, <2>6, <2>7, ReadingGoesOnOne
<1>4. QED
  BY <1>2, <1>3 DEF VerifyUser

LEMMA VerifyDoneOne ==
  ASSUME Inv, LinkInv, OneInv, VerifyDone
  PROVE  OneInv'
<1>1. pc = "verify" /\ pc \in Reading /\ NoWrite /\ ReadingOver /\ Unverified = {}
  BY DEF VerifyDone, Reading
<1>2. CASE ReadingFails /\ UNCHANGED snapshot
  BY <1>1, <1>2, ReadingEndsOne
<1>3. CASE ReadingDone(listing.seen)
  <2>1. listing.seen \in SUBSET Reads /\ DistinctOK(listing.seen)
    BY DEF LinkInv, SeenOK, OneInv, ListedOK
  <2>2. ASSUME goal = "preflight" PROVE Complete(listing.seen)
    <3>1. SUFFICES ASSUME NEW k \in 1 .. Len(conf.source), NEW i \in Present, dir[i].ext = conf.source[k].ext
                   PROVE  Read(i) \in listing.seen
      BY DEF Complete
    <3>2. 2 * k - 1 \in 1 .. Len(looked)
      <4>1. Len(looked) = 2 * Len(conf.source)
        BY <1>1, <2>2 DEF OneInv, LookedOK
      <4>2. QED
        BY <4>1, SourceBounds
    <3>3. looked[2 * k - 1] = Read(i)
      BY <1>1, <2>2, <3>1, <3>2 DEF OneInv, LookedOK
    <3>4. Read(i) \in Seen /\ Read(i).id = i
      BY ReadType DEF Inv
    <3>5. looked[2 * k - 1] # NoSeen /\ looked[2 * k - 1].id = i
      BY <3>3, <3>4, ValueAssumption
    <3>6. i \in {looked[m].id : m \in {j \in 1 .. Len(looked) : looked[j] # NoSeen}}
      BY <3>2, <3>5
    <3>7. PICK s \in listing.seen : s.id = i
      BY <1>1, <3>6 DEF Unverified
    <3>8. s = Read(i)
      BY <2>1, <3>7, ReadsType
    <3>9. QED
      BY <3>8
  <2>3. QED
    BY <1>1, <1>3, <2>1, <2>2, ReadingSucceedsOne
<1>4. QED
  BY <1>2, <1>3 DEF VerifyDone

-----------------------------------------------------------------------------
(* The loop: one account per user.                                         *)

\* A step of the loop that stays out of the readings.
LEMMA LoopOne ==
  ASSUME OneInv, SeenOK', UNCHANGED index, pc' \notin Reading, ExpectOK'
  PROVE  OneInv'
<1>1. DistinctOK(index)'
  BY DEF OneInv, DistinctOK
<1>2. QED
  BY <1>1, IdleListed DEF OneInv

LEMMA FailsOne ==
  ASSUME Inv, LinkInv, OneInv, Refused \/ Handle409Fails \/ ConfirmFails
  PROVE  OneInv'
<1>1. /\ UNCHANGED <<dir, conf, index, listing, looked>> /\ pc \notin Reading /\ AtUser
      /\ Settle(Plus(result, "errors")) /\ ExpectOK
  BY DEF Refused, Handle409Fails, ConfirmFails, NoWrite, snapshot, reading, Reading, AtUser, Working, OneInv
<1>2. ExpectOK' /\ pc' \notin Reading
  BY <1>1, SameDirectory, SettledExpect DEF Settle, Reading
<1>3. QED
  BY <1>1, <1>2, IdleSeen, LoopOne

LEMMA MatchUserOne ==
  ASSUME Inv, LinkInv, OneInv, MatchUser
  PROVE  OneInv'
<1> DEFINE e == ByExt(index, TheUser.ext)
           n == ByName(index, TheUser.user)
           Object(s) == [id |-> s.id, acc |-> object[s.id], shared |-> TRUE]
<1>1. /\ UNCHANGED <<dir, conf, index, listing, looked>> /\ pc = "user" /\ pc \notin Reading /\ pc \in Working
      /\ AtUser /\ ExpectOK /\ Expected(pos) /\ DistinctOK(index)
  BY DEF MatchUser, NoWrite, snapshot, reading, Reading, Working, AtUser, OneInv, ExpectOK
<1>2. /\ TypeOK /\ pos <= Len(conf.source) /\ TheUser \in User /\ TheUser.ext # NoExt
  <2>1. TypeOK /\ pos <= Len(conf.source) /\ TheUser \in User
    BY <1>1, WorkingOK
  <2>2. QED
    BY <2>1, SyncAssumption DEF User
<1>3. SeenOK'
  BY <1>1, IdleSeen
<1>4. \A i \in Present' : i \in Present /\ dir'[i].ext = dir[i].ext
  BY <1>1, SameDirectory
<1>5. /\ e # NoSeen => e \in index /\ e.acc.ext = TheUser.ext
      /\ e = NoSeen => Nobody
      /\ n # NoSeen => n \in index
  <2>1. index \in SUBSET Seen
    BY <1>2 DEF TypeOK
  <2>2. /\ e # NoSeen => e \in index /\ e.acc.ext = TheUser.ext
        /\ e = NoSeen => \A s \in index : s.acc.ext # TheUser.ext
    BY <2>1, ByKey
  <2>3. n # NoSeen => n \in index
    BY <2>1, ByKey
  <2>4. QED
    BY <1>1, <2>2, <2>3 DEF Expected, Nobody, TheUser
<1>6. \A s \in index : Object(s) \in AtHand
  BY DEF Inv, ObjectOK, TypeOK, AtHand, Seen
<1> HIDE DEF e, n
<1>7. ASSUME NEW s \in index, NEW b \in BOOLEAN, Reconcile(Object(s), b), b => Nobody,
             \A i \in Present : dir[i].ext = TheUser.ext => i = s.id
      PROVE  OneInv'
  <2>1. Object(s) \in AtHand /\ Object(s).id = s.id
    BY <1>6
  <2> HIDE DEF Object
  <2>2. ExpectOK'
    BY <1>1, <1>7, <2>1, ReconcileExpect
  <2>3. pc' \notin Reading
    BY <1>1, <1>2, <1>7, <2>1, ReconcileOK DEF Looping
  <2>4. QED
    BY <1>1, <1>3, <2>2, <2>3, LoopOne
<1>8. CASE Settle(Plus(result, "conflicts"))
  <2>1. ExpectOK' /\ pc' \notin Reading
    BY <1>1, <1>4, <1>8, SettledExpect DEF Settle, Reading
  <2>2. QED
    BY <1>1, <1>3, <2>1, LoopOne
<1>9. CASE e # NoSeen /\ Reconcile(Object(e), FALSE)
  <2>1. \A i \in Present : dir[i].ext = TheUser.ext => i = e.id
    <3>1. SUFFICES ASSUME NEW i \in Present, dir[i].ext = TheUser.ext PROVE i = e.id
      OBVIOUS
    <3>2. PICK s \in index : s.id = i /\ s.acc.ext = TheUser.ext
      BY <1>1, <3>1 DEF Expected, TheUser
    <3>3. s = e
      BY <1>1, <1>2, <1>5, <1>9, <3>2 DEF DistinctOK
    <3>4. QED
      BY <3>2, <3>3
  <2> HIDE DEF Object
  <2>2. QED
    BY <1>5, <1>7, <1>9, <2>1
<1>10. CASE e = NoSeen /\ n # NoSeen /\ Reconcile(Object(n), TRUE)
  <2> HIDE DEF Object
  <2>1. QED
    BY <1>5, <1>7, <1>10 DEF Nobody
<1>11. CASE e = NoSeen /\ pc' = "create" /\ UNCHANGED <<cur, pos, result>>
  <2>1. Nobody'
    BY <1>1, <1>4, <1>5, <1>11 DEF Nobody, TheUser
  <2>2. ExpectOK' /\ pc' \notin Reading
    BY <1>1, <1>4, <1>11, <2>1, StayExpect DEF Reading
  <2>3. QED
    BY <1>1, <1>3, <2>2, LoopOne
<1>12. QED
  BY <1>8, <1>9, <1>10, <1>11 DEF MatchUser, e, n

LEMMA NameIsNullOne ==
  ASSUME OneInv, NameIsNull
  PROVE  OneInv'
<1>1. UNCHANGED index /\ pc' = "crashed" /\ SeenOK'
  BY OverSeen DEF NameIsNull, snapshot
<1>2. ExpectOK' /\ pc' \notin Reading
  BY <1>1 DEF ExpectOK, AtUser, Working, Reading
<1>3. QED
  BY <1>1, <1>2, LoopOne

LEMMA CreateConflictsOne ==
  ASSUME Inv, LinkInv, OneInv, CreateConflicts
  PROVE  OneInv'
<1>1. /\ UNCHANGED <<dir, conf, index, listing, looked, cur, pos>> /\ pc' = "query"
      /\ pc \notin Reading /\ AtUser /\ ExpectOK /\ Nobody
  BY DEF CreateConflicts, NoWrite, snapshot, reading, Reading, Working, AtUser, OneInv, ExpectOK
<1>2. \A i \in Present' : i \in Present /\ dir'[i].ext = dir[i].ext
  BY <1>1, SameDirectory
<1>3. Nobody'
  BY <1>1, <1>2 DEF Nobody, TheUser
<1>4. ExpectOK' /\ pc' \notin Reading
  BY <1>1, <1>2, <1>3, StayExpect DEF Reading
<1>5. QED
  BY <1>1, <1>4, IdleSeen, LoopOne

LEMMA Handle409One ==
  ASSUME Inv, LinkInv, OneInv, NEW zeroBased \in BOOLEAN, Handle409(zeroBased)
  PROVE  OneInv'
<1> DEFINE found == {Read(i) : i \in {j \in Present : dir[j].user = TheUser.user}}
           s == CHOOSE s \in found : TRUE
<1>1. /\ UNCHANGED <<dir, conf, index, listing, looked>> /\ pc \notin Reading /\ pc \in Working
      /\ AtUser /\ ExpectOK /\ Nobody
  BY DEF Handle409, NoWrite, snapshot, reading, Reading, Working, AtUser, OneInv, ExpectOK
<1>2. pos <= Len(conf.source) /\ TypeOK
  BY <1>1, WorkingOK
<1>3. \A i \in Present' : i \in Present /\ dir'[i].ext = dir[i].ext
  BY <1>1, SameDirectory
<1>4. SeenOK'
  BY <1>1, IdleSeen
<1>5. CASE Settle(Plus(result, "conflicts"))
  <2>1. ExpectOK' /\ pc' \notin Reading
    BY <1>1, <1>3, <1>5, SettledExpect DEF Settle, Reading
  <2>2. QED
    BY <1>1, <1>4, <2>1, LoopOne
<1>6. CASE goal' = "conflict" /\ pc' = "list" /\ UNCHANGED pos
  <2>1. Nobody'
    BY <1>1, <1>3, <1>6 DEF Nobody, TheUser
  <2>2. ExpectOK'
    BY <1>1, <1>3, <1>6, <2>1, StayExpect
  <2>3. listing' = NewListing /\ looked' = <<>>
    BY <1>1 DEF LinkInv, SeenOK
  <2>4. ListedOK' /\ LookedOK'
    BY <1>6, <2>3, NewListedNext DEF LookedOK
  <2>5. DistinctOK(index)'
    BY <1>1 DEF OneInv, DistinctOK
  <2>6. QED
    BY <2>2, <2>4, <2>5 DEF OneInv
<1>7. CASE Cardinality(found) = 1 /\ Reconcile(Shared(s, FALSE), TRUE)
  <2>1. found \subseteq Seen
    BY <1>2, ReadType
  <2> HIDE DEF found
  <2>2. found # {}
    BY <1>7, FS_EmptySet
  <2>3. s \in Seen
    BY <2>1, <2>2
  <2> HIDE DEF s
  <2>4. Shared(s, FALSE) \in AtHand
    BY <2>3 DEF Shared, Seen, AtHand
  <2>5. ExpectOK'
    BY <1>1, <1>7, <2>4, ReconcileExpect DEF Nobody
  <2>6. pc' \notin Reading
    BY <1>1, <1>2, <1>7, <2>4, ReconcileOK DEF Looping
  <2>7. QED
    BY <1>1, <1>4, <2>5, <2>6, LoopOne
<1>8. QED
  BY <1>5, <1>6, <1>7 DEF Handle409

LEMMA CreateUserOne ==
  ASSUME Inv, LinkInv, OneInv, NEW lost \in BOOLEAN, CreateUser(lost)
  PROVE  OneInv'
<1>1. /\ UNCHANGED <<index, listing, looked>> /\ pc \notin Reading /\ pc \in Working
      /\ AtUser /\ ExpectOK /\ Nobody
  BY DEF CreateUser, snapshot, reading, Reading, Working, AtUser, OneInv, ExpectOK
<1>2. TheUser \in Account
  BY <1>1, WorkingOK
<1>3. PICK i \in AppleIds \ Present :
        /\ Store(i, TheUser)
        /\ \/ \E c \in Counters : Settle(Plus(result, c))
           \/ /\ cur' = [id |-> i, acc |-> TheUser, shared |-> FALSE]
              /\ goal' = "created" /\ pc' = "lookup"
              /\ UNCHANGED <<pos, result>>
  BY DEF CreateUser, Counters
<1>4. /\ \A j \in AppleIds : dir'[j] = IF j = i THEN TheUser ELSE dir[j]
      /\ Present' = Present \cup {i} /\ UNCHANGED conf
  BY <1>2, <1>3, StoreFacts
<1>5. \A j \in Present' : IF j = i THEN dir'[j].ext = TheUser.ext ELSE j \in Present /\ dir'[j].ext = dir[j].ext
  BY <1>4 DEF Present
<1>6. SeenOK'
  BY <1>1, IdleSeen
<1>7. CASE \E c \in Counters : Settle(Plus(result, c))
  <2>1. PICK c \in Counters : Settle(Plus(result, c))
    BY <1>7
  <2>2. ExpectOK' /\ pc' \notin Reading
    BY <1>1, <1>4, <1>5, <2>1, SettledExpect DEF Settle, Reading
  <2>3. QED
    BY <1>1, <1>6, <2>2, LoopOne
<1>8. CASE /\ cur' = [id |-> i, acc |-> TheUser, shared |-> FALSE]
           /\ goal' = "created" /\ pc' = "lookup" /\ UNCHANGED <<pos, result>>
  <2>1. OnlyAtHand'
    BY <1>1, <1>4, <1>5, <1>8 DEF OnlyAtHand, Nobody, TheUser
  <2>2. ExpectOK'
    BY <1>1, <1>4, <1>5, <1>8, <2>1, StayExpect
  <2>3. listing' = NewListing /\ looked' = <<>>
    BY <1>1 DEF LinkInv, SeenOK
  <2>4. ListedOK' /\ LookedOK'
    BY <1>8, <2>3, NewListedNext DEF LookedOK
  <2>5. DistinctOK(index)'
    BY <1>1 DEF OneInv, DistinctOK
  <2>6. QED
    BY <2>2, <2>4, <2>5 DEF OneInv
<1>9. QED
  BY <1>3, <1>7, <1>8

LEMMA RepairExternalIdOne ==
  ASSUME Inv, LinkInv, OneInv, NEW lost \in BOOLEAN, RepairExternalId(lost)
  PROVE  OneInv'
<1> DEFINE a == [dir[cur.id] EXCEPT !.ext = TheUser.ext]
<1>1. /\ UNCHANGED <<index, listing, looked>> /\ pc \notin Reading /\ pc \in Working /\ pc = "repair"
      /\ AtUser /\ ExpectOK /\ Nobody /\ cur.id \in Present /\ Store(cur.id, a)
  BY DEF RepairExternalId, snapshot, reading, Reading, Working, AtUser, OneInv, ExpectOK
<1>2. TypeOK /\ TheUser \in User /\ cur \in AtHand /\ cur.id \in AppleIds /\ dir[cur.id] \in Account
  BY <1>1, WorkingOK, ReadType
<1>3. a \in Account /\ a.ext = TheUser.ext
  BY <1>2, RepairedFields DEF Account, User
<1> HIDE DEF a
<1>4. /\ \A j \in AppleIds : dir'[j] = IF j = cur.id THEN a ELSE dir[j]
      /\ Present' = Present \cup {cur.id} /\ UNCHANGED conf
  BY <1>1, <1>2, <1>3, StoreFacts
<1>5. \A j \in Present' :
        IF j = cur.id THEN dir'[j].ext = TheUser.ext ELSE j \in Present /\ dir'[j].ext = dir[j].ext
  BY <1>3, <1>4 DEF Present
<1>6. SeenOK'
  BY <1>1, IdleSeen
<1>7. CASE Settle(Plus(result, "errors"))
  <2>1. ExpectOK' /\ pc' \notin Reading
    BY <1>1, <1>4, <1>5, <1>7, SettledExpect DEF Settle, Reading
  <2>2. QED
    BY <1>1, <1>6, <2>1, LoopOne
<1>8. CASE pc' = "confirm" /\ UNCHANGED <<cur, pos, result>>
  <2>1. OnlyAtHand'
    BY <1>1, <1>4, <1>5, <1>8 DEF OnlyAtHand, Nobody, TheUser
  <2>2. ExpectOK' /\ pc' \notin Reading
    BY <1>1, <1>4, <1>5, <1>8, <2>1, StayExpect DEF Reading
  <2>3. QED
    BY <1>1, <1>6, <2>2, LoopOne
<1>9. QED
  BY <1>7, <1>8 DEF RepairExternalId

LEMMA ConfirmRepairOne ==
  ASSUME Inv, LinkInv, OneInv, ConfirmRepair
  PROVE  OneInv'
<1> DEFINE a == [cur EXCEPT !.acc = dir[cur.id]]
<1>1. /\ UNCHANGED <<dir, conf, index, listing, looked>> /\ pc \notin Reading /\ pc \in Working
      /\ pc = "confirm" /\ AtUser /\ ExpectOK /\ OnlyAtHand
      /\ PatchOrSettle(a, Plus(result, "updated"), TRUE)
  BY DEF ConfirmRepair, NoWrite, reading, Reading, Working, AtUser, OneInv, ExpectOK
<1>2. TypeOK /\ cur \in AtHand
  BY <1>1, WorkingOK
<1>3. a.id = cur.id
  BY <1>2 DEF AtHand
<1> HIDE DEF a
<1>4. \A i \in Present' : i \in Present /\ dir'[i].ext = dir[i].ext
  BY <1>1, SameDirectory
<1>5. Grown(Plus(result, "updated"))
  BY <1>2, ResultGrown DEF Counters
<1>6. CASE Settled(result')
  <2>1. ExpectOK' /\ pc' \notin Reading
    BY <1>1, <1>4, <1>6, SettledExpect DEF Settled, Settle, Reading
  <2>2. QED
    BY <1>1, <2>1, IdleSeen, LoopOne
<1>7. CASE cur' = a /\ pc' = "patch" /\ UNCHANGED pos
  <2>1. OnlyAtHand'
    BY <1>1, <1>3, <1>4, <1>7 DEF OnlyAtHand, TheUser
  <2>2. ExpectOK' /\ pc' \notin Reading
    BY <1>1, <1>4, <1>7, <2>1, StayExpect DEF Reading
  <2>3. QED
    BY <1>1, <2>2, IdleSeen, LoopOne
<1>8. QED
  BY <1>1, <1>5, <1>6, <1>7, PatchOrSettleSteps

LEMMA PatchUserOne ==
  ASSUME Inv, LinkInv, OneInv, NEW lost \in BOOLEAN, PatchUser(lost)
  PROVE  OneInv'
<1> DEFINE a == Updated(dir[cur.id], TheUser)
<1>1. /\ UNCHANGED <<index, listing, looked>> /\ pc \notin Reading /\ pc \in Working /\ pc = "patch"
      /\ AtUser /\ ExpectOK /\ cur.id \in Present /\ Store(cur.id, a) /\ cur.acc.ext = TheUser.ext
  BY DEF PatchUser, snapshot, reading, Reading, Working, AtUser, OneInv, LinkInv, HandOK
<1>2. TypeOK /\ TheUser \in User /\ cur.id \in AppleIds /\ dir[cur.id] \in Account
  BY <1>1, WorkingOK, ReadType
<1>3. a \in Account /\ a.ext = dir[cur.id].ext
  BY <1>1, <1>2, UpdatedType, UpdateKeepsLink
<1> HIDE DEF a
<1>4. /\ \A j \in AppleIds : dir'[j] = IF j = cur.id THEN a ELSE dir[j]
      /\ Present' = Present \cup {cur.id} /\ UNCHANGED conf
  BY <1>1, <1>2, <1>3, StoreFacts
<1>5. \A j \in Present' : j \in Present /\ dir'[j].ext = dir[j].ext
  BY <1>1, <1>3, <1>4 DEF Present
<1>6. PICK c \in Counters : Settle(Plus(result, c))
  BY DEF PatchUser, Counters
<1>7. ExpectOK' /\ pc' \notin Reading
  BY <1>1, <1>4, <1>5, <1>6, SettledExpect DEF Settle, Reading
<1>8. QED
  BY <1>1, <1>7, IdleSeen, LoopOne

LEMMA InitOne ==
  ASSUME Init
  PROVE  OneInv
<1>1. ListedOK
  BY NewListed DEF Init
<1>2. DistinctOK(index) /\ LookedOK /\ ExpectOK
  BY DEF Init, DistinctOK, LookedOK, ExpectOK, AtUser, Working, Reading
<1>3. QED
  BY <1>1, <1>2 DEF OneInv

LEMMA SyncStepOne ==
  ASSUME Inv, LinkInv, OneInv, SyncStep
  PROVE  OneInv'
<1>1. CASE ReadFails
  BY <1>1, ReadingEndsOne DEF ReadFails, Reading
<1>2. QED
  BY <1>1, ListPageOne, ListSampleOne, LookupUserOne, LookupsDoneOne, VerifyUserOne, VerifyDoneOne,
     FailsOne, MatchUserOne, NameIsNullOne, CreateConflictsOne, Handle409One, CreateUserOne,
     RepairExternalIdOne, ConfirmRepairOne, PatchUserOne
     DEF SyncStep

LEMMA SameOne ==
  ASSUME OneInv, UNCHANGED vars
  PROVE  OneInv'
<1>1. UNCHANGED <<Present, Nobody, OnlyAtHand, AtUser>>
  BY DEF vars, Present, Nobody, OnlyAtHand, TheUser, AtUser
<1>2. \A k : Expected(k)' = Expected(k)
  BY <1>1 DEF vars, Expected
<1>3. DistinctOK(index)' /\ ListedOK'
  BY DEF vars, OneInv, DistinctOK, ListedOK
<1>4. LookedOK'
  BY <1>1 DEF vars, OneInv, LookedOK, Read
<1>5. ExpectOK'
  BY <1>1, <1>2 DEF vars, OneInv, ExpectOK
<1>6. QED
  BY <1>3, <1>4, <1>5 DEF OneInv

OneWhileQuiet == Quiet => OneInv

LEMMA OneInvariance == Spec => []OneWhileQuiet
<1>1. Init => OneWhileQuiet
  BY InitOne DEF OneWhileQuiet
<1>2. Inv /\ LinkedWhileQuiet /\ OneWhileQuiet /\ [Next]_vars => OneWhileQuiet'
  BY QuietSteps, SyncStepOne, SameOne DEF LinkedWhileQuiet, OneWhileQuiet
<1>3. QED
  BY <1>1, <1>2, Invariance, LinkInvariance, PTL DEF Spec

-----------------------------------------------------------------------------
(* What an update is computed from, and what a user that is done with has. *)

\* The snapshot shows the accounts of the users to come as they are, also after
\* failed requests: an account that was read with a link is written to for the
\* user of that link only.
OwnSame ==
  \A s \in index, k \in pos .. Len(conf.source) :
    s.acc.ext = conf.source[k].ext => dir[s.id] = object[s.id]

\* An update is computed from the account as it is, and for a reason.
PatchOK ==
  pc = "patch" =>
    /\ cur.acc = dir[cur.id] /\ ActionableDiffs(cur.acc, TheUser) # {}
    /\ result["outOfScope"] = 0 => FieldDiffs(cur.acc, TheUser) \subseteq UpdateFields

CreatedOK == pc \in Reading /\ goal = "created" => cur.id \in Present /\ dir[cur.id] = TheUser

\* The k-th user has one account, which agrees with it as far as was reported.
InSync(k) ==
  \E i \in Present :
    /\ dir[i].ext = conf.source[k].ext
    /\ \A j \in Present : dir[j].ext = conf.source[k].ext => j = i
    /\ ActionableDiffs(dir[i], conf.source[k]) = {}
    /\ result["outOfScope"] = 0 => FieldDiffs(dir[i], conf.source[k]) = {}

SettledInSync ==
  result["errors"] = 0 /\ result["conflicts"] = 0 => \A k \in 1 .. pos - 1 : InSync(k)

DoneOK == pc = "done" => pos = Len(conf.source) + 1

CleanInv == OwnSame /\ PatchOK /\ CreatedOK /\ SettledInSync /\ DoneOK

\* A step touches unlinked accounts and those of the user at hand only.
Touched ==
  /\ Present \subseteq Present'
  /\ \A i \in Present' :
       \/ i \in Present /\ dir'[i] = dir[i]
       \/ dir'[i].ext = TheUser.ext /\ (i \in Present => dir[i].ext \in {NoExt, TheUser.ext})

LEMMA UntouchedDirectory ==
  ASSUME UNCHANGED dir
  PROVE  Touched
BY DEF Touched, Present

\* The accounts of earlier users stay in order.
LEMMA InSyncKept ==
  ASSUME Inv, AtUser, Touched, UNCHANGED conf, Grown(result'), NEW k \in 1 .. pos - 1, InSync(k)
  PROVE  InSync(k)'
<1>1. k \in 1 .. Len(conf.source) /\ pos \in 1 .. Len(conf.source) /\ k # pos
  BY SourceBounds DEF Inv, PosOK
<1>2. conf.source[k].ext # TheUser.ext /\ conf.source[k].ext # NoExt
  BY <1>1, PrimaryKeysDistinct, SourceBounds DEF TheUser, Inv, TypeOK
<1>3. PICK i \in Present :
        /\ dir[i].ext = conf.source[k].ext
        /\ \A j \in Present : dir[j].ext = conf.source[k].ext => j = i
        /\ ActionableDiffs(dir[i], conf.source[k]) = {}
        /\ result["outOfScope"] = 0 => FieldDiffs(dir[i], conf.source[k]) = {}
  BY DEF InSync
<1>4. i \in Present' /\ dir'[i] = dir[i]
  BY <1>2, <1>3 DEF Touched
<1>5. \A j \in Present' : dir'[j].ext = conf.source[k].ext => j = i
  BY <1>2, <1>3 DEF Touched
<1>6. result'["outOfScope"] = 0 => result["outOfScope"] = 0
  <2>1. "outOfScope" \in Counters
    BY DEF Counters
  <2>2. result["outOfScope"] \in Nat /\ result'["outOfScope"] \in Nat
        /\ result'["outOfScope"] >= result["outOfScope"]
    BY <2>1 DEF Grown
  <2>3. QED
    BY <2>2
<1>7. ActionableDiffs(dir[i], conf.source[k])' = {}
  BY <1>3, <1>4 DEF ActionableDiffs, FieldDiffs, UpdateFields
<1>8. result'["outOfScope"] = 0 => FieldDiffs(dir[i], conf.source[k])' = {}
  BY <1>3, <1>4, <1>6 DEF FieldDiffs
<1>9. QED
  BY <1>3, <1>4, <1>5, <1>7, <1>8 DEF InSync

\* No error and no conflict now: none before.
LEMMA CleanBefore ==
  ASSUME Inv, Grown(result')
  PROVE  /\ result'["errors"] = 0 => result["errors"] = 0
         /\ result'["conflicts"] = 0 => result["conflicts"] = 0
<1>1. "errors" \in Counters /\ "conflicts" \in Counters
  BY DEF Counters
<1>2. /\ result["errors"] \in Nat /\ result'["errors"] \in Nat /\ result'["errors"] >= result["errors"]
      /\ result["conflicts"] \in Nat /\ result'["conflicts"] \in Nat
      /\ result'["conflicts"] >= result["conflicts"]
  BY <1>1 DEF Grown
<1>3. QED
  BY <1>2

\* The user at hand stays.
LEMMA StayInSync ==
  ASSUME Inv, CleanInv, AtUser, UNCHANGED <<conf, pos>>, Grown(result'),
         result'["errors"] = 0 => Touched, pc' # "done"
  PROVE  SettledInSync' /\ DoneOK'
<1>1. ASSUME result'["errors"] = 0, result'["conflicts"] = 0, NEW k \in 1 .. pos - 1
      PROVE  InSync(k)'
  BY <1>1, CleanBefore, InSyncKept DEF CleanInv, SettledInSync
<1>2. QED
  BY <1>1 DEF SettledInSync, DoneOK

\* The user at hand is settled.
LEMMA SettleInSync ==
  ASSUME Inv, CleanInv, AtUser, UNCHANGED conf, Settled(result'),
         result'["errors"] = 0 => Touched, NEW p, p = pos,
         result'["errors"] = 0 /\ result'["conflicts"] = 0 => InSync(p)'
  PROVE  SettledInSync' /\ DoneOK' /\ PatchOK' /\ CreatedOK'
<1>1. /\ Grown(result') /\ pos' = pos + 1 /\ pc' = IF pos = Len(conf.source) THEN "done" ELSE "user"
  BY DEF Settled, Settle
<1>2. pos \in Nat /\ pos >= 1
  BY SourceBounds
<1>3. ASSUME result'["errors"] = 0, result'["conflicts"] = 0, NEW k \in 1 .. pos' - 1
      PROVE  InSync(k)'
  <2>1. k \in 1 .. pos - 1 \/ k = p
    BY <1>1, <1>2
  <2>2. CASE k \in 1 .. pos - 1
    BY <1>1, <1>3, <2>2, CleanBefore, InSyncKept DEF CleanInv, SettledInSync
  <2>3. CASE k = p
    BY <1>3, <2>3
  <2>4. QED
    BY <2>1, <2>2, <2>3
<1>4. SettledInSync'
  BY <1>3 DEF SettledInSync
<1>5. DoneOK' /\ PatchOK' /\ CreatedOK'
  BY <1>1 DEF DoneOK, PatchOK, CreatedOK, Reading
<1>6. QED
  BY <1>4, <1>5

\* The account of the user at hand after the step.
LEMMA InSyncNow ==
  ASSUME UNCHANGED conf, NEW p, p = pos, NEW i \in Present', dir'[i].ext = TheUser.ext,
         \A j \in Present' : dir'[j].ext = TheUser.ext => j = i,
         NEW d, d = dir'[i], FieldDiffs(d, TheUser) \cap UpdateFields = {},
         result'["outOfScope"] = 0 => FieldDiffs(d, TheUser) = {}
  PROVE  InSync(p)'
<1>1. conf'.source[p] = TheUser /\ UpdateFields' = UpdateFields
  BY DEF TheUser, UpdateFields
<1>2. \A u : u = TheUser => ActionableDiffs(d, u)' = {}
  BY <1>1 DEF ActionableDiffs, FieldDiffs
<1>3. ActionableDiffs(dir[i], conf.source[p])' = {}
  BY <1>1, <1>2 DEF ActionableDiffs, FieldDiffs
<1>4. result'["outOfScope"] = 0 => FieldDiffs(dir[i], conf.source[p])' = {}
  BY <1>1 DEF FieldDiffs
<1>5. QED
  BY <1>1, <1>3, <1>4 DEF InSync

\* A step writes to the accounts of the user at hand, and is done with it, or to
\* accounts that were read unlinked.
LEMMA OwnSameKept ==
  ASSUME Inv, OwnSame, UNCHANGED <<conf, index>>, pos' \in {pos, pos + 1},
         \A s \in index :
           \/ dir'[s.id] = dir[s.id] /\ object'[s.id] = object[s.id]
           \/ dir'[s.id] = object'[s.id]
           \/ s.acc.ext = NoExt
           \/ s.acc.ext = TheUser.ext /\ pos <= Len(conf.source) /\ pos' = pos + 1
  PROVE  OwnSame'
<1>1. SUFFICES ASSUME NEW s \in index, NEW k \in pos' .. Len(conf.source),
                      s.acc.ext = conf.source[k].ext
               PROVE  dir'[s.id] = object'[s.id]
  BY DEF OwnSame
<1>2. /\ k \in pos .. Len(conf.source) /\ k \in 1 .. Len(conf.source)
      /\ pos <= Len(conf.source) => pos \in 1 .. Len(conf.source)
      /\ pos' = pos + 1 => k # pos
  BY SourceBounds
<1>3. s.acc.ext # NoExt
  BY <1>1, <1>2, SourceBounds
<1>4. ~(s.acc.ext = TheUser.ext /\ pos <= Len(conf.source) /\ pos' = pos + 1)
  BY <1>1, <1>2, PrimaryKeysDistinct DEF TheUser, Inv, TypeOK
<1>5. dir[s.id] = object[s.id]
  BY <1>1, <1>2 DEF OwnSame
<1>6. QED
  BY <1>3, <1>4, <1>5

\* The snapshot, when neither it nor the accounts it shows change.
LEMMA StillSame ==
  ASSUME Inv, CleanInv, UNCHANGED <<conf, index, object>>, pos' \in {pos, pos + 1},
         \A s \in index : dir'[s.id] = dir[s.id]
  PROVE  OwnSame'
BY OwnSameKept DEF CleanInv

LEMMA FailedClean ==
  ASSUME Inv, CleanInv, AtUser, UNCHANGED <<dir, conf, index, object>>, Settled(result'),
         result'["errors"] # 0 \/ result'["conflicts"] # 0
  PROVE  CleanInv'
<1>1. Grown(result') /\ pos' = pos + 1
  BY DEF Settled, Settle
<1>2. OwnSame'
  BY <1>1, StillSame
<1>3. SettledInSync' /\ DoneOK' /\ PatchOK' /\ CreatedOK'
  BY UntouchedDirectory, SettleInSync
<1>4. QED
  BY <1>2, <1>3 DEF CleanInv

\* A match by userName of a user that has no account ends in a conflict or a link.
LEMMA RecoverClean ==
  ASSUME Inv, LinkInv, CleanInv, AtUser, UNCHANGED <<dir, conf, index, object>>, pc # "confirm",
         NEW a \in AtHand, Reconcile(a, TRUE), Nobody, FromSnapshot(a, TRUE) \/ FromDirectory(a)
  PROVE  CleanInv'
<1>1. CASE Settled(result') /\ result'["conflicts"] > 0
  <2>1. result'["conflicts"] # 0
    BY <1>1 DEF Settled, Grown, Counters
  <2>2. QED
    BY <1>1, <2>1, FailedClean
<1>2. CASE cur' = a /\ pc' = "repair" /\ UNCHANGED <<pos, result>>
  <2>1. Grown(result')
    BY <1>2 DEF Inv, TypeOK, Grown
  <2>2. OwnSame'
    BY <2>1, <1>2, StillSame
  <2>3. SettledInSync' /\ DoneOK'
    BY <1>2, <2>1, UntouchedDirectory, StayInSync
  <2>4. PatchOK' /\ CreatedOK'
    BY <1>2 DEF PatchOK, CreatedOK, Reading
  <2>5. QED
    BY <2>2, <2>3, <2>4 DEF CleanInv
<1>3. CASE a.acc.ext = TheUser.ext
  <2>1. TheUser.ext # NoExt
    BY TheUserType, SyncAssumption DEF Inv, PosOK, User
  <2>2. a.id \in Present /\ dir[a.id].ext = TheUser.ext
    BY <1>3, <2>1 DEF FromSnapshot, FromDirectory, LinkInv, LinkOK, IndexOK
  <2>3. QED
    BY <2>2 DEF Nobody
<1>4. QED
  BY <1>1, <1>2, <1>3, ReconcileSteps

\* A match by externalId is compared with the account as it is.
LEMMA MatchedClean ==
  ASSUME Inv, LinkInv, CleanInv, AtUser, UNCHANGED <<dir, conf, index, object>>, pc = "user",
         NEW a \in AtHand, Reconcile(a, FALSE), FromSnapshot(a, FALSE),
         \A i \in Present : dir[i].ext = TheUser.ext => i = a.id
  PROVE  CleanInv'
<1>1. CASE Settled(result') /\ result'["conflicts"] > 0
  <2>1. result'["conflicts"] # 0
    BY <1>1 DEF Settled, Grown, Counters
  <2>2. QED
    BY <1>1, <2>1, FailedClean
<1>2. TheUser.ext # NoExt
  BY TheUserType, SyncAssumption DEF Inv, PosOK, User
<1>3. PICK s \in index : s.id = a.id /\ a.acc = object[s.id] /\ s.acc.ext = TheUser.ext
  BY DEF FromSnapshot
<1>4. a.id \in Present /\ dir[a.id].ext = TheUser.ext
  BY <1>2, <1>3 DEF LinkInv, LinkOK, IndexOK
<1>5. a.acc = dir[a.id]
  <2>1. pos \in pos .. Len(conf.source)
    BY SourceBounds DEF Inv, PosOK
  <2>2. QED
    BY <1>3, <2>1 DEF CleanInv, OwnSame, TheUser
<1>6. CASE PatchOrSettle(a, result, FALSE)
  <2>1. Grown(result)
    BY DEF Inv, TypeOK, Grown
  <2>2. CASE /\ Grown(result') /\ cur' = a /\ pc' = "patch" /\ UNCHANGED pos
             /\ ActionableDiffs(a.acc, TheUser) # {}
             /\ result'["outOfScope"] = 0 => FieldDiffs(a.acc, TheUser) \subseteq UpdateFields
    <3>1. OwnSame'
      BY <2>2, StillSame
    <3>2. SettledInSync' /\ DoneOK'
      BY <2>2, UntouchedDirectory, StayInSync
    <3>3. CreatedOK'
      BY <2>2 DEF CreatedOK, Reading
    <3>4. PatchOK'
      <4>1. TheUser' = TheUser /\ UpdateFields' = UpdateFields
        BY <2>2 DEF TheUser, UpdateFields
      <4>2. cur'.acc = dir'[cur'.id] /\ ActionableDiffs(cur.acc, TheUser)' # {}
        BY <1>5, <2>2, <4>1 DEF ActionableDiffs, FieldDiffs
      <4>3. result'["outOfScope"] = 0 => FieldDiffs(cur.acc, TheUser)' \subseteq UpdateFields'
        BY <2>2, <4>1 DEF FieldDiffs
      <4>4. QED
        BY <4>2, <4>3 DEF PatchOK
    <3>5. QED
      BY <3>1, <3>2, <3>3, <3>4 DEF CleanInv
  <2>3. CASE /\ ActionableDiffs(a.acc, TheUser) = {} /\ Settled(result')
             /\ result'["outOfScope"] = 0 => FieldDiffs(a.acc, TheUser) \subseteq UpdateFields
    <3>1. Grown(result') /\ pos' = pos + 1
      BY <2>3 DEF Settled, Settle
    <3>2. OwnSame'
      BY <3>1, StillSame
    <3>3. PICK p : p = pos
      OBVIOUS
    <3>4. InSync(p)'
      <4>1. /\ FieldDiffs(a.acc, TheUser) \cap UpdateFields = {}
            /\ result'["outOfScope"] = 0 => FieldDiffs(a.acc, TheUser) = {}
        BY <2>3 DEF ActionableDiffs
      <4>2. Present' = Present
        BY DEF Present
      <4>3. QED
        BY <1>4, <1>5, <3>3, <4>1, <4>2, InSyncNow
    <3>5. SettledInSync' /\ DoneOK' /\ PatchOK' /\ CreatedOK'
      BY <2>3, <3>3, <3>4, UntouchedDirectory, SettleInSync
    <3>6. QED
      BY <3>2, <3>5 DEF CleanInv
  <2>4. QED
    BY <1>6, <2>1, <2>2, <2>3, PatchOrSettleSteps
<1>7. QED
  BY <1>1, <1>6, ReconcileSteps

-----------------------------------------------------------------------------
(* The readings of a clean run.                                            *)

LEMMA PreflightClean ==
  ASSUME Inv, pc \in Reading, goal = "preflight", UNCHANGED <<pos, conf>>
  PROVE  SettledInSync'
<1>1. pos' = 1
  BY DEF Inv, PosOK
<1>2. 1 .. pos' - 1 = {}
  BY <1>1
<1>3. QED
  BY <1>2 DEF SettledInSync

LEMMA ReadingGoesOnClean ==
  ASSUME Inv, CleanInv, pc \in Reading, pc' \in Reading, UNCHANGED <<goal, cur, pos, result>>,
         UNCHANGED snapshot, NoWrite
  PROVE  CleanInv'
<1>1. UNCHANGED <<dir, conf, index, object>>
  BY DEF NoWrite, snapshot
<1>2. Grown(result')
  BY DEF Inv, TypeOK, Grown
<1>3. OwnSame'
  BY <1>1, <1>2, StillSame DEF Reading
<1>4. PatchOK' /\ CreatedOK' /\ DoneOK'
  BY <1>1 DEF CleanInv, PatchOK, CreatedOK, DoneOK, Reading, Present, TheUser
<1>5. SettledInSync'
  <2>1. CASE goal = "preflight"
    BY <1>1, <2>1, PreflightClean
  <2>2. CASE goal # "preflight"
    BY <1>1, <1>2, <2>2, UntouchedDirectory, StayInSync DEF AtUser, Reading
  <2>3. QED
    BY <2>1, <2>2
<1>6. QED
  BY <1>3, <1>4, <1>5 DEF CleanInv

LEMMA ReadingEndsClean ==
  ASSUME Inv, CleanInv, pc \in Reading, ReadingFails, ReadingOver, UNCHANGED snapshot, NoWrite
  PROVE  CleanInv'
<1>1. UNCHANGED <<dir, conf, index, object>>
  BY DEF NoWrite, snapshot
<1>2. CASE goal = "preflight"
  <2>1. pc' = "aborted" /\ UNCHANGED <<cur, pos, result>>
    BY <1>2 DEF ReadingFails
  <2>2. Grown(result')
    BY <2>1 DEF Inv, TypeOK, Grown
  <2>3. OwnSame'
    BY <1>1, <2>1, <2>2, StillSame DEF Reading
  <2>4. PatchOK' /\ CreatedOK' /\ DoneOK'
    BY <2>1 DEF PatchOK, CreatedOK, DoneOK, Reading
  <2>5. SettledInSync'
    BY <1>1, <1>2, <2>1, PreflightClean
  <2>6. QED
    BY <2>3, <2>4, <2>5 DEF CleanInv
<1>3. CASE goal # "preflight"
  <2>1. Settled(result') /\ result'["errors"] > 0 /\ AtUser
    BY <1>3, PlusSettled DEF ReadingFails, Counters, AtUser
  <2>2. result'["errors"] # 0
    BY <2>1 DEF Settled, Grown, Counters
  <2>3. QED
    BY <1>1, <2>1, <2>2, FailedClean
<1>4. QED
  BY <1>2, <1>3

LEMMA ReadingSucceedsClean ==
  ASSUME Inv, LinkInv, OneInv, CleanInv, pc \in Reading, NEW S \in SUBSET Reads, ReadingDone(S), NoWrite
  PROVE  CleanInv'
<1>1. UNCHANGED <<dir, conf>>
  BY DEF NoWrite
<1>2. CASE goal = "preflight"
  <2>1. /\ index' = S /\ \A s \in S : object'[s.id] = dir[s.id]
        /\ pc' \in {"user", "done"} /\ (pc' = "done" => conf.source = <<>>)
        /\ UNCHANGED <<cur, pos, result>>
    BY <1>2, SnapshotFresh
  <2>2. OwnSame'
    BY <1>1, <2>1 DEF OwnSame
  <2>3. PatchOK' /\ CreatedOK'
    BY <2>1 DEF PatchOK, CreatedOK, Reading
  <2>4. DoneOK'
    <3>1. pos = 1
      BY <1>2 DEF Inv, PosOK
    <3>2. conf.source = <<>> => Len(conf.source) = 0
      BY EmptySeq
    <3>3. QED
      BY <1>1, <2>1, <3>1, <3>2 DEF DoneOK
  <2>5. SettledInSync'
    BY <1>1, <1>2, <2>1, PreflightClean
  <2>6. QED
    BY <2>2, <2>3, <2>4, <2>5 DEF CleanInv
<1>3. ASSUME goal # "preflight"
      PROVE  AtUser /\ UNCHANGED <<dir, conf, index, object>> /\ pc # "confirm"
  BY <1>1, <1>3 DEF AtUser, ReadingDone, snapshot, Reading
<1>4. CASE goal = "conflict"
  <2> DEFINE listed == ByName(S, TheUser.user)
  <2>1. Nobody /\ Unmatched /\ goal # "preflight"
    BY <1>4 DEF OneInv, ExpectOK, LinkInv, HandOK
  <2>2. CASE Settle(Plus(result, "errors"))
    <3>1. Settled(result') /\ result'["errors"] > 0
      BY <2>2, PlusSettled DEF Counters
    <3>2. result'["errors"] # 0
      BY <3>1 DEF Settled, Grown, Counters
    <3>3. QED
      BY <1>3, <2>1, <3>1, <3>2, FailedClean
  <2>3. CASE listed # NoSeen /\ Reconcile(Shared(listed, FALSE), TRUE)
    <3>1. S \in SUBSET Seen
      BY ReadsType
    <3>2. listed \in S /\ listed.acc.user = TheUser.user
      BY <2>3, <3>1, ByKey
    <3> HIDE DEF listed
    <3>3. listed \in Seen /\ listed.id \in Present /\ listed.acc = dir[listed.id]
      BY <3>2, ReadsType
    <3>4. Shared(listed, FALSE) \in AtHand
      BY <3>3 DEF Shared, Seen, AtHand
    <3>5. FromDirectory(Shared(listed, FALSE))
      BY <2>1, <3>2, <3>3 DEF FromDirectory, Shared
    <3>6. QED
      BY <1>3, <2>1, <2>3, <3>4, <3>5, RecoverClean
  <2>4. QED
    BY <1>4, <2>2, <2>3 DEF ReadingDone
<1>5. CASE goal = "created"
  <2>1. /\ AtUser /\ UNCHANGED <<dir, conf, index, object>> /\ pc # "confirm"
        /\ cur.id \in Present /\ dir[cur.id] = TheUser /\ OnlyAtHand
    BY <1>3, <1>5 DEF CleanInv, CreatedOK, OneInv, ExpectOK
  <2>2. PICK c \in Counters : Settle(Plus(result, c))
    BY <1>5 DEF ReadingDone, Counters
  <2>3. Settled(result') /\ Grown(result') /\ pos' = pos + 1
    BY <2>2, PlusSettled DEF Settled, Settle
  <2>4. PICK p : p = pos
    OBVIOUS
  <2>5. InSync(p)'
    <3>1. Present' = Present
      BY <2>1 DEF Present
    <3>2. FieldDiffs(TheUser, TheUser) = {}
      BY DEF FieldDiffs
    <3>3. QED
      BY <2>1, <2>4, <3>1, <3>2, InSyncNow DEF OnlyAtHand
  <2>6. OwnSame'
    BY <2>1, <2>3, StillSame
  <2>7. SettledInSync' /\ DoneOK' /\ PatchOK' /\ CreatedOK'
    BY <2>1, <2>3, <2>4, <2>5, UntouchedDirectory, SettleInSync
  <2>8. QED
    BY <2>6, <2>7 DEF CleanInv
<1>6. QED
  BY <1>2, <1>4, <1>5 DEF Inv, TypeOK

LEMMA ReadingStepsClean ==
  ASSUME Inv, LinkInv, OneInv, CleanInv,
         ListPage \/ ListSample \/ LookupUser \/ LookupsDone \/ VerifyUser \/ VerifyDone \/ ReadFails
  PROVE  CleanInv'
<1>1. listing.seen \subseteq Reads
  BY DEF LinkInv, SeenOK
<1>2. pc \in Reading /\ NoWrite
  BY DEF ListPage, ListSample, LookupUser, LookupsDone, VerifyUser, VerifyDone, ReadFails, Reading
<1>3. CASE ReadingFails /\ ReadingOver /\ UNCHANGED snapshot
  BY <1>2, <1>3, ReadingEndsClean
<1>4. CASE pc' \in Reading /\ UNCHANGED <<goal, cur, pos, result>> /\ UNCHANGED snapshot
  BY <1>2, <1>4, ReadingGoesOnClean
<1>5. CASE \E S \in SUBSET Reads : ReadingDone(S)
  BY <1>2, <1>5, ReadingSucceedsClean
<1>6. CASE ListPage
  <2> DEFINE Rank(i) == Cardinality({j \in Present : j <= i})
             T == {j \in Present : Rank(j) \in listing.start .. listing.start + PageSize - 1}
             seen == listing.seen \cup {Read(i) : i \in T}
  <2>1. seen \subseteq Reads
    BY <1>1 DEF Reads
  <2>2. \/ ReadingFails /\ ReadingOver /\ UNCHANGED snapshot
        \/ UNCHANGED <<pc, goal, snapshot, cur, pos, result>>
        \/ ReadingDone(seen)
    BY <1>6 DEF ListPage
  <2> HIDE DEF seen
  <2>3. QED
    BY <1>2, <1>3, <1>4, <1>5, <2>1, <2>2
<1>7. CASE ListSample \/ LookupUser \/ LookupsDone \/ VerifyUser \/ ReadFails
  <2>1. \/ ReadingFails /\ ReadingOver /\ UNCHANGED snapshot
        \/ pc' \in Reading /\ UNCHANGED <<goal, cur, pos, result>> /\ UNCHANGED snapshot
    BY <1>7 DEF ListSample, LookupUser, LookupsDone, VerifyUser, ReadFails, Reading, reading
  <2>2. QED
    BY <1>3, <1>4, <2>1
<1>8. CASE VerifyDone
  BY <1>1, <1>3, <1>5, <1>8 DEF VerifyDone
<1>9. QED
  BY <1>6, <1>7, <1>8

-----------------------------------------------------------------------------
(* The loop of a clean run.                                                *)

LEMMA FailsClean ==
  ASSUME Inv, CleanInv, Refused \/ Handle409Fails \/ ConfirmFails
  PROVE  CleanInv'
<1>1. UNCHANGED <<dir, conf, index, object>> /\ AtUser /\ Settle(Plus(result, "errors"))
  BY DEF Refused, Handle409Fails, ConfirmFails, NoWrite, snapshot, AtUser, Working
<1>2. Settled(result') /\ result'["errors"] > 0
  BY <1>1, PlusSettled DEF Counters
<1>3. result'["errors"] # 0
  BY <1>2 DEF Settled, Grown, Counters
<1>4. QED
  BY <1>1, <1>2, <1>3, FailedClean

\* A step on the way to a request.
LEMMA StillClean ==
  ASSUME Inv, CleanInv, AtUser, UNCHANGED <<dir, conf, index, object, pos, result>>, pc # "confirm",
         pc' \in {"create", "query"} \/ (pc' = "list" /\ goal' = "conflict")
  PROVE  CleanInv'
<1>1. Grown(result')
  BY DEF Inv, TypeOK, Grown
<1>2. OwnSame'
  BY <1>1, StillSame
<1>3. SettledInSync' /\ DoneOK'
  BY <1>1, UntouchedDirectory, StayInSync
<1>4. PatchOK' /\ CreatedOK'
  BY DEF PatchOK, CreatedOK, Reading
<1>5. QED
  BY <1>2, <1>3, <1>4 DEF CleanInv

LEMMA MatchUserClean ==
  ASSUME Inv, LinkInv, OneInv, CleanInv, MatchUser
  PROVE  CleanInv'
<1> DEFINE e == ByExt(index, TheUser.ext)
           n == ByName(index, TheUser.user)
           Object(s) == [id |-> s.id, acc |-> object[s.id], shared |-> TRUE]
<1>1. /\ UNCHANGED <<dir, conf, index, object>> /\ pc = "user" /\ pc \in Working /\ AtUser
      /\ Expected(pos) /\ DistinctOK(index)
  BY DEF MatchUser, NoWrite, snapshot, Working, AtUser, OneInv, ExpectOK
<1>2. TypeOK /\ TheUser.ext # NoExt
  BY <1>1, WorkingOK, SyncAssumption DEF User
<1>3. /\ e # NoSeen => e \in index /\ e.acc.ext = TheUser.ext
      /\ e = NoSeen => \A s \in index : s.acc.ext # TheUser.ext
      /\ n # NoSeen => n \in index /\ n.acc.user = TheUser.user
  <2>1. index \in SUBSET Seen
    BY <1>2 DEF TypeOK
  <2>2. /\ e # NoSeen => e \in index /\ e.acc.ext = TheUser.ext
        /\ e = NoSeen => \A s \in index : s.acc.ext # TheUser.ext
    BY <2>1, ByKey
  <2>3. n # NoSeen => n \in index /\ n.acc.user = TheUser.user
    BY <2>1, ByKey
  <2>4. QED
    BY <2>2, <2>3
<1>4. \A s \in index : Object(s) \in AtHand
  BY DEF Inv, ObjectOK, TypeOK, AtHand, Seen
<1> HIDE DEF e, n
<1>5. CASE Settle(Plus(result, "conflicts"))
  <2>1. Settled(result') /\ result'["conflicts"] > 0
    BY <1>5, PlusSettled DEF Counters
  <2>2. result'["conflicts"] # 0
    BY <2>1 DEF Settled, Grown, Counters
  <2>3. QED
    BY <1>1, <2>1, <2>2, FailedClean
<1>6. CASE e # NoSeen /\ Reconcile(Object(e), FALSE)
  <2>1. \A i \in Present : dir[i].ext = TheUser.ext => i = e.id
    <3>1. SUFFICES ASSUME NEW i \in Present, dir[i].ext = TheUser.ext PROVE i = e.id
      OBVIOUS
    <3>2. PICK s \in index : s.id = i /\ s.acc.ext = TheUser.ext
      BY <1>1, <3>1 DEF Expected, TheUser
    <3>3. s = e
      BY <1>1, <1>2, <1>3, <1>6, <3>2 DEF DistinctOK
    <3>4. QED
      BY <3>2, <3>3
  <2>2. FromSnapshot(Object(e), FALSE)
    BY <1>3, <1>6 DEF FromSnapshot
  <2>3. Object(e) \in AtHand /\ Object(e).id = e.id
    BY <1>3, <1>4, <1>6
  <2> HIDE DEF Object
  <2>4. QED
    BY <1>1, <1>6, <2>1, <2>2, <2>3, MatchedClean
<1>7. CASE e = NoSeen /\ n # NoSeen /\ Reconcile(Object(n), TRUE)
  <2>1. Nobody
    BY <1>1, <1>3, <1>7 DEF Expected, Nobody, TheUser
  <2>2. FromSnapshot(Object(n), TRUE)
    BY <1>3, <1>7 DEF FromSnapshot
  <2>3. Object(n) \in AtHand
    BY <1>3, <1>4, <1>7
  <2> HIDE DEF Object
  <2>4. QED
    BY <1>1, <1>7, <2>1, <2>2, <2>3, RecoverClean
<1>8. CASE pc' = "create" /\ UNCHANGED <<cur, pos, result>>
  BY <1>1, <1>8, StillClean
<1>9. QED
  BY <1>5, <1>6, <1>7, <1>8 DEF MatchUser, e, n

LEMMA NameIsNullClean ==
  ASSUME Inv, CleanInv, NameIsNull
  PROVE  CleanInv'
<1>1. UNCHANGED <<dir, conf, index, object, cur, pos, result>> /\ AtUser /\ pc' = "crashed"
  BY DEF NameIsNull, NoWrite, snapshot, AtUser, Working, Reading
<1>2. OwnSame' /\ Grown(result')
  BY <1>1, StillSame DEF Inv, TypeOK, Grown
<1>3. SettledInSync' /\ DoneOK'
  BY <1>1, <1>2, UntouchedDirectory, StayInSync
<1>4. PatchOK' /\ CreatedOK'
  BY <1>1 DEF PatchOK, CreatedOK, Reading
<1>5. QED
  BY <1>2, <1>3, <1>4 DEF CleanInv

LEMMA CreateConflictsClean ==
  ASSUME Inv, CleanInv, CreateConflicts
  PROVE  CleanInv'
<1>1. /\ UNCHANGED <<dir, conf, index, object, pos, result>> /\ pc = "create" /\ pc' = "query" /\ AtUser
  BY DEF CreateConflicts, NoWrite, snapshot, AtUser, Working
<1>2. QED
  BY <1>1, StillClean

LEMMA Handle409Clean ==
  ASSUME Inv, LinkInv, OneInv, CleanInv, NEW zeroBased \in BOOLEAN, Handle409(zeroBased)
  PROVE  CleanInv'
<1> DEFINE found == {Read(i) : i \in {j \in Present : dir[j].user = TheUser.user}}
           s == CHOOSE s \in found : TRUE
<1>1. /\ UNCHANGED <<dir, conf, index, object>> /\ pc = "query" /\ AtUser /\ Unmatched /\ Nobody /\ TypeOK
  BY DEF Handle409, NoWrite, snapshot, AtUser, Working, LinkInv, HandOK, OneInv, ExpectOK, Inv
<1>2. CASE Settle(Plus(result, "conflicts"))
  <2>1. Settled(result') /\ result'["conflicts"] > 0
    BY <1>2, PlusSettled DEF Counters
  <2>2. result'["conflicts"] # 0
    BY <2>1 DEF Settled, Grown, Counters
  <2>3. QED
    BY <1>1, <2>1, <2>2, FailedClean
<1>3. CASE goal' = "conflict" /\ pc' = "list" /\ UNCHANGED <<pos, result>>
  BY <1>1, <1>3, StillClean
<1>4. CASE Cardinality(found) = 1 /\ Reconcile(Shared(s, FALSE), TRUE)
  <2>1. \A t \in found : t \in Seen /\ t.id \in Present /\ t.acc = dir[t.id] /\ t.acc.user = TheUser.user
    BY <1>1, ReadType
  <2> HIDE DEF found
  <2>2. found # {}
    BY <1>4, FS_EmptySet
  <2>3. s \in found
    BY <2>2
  <2> HIDE DEF s
  <2>4. Shared(s, FALSE) \in AtHand
    BY <2>1, <2>3 DEF Shared, Seen, AtHand
  <2>5. FromDirectory(Shared(s, FALSE))
    BY <1>1, <2>1, <2>3 DEF FromDirectory, Shared
  <2>6. QED
    BY <1>1, <1>4, <2>4, <2>5, RecoverClean
<1>5. QED
  BY <1>2, <1>3, <1>4 DEF Handle409

LEMMA CreateUserClean ==
  ASSUME Inv, LinkInv, OneInv, CleanInv, NEW lost \in BOOLEAN, CreateUser(lost)
  PROVE  CleanInv'
<1>1. /\ UNCHANGED <<index, object>> /\ pc = "create" /\ pc \in Working /\ AtUser /\ Nobody
  BY DEF CreateUser, snapshot, Working, AtUser, OneInv, ExpectOK
<1>2. TheUser \in Account
  BY <1>1, WorkingOK
<1>3. PICK i \in AppleIds \ Present :
        /\ Store(i, TheUser)
        /\ \/ \E c \in Counters : Settle(Plus(result, c))
           \/ /\ cur' = [id |-> i, acc |-> TheUser, shared |-> FALSE]
              /\ goal' = "created" /\ pc' = "lookup"
              /\ UNCHANGED <<pos, result>>
  BY DEF CreateUser, Counters
<1>4. /\ \A j \in AppleIds : dir'[j] = IF j = i THEN TheUser ELSE dir[j]
      /\ Present' = Present \cup {i} /\ UNCHANGED conf
  BY <1>2, <1>3, StoreFacts
<1>5. \A j \in Present' : IF j = i THEN dir'[j] = TheUser ELSE j \in Present /\ dir'[j] = dir[j]
  BY <1>4 DEF Present
<1>6. Touched
  BY <1>3, <1>4, <1>5 DEF Touched
<1>7. \A s \in index : dir'[s.id] = dir[s.id]
  BY <1>3, <1>4 DEF LinkInv, IndexOK, Present
<1>8. CASE \E c \in Counters : Settle(Plus(result, c))
  <2>1. Settled(result') /\ Grown(result') /\ pos' = pos + 1
    BY <1>8, PlusSettled DEF Settled, Settle
  <2>2. PICK p : p = pos
    OBVIOUS
  <2>3. InSync(p)'
    <3>1. FieldDiffs(TheUser, TheUser) = {}
      BY DEF FieldDiffs
    <3>2. i \in Present' /\ dir'[i] = TheUser /\ \A j \in Present' : dir'[j].ext = TheUser.ext => j = i
      BY <1>1, <1>4, <1>5 DEF Nobody
    <3>3. QED
      BY <1>4, <2>2, <3>1, <3>2, InSyncNow
  <2>4. OwnSame'
    BY <1>1, <1>4, <1>7, <2>1, StillSame
  <2>5. SettledInSync' /\ DoneOK' /\ PatchOK' /\ CreatedOK'
    BY <1>1, <1>4, <1>6, <2>1, <2>2, <2>3, SettleInSync
  <2>6. QED
    BY <2>4, <2>5 DEF CleanInv
<1>9. CASE /\ cur' = [id |-> i, acc |-> TheUser, shared |-> FALSE]
           /\ goal' = "created" /\ pc' = "lookup" /\ UNCHANGED <<pos, result>>
  <2>1. Grown(result')
    BY <1>9 DEF Inv, TypeOK, Grown
  <2>2. OwnSame'
    BY <1>1, <1>4, <1>7, <1>9, <2>1, StillSame
  <2>3. SettledInSync' /\ DoneOK'
    BY <1>1, <1>4, <1>6, <1>9, <2>1, StayInSync
  <2>4. PatchOK' /\ CreatedOK'
    BY <1>4, <1>5, <1>9 DEF PatchOK, CreatedOK, TheUser
  <2>5. QED
    BY <2>2, <2>3, <2>4 DEF CleanInv
<1>10. QED
  BY <1>3, <1>8, <1>9

LEMMA RepairExternalIdClean ==
  ASSUME Inv, LinkInv, OneInv, CleanInv, NEW lost \in BOOLEAN, RepairExternalId(lost)
  PROVE  CleanInv'
<1> DEFINE a == [dir[cur.id] EXCEPT !.ext = TheUser.ext]
<1>1. /\ UNCHANGED <<index, object>> /\ pc = "repair" /\ pc \in Working /\ AtUser
      /\ cur.id \in Present /\ Store(cur.id, a)
  BY DEF RepairExternalId, snapshot, Working, AtUser
<1>2. TypeOK /\ TheUser \in User /\ cur \in AtHand /\ cur.id \in AppleIds /\ dir[cur.id] \in Account
  BY <1>1, WorkingOK, ReadType
<1>3. a \in Account /\ a.ext = TheUser.ext
  BY <1>2, RepairedFields DEF Account, User
<1> HIDE DEF a
<1>4. /\ \A j \in AppleIds : dir'[j] = IF j = cur.id THEN a ELSE dir[j]
      /\ Present' = Present \cup {cur.id} /\ UNCHANGED conf
  BY <1>1, <1>2, <1>3, StoreFacts
<1>5. \A j \in Present' : IF j = cur.id THEN dir'[j] = a ELSE j \in Present /\ dir'[j] = dir[j]
  BY <1>4 DEF Present
<1>6. result["errors"] = 0 => Touched
  BY <1>1, <1>3, <1>4, <1>5, FreeToLink DEF Touched
<1>7. \A s \in index : dir'[s.id] = dir[s.id] \/ s.acc.ext = NoExt
  BY <1>1, <1>2, <1>4, RepairedEntry DEF LinkInv, IndexOK, Present
<1>8. CASE Settle(Plus(result, "errors"))
  <2>1. Settled(result') /\ result'["errors"] > 0
    BY <1>8, PlusSettled DEF Counters
  <2>2. result'["errors"] # 0
    BY <2>1 DEF Settled, Grown, Counters
  <2>3. SettledInSync' /\ DoneOK' /\ PatchOK' /\ CreatedOK'
    BY <1>1, <1>4, <2>1, <2>2, SettleInSync
  <2>4. OwnSame'
    BY <1>1, <1>4, <1>7, <2>1, OwnSameKept DEF Settled, Settle, CleanInv
  <2>5. QED
    BY <2>3, <2>4 DEF CleanInv
<1>9. CASE pc' = "confirm" /\ UNCHANGED <<cur, pos, result>>
  <2>1. Grown(result')
    BY <1>9 DEF Inv, TypeOK, Grown
  <2>2. SettledInSync' /\ DoneOK'
    BY <1>1, <1>4, <1>6, <1>9, <2>1, StayInSync
  <2>3. PatchOK' /\ CreatedOK'
    BY <1>9 DEF PatchOK, CreatedOK, Reading
  <2>4. OwnSame'
    BY <1>1, <1>4, <1>9, <1>7, OwnSameKept DEF CleanInv
  <2>5. QED
    BY <2>2, <2>3, <2>4 DEF CleanInv
<1>10. QED
  BY <1>8, <1>9 DEF RepairExternalId

LEMMA ConfirmRepairClean ==
  ASSUME Inv, LinkInv, OneInv, CleanInv, ConfirmRepair
  PROVE  CleanInv'
<1> DEFINE a == [cur EXCEPT !.acc = dir[cur.id]]
<1>1. /\ UNCHANGED <<dir, conf, index>> /\ pc = "confirm" /\ pc \in Working /\ AtUser /\ OnlyAtHand
      /\ cur.id \in Present /\ object' = Refreshed(cur.id)
      /\ PatchOrSettle(a, Plus(result, "updated"), TRUE)
  BY DEF ConfirmRepair, NoWrite, Working, AtUser, OneInv, ExpectOK
<1>2. TypeOK /\ cur \in AtHand
  BY <1>1, WorkingOK
<1>3. a.id = cur.id /\ a.acc = dir[cur.id] /\ a.acc.ext = TheUser.ext
  BY <1>1, <1>2 DEF AtHand, LinkInv, HandOK
<1> HIDE DEF a
<1>4. Grown(Plus(result, "updated"))
  BY <1>2, ResultGrown DEF Counters
<1>5. ASSUME pos' \in {pos, pos + 1}
      PROVE  OwnSame'
  <2>1. ASSUME NEW s \in index
        PROVE  object'[s.id] \in {dir[s.id], object[s.id]}
    BY <1>1, <1>2 DEF LinkInv, IndexOK, Present, Refreshed, TypeOK
  <2>2. QED
    BY <1>1, <1>5, <2>1, OwnSameKept DEF CleanInv
<1>6. CASE /\ Grown(result') /\ cur' = a /\ pc' = "patch" /\ UNCHANGED pos
           /\ ActionableDiffs(a.acc, TheUser) # {}
           /\ result'["outOfScope"] = 0 => FieldDiffs(a.acc, TheUser) \subseteq UpdateFields
  <2>1. OwnSame'
    BY <1>5, <1>6
  <2>2. SettledInSync' /\ DoneOK'
    BY <1>1, <1>6, UntouchedDirectory, StayInSync
  <2>3. CreatedOK'
    BY <1>6 DEF CreatedOK, Reading
  <2>4. PatchOK'
    <3>1. TheUser' = TheUser /\ UpdateFields' = UpdateFields
      BY <1>1, <1>6 DEF TheUser, UpdateFields
    <3>2. cur'.acc = dir'[cur'.id] /\ ActionableDiffs(cur.acc, TheUser)' # {}
      BY <1>1, <1>3, <1>6, <3>1 DEF ActionableDiffs, FieldDiffs
    <3>3. result'["outOfScope"] = 0 => FieldDiffs(cur.acc, TheUser)' \subseteq UpdateFields'
      BY <1>6, <3>1 DEF FieldDiffs
    <3>4. QED
      BY <3>2, <3>3 DEF PatchOK
  <2>5. QED
    BY <2>1, <2>2, <2>3, <2>4 DEF CleanInv
<1>7. CASE /\ ActionableDiffs(a.acc, TheUser) = {} /\ Settled(result')
           /\ result'["outOfScope"] = 0 => FieldDiffs(a.acc, TheUser) \subseteq UpdateFields
  <2>1. Grown(result') /\ pos' = pos + 1
    BY <1>7 DEF Settled, Settle
  <2>2. OwnSame'
    BY <1>5, <2>1
  <2>3. PICK p : p = pos
    OBVIOUS
  <2>4. InSync(p)'
    <3>1. /\ FieldDiffs(a.acc, TheUser) \cap UpdateFields = {}
          /\ result'["outOfScope"] = 0 => FieldDiffs(a.acc, TheUser) = {}
      BY <1>7 DEF ActionableDiffs
    <3>2. Present' = Present
      BY <1>1 DEF Present
    <3>3. /\ cur.id \in Present' /\ dir'[cur.id].ext = TheUser.ext /\ a.acc = dir'[cur.id]
          /\ \A j \in Present' : dir'[j].ext = TheUser.ext => j = cur.id
      BY <1>1, <1>3, <3>2 DEF OnlyAtHand
    <3>4. QED
      BY <1>1, <2>3, <3>1, <3>3, InSyncNow
  <2>5. SettledInSync' /\ DoneOK' /\ PatchOK' /\ CreatedOK'
    BY <1>1, <1>7, <2>3, <2>4, UntouchedDirectory, SettleInSync
  <2>6. QED
    BY <2>2, <2>5 DEF CleanInv
<1>8. QED
  BY <1>1, <1>4, <1>6, <1>7, PatchOrSettleSteps

\* An update computed from the account as it is brings every field of the update
\* mode in line, and all fields if no other differed.
LEMMA UpdateSettles ==
  ASSUME NEW u \in User, cur.acc \in Account, cur.acc.ext = u.ext
  PROVE  /\ FieldDiffs(Updated(cur.acc, u), u) \cap UpdateFields = {}
         /\ FieldDiffs(cur.acc, u) \subseteq UpdateFields => FieldDiffs(Updated(cur.acc, u), u) = {}
<1> DEFINE fields == IF conf.mode = "replace_all" THEN {"userName", "emails", "other"}
                     ELSE ActionableDiffs(cur.acc, u)
           r == Updated(cur.acc, u)
<1>1. \A f \in FieldDiffs(cur.acc, u) \cap UpdateFields : f \in fields
  <2>1. FieldDiffs(cur.acc, u) \subseteq {"userName", "emails", "other"}
    BY DiffFields
  <2>2. QED
    BY <2>1 DEF ActionableDiffs
<1>2. /\ r.ext = u.ext
      /\ "userName" \in fields \/ cur.acc.user = u.user => r.user = u.user
      /\ "emails" \in fields \/ cur.acc.mail = u.mail => r.mail = u.mail
      /\ "other" \in fields \/ cur.acc.other = u.other => r.other = u.other
  BY UpdatedFields
<1> HIDE DEF fields, r
<1>3. \A f \in UpdateFields : f \notin FieldDiffs(r, u)
  <2>1. SUFFICES ASSUME NEW f \in UpdateFields, f \in FieldDiffs(r, u) PROVE FALSE
    OBVIOUS
  <2>2. f \in {"externalId", "userName", "emails", "other"}
    BY <2>1, DiffFields
  <2>3. f \in FieldDiffs(cur.acc, u) => f \in fields
    BY <1>1
  <2>4. QED
    BY <1>2, <2>1, <2>2, <2>3, DiffFields
<1>4. ASSUME FieldDiffs(cur.acc, u) \subseteq UpdateFields, NEW f \in FieldDiffs(r, u)
      PROVE  FALSE
  <2>1. f \in {"externalId", "userName", "emails", "other"}
    BY <1>4, DiffFields
  <2>2. f \in FieldDiffs(cur.acc, u) => f \in fields
    BY <1>1, <1>4
  <2>3. QED
    BY <1>2, <1>4, <2>1, <2>2, DiffFields
<1>5. QED
  BY <1>3, <1>4 DEF r

LEMMA PatchUserClean ==
  ASSUME Inv, LinkInv, OneInv, CleanInv, NEW lost \in BOOLEAN, PatchUser(lost)
  PROVE  CleanInv'
<1> DEFINE a == Updated(dir[cur.id], TheUser)
<1>1. /\ UNCHANGED <<index, object>> /\ pc = "patch" /\ pc \in Working /\ AtUser /\ OnlyAtHand
      /\ cur.id \in Present /\ Store(cur.id, a)
      /\ cur.acc.ext = TheUser.ext /\ dir[cur.id].ext = TheUser.ext
      /\ Settle(Plus(result, IF lost THEN "errors" ELSE "updated"))
  BY DEF PatchUser, snapshot, Working, AtUser, OneInv, ExpectOK, LinkInv, HandOK
<1>2. TypeOK /\ TheUser \in User /\ cur \in AtHand /\ cur.id \in AppleIds /\ dir[cur.id] \in Account
  BY <1>1, WorkingOK, ReadType
<1>3. a \in Account /\ a.ext = TheUser.ext
  BY <1>1, <1>2, UpdatedType, UpdateKeepsLink
<1>4. /\ FieldDiffs(a, TheUser) \cap UpdateFields = {}
      /\ result["outOfScope"] = 0 => FieldDiffs(a, TheUser) = {}
  BY <1>1, <1>2, UpdateSettles DEF CleanInv, PatchOK
<1> HIDE DEF a
<1>5. /\ \A j \in AppleIds : dir'[j] = IF j = cur.id THEN a ELSE dir[j]
      /\ Present' = Present \cup {cur.id} /\ UNCHANGED conf
  BY <1>1, <1>2, <1>3, StoreFacts
<1>6. \A j \in Present' : j \in Present /\ dir'[j] = IF j = cur.id THEN a ELSE dir[j]
  BY <1>1, <1>5 DEF Present
<1>7. Touched
  BY <1>1, <1>3, <1>5, <1>6 DEF Touched
<1>8. /\ Settled(result') /\ Grown(result') /\ pos' = pos + 1
      /\ result'["errors"] = 0 => result["errors"] = 0 /\ result'["outOfScope"] = result["outOfScope"]
  <2>1. PICK c \in {"errors", "updated"} : Settle(Plus(result, c))
    BY <1>1
  <2>2. c \in Counters /\ "outOfScope" \in Counters \ {c}
    BY DEF Counters
  <2>3. Settled(result') /\ result'["outOfScope"] = result["outOfScope"]
    BY <2>1, <2>2, PlusSettled
  <2>4. Grown(result') /\ pos' = pos + 1
    BY <2>3 DEF Settled, Settle
  <2>5. QED
    BY <2>3, <2>4, CleanBefore
<1>9. OwnSame'
  <2>1. ASSUME NEW s \in index
        PROVE  dir'[s.id] = dir[s.id] \/ s.acc.ext \in {NoExt, TheUser.ext}
    BY <1>1, <1>5 DEF LinkInv, LinkOK, IndexOK, Present
  <2>2. pos <= Len(conf.source)
    BY <1>1, WorkingOK
  <2>3. QED
    BY <1>1, <1>5, <1>8, <2>1, <2>2, OwnSameKept DEF CleanInv
<1>10. PICK p : p = pos
  OBVIOUS
<1>11. ASSUME result'["errors"] = 0
       PROVE  InSync(p)'
  <2>1. /\ FieldDiffs(a, TheUser) \cap UpdateFields = {}
        /\ result'["outOfScope"] = 0 => FieldDiffs(a, TheUser) = {}
    BY <1>4, <1>8, <1>11
  <2>2. /\ cur.id \in Present' /\ dir'[cur.id] = a /\ dir'[cur.id].ext = TheUser.ext
        /\ \A j \in Present' : dir'[j].ext = TheUser.ext => j = cur.id
    BY <1>1, <1>3, <1>5, <1>6 DEF OnlyAtHand
  <2>3. QED
    BY <1>5, <1>10, <2>1, <2>2, InSyncNow
<1>12. SettledInSync' /\ DoneOK' /\ PatchOK' /\ CreatedOK'
  BY <1>1, <1>5, <1>7, <1>8, <1>10, <1>11, SettleInSync
<1>13. QED
  BY <1>9, <1>12 DEF CleanInv

LEMMA InitClean ==
  ASSUME Init
  PROVE  CleanInv
<1>1. pos - 1 = 0 /\ 1 .. pos - 1 = {}
  BY DEF Init
<1>2. OwnSame /\ SettledInSync
  BY <1>1 DEF Init, OwnSame, SettledInSync
<1>3. PatchOK /\ CreatedOK /\ DoneOK
  BY DEF Init, PatchOK, CreatedOK, DoneOK
<1>4. QED
  BY <1>2, <1>3 DEF CleanInv

LEMMA SyncStepClean ==
  ASSUME Inv, LinkInv, OneInv, CleanInv, SyncStep
  PROVE  CleanInv'
BY ReadingStepsClean, FailsClean, MatchUserClean, NameIsNullClean, CreateConflictsClean,
   Handle409Clean, CreateUserClean, RepairExternalIdClean, ConfirmRepairClean, PatchUserClean
   DEF SyncStep

LEMMA SameClean ==
  ASSUME CleanInv, UNCHANGED vars
  PROVE  CleanInv'
<1>1. UNCHANGED <<Present, TheUser, UpdateFields>>
  BY DEF vars, Present, TheUser, UpdateFields
<1>2. OwnSame'
  BY DEF vars, CleanInv, OwnSame
<1>3. PatchOK' /\ CreatedOK' /\ DoneOK'
  BY <1>1 DEF vars, CleanInv, PatchOK, CreatedOK, DoneOK, ActionableDiffs, FieldDiffs
<1>4. \A k : InSync(k)' = InSync(k)
  BY <1>1 DEF vars, InSync, ActionableDiffs, FieldDiffs
<1>5. SettledInSync'
  BY <1>4 DEF vars, CleanInv, SettledInSync
<1>6. QED
  BY <1>2, <1>3, <1>5 DEF CleanInv

CleanWhileQuiet == Quiet => CleanInv

LEMMA CleanInvariance == Spec => []CleanWhileQuiet
<1>1. Init => CleanWhileQuiet
  BY InitClean DEF CleanWhileQuiet
<1>2. Inv /\ LinkedWhileQuiet /\ OneWhileQuiet /\ CleanWhileQuiet /\ [Next]_vars => CleanWhileQuiet'
  BY QuietSteps, SyncStepClean, SameClean DEF LinkedWhileQuiet, OneWhileQuiet, CleanWhileQuiet
<1>3. QED
  BY <1>1, <1>2, Invariance, LinkInvariance, OneInvariance, PTL DEF Spec

\* "It does not get retried forever": while nobody else changes the directory and
\* it agrees with the source in the fields of the update mode, whatever else
\* differs and whatever failed before, _reconcile_diffs and _handle_409 bring the
\* run nowhere near a request that writes, not even one that would change nothing.
THEOREM InSyncStays == Spec => []NoChurn
<1>1. ASSUME Inv, OneWhileQuiet, CleanWhileQuiet
      PROVE  NoChurn
  <2>1. SUFFICES ASSUME Quiet, InScopeAgrees, pc \in {"create", "query", "repair", "patch"}
                 PROVE  FALSE
    BY DEF NoChurn
  <2>2. OneInv /\ CleanInv /\ pc \in Working
    BY <1>1, <2>1 DEF OneWhileQuiet, CleanWhileQuiet, Working
  <2>3. pos \in 1 .. Len(conf.source)
    BY <1>1, <2>2, WorkingOK, SourceBounds
  <2>4. PICK i \in Present : dir[i].ext = TheUser.ext /\ ActionableDiffs(dir[i], TheUser) = {}
    BY <2>1, <2>3 DEF InScopeAgrees, TheUser, ActionableDiffs
  <2>5. pc = "patch" /\ i = cur.id
    BY <2>1, <2>2, <2>4 DEF OneInv, ExpectOK, Nobody, OnlyAtHand
  <2>6. QED
    BY <2>2, <2>4, <2>5 DEF CleanInv, PatchOK
<1>2. QED
  BY <1>1, Invariance, OneInvariance, CleanInvariance, PTL

\* A run of sync_users that nobody interfered with and that reports neither a
\* conflict nor an error leaves one account per source user, equal to it in every
\* field of the update mode, and in every field if no out_of_scope_diffs are
\* reported: for any directory, any source and any listing style.
THEOREM SuccessIsInSync == Spec => []CleanRunIsInSync
<1>1. ASSUME Inv, CleanWhileQuiet
      PROVE  CleanRunIsInSync
  <2>1. SUFFICES ASSUME pc = "done", Quiet, result["errors"] = 0, result["conflicts"] = 0,
                        NEW k \in 1 .. Len(conf.source), NEW own,
                        own = {i \in Present : dir[i].ext = conf.source[k].ext}
                 PROVE  /\ Cardinality(own) = 1
                        /\ \A i \in own :
                             /\ ActionableDiffs(dir[i], conf.source[k]) = {}
                             /\ result["outOfScope"] = 0 => FieldDiffs(dir[i], conf.source[k]) = {}
    BY DEF CleanRunIsInSync
  <2>2. CleanInv
    BY <1>1, <2>1 DEF CleanWhileQuiet
  <2>3. k \in 1 .. pos - 1
    <3>1. pos = Len(conf.source) + 1 /\ Len(conf.source) \in Nat
      BY <1>1, <2>1, <2>2, ValueAssumption, LenProperties DEF CleanInv, DoneOK, Inv, TypeOK
    <3>2. QED
      BY <2>1, <3>1
  <2>4. InSync(k)
    BY <2>1, <2>2, <2>3 DEF CleanInv, SettledInSync
  <2>5. PICK i \in Present :
          /\ dir[i].ext = conf.source[k].ext
          /\ \A j \in Present : dir[j].ext = conf.source[k].ext => j = i
          /\ ActionableDiffs(dir[i], conf.source[k]) = {}
          /\ result["outOfScope"] = 0 => FieldDiffs(dir[i], conf.source[k]) = {}
    BY <2>4 DEF InSync
  <2>6. own = {i}
    BY <2>1, <2>5
  <2>7. Cardinality(own) = 1
    BY <2>6, FS_Singleton
  <2>8. QED
    BY <2>5, <2>6, <2>7
<1>2. QED
  BY <1>1, Invariance, CleanInvariance, PTL
=============================================================================
