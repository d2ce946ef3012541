---------------------------- MODULE StartupProofs ----------------------------
(***************************************************************************)
(* What Startup promises, for any hosts, allow-lists, keys and queue.      *)
(***************************************************************************)
EXTENDS Startup, TLAPS

\* Facts about the key files: a whole pair matches unless a start was cut short, a
\* process past ensure_keys has both files, and one inside it has what it wrote.
FilesInv ==
  /\ phase \notin {"pem", "between", "jwks"} /\ ~cut /\ KeysExist
       => pem \in KeyIds /\ jwks = pem
  /\ phase \in {"initdb", "serving"} => KeysExist
  /\ phase \in {"pem", "between", "jwks"} => fresh \in KeyIds
  /\ phase \in {"between", "jwks"} => pem = fresh

\* A stored SET was signed with a matching pair, or while cut.
SignedWell(s) == s.by = s.kid \/ s.cut

\* Its kid is the published one and both files are in place, or it is retired.
\* Both files matter: ensure_keys replaces jwks.json when private.pem is missing.
Published(s) ==
  s.kid \in retired \/ (s.kid = jwks /\ pem # NoFile /\ phase \notin {"pem", "between", "jwks"})

QueueInv == \A s \in queue : SignedWell(s) /\ Published(s)

\* A POST is made by a serving process, to a host it allows.
WireInv ==
  wire # NoPush =>
    /\ phase = "serving"
    /\ SignedWell(wire.set) /\ Published(wire.set)
    /\ HostAllowed(wire.host, allowed)

Inv == TypeOK /\ FilesInv /\ QueueInv /\ WireInv

-----------------------------------------------------------------------------
(* Types.                                                                  *)

\* What sign_set returns is a SET when the key files can be used.
LEMMA SignedType ==
  ASSUME TypeOK, CanSign
  PROVE  Signed \in Set
BY DEF TypeOK, CanSign, Signed, Set

LEMMA TypeInit == Init => TypeOK
BY StartupAssumption DEF Init, TypeOK, Phases, File

LEMMA TypeStep == TypeOK /\ FilesInv /\ [Next]_vars => TypeOK'
<1> SUFFICES ASSUME TypeOK, FilesInv, [Next]_vars PROVE TypeOK'
  OBVIOUS
<1>1. ASSUME NEW env \in Environment, NEW readable \in BOOLEAN, Boot(env, readable)
      PROVE  TypeOK'
  <2>1. FailedChecks(env, readable) \in SUBSET Checks
    BY DEF FailedChecks
  <2>2. env.hosts \in AllowLists
    BY DEF Environment
  <2>3. phase' \in Phases /\ failed' \in SUBSET Checks /\ allowed' \in AllowLists
    BY <1>1, <2>1, <2>2 DEF Boot, TypeOK, Phases
  <2> QED
    BY <1>1, <2>3 DEF Boot, TypeOK, files, serving
<1>2. CASE KeepKeys
  BY <1>2 DEF KeepKeys, TypeOK, Phases, files, serving
<1>3. ASSUME NEW k \in KeyIds, OpenPem(k)
      PROVE  TypeOK'
  BY <1>3 DEF OpenPem, TypeOK, Phases, File, serving
<1>4. CASE WritePem \/ OpenJwks \/ WriteJwks
  <2>1. fresh \in KeyIds
    BY <1>4 DEF FilesInv, WritePem, OpenJwks, WriteJwks
  <2> QED
    BY <1>4, <2>1 DEF WritePem, OpenJwks, WriteJwks, TypeOK, Phases, File, serving
<1>5. CASE InitDb
  BY <1>5 DEF InitDb, TypeOK, Phases, files, serving
<1>6. CASE Die
  BY <1>6 DEF Die, TypeOK, Phases
<1>7. CASE Enqueue
  BY <1>7, SignedType DEF Enqueue, TypeOK, files
<1>8. ASSUME NEW s \in queue, NEW ips \in Answers, NEW done \in BOOLEAN, PushQueued(s, ips, done)
      PROVE  TypeOK'
  <2>1. [set |-> s, host |-> stream] \in [set: Set, host: Hosts]
    BY <1>8 DEF PushQueued, TypeOK
  <2> QED
    BY <1>8, <2>1 DEF PushQueued, TypeOK, files
<1>9. ASSUME NEW h \in Hosts, NEW ips \in Answers, NEW later \in Answers, NEW ok \in BOOLEAN,
             CreatePush(h, ips, later, ok)
      PROVE  TypeOK'
  <2>1. [set |-> Signed, host |-> h] \in [set: Set, host: Hosts]
    BY <1>9, SignedType DEF CreatePush
  <2>2. [op |-> "save", host |-> h] \in [op: {"save", "verify"}, host: Hosts]
    OBVIOUS
  <2> QED
    BY <1>9, <2>1, <2>2 DEF CreatePush, TypeOK, files
<1>10. CASE CreateSave
  BY <1>10 DEF CreateSave, TypeOK, files
<1>11. ASSUME NEW h \in Hosts, NEW ips \in Answers, PatchEndpoint(h, ips)
       PROVE  TypeOK'
  BY <1>11 DEF PatchEndpoint, TypeOK, files
<1>12. CASE DeleteStream
  BY <1>12 DEF DeleteStream, TypeOK, files
<1>13. CASE VerifyRead
  BY <1>13 DEF VerifyRead, TypeOK, files
<1>14. ASSUME NEW ips \in Answers, VerifyPush(ips)
       PROVE  TypeOK'
  <2>1. job.host \in Hosts
    BY <1>14 DEF VerifyPush, TypeOK
  <2>2. wire' \in [set: Set, host: Hosts] \cup {NoPush}
    BY <1>14, <2>1, SignedType DEF VerifyPush
  <2> QED
    BY <1>14, <2>2 DEF VerifyPush, TypeOK, files
<1>15. ASSUME NEW P \in BOOLEAN, NEW J \in BOOLEAN, RemoveKeyFiles(P, J)
       PROVE  TypeOK'
  BY <1>15 DEF RemoveKeyFiles, TypeOK, File, serving
<1>16. CASE ChangeAccess
  BY <1>16 DEF ChangeAccess, TypeOK, files, serving
<1>17. CASE UNCHANGED vars
  BY <1>17 DEF vars, TypeOK
<1> QED
  BY <1>1, <1>2, <1>3, <1>4, <1>5, <1>6, <1>7, <1>8, <1>9, <1>10, <1>11, <1>12, <1>13, <1>14,
     <1>15, <1>16, <1>17 DEF Next

-----------------------------------------------------------------------------
(* The key files.                                                          *)

LEMMA FilesStep == TypeOK /\ FilesInv /\ [Next]_vars => FilesInv'
<1> SUFFICES ASSUME TypeOK, FilesInv, [Next]_vars PROVE FilesInv'
  OBVIOUS
<1>1. CASE UNCHANGED <<phase, pem, jwks, fresh, cut>>
  BY <1>1 DEF FilesInv, KeysExist
<1>2. ASSUME NEW env \in Environment, NEW readable \in BOOLEAN, Boot(env, readable)
      PROVE  FilesInv'
  BY <1>2 DEF Boot, FilesInv, KeysExist, files
<1>3. CASE KeepKeys
  BY <1>3 DEF KeepKeys, FilesInv, KeysExist, files
<1>4. ASSUME NEW k \in KeyIds, OpenPem(k)
      PROVE  FilesInv'
  BY <1>4 DEF OpenPem, FilesInv, KeysExist
<1>5. CASE WritePem
  BY <1>5 DEF WritePem, FilesInv, KeysExist
<1>6. CASE OpenJwks
  BY <1>6 DEF OpenJwks, FilesInv, KeysExist
<1>7. CASE WriteJwks
  BY <1>7, StartupAssumption DEF WriteJwks, FilesInv, KeysExist
<1>8. CASE InitDb
  BY <1>8 DEF InitDb, FilesInv, KeysExist, files
<1>9. CASE Die
  BY <1>9 DEF Die, FilesInv, KeysExist, TypeOK
<1>10. ASSUME NEW P \in BOOLEAN, NEW J \in BOOLEAN, RemoveKeyFiles(P, J)
       PROVE  FilesInv'
  BY <1>10 DEF RemoveKeyFiles, FilesInv, KeysExist
<1> QED
  BY <1>1, <1>2, <1>3, <1>4, <1>5, <1>6, <1>7, <1>8, <1>9, <1>10
  DEF Next, Enqueue, PushQueued, CreatePush, CreateSave, PatchEndpoint, DeleteStream, VerifyRead,
      VerifyPush, ChangeAccess, files, vars

-----------------------------------------------------------------------------
(* SETs in the queue and on their way.                                     *)

\* A SET signed by a serving process verifies under the published key set.
LEMMA SigningIsSound ==
  ASSUME TypeOK, FilesInv, phase = "serving", CanSign
  PROVE  SignedWell(Signed) /\ Published(Signed)
BY StartupAssumption DEF TypeOK, FilesInv, KeysExist, CanSign, Signed, SignedWell, Published

\* No step takes a SET's kid from the published key set without retiring it.
LEMMA PublishedStep ==
  ASSUME TypeOK, [Next]_vars, NEW s \in Set, Published(s)
  PROVE  Published(s)'
<1> s.kid \in KeyIds
  BY DEF Set
<1>1. CASE UNCHANGED <<phase, pem, jwks, retired>>
  BY <1>1 DEF Published
<1>2. ASSUME NEW env \in Environment, NEW readable \in BOOLEAN, Boot(env, readable)
      PROVE  Published(s)'
  BY <1>2 DEF Boot, Published, files
<1>3. CASE KeepKeys \/ InitDb
  BY <1>3 DEF KeepKeys, InitDb, Published, files
<1>4. ASSUME NEW k \in KeyIds, OpenPem(k)
      PROVE  Published(s)'
  BY <1>4, StartupAssumption DEF OpenPem, KeysExist, Published
<1>5. CASE WritePem \/ OpenJwks \/ WriteJwks
  BY <1>5 DEF WritePem, OpenJwks, WriteJwks, Published
<1>6. CASE Die
  BY <1>6 DEF Die, Published
<1>7. ASSUME NEW P \in BOOLEAN, NEW J \in BOOLEAN, RemoveKeyFiles(P, J)
      PROVE  Published(s)'
  BY <1>7 DEF RemoveKeyFiles, Published
<1> QED
  BY <1>1, <1>2, <1>3, <1>4, <1>5, <1>6, <1>7
  DEF Next, Enqueue, PushQueued, CreatePush, CreateSave, PatchEndpoint, DeleteStream, VerifyRead,
      VerifyPush, ChangeAccess, files, vars

\* A step puts at most the SET it signs into the queue.
LEMMA QueueGrowth ==
  ASSUME [Next]_vars
  PROVE  \/ queue' \subseteq queue
         \/ phase = "serving" /\ CanSign /\ queue' = queue \cup {Signed}
BY DEF Next, Boot, KeepKeys, OpenPem, WritePem, OpenJwks, WriteJwks, InitDb, Die, Enqueue,
       PushQueued, CreatePush, CreateSave, PatchEndpoint, DeleteStream, VerifyRead, VerifyPush,
       RemoveKeyFiles, ChangeAccess, serving, vars

LEMMA QueueStep == TypeOK /\ FilesInv /\ QueueInv /\ [Next]_vars => QueueInv'
<1> SUFFICES ASSUME TypeOK, FilesInv, QueueInv, [Next]_vars, NEW s \in queue'
             PROVE  SignedWell(s) /\ Published(s)'
  BY DEF QueueInv, SignedWell
<1>1. s \in Set /\ SignedWell(s) /\ Published(s)
  BY QueueGrowth, SigningIsSound, SignedType DEF QueueInv, TypeOK
<1> QED
  BY <1>1, PublishedStep

\* A step leaves the last POST alone, forgets it, or makes one of a SET of the queue
\* or of one it signs, to a host that was just re-validated.
LEMMA WireChange ==
  ASSUME TypeOK, [Next]_vars, wire' # NoPush
  PROVE  \/ UNCHANGED <<wire, phase, allowed>>
         \/ UNCHANGED <<phase, allowed, jwks, pem>> /\ phase = "serving"
              /\ wire'.set \in queue \cup (IF CanSign THEN {Signed} ELSE {})
              /\ HostAllowed(wire'.host, allowed)
         \/ wire' = wire /\ phase # "serving"
<1>1. ASSUME NEW s \in queue, NEW ips \in Answers, NEW done \in BOOLEAN, PushQueued(s, ips, done)
      PROVE  /\ UNCHANGED <<phase, allowed, jwks, pem>> /\ phase = "serving"
             /\ wire'.set \in queue /\ HostAllowed(wire'.host, allowed)
  BY <1>1 DEF PushQueued, EndpointStillSafe, files
<1>2. ASSUME NEW h \in Hosts, NEW ips \in Answers, NEW later \in Answers, NEW ok \in BOOLEAN,
             CreatePush(h, ips, later, ok)
      PROVE  /\ UNCHANGED <<phase, allowed, jwks, pem>> /\ phase = "serving"
             /\ CanSign /\ wire'.set = Signed /\ HostAllowed(wire'.host, allowed)
  BY <1>2 DEF CreatePush, EndpointStillSafe, files
<1>3. ASSUME NEW ips \in Answers, VerifyPush(ips)
      PROVE  /\ UNCHANGED <<phase, allowed, jwks, pem>> /\ phase = "serving"
             /\ CanSign /\ wire'.set = Signed /\ HostAllowed(wire'.host, allowed)
  BY <1>3 DEF VerifyPush, EndpointStillSafe, files
<1>4. ASSUME NEW env \in Environment, NEW readable \in BOOLEAN, Boot(env, readable)
      PROVE  wire' = wire /\ phase # "serving"
  BY <1>4 DEF Boot, serving
<1>5. CASE KeepKeys \/ (\E k \in KeyIds : OpenPem(k)) \/ WritePem \/ OpenJwks \/ WriteJwks \/ InitDb
           \/ (\E P, J \in BOOLEAN : RemoveKeyFiles(P, J)) \/ ChangeAccess
  BY <1>5 DEF KeepKeys, OpenPem, WritePem, OpenJwks, WriteJwks, InitDb, RemoveKeyFiles,
              ChangeAccess, serving
<1>6. CASE Die \/ Enqueue \/ CreateSave \/ (\E h \in Hosts, ips \in Answers : PatchEndpoint(h, ips))
           \/ DeleteStream \/ VerifyRead
  BY <1>6 DEF Die, Enqueue, CreateSave, PatchEndpoint, DeleteStream, VerifyRead
<1>7. CASE UNCHANGED vars
  BY <1>7 DEF vars
<1> QED
  BY <1>1, <1>2, <1>3, <1>4, <1>5, <1>6, <1>7 DEF Next

LEMMA WireStep == Inv /\ [Next]_vars => WireInv'
<1> SUFFICES ASSUME Inv, [Next]_vars PROVE WireInv'
  OBVIOUS
<1>1. ASSUME wire' # NoPush, NEW s, s = wire'.set
      PROVE  /\ phase' = "serving"
             /\ SignedWell(s) /\ Published(s)'
             /\ HostAllowed(wire'.host, allowed')
  <2>1. s \in Set
    BY <1>1, TypeStep DEF Inv, TypeOK
  <2>2. CASE UNCHANGED <<wire, phase, allowed>>
    BY <1>1, <2>1, <2>2, PublishedStep DEF Inv, WireInv
  <2>3. CASE UNCHANGED <<phase, allowed, jwks, pem>> /\ phase = "serving"
             /\ wire'.set \in queue \cup (IF CanSign THEN {Signed} ELSE {})
             /\ HostAllowed(wire'.host, allowed)
    <3>1. SignedWell(s) /\ Published(s)
      BY <1>1, <2>3, SigningIsSound DEF Inv, QueueInv
    <3> QED
      BY <2>1, <2>3, <3>1, PublishedStep DEF Inv
  <2>4. CASE wire' = wire /\ phase # "serving"
    BY <1>1, <2>4 DEF Inv, WireInv
  <2> QED
    BY <1>1, <2>2, <2>3, <2>4, WireChange DEF Inv
<1> QED
  BY <1>1 DEF WireInv, SignedWell, Published, HostAllowed

-----------------------------------------------------------------------------
\* The inductive invariant: types, key files, queued SETs and the last POST.
THEOREM StartupInvHolds == Spec => []Inv
<1>1. Init => Inv
  BY TypeInit DEF Init, Inv, FilesInv, KeysExist, QueueInv, WireInv
<1>2. Inv /\ [Next]_vars => Inv'
  BY TypeStep, FilesStep, QueueStep, WireStep DEF Inv
<1> QED
  BY <1>1, <1>2, PTL DEF Spec

\* Files, process, queue and requests stay well typed.
THEOREM StartupTypeCorrect == Spec => []TypeOK
<1>1. Inv => TypeOK
  BY DEF Inv
<1> QED
  BY <1>1, StartupInvHolds, PTL

\* A serving process has a matching pair unless a start died inside ensure_keys.
THEOREM KeysAlwaysMatch == Spec => []KeysMatch
<1>1. Inv => KeysMatch
  BY DEF Inv, FilesInv, KeysMatch
<1> QED
  BY <1>1, StartupInvHolds, PTL

\* What is pushed verifies under the published JWKS, but for retired keys and SETs
\* signed with a pair that a dying process left (sign_set, push_signed_set).
THEOREM PushedAlwaysVerify == Spec => []PushedSetsVerify
<1>1. Inv => PushedSetsVerify
  BY DEF Inv, WireInv, SignedWell, Published, PushedSetsVerify
<1> QED
  BY <1>1, StartupInvHolds, PTL

\* No POST leaves for a host outside the allow-list (_revalidate_endpoint).
THEOREM AllowlistHolds == Spec => []AllowlistEnforced
<1>1. Inv => AllowlistEnforced
  BY DEF Inv, WireInv, AllowlistEnforced
<1> QED
  BY <1>1, StartupInvHolds, PTL

-----------------------------------------------------------------------------
\* What from_env accepts passes the checks on the same variables.
LEMMA AcceptedPasses ==
  ASSUME NEW env \in Environment, NEW readable \in BOOLEAN, FromEnvAccepts(env)
  PROVE  FailedChecks(env, readable) \subseteq {"database", "allowlist"}
<1>1. ~UrlCheckFails(env) /\ ~ManagementCheckFails(env)
  BY DEF FromEnvAccepts, UrlCheckFails, ManagementCheckFails
<1>2. AuthMode(env) \in {"bearer", "hmac", "unsigned", "other"}
  BY DEF AuthMode, Environment
<1>3. ~WebhookCheckFails(env)
  BY <1>2 DEF FromEnvAccepts, TokenParses, SecretParses, WebhookCheckFails
<1> QED
  BY <1>1, <1>3 DEF FailedChecks, Checks

\* The preflight refuses no environment that the configuration accepted.
THEOREM PreflightAgrees == Spec => []PreflightAgreesWithConfig
<1>1. Init => PreflightAgreesWithConfig
  BY DEF Init, PreflightAgreesWithConfig
<1>2. PreflightAgreesWithConfig /\ [Next]_vars => PreflightAgreesWithConfig'
  <2> SUFFICES ASSUME PreflightAgreesWithConfig, [Next]_vars PROVE PreflightAgreesWithConfig'
    OBVIOUS
  <2>1. ASSUME NEW env \in Environment, NEW readable \in BOOLEAN, Boot(env, readable)
        PROVE  PreflightAgreesWithConfig'
    BY <2>1, AcceptedPasses DEF Boot, PreflightAgreesWithConfig
  <2>2. CASE UNCHANGED failed
    BY <2>2 DEF PreflightAgreesWithConfig
  <2> QED
    BY <2>1, <2>2
    DEF Next, KeepKeys, OpenPem, WritePem, OpenJwks, WriteJwks, InitDb, Die, Enqueue, PushQueued,
        CreatePush, CreateSave, PatchEndpoint, DeleteStream, VerifyRead, VerifyPush,
        RemoveKeyFiles, ChangeAccess, vars
<1> QED
  BY <1>1, <1>2, PTL DEF Spec
=============================================================================
