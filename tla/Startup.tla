------------------------------ MODULE Startup -------------------------------
(***************************************************************************)
(* A deployment over its restarts: reading the environment (app/config.py),*)
(* the preflight (app/startup.py), the signing key and its JWKS on disk    *)
(* (app/crypto.py), and what a serving process does with them and with its *)
(* receiver allow-list: sign SETs, accept receiver endpoints               *)
(* (app/security/url_validation.py) and push (app/events/pusher.py).       *)
(*                                                                         *)
(* Both key files are written in place, one after the other, so the        *)
(* process may die between any two of: truncate, write, truncate, write.   *)
(* The stream is the host of its endpoint; the rest of the stream and of   *)
(* the queue is in Outbox.  A DNS answer is whatever the resolver says at  *)
(* that moment.  Requests that fail the syntactic checks of an endpoint    *)
(* URL change nothing and are left out.  A creation and a verification do  *)
(* not overlap (they share job): a verification in progress meets a        *)
(* replaced stream through PATCH and DELETE.                               *)
(***************************************************************************)
EXTENDS Naturals, FiniteSets

CONSTANTS Hosts,      \* receiver hosts
          AllowLists, \* values of SSF_ALLOWED_RECEIVER_HOSTS; {} = any host
          KeyIds,     \* signing keys rsa.generate_private_key can return
          MaxQueue,   \* bound: distinct SETs in the queue
          NoHost, NoFile, Torn, NoKey, NoJob, NoPush

ASSUME StartupAssumption ==
  /\ AllowLists \subseteq SUBSET Hosts /\ {} \in AllowLists
  /\ MaxQueue \in Nat
  /\ NoHost \notin Hosts
  /\ {NoFile, Torn, NoKey} \cap KeyIds = {} /\ NoFile # Torn

VARIABLES
  phase,    \* how far lifespan has come; "off" when there is no process
  failed,   \* history: the preflight checks that made the last start exit
  allowed,  \* ssf_allowed_receiver_hosts of the process
  db,       \* the database: "absent", "ready", or "readonly"
  pem,      \* private.pem
  jwks,     \* jwks.json
  fresh,    \* the key ensure_keys is writing
  made,     \* keys generated so far
  stream,   \* host of the stored stream
  queue,    \* signed SETs in the outbox
  job,      \* a management request between two awaits
  wire,     \* the SET and host of the POST the last step made
  cut,      \* history: a start died inside ensure_keys; no later one wrote a pair
  retired   \* history: keys of which the operator removed a file

files   == <<pem, jwks, fresh, made>>
serving == <<stream, queue, job, wire>>
vars    == <<phase, failed, allowed, db, pem, jwks, fresh, made, stream, queue, job, wire, cut, retired>>

\* A signed SET: the key that signed it, the kid in its header and, as history,
\* whether it was signed while cut.
Set == [by: KeyIds, kid: KeyIds, cut: BOOLEAN]

File == KeyIds \cup {NoFile, Torn}
Phases == {"off", "keys", "pem", "between", "jwks", "initdb", "serving"}
Checks == {"urls", "management", "webhook", "database", "allowlist"}

TypeOK ==
  /\ phase \in Phases /\ failed \in SUBSET Checks
  /\ allowed \in AllowLists
  /\ db \in {"absent", "ready", "readonly"}
  /\ pem \in File /\ jwks \in File
  /\ fresh \in KeyIds \cup {NoKey} /\ made \in SUBSET KeyIds
  /\ stream \in Hosts \cup {NoHost}
  /\ queue \in SUBSET Set
  /\ job \in [op: {"save", "verify"}, host: Hosts] \cup {NoJob}
  /\ wire \in [set: Set, host: Hosts] \cup {NoPush}
  /\ cut \in BOOLEAN /\ retired \in SUBSET KeyIds

Init ==
  /\ phase = "off" /\ failed = {} /\ allowed = {}
  /\ db = "absent"
  /\ pem = NoFile /\ jwks = NoFile /\ fresh = NoKey /\ made = {}
  /\ stream = NoHost /\ queue = {} /\ job = NoJob /\ wire = NoPush
  /\ cut = FALSE /\ retired = {}

-----------------------------------------------------------------------------
(* The environment.                                                        *)

\* Lengths of a secret: unset or empty, under 32 characters, or enough.
Lengths == {"none", "short", "enough"}

\* urls: SSF_ISSUER and SSF_BASE_URL; one is unset or empty, one is no HTTPS URL,
\* or both are in order.  rest: every variable that
\* only its own parser looks at (ports, levels, intervals, Apple's URLs, modes)
\* is well formed.
Environment ==
  [urls: {"none", "other", "https"}, management: Lengths, mode: {"unset", "bearer", "hmac", "unsigned", "other"},
   legacy: BOOLEAN, token: Lengths, secret: Lengths, rest: BOOLEAN, hosts: AllowLists]

\* _parse_webhook_auth_mode
AuthMode(env) ==
  IF env.legacy THEN "unsigned" ELSE IF env.mode = "unset" THEN "bearer" ELSE env.mode

\* _parse_webhook_token
TokenParses(env) == AuthMode(env) = "bearer" => env.token = "enough"

\* _parse_webhook_secret
SecretParses(env) == AuthMode(env) = "hmac" => env.secret # "none"

\* Settings.from_env raises nothing.
FromEnvAccepts(env) ==
  /\ env.urls = "https" /\ env.rest
  /\ env.management = "enough"
  /\ AuthMode(env) # "other"
  /\ TokenParses(env) /\ SecretParses(env)

\* _check_ssf_issuer and _check_ssf_base_url look for a value only.
UrlCheckFails(env) == env.urls = "none"

\* _check_management_token
ManagementCheckFails(env) == env.management # "enough"

\* Faulty variant of WebhookCheckFails: the secret needs 32 characters too.
WebhookCheckFails_LongSecret(env) ==
  \/ AuthMode(env) = "bearer" /\ env.token # "enough"
  \/ AuthMode(env) = "hmac" /\ env.secret # "enough"

\* _check_webhook_auth
WebhookCheckFails(env) ==
  \/ AuthMode(env) = "bearer" /\ env.token # "enough"
  \/ AuthMode(env) = "hmac" /\ env.secret = "none"
  \/ AuthMode(env) \notin {"bearer", "hmac", "unsigned"}

\* _check_database; init_db creates an absent one.
DatabaseCheckFails == db = "readonly"

\* receiver_host_allowed
HostAllowed(h, allow) == allow = {} \/ h \in allow

\* _check_stored_streams_allowlist; a database it cannot read passes.
AllowlistCheckFails(allow, readable) ==
  readable /\ stream # NoHost /\ ~HostAllowed(stream, allow)

\* run_preflight_checks: the checks that fail.
FailedChecks(env, readable) ==
  {c \in Checks :
     \/ c = "urls" /\ UrlCheckFails(env)
     \/ c = "management" /\ ManagementCheckFails(env)
     \/ c = "webhook" /\ WebhookCheckFails(env)
     \/ c = "database" /\ DatabaseCheckFails
     \/ c = "allowlist" /\ AllowlistCheckFails(env.hosts, readable)}

\* The process reads its settings and runs the preflight; either may exit.
Boot(env, readable) ==
  /\ phase = "off"
  /\ IF FromEnvAccepts(env)
       THEN /\ failed' = FailedChecks(env, readable)
            /\ IF failed' = {} THEN phase' = "keys" /\ allowed' = env.hosts
               ELSE UNCHANGED <<phase, allowed>>
       ELSE failed' = {} /\ UNCHANGED <<phase, allowed>>
  /\ UNCHANGED <<db, files, serving, cut, retired>>

-----------------------------------------------------------------------------
(* ensure_keys and init_db.                                                *)

\* Faulty variants of KeysExist: one file is enough; no file is.
KeysExist_Either == pem # NoFile \/ jwks # NoFile
KeysExist_Never == FALSE

KeysExist == pem # NoFile /\ jwks # NoFile

KeepKeys ==
  /\ phase = "keys" /\ KeysExist
  /\ phase' = "initdb"
  /\ UNCHANGED <<failed, allowed, db, files, serving, cut, retired>>

\* A new key is generated and private.pem opened, which truncates it.
OpenPem(k) ==
  /\ phase = "keys" /\ ~KeysExist
  /\ k \notin made
  /\ made' = made \cup {k} /\ fresh' = k
  /\ pem' = Torn
  /\ phase' = "pem"
  /\ UNCHANGED <<failed, allowed, db, jwks, serving, cut, retired>>

WritePem ==
  /\ phase = "pem"
  /\ pem' = fresh
  /\ phase' = "between"
  /\ UNCHANGED <<failed, allowed, db, jwks, fresh, made, serving, cut, retired>>

OpenJwks ==
  /\ phase = "between"
  /\ jwks' = Torn
  /\ phase' = "jwks"
  /\ UNCHANGED <<failed, allowed, db, pem, fresh, made, serving, cut, retired>>

WriteJwks ==
  /\ phase = "jwks"
  /\ jwks' = fresh /\ fresh' = NoKey
  /\ cut' = FALSE
  /\ phase' = "initdb"
  /\ UNCHANGED <<failed, allowed, db, pem, made, serving, retired>>

\* init_db creates what is missing; the application serves requests.
InitDb ==
  /\ phase = "initdb"
  /\ db' = "ready"
  /\ phase' = "serving"
  /\ UNCHANGED <<failed, allowed, files, serving, cut, retired>>

\* The process ends, at any point.
Die ==
  /\ phase # "off" /\ phase' = "off"
  /\ fresh' = NoKey
  /\ cut' = (cut \/ phase \in {"pem", "between", "jwks"})
  /\ job' = NoJob /\ wire' = NoPush
  /\ UNCHANGED <<failed, allowed, db, pem, jwks, made, stream, queue, retired>>

-----------------------------------------------------------------------------
(* Serving.                                                                *)

\* Faulty variant of CanSign: a JWKS without a kid is accepted.
CanSign_AnyKid == pem \in KeyIds

\* _load_signing_material and jwt.encode succeed.
CanSign == pem \in KeyIds /\ jwks \in KeyIds

\* sign_set and sign_verification_set: the key of private.pem, the kid of jwks.json.
Signed == [by |-> pem, kid |-> jwks, cut |-> cut]

\* What _resolve_host may return: kinds of addresses, none when it fails.
Answers == SUBSET {"public", "blocked"}

\* _reject_blocked_resolved_ips: some address, and not one of them blocked.
Routable(ips) == ips # {} /\ "blocked" \notin ips

\* validate_receiver_endpoint_url, when a stream is created or patched.
EndpointValid(h, ips) == HostAllowed(h, allowed) /\ Routable(ips)

\* Faulty variant of EndpointStillSafe: the allow-list is left to the preflight.
EndpointStillSafe_DnsOnly(h, ips) == Routable(ips)

\* _revalidate_endpoint, before every push.
EndpointStillSafe(h, ips) == HostAllowed(h, allowed) /\ Routable(ips)

\* enqueue_events: a SET is signed and stored; without usable key files the
\* webhook is answered 500 and nothing happens.
Enqueue ==
  /\ phase = "serving" /\ stream # NoHost /\ CanSign
  /\ Cardinality(queue \cup {Signed}) <= MaxQueue
  /\ queue' = queue \cup {Signed}
  /\ wire' = NoPush
  /\ UNCHANGED <<phase, failed, allowed, db, files, stream, job, cut, retired>>

\* push_signed_set: the worker posts a stored SET and completes it, or keeps it
\* for a retry.
PushQueued(s, ips, done) ==
  /\ phase = "serving" /\ stream # NoHost /\ s \in queue
  /\ EndpointStillSafe(stream, ips)
  /\ wire' = [set |-> s, host |-> stream]
  /\ queue' = IF done THEN queue \ {s} ELSE queue
  /\ UNCHANGED <<phase, failed, allowed, db, files, stream, job, cut, retired>>

\* create_stream_endpoint: the endpoint is validated and sent a verification SET,
\* which the receiver accepts or not.
CreatePush(h, ips, later, ok) ==
  /\ phase = "serving" /\ job = NoJob
  /\ EndpointValid(h, ips) /\ EndpointStillSafe(h, later) /\ CanSign
  /\ wire' = [set |-> Signed, host |-> h]
  /\ job' = IF ok THEN [op |-> "save", host |-> h] ELSE NoJob
  /\ UNCHANGED <<phase, failed, allowed, db, files, stream, queue, cut, retired>>

\* save_stream
CreateSave ==
  /\ phase = "serving" /\ job # NoJob /\ job.op = "save"
  /\ stream' = job.host /\ queue' = {}
  /\ job' = NoJob /\ wire' = NoPush
  /\ UNCHANGED <<phase, failed, allowed, db, files, cut, retired>>

\* PATCH: a new endpoint needs no verification SET, and empties the queue; on the
\* same host it may be a new path or the old one.
PatchEndpoint(h, ips) ==
  /\ phase = "serving" /\ stream # NoHost
  /\ EndpointValid(h, ips)
  /\ stream' = h /\ queue' \in (IF h = stream THEN {queue, {}} ELSE {{}})
  /\ wire' = NoPush
  /\ UNCHANGED <<phase, failed, allowed, db, files, job, cut, retired>>

DeleteStream ==
  /\ phase = "serving" /\ stream # NoHost
  /\ stream' = NoHost /\ queue' = {} /\ wire' = NoPush
  /\ UNCHANGED <<phase, failed, allowed, db, files, job, cut, retired>>

\* trigger_verification and verify_stream_by_id read the stream without a lock ...
VerifyRead ==
  /\ phase = "serving" /\ job = NoJob /\ stream # NoHost
  /\ job' = [op |-> "verify", host |-> stream] /\ wire' = NoPush
  /\ UNCHANGED <<phase, failed, allowed, db, files, stream, queue, cut, retired>>

\* ... and push_verification_set posts to the endpoint that was read.
VerifyPush(ips) ==
  /\ phase = "serving" /\ job # NoJob /\ job.op = "verify"
  /\ wire' = IF EndpointStillSafe(job.host, ips) /\ CanSign
               THEN [set |-> Signed, host |-> job.host] ELSE NoPush
  /\ job' = NoJob
  /\ UNCHANGED <<phase, failed, allowed, db, files, stream, queue, cut, retired>>

-----------------------------------------------------------------------------
(* The operator, while there is no process.                                *)

\* Key rotation removes both files; one alone may be lost or removed too.
RemoveKeyFiles(P, J) ==
  /\ phase = "off" /\ (P \/ J)
  /\ pem' = IF P THEN NoFile ELSE pem
  /\ jwks' = IF J THEN NoFile ELSE jwks
  /\ retired' = retired \cup ({pem, jwks} \cap KeyIds)
  /\ UNCHANGED <<phase, failed, allowed, db, fresh, made, serving, cut>>

\* The volume's permissions change.
ChangeAccess ==
  /\ phase = "off" /\ db # "absent"
  /\ db' = IF db = "ready" THEN "readonly" ELSE "ready"
  /\ UNCHANGED <<phase, failed, allowed, files, serving, cut, retired>>

Next ==
  \/ \E env \in Environment, readable \in BOOLEAN : Boot(env, readable)
  \/ KeepKeys \/ (\E k \in KeyIds : OpenPem(k)) \/ WritePem \/ OpenJwks \/ WriteJwks
  \/ InitDb \/ Die
  \/ Enqueue
  \/ \E s \in queue, ips \in Answers, done \in BOOLEAN : PushQueued(s, ips, done)
  \/ \E h \in Hosts, ips, later \in Answers, ok \in BOOLEAN : CreatePush(h, ips, later, ok)
  \/ CreateSave
  \/ \E h \in Hosts, ips \in Answers : PatchEndpoint(h, ips)
  \/ DeleteStream \/ VerifyRead
  \/ \E ips \in Answers : VerifyPush(ips)
  \/ \E P, J \in BOOLEAN : RemoveKeyFiles(P, J)
  \/ ChangeAccess

Spec == Init /\ [][Next]_vars

-----------------------------------------------------------------------------
(* Properties.                                                             *)

\* "Align preflight with that contract - don't add a stricter rule here": what
\* from_env accepted is not refused by the preflight for the environment's sake,
\* only for what it finds on disk.
PreflightAgreesWithConfig == failed \subseteq {"database", "allowlist"}

\* The key pair a process serves with is usable and matches, however its files
\* were removed and wherever earlier processes died, unless a process died
\* inside ensure_keys and left two files behind that no later start replaced.
KeysMatch == phase = "serving" /\ ~cut => pem \in KeyIds /\ jwks = pem

\* "jwks.json so receivers can ... verify signatures": a SET on its way verifies
\* under the JWKS published at that moment, although it may have been signed
\* several restarts ago; the exceptions are a key whose files the operator removed
\* while its SETs were queued, and a SET signed with an unmatched pair.
PushedSetsVerify ==
  wire # NoPush =>
    /\ wire.set.by = wire.set.kid \/ wire.set.cut
    /\ wire.set.kid = jwks \/ wire.set.kid \in retired

\* "Pre-existing streams cannot bypass a tightened allowlist" (_revalidate_endpoint):
\* a process posts only to hosts of its own allow-list, also when the preflight
\* could not read the stored stream, and when a verification goes to a stream
\* that has been replaced meanwhile.
AllowlistEnforced == wire # NoPush => HostAllowed(wire.host, allowed)
=============================================================================
