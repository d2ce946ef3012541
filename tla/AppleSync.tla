----------------------------- MODULE AppleSync ------------------------------
(***************************************************************************)
(* One run of sync_users (app/scim/apple.py): read Apple's directory, page *)
(* by page or, when Apple's metadata cannot show that the listing is       *)
(* complete, by two filtered lookups per source user and a read of every   *)
(* match; then create, link or update one account per Authentik user.      *)
(*                                                                         *)
(* One step per HTTP request, or per decision between two of them.  Apple's*)
(* directory is external: it may refuse any request, lose any answer and   *)
(* be changed by other administrators, and it keeps userNames unique.      *)
(* Identifiers and attributes stand for their normalised values.           *)
(***************************************************************************)
EXTENDS Integers, Sequences, FiniteSets

CONSTANTS AppleIds,    \* ids of Apple accounts, numbered in listing order
          InitialIds,  \* those that may exist when the run begins
          ExtIds,      \* Authentik primary keys
          Names,       \* userNames
          Mails,       \* values of emails
          Others,      \* values of name and active
          Sources,     \* what get_users may return: sequences of users
          Modes,       \* values of APPLE_SCIM_UPDATE_MODE
          Styles,      \* "pages": standard listing, "single": Apple's metadata
          PageSize,    \* _USER_LIST_COUNT
          MaxOutside,  \* bound: changes by others during the run
          NoExt, NoAccount, NoSeen

ASSUME SyncAssumption ==
  /\ AppleIds \subseteq Nat /\ InitialIds \subseteq AppleIds /\ IsFiniteSet(InitialIds)
  /\ Styles \subseteq {"pages", "single"}
  /\ PageSize \in Nat \ {0} /\ MaxOutside \in Nat
  /\ NoExt \notin ExtIds

VARIABLES
  dir,       \* external: Apple's directory
  conf,      \* source, update mode, username recovery, Apple's listing style
  pc,        \* the request or decision that comes next
  goal,      \* why a directory is being read: the run, a 409, a creation
  listing,   \* progress of the current listing or verification
  sample,    \* what an incomplete listing showed
  looked,    \* results of the filtered lookups so far
  index,     \* keys of by_ext_id and by_username
  object,    \* the dictionaries they share
  pos,       \* the source user at hand
  cur,       \* the Apple account at hand, and whether it is one of object
  result,    \* SyncResult
  outside,   \* history: changes by others so far
  wrote      \* history: the run has changed the directory

vars == <<dir, conf, pc, goal, listing, sample, looked, index, object, pos, cur, result, outside, wrote>>
reading == <<goal, listing, sample, looked>>
snapshot == <<index, object>>

User == [ext: ExtIds, user: Names, mail: Mails, other: Others]
Account == [ext: ExtIds \cup {NoExt}, user: Names, mail: Mails, other: Others]
Seen == [id: AppleIds, acc: Account]
AtHand == [id: AppleIds, acc: Account, shared: BOOLEAN]
Counters == {"created", "updated", "unchanged", "conflicts", "errors", "outOfScope"}
NoTotal == -1

ASSUME ValueAssumption ==
  /\ Sources \subseteq Seq(User)
  /\ NoAccount \notin Account /\ NoSeen \notin Seen \cup AtHand

\* externalId is Authentik's primary key, and a user is returned once.
ASSUME PrimaryKeysDistinct ==
  \A users \in Sources : \A j, k \in 1 .. Len(users) : j # k => users[j].ext # users[k].ext

TypeOK ==
  /\ dir \in [AppleIds -> Account \cup {NoAccount}]
  /\ conf \in [source: Sources, mode: Modes, recovery: BOOLEAN, style: Styles]
  /\ pc \in {"list", "lookup", "verify", "user", "create", "query", "repair", "confirm", "patch",
             "done", "aborted", "crashed"}
  /\ goal \in {"preflight", "conflict", "created"}
  /\ listing \in [start: Nat, total: Nat \cup {NoTotal}, seen: SUBSET Seen] /\ sample \subseteq Seen
  /\ looked \in Seq(Seen \cup {NoSeen})
  /\ index \subseteq Seen /\ object \in [AppleIds -> Account \cup {NoAccount}]
  /\ pos \in 1 .. Len(conf.source) + 1
  /\ cur \in AtHand \cup {NoSeen}
  /\ result \in [Counters -> Nat]
  /\ outside \in 0 .. MaxOutside /\ wrote \in BOOLEAN

-----------------------------------------------------------------------------
(* Comparing accounts.                                                     *)

TheUser == conf.source[pos]
Present == {i \in AppleIds : dir[i] # NoAccount}
Read(i) == [id |-> i, acc |-> dir[i]]

\* _same_identity, also of lookups that found nothing.
SameIdentity(x, y) ==
  \/ x = NoSeen /\ y = NoSeen
  \/ /\ x # NoSeen /\ y # NoSeen
     /\ x.id = y.id /\ x.acc.ext = y.acc.ext /\ x.acc.user = y.acc.user

\* _index_unique_user: identities that cannot both be indexed.
Clash(x, y) ==
  \/ x.id = y.id
  \/ x.acc.user = y.acc.user
  \/ x.acc.ext = y.acc.ext /\ x.acc.ext # NoExt

\* No two accounts of new, nor one of old and one of new, clash.
Indexable(old, new) ==
  /\ \A x \in old, y \in new : ~Clash(x, y)
  /\ \A x, y \in new : x.id # y.id => ~Clash(x, y)

\* _field_diffs
FieldDiffs(acc, u) ==
  {f \in {"externalId", "userName", "emails", "other"} :
     CASE f = "externalId" -> acc.ext # u.ext
       [] f = "userName" -> acc.user # u.user
       [] f = "emails" -> acc.mail # u.mail
       [] f = "other" -> acc.other # u.other}

\* _update_fields_for_mode
UpdateFields ==
  CASE conf.mode = "external_id_only" -> {"externalId"}
    [] conf.mode = "emails_only" -> {"emails"}
    [] conf.mode = "username_only" -> {"userName"}
    [] OTHER -> {"externalId", "userName", "emails", "other"}

\* _actionable_diffs
ActionableDiffs(acc, u) == FieldDiffs(acc, u) \cap UpdateFields

\* Faulty variants of Updated: a PATCH never carries emails; or every update is a
\* PUT without them, which clears them.
Updated_NoEmails(acc, u) ==
  [ext |-> acc.ext, user |-> u.user, mail |-> acc.mail, other |-> u.other]
Updated_ClearsEmails(acc, u) ==
  [ext |-> acc.ext, user |-> u.user, mail |-> NoExt, other |-> u.other]

\* _build_update_request: a PUT of everything but externalId, or a PATCH of the
\* actionable fields that differ from the account as it was read.
Updated(acc, u) ==
  LET fields == IF conf.mode = "replace_all" THEN {"userName", "emails", "other"}
                ELSE ActionableDiffs(cur.acc, u)
  IN [ext   |-> IF "externalId" \in fields THEN u.ext ELSE acc.ext,
      user  |-> IF "userName" \in fields THEN u.user ELSE acc.user,
      mail  |-> IF "emails" \in fields THEN u.mail ELSE acc.mail,
      other |-> IF "other" \in fields THEN u.other ELSE acc.other]

\* _can_recover_by_username
CanRecoverByUsername(acc, u) ==
  IF acc.ext # NoExt THEN acc.ext = u.ext ELSE conf.recovery

\* _source_identities (every user has an externalId and a userName).
SourceIdentitiesValid(users) ==
  \A j, k \in 1 .. Len(users) :
    j # k => users[j].ext # users[k].ext /\ users[j].user # users[k].user

-----------------------------------------------------------------------------
(* Bookkeeping shared by the actions.                                      *)

Plus(r, c) == [r EXCEPT ![c] = @ + 1]

\* Done with a user: the loop of sync_users goes on.
Settle(r) ==
  /\ result' = r
  /\ pos' = pos + 1
  /\ pc' = IF pos = Len(conf.source) THEN "done" ELSE "user"
  /\ cur' = NoSeen

\* Faulty variant of PatchOrSettle: any difference asks for a PATCH, also one that
\* the PATCH of this update mode leaves out.
PatchOrSettle_AnyDiff(a, r, repaired) ==
  LET diffs == FieldDiffs(a.acc, TheUser)
      counted == IF diffs \ UpdateFields # {} THEN Plus(r, "outOfScope") ELSE r
  IN IF diffs # {}
       THEN /\ result' = counted /\ cur' = a /\ pc' = "patch"
            /\ UNCHANGED pos
       ELSE Settle(IF repaired THEN counted ELSE Plus(counted, "unchanged"))

\* _reconcile_diffs from the point where externalId is in order.
PatchOrSettle(a, r, repaired) ==
  LET diffs == FieldDiffs(a.acc, TheUser)
      actionable == ActionableDiffs(a.acc, TheUser)
      counted == IF diffs \ UpdateFields # {} THEN Plus(r, "outOfScope") ELSE r
  IN IF actionable # {}
       THEN /\ result' = counted /\ cur' = a /\ pc' = "patch"
            /\ UNCHANGED pos
       ELSE Settle(IF repaired THEN counted ELSE Plus(counted, "unchanged"))

\* _reconcile_diffs
Reconcile(a, recovered) ==
  IF recovered /\ ~CanRecoverByUsername(a.acc, TheUser)
    THEN Settle(Plus(result, "conflicts"))
  ELSE IF recovered /\ a.acc.ext # TheUser.ext
    THEN cur' = a /\ pc' = "repair" /\ UNCHANGED <<pos, result>>
  ELSE PatchOrSettle(a, result, FALSE)

\* Faulty variant of ReadingFails: AppleUserListError escapes from the loop.
ReadingFails_Always ==
  /\ pc' = "aborted"
  /\ UNCHANGED <<cur, pos, result>>

\* AppleUserListError: it ends the run, or only the user it was raised for.
ReadingFails ==
  IF goal = "preflight"
    THEN pc' = "aborted" /\ UNCHANGED <<cur, pos, result>>
    ELSE Settle(Plus(result, "errors"))

NewListing == [start |-> 1, total |-> NoTotal, seen |-> {}]

\* Accounts of S by key, NoSeen if there is none.
ByExt(S, e) == IF \E s \in S : s.acc.ext = e THEN CHOOSE s \in S : s.acc.ext = e ELSE NoSeen
ByName(S, n) == IF \E s \in S : s.acc.user = n THEN CHOOSE s \in S : s.acc.user = n ELSE NoSeen

Shared(s, b) == [id |-> s.id, acc |-> s.acc, shared |-> b]

\* A reading is complete: the loop begins, or _verified_filtered_user or
\* _verify_created_user reaches its verdict.
ReadingDone(S) ==
  \/ /\ goal = "preflight"
     /\ index' = S
     /\ object' = [i \in AppleIds |-> IF \E s \in S : s.id = i THEN (CHOOSE s \in S : s.id = i).acc
                                      ELSE NoAccount]
     /\ pc' = IF conf.source = <<>> THEN "done" ELSE "user"
     /\ UNCHANGED <<cur, pos, result>>
  \/ /\ goal = "conflict"
     /\ LET listed == ByName(S, TheUser.user)
        IN IF listed = NoSeen \/ listed.id # cur.id \/ listed.acc.ext # cur.acc.ext
             THEN Settle(Plus(result, "errors"))
             ELSE Reconcile(Shared(listed, FALSE), TRUE)
     /\ UNCHANGED snapshot
  \/ /\ goal = "created"
     /\ LET e == ByExt(S, TheUser.ext)
            n == ByName(S, TheUser.user)
        IN Settle(Plus(result, IF e # NoSeen /\ SameIdentity(e, n) /\ e.id = cur.id
                               THEN "created" ELSE "errors"))
     /\ UNCHANGED snapshot

Init ==
  /\ \E f \in [InitialIds -> Account \cup {NoAccount}] :
       dir = [i \in AppleIds |-> IF i \in InitialIds THEN f[i] ELSE NoAccount]
  /\ conf \in [source: Sources, mode: Modes, recovery: BOOLEAN, style: Styles]
  /\ pc = "list" /\ goal = "preflight"
  /\ listing = NewListing /\ sample = {} /\ looked = <<>>
  /\ index = {} /\ object = [i \in AppleIds |-> NoAccount]
  /\ pos = 1 /\ cur = NoSeen
  /\ result = [c \in Counters |-> 0]
  /\ outside = 0 /\ wrote = FALSE

-----------------------------------------------------------------------------
(* Reading the directory (_get_existing_users, _get_existing_users_by_filter). *)

ReadingOver == listing' = NewListing /\ sample' = {} /\ looked' = <<>> /\ UNCHANGED goal
NoWrite == UNCHANGED <<dir, conf, outside, wrote>>

\* Faulty variant of PageAccepted: totalResults may change between the pages.
PageAccepted_AnyTotal(total, new) == Indexable(listing.seen, new)

\* _validate_users_page and _index_unique_user accept the page.
PageAccepted(total, new) ==
  /\ listing.total = NoTotal \/ total = listing.total
  /\ Indexable(listing.seen, new)

\* One page of the standard listing.
ListPage ==
  /\ pc = "list" /\ conf.style = "pages"
  /\ LET total == Cardinality(Present)
         Rank(i) == Cardinality({j \in Present : j <= i})
         new == {Read(i) : i \in {j \in Present : Rank(j) \in listing.start .. listing.start + PageSize - 1}}
         seen == listing.seen \cup new
         start == listing.start + Cardinality(new)
     IN IF ~PageAccepted(total, new)
          THEN ReadingFails /\ ReadingOver /\ UNCHANGED snapshot
        ELSE IF start <= total
          THEN /\ listing' = [start |-> start, total |-> total, seen |-> seen]
               /\ UNCHANGED <<pc, goal, sample, looked, snapshot, cur, pos, result>>
        ELSE ReadingDone(seen) /\ ReadingOver
  /\ NoWrite

\* Apple's own metadata: whatever it returned is only a sample, and the source
\* identities are checked before they are looked up.
ListSample ==
  /\ pc = "list" /\ conf.style = "single"
  /\ \E S \in SUBSET Present :
       LET shown == {Read(i) : i \in S}
       IN IF Indexable({}, shown) /\ (goal = "preflight" => SourceIdentitiesValid(conf.source))
            THEN /\ sample' = shown /\ pc' = "lookup"
                 /\ UNCHANGED <<goal, listing, looked, cur, pos, result>>
            ELSE ReadingFails /\ ReadingOver
  /\ UNCHANGED snapshot /\ NoWrite

\* The users whose identities are looked up, externalId before userName.
Lookups == IF goal = "preflight" THEN conf.source ELSE <<TheUser>>

\* _lookup_filtered_user, and _record_filtered_identity after every second one.
LookupUser ==
  /\ pc = "lookup" /\ Len(looked) < 2 * Len(Lookups)
  /\ LET k == Len(looked) + 1
         u == Lookups[(k + 1) \div 2]
         byExt == k % 2 = 1
         Matches(acc) == IF byExt THEN acc.ext = u.ext ELSE acc.user = u.user
         found == {Read(i) : i \in {j \in Present : Matches(dir[j])}}
         one == IF found = {} THEN NoSeen ELSE CHOOSE s \in found : TRUE
         all == Append(looked, one)
     IN IF /\ Cardinality(found) <= 1
           /\ \A s \in sample : Matches(s.acc) => SameIdentity(s, one)
           /\ ~byExt => \A a, b \in 1 .. k :
                all[a] # NoSeen /\ all[b] # NoSeen /\ all[a].id = all[b].id => SameIdentity(all[a], all[b])
          THEN /\ looked' = all
               /\ UNCHANGED <<pc, goal, listing, sample, cur, pos, result>>
          ELSE ReadingFails /\ ReadingOver
  /\ UNCHANGED snapshot /\ NoWrite

LookupsDone ==
  /\ pc = "lookup" /\ Len(looked) = 2 * Len(Lookups)
  /\ pc' = "verify"
  /\ UNCHANGED <<reading, snapshot, cur, pos, result>> /\ NoWrite

\* Ids that a lookup found and that have not been read directly yet.
Unverified ==
  {looked[k].id : k \in {j \in 1 .. Len(looked) : looked[j] # NoSeen}} \ {s.id : s \in listing.seen}

\* The direct read of a match.
VerifyUser ==
  /\ pc = "verify"
  /\ \E i \in Unverified :
       IF /\ dir[i] # NoAccount
          /\ \A k \in 1 .. Len(looked) :
               looked[k] # NoSeen /\ looked[k].id = i => SameIdentity(looked[k], Read(i))
          /\ Indexable(listing.seen, {Read(i)})
         THEN /\ listing' = [listing EXCEPT !.seen = @ \cup {Read(i)}]
              /\ UNCHANGED <<pc, goal, sample, looked, cur, pos, result>>
         ELSE ReadingFails /\ ReadingOver
  /\ UNCHANGED snapshot /\ NoWrite

\* The verified accounts must answer the lookups as the filters did.
VerifyDone ==
  /\ pc = "verify" /\ Unverified = {}
  /\ IF \A k \in 1 .. Len(looked) :
         LET u == Lookups[(k + 1) \div 2]
         IN SameIdentity(looked[k], IF k % 2 = 1 THEN ByExt(listing.seen, u.ext)
                                    ELSE ByName(listing.seen, u.user))
       THEN ReadingDone(listing.seen)
       ELSE ReadingFails /\ UNCHANGED snapshot
  /\ ReadingOver /\ NoWrite

\* A failed, malformed or inconsistent answer to any of these requests.
ReadFails ==
  /\ pc \in {"list", "lookup"} \/ (pc = "verify" /\ Unverified # {})
  /\ pc = "lookup" => Len(looked) < 2 * Len(Lookups)
  /\ ReadingFails /\ ReadingOver
  /\ UNCHANGED snapshot /\ NoWrite

-----------------------------------------------------------------------------
(* The loop over the source users.                                         *)

\* _match_apple_user on the indexes, whose dictionaries may have been updated.
MatchUser ==
  /\ pc = "user"
  /\ LET e == ByExt(index, TheUser.ext)
         n == ByName(index, TheUser.user)
         Object(s) == [id |-> s.id, acc |-> object[s.id], shared |-> TRUE]
     IN \/ /\ e # NoSeen /\ n # NoSeen /\ e.id # n.id
           /\ Settle(Plus(result, "conflicts"))
        \/ /\ e # NoSeen /\ (n # NoSeen => n.id = e.id)
           /\ Reconcile(Object(e), FALSE)
        \/ /\ e = NoSeen /\ n # NoSeen
           /\ Reconcile(Object(n), TRUE)
        \/ /\ e = NoSeen /\ n = NoSeen
           /\ pc' = "create"
           /\ UNCHANGED <<cur, pos, result>>
  /\ UNCHANGED <<reading, snapshot>> /\ NoWrite

\* The record that _reconcile_diffs is given has "name": null, which only the
\* filtered lookups and the read-back of a repair refuse: the AttributeError of
\* _field_diffs is no httpx.HTTPError and ends the run where it stands.
NameIsNull ==
  /\ \/ /\ pc = "user" /\ conf.style = "pages"
        /\ \E s \in index : s.acc.ext = TheUser.ext \/ s.acc.user = TheUser.user
     \/ pc = "query" /\ \E i \in Present : dir[i].user = TheUser.user
     \/ pc = "list" /\ goal = "conflict" /\ conf.style = "pages"
  /\ pc' = "crashed"
  /\ ReadingOver
  /\ UNCHANGED <<snapshot, cur, pos, result>> /\ NoWrite

\* Nobody but account i has this userName.
NameFree(i, n) == \A j \in Present \ {i} : dir[j].user # n

\* Apple stores acc in account i.
Store(i, acc) ==
  /\ NameFree(i, acc.user)
  /\ dir' = [dir EXCEPT ![i] = acc]
  /\ wrote' = TRUE
  /\ UNCHANGED <<conf, outside>>

\* A write whose answer is an error, or that never reached Apple.
Refused ==
  /\ pc \in {"create", "repair", "patch"}
  /\ Settle(Plus(result, "errors"))
  /\ UNCHANGED <<reading, snapshot>> /\ NoWrite

\* POST: the account exists now; the answer may be lost (httpx.HTTPError).  With
\* Apple's metadata the new account is looked up before it counts.
CreateUser(lost) ==
  /\ pc = "create"
  /\ \E i \in AppleIds \ Present :
       /\ Store(i, TheUser)
       /\ IF ~lost /\ conf.style = "single"
            THEN /\ cur' = [id |-> i, acc |-> TheUser, shared |-> FALSE]
                 /\ goal' = "created" /\ pc' = "lookup"
                 /\ UNCHANGED <<listing, sample, looked, pos, result>>
            ELSE Settle(Plus(result, IF lost THEN "errors" ELSE "created")) /\ UNCHANGED reading
  /\ UNCHANGED snapshot

\* POST answered 409: the userName is taken, or Apple sees some other conflict.
CreateConflicts ==
  /\ pc = "create"
  /\ pc' = "query"
  /\ UNCHANGED <<reading, snapshot, cur, pos, result>> /\ NoWrite

\* Faulty variant of Handle409: the creation is tried again.
Handle409_Retries(zeroBased) ==
  /\ pc = "query" /\ pc' = "create"
  /\ UNCHANGED <<reading, snapshot, cur, pos, result>> /\ NoWrite

\* _handle_409: the userName filter, and a fresh verified reading if the answer
\* is zero-based.
Handle409(zeroBased) ==
  /\ pc = "query"
  /\ LET found == {Read(i) : i \in {j \in Present : dir[j].user = TheUser.user}}
     IN \/ /\ Cardinality(found) # 1
           /\ Settle(Plus(result, "conflicts"))
           /\ UNCHANGED reading
        \/ /\ Cardinality(found) = 1
           /\ LET s == CHOOSE s \in found : TRUE
              IN IF zeroBased
                   THEN /\ cur' = Shared(s, FALSE)
                        /\ goal' = "conflict" /\ pc' = "list"
                        /\ UNCHANGED <<listing, sample, looked, pos, result>>
                   ELSE Reconcile(Shared(s, FALSE), TRUE) /\ UNCHANGED reading
  /\ UNCHANGED snapshot /\ NoWrite

\* The filter query fails, or answers with something else than asked for.
Handle409Fails ==
  /\ pc = "query"
  /\ Settle(Plus(result, "errors"))
  /\ UNCHANGED <<reading, snapshot>> /\ NoWrite

\* _patch_external_id: the PATCH is applied; its answer may be lost.
RepairExternalId(lost) ==
  /\ pc = "repair" /\ cur.id \in Present
  /\ Store(cur.id, [dir[cur.id] EXCEPT !.ext = TheUser.ext])
  /\ IF lost THEN Settle(Plus(result, "errors"))
     ELSE pc' = "confirm" /\ UNCHANGED <<cur, pos, result>>
  /\ UNCHANGED <<reading, snapshot>>

\* Faulty variant of Refreshed: apple_user is rebound, not updated in place.
Refreshed_Rebound(i) == object

\* apple_user.clear(); apple_user.update(verified)
Refreshed(i) == IF cur.shared THEN [object EXCEPT ![i] = dir[i]] ELSE object

\* _patch_external_id reads the account back.
ConfirmRepair ==
  /\ pc = "confirm" /\ cur.id \in Present
  /\ dir[cur.id].ext = TheUser.ext /\ dir[cur.id].user = TheUser.user
  /\ object' = Refreshed(cur.id)
  /\ PatchOrSettle([cur EXCEPT !.acc = dir[cur.id]], Plus(result, "updated"), TRUE)
  /\ UNCHANGED <<reading, index>> /\ NoWrite

\* The read fails, or shows somebody else's account.
ConfirmFails ==
  /\ pc = "confirm"
  /\ Settle(Plus(result, "errors"))
  /\ UNCHANGED <<reading, snapshot>> /\ NoWrite

\* _patch_user: the update is applied; its answer may be lost.
PatchUser(lost) ==
  /\ pc = "patch" /\ cur.id \in Present
  /\ Store(cur.id, Updated(dir[cur.id], TheUser))
  /\ Settle(Plus(result, IF lost THEN "errors" ELSE "updated"))
  /\ UNCHANGED <<reading, snapshot>>

\* sync_users returned, raised AppleUserListError or raised something else.
Ended == {"done", "aborted", "crashed"}

\* Another administrator or SCIM client changes an account.
OutsideChange ==
  /\ pc \notin Ended /\ outside < MaxOutside
  /\ \E i \in AppleIds, a \in Account \cup {NoAccount} :
       /\ a # dir[i] /\ (a # NoAccount => NameFree(i, a.user))
       /\ dir' = [dir EXCEPT ![i] = a]
  /\ outside' = outside + 1
  /\ UNCHANGED <<conf, pc, reading, snapshot, pos, cur, result, wrote>>

Over == pc \in Ended /\ UNCHANGED vars

SyncStep ==
  \/ ListPage \/ ListSample \/ LookupUser \/ LookupsDone \/ VerifyUser \/ VerifyDone \/ ReadFails
  \/ MatchUser \/ NameIsNull \/ Refused \/ CreateConflicts \/ Handle409Fails \/ ConfirmRepair \/ ConfirmFails
  \/ \E lost \in BOOLEAN : CreateUser(lost) \/ RepairExternalId(lost) \/ PatchUser(lost)
  \/ \E zeroBased \in BOOLEAN : Handle409(zeroBased)

Next == SyncStep \/ OutsideChange \/ Over

Spec == Init /\ [][Next]_vars
LiveSpec == Spec /\ WF_vars(SyncStep)

-----------------------------------------------------------------------------
(* Properties.                                                             *)

Quiet == outside = 0

\* The account belongs to u, or is unlinked and the operator opted in.
MayWrite(acc, u) ==
  \/ acc.ext = u.ext
  \/ acc.ext = NoExt /\ acc.user = u.user /\ conf.recovery

OwnWrite ==
  Quiet /\ outside' = outside => \A i \in Present : dir'[i] # dir[i] => MayWrite(dir[i], TheUser)

\* "A matching username with a different externalId is always a conflict", also
\* for a userName that two source users share: as long as nobody else changes
\* the directory, and no request of the run has failed or the source userNames
\* are distinct, the run writes only to the user's own account.
OnlyOwnAccounts ==
  [][result["errors"] = 0 \/ SourceIdentitiesValid(conf.source) => OwnWrite]_vars

\* The same without the proviso about failed requests.
ForeignLinkIsAlwaysConflict == [][OwnWrite]_vars

\* A run nobody interfered with and that reports no conflict and no error leaves
\* one account per source user, equal to it in every field of the update mode,
\* and in every field if no out_of_scope_diffs are reported either.
CleanRunIsInSync ==
  pc = "done" /\ Quiet /\ result["errors"] = 0 /\ result["conflicts"] = 0 =>
    \A k \in 1 .. Len(conf.source) :
      LET u == conf.source[k]
          own == {i \in Present : dir[i].ext = u.ext}
      IN /\ Cardinality(own) = 1
         /\ \A i \in own : /\ ActionableDiffs(dir[i], u) = {}
                           /\ result["outOfScope"] = 0 => FieldDiffs(dir[i], u) = {}

\* The same no-op update is not retried for ever (the comment on
\* _actionable_diffs): as long as the directory agrees with the source in the
\* fields of the update mode, and nobody else changes it, the run is not even
\* about to send a POST, PATCH or PUT, whether it would change something or not;
\* the differences outside of the update mode ask for none.
InScopeAgrees ==
  \A k \in 1 .. Len(conf.source) : \E i \in Present :
    dir[i].ext = conf.source[k].ext /\ FieldDiffs(dir[i], conf.source[k]) \cap UpdateFields = {}
NoChurn == Quiet /\ InScopeAgrees => pc \notin {"create", "query", "repair", "patch"}

\* A listing that the run accepts shows every account there is, although the
\* directory changed once between two of its pages: a page that was shifted by an
\* account added or removed meanwhile comes with another totalResults.  (An
\* addition and a removal together can go unnoticed.)
ListingComplete ==
  [][pc = "list" /\ goal = "preflight" /\ pc' \in {"user", "done"} /\ outside <= 1
       => {s.id : s \in index'} = Present]_vars

\* "Failed preflight requests ... stop the sync before user writes", while the
\* verifications after a 409 or a creation fail only their own user.
AbortedBeforeWrites == pc = "aborted" => ~wrote

\* The run ends, whatever Apple answers and however the directory changes.
SyncEnds == <>(pc \in Ended)
=============================================================================
