------------------------------ MODULE Throttle ------------------------------
(***************************************************************************)
(* The two time windows a process keeps in memory over time.monotonic():   *)
(* the failed management logins of an address (app/auth.py) and the        *)
(* cooldown of the operator alerts (app/alerts.py).                        *)
(*                                                                         *)
(* Alerts are sent from inside scim_operation only, so at most one is on   *)
(* its way at a time.  The alert webhook is external: it may never get a   *)
(* request, accept it, refuse it (4xx, 5xx), or answer in vain.            *)
(***************************************************************************)
EXTENDS Integers, Sequences, FiniteSets

CONSTANTS Limit,        \* _MANAGEMENT_AUTH_FAILURE_LIMIT
          Window,       \* _MANAGEMENT_AUTH_FAILURE_WINDOW_SECONDS
          Cooldown,     \* ALERT_COOLDOWN
          AlertEvents,  \* event types of send_alert
          MaxTime,      \* bound: last value of the clock
          MaxFailures,  \* bound: failed logins of the address
          Never, NoAlert

ASSUME ThrottleAssumption ==
  /\ {Limit, Window, Cooldown} \subseteq Nat \ {0}
  /\ MaxTime \in Nat /\ MaxFailures \in Nat
  /\ Never \notin Nat /\ NoAlert \notin AlertEvents

VARIABLES
  now,       \* time.monotonic(), in whole seconds
  attempts,  \* the deque of one address
  limited,   \* history: how the last step answered a failed login
  failures,  \* history: the times of all failed logins since the start
  lastSent,  \* _last_sent
  flight,    \* the alert on its way, and the time read before the POST
  held,      \* history: the event whose alert the last step suppressed
  reached    \* history: when the webhook last got a request for each event

vars  == <<now, attempts, limited, failures, lastSent, flight, held, reached>>

Time == 0 .. MaxTime

TypeOK ==
  /\ now \in Time
  /\ attempts \in Seq(Time) /\ Len(attempts) <= Limit + 1
  /\ limited \in {"none", "yes", "no"}
  /\ failures \in Seq(Time)
  /\ lastSent \in [AlertEvents -> Time \cup {Never}]
  /\ flight \in [event: AlertEvents, at: Time, arrived: BOOLEAN] \cup {NoAlert}
  /\ held \in AlertEvents \cup {NoAlert}
  /\ reached \in [AlertEvents -> Time \cup {Never}]

Init ==
  /\ now = 0
  /\ attempts = <<>> /\ limited = "none" /\ failures = <<>>
  /\ lastSent = [e \in AlertEvents |-> Never] /\ flight = NoAlert
  /\ held = NoAlert /\ reached = [e \in AlertEvents |-> Never]

\* What the last step answered is forgotten.
Quiet == limited' = "none" /\ held' = NoAlert

Tick ==
  /\ now < MaxTime /\ now' = now + 1
  /\ Quiet
  /\ UNCHANGED <<attempts, failures, lastSent, flight, reached>>

\* A new process: both tables are empty again.
Restart ==
  /\ attempts' = <<>> /\ failures' = <<>>
  /\ lastSent' = [e \in AlertEvents |-> Never] /\ flight' = NoAlert
  /\ Quiet
  /\ UNCHANGED <<now, reached>>

-----------------------------------------------------------------------------
(* Failed management logins.                                               *)

\* The loop that pops attempts from the left as long as the first one has an age
\* of at least w: n of them go, and the next, if there is one, is younger.
PopLeft(s, w) ==
  LET n == CHOOSE n \in 0 .. Len(s) :
             /\ \A k \in 1 .. n : now - s[k] >= w
             /\ n < Len(s) => now - s[n + 1] < w
  IN SubSeq(s, n + 1, Len(s))

\* Faulty variant of Pruned: an attempt as old as the window is kept.
Pruned_KeepsOldest(s) == PopLeft(s, Window + 1)

\* What is left of the deque.
Pruned(s) == PopLeft(s, Window)

\* Faulty variants of Appended: the deque holds Limit attempts; or any number.
Appended_Short(s) ==
  IF Len(s) >= Limit THEN Append(Tail(s), now) ELSE Append(s, now)
Appended_Unbounded(s) == Append(s, now)

\* append on a deque of maxlen Limit + 1 drops the oldest.
Appended(s) ==
  IF Len(s) > Limit THEN Append(Tail(s), now) ELSE Append(s, now)

\* _record_management_auth_failure: an address without recent attempts gets a new
\* deque, any other one keeps its own; the answer is 429, or the caller's 401 or
\* 403.  (The limiter is enabled: only the tests switch it off.)
LoginFails ==
  /\ Len(failures) < MaxFailures
  /\ attempts' = Appended(Pruned(attempts))
  /\ limited' = IF Len(attempts') > Limit THEN "yes" ELSE "no"
  /\ failures' = Append(failures, now)
  /\ held' = NoAlert
  /\ UNCHANGED <<now, lastSent, flight, reached>>

-----------------------------------------------------------------------------
(* Alerts.                                                                 *)

InCooldown(e) == lastSent[e] # Never /\ now - lastSent[e] < Cooldown

\* send_alert returns without a request.
SuppressAlert(e) ==
  /\ flight = NoAlert /\ InCooldown(e)
  /\ held' = e /\ limited' = "none"
  /\ UNCHANGED <<now, attempts, failures, lastSent, flight, reached>>

\* Faulty variant of SendAlert: the cooldown starts with the request.
SendAlert_StartsCooldown(e) ==
  /\ flight = NoAlert /\ ~InCooldown(e)
  /\ flight' = [event |-> e, at |-> now, arrived |-> FALSE]
  /\ lastSent' = [lastSent EXCEPT ![e] = now]
  /\ Quiet
  /\ UNCHANGED <<now, attempts, failures, reached>>

\* Faulty variant of SendAlert: the cooldown is not looked at.
SendAlert_Always(e) ==
  /\ flight = NoAlert
  /\ flight' = [event |-> e, at |-> now, arrived |-> FALSE]
  /\ Quiet
  /\ UNCHANGED <<now, attempts, failures, lastSent, reached>>

\* send_alert begins the POST.
SendAlert(e) ==
  /\ flight = NoAlert /\ ~InCooldown(e)
  /\ flight' = [event |-> e, at |-> now, arrived |-> FALSE]
  /\ Quiet
  /\ UNCHANGED <<now, attempts, failures, lastSent, reached>>

\* The webhook gets the request, and will accept or refuse it.
AlertArrives ==
  /\ flight # NoAlert /\ ~flight.arrived
  /\ reached' = [reached EXCEPT ![flight.event] = now]
  /\ flight' = [flight EXCEPT !.arrived = TRUE]
  /\ Quiet
  /\ UNCHANGED <<now, attempts, failures, lastSent>>

\* Its answer arrives: whatever the status, also of a refusal, the cooldown is
\* set, from the time read before the POST.
AlertAnswered ==
  /\ flight # NoAlert /\ flight.arrived
  /\ lastSent' = [lastSent EXCEPT ![flight.event] = flight.at]
  /\ flight' = NoAlert
  /\ Quiet
  /\ UNCHANGED <<now, attempts, failures, reached>>

\* httpx.HTTPError, or any other exception: before or after the webhook got
\* the request.
AlertFails ==
  /\ flight # NoAlert /\ flight' = NoAlert
  /\ Quiet
  /\ UNCHANGED <<now, attempts, failures, lastSent, reached>>

Next ==
  \/ Tick \/ Restart \/ LoginFails
  \/ \E e \in AlertEvents : SuppressAlert(e) \/ SendAlert(e)
  \/ AlertArrives \/ AlertAnswered \/ AlertFails

Spec == Init /\ [][Next]_vars

-----------------------------------------------------------------------------
(* Properties.                                                             *)

\* The failed logins of the last Window seconds, this one included.
Recent == {k \in 1 .. Len(failures) : now - failures[k] < Window}

\* A failed login is answered 429 exactly when more than Limit logins of its
\* address failed within the window, although the deque remembers only
\* Limit + 1 of them: it forgets none that could still matter, at either edge of
\* the window (_record_management_auth_failure).
LimiterIsSlidingWindow ==
  limited # "none" => (limited = "yes" <=> Cardinality(Recent) > Limit)

\* "Server reached - start cooldown": send_alert suppresses an alert only if the
\* webhook got a request of this type less than Cooldown ago, whatever answers
\* were lost and however long they took: a webhook that cannot be reached
\* silences nothing.  It need not have accepted the alert: a 4xx or 5xx starts
\* the cooldown as well, and so silences the alerts that follow.
SuppressedWasReached ==
  held # NoAlert => reached[held] # Never /\ now - reached[held] < Cooldown

\* "One alert per event type per hour": the alerts of one process that were
\* answered were sent at least Cooldown apart.
AnsweredAlertsApart ==
  [][\A e \in AlertEvents :
       lastSent[e] # Never /\ lastSent'[e] # Never /\ lastSent'[e] # lastSent[e]
         => lastSent'[e] >= lastSent[e] + Cooldown]_vars
=============================================================================
