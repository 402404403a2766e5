---------------------------- MODULE MCAuthStore ----------------------------
(* AuthStore on small instances: each behaviour has one of two subjects. *)
EXTENDS AuthStore, TLC

CONSTANTS a1, a2, t1, t2

VARIABLE subject    \* what this behaviour is about

\* "sessions": administrators acting on each other, sessions across credential
\* changes, no rejected check.  "throttle": rejected checks against the windows
\* of the throttle, between administrators who stay and keep their passwords,
\* with one login that succeeds and opens a session nobody uses.
Within ==
    \/ subject = "sessions" /\ rejections = <<>>
    \/ /\ subject = "throttle"
       /\ \A u \in Accounts : Known(u) =>
              users[u].role = Administrator /\ users[u].active /\ users[u].epoch = 0
       /\ Cardinality({t \in Tokens : sessions[t] # NoSession}) <= 1
       /\ \A t \in Tokens : sessions[t] # NoSession =>
              LiveSession(t) /\ sessions[t].lastSeen = sessions[t].created

SubjectInit == Init /\ subject \in {"sessions", "throttle"}

SubjectNext == Next /\ UNCHANGED subject /\ Within'

SubjectSpec == SubjectInit /\ [][SubjectNext]_<<vars, subject>>

\* No action reads lastEvent, and the properties look at it after a step only:
\* states that differ in it alone have the same future.
WithoutAudit == <<users, sessions, failures, rejections, clock, subject>>

\* Accounts are interchangeable until the roles are given, tokens always.
Interchangeable == Permutations(Accounts) \cup Permutations(Tokens)
=============================================================================
