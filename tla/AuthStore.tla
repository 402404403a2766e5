------------------------------ MODULE AuthStore ------------------------------
(***************************************************************************)
(* Accounts, bearer sessions and login throttling of                       *)
(* src/forenx/auth/store.py.                                               *)
(*                                                                         *)
(* Every operation of the store is one BEGIN IMMEDIATE transaction, so it  *)
(* is one action here.  A transaction that ends in AuthenticationError     *)
(* commits (the failure counters and the audit event persist); one that    *)
(* ends in any other exception rolls back and is a stuttering step, left   *)
(* out of Next.                                                            *)
(*                                                                         *)
(* Each caller reads the wall clock BEFORE it queues for the write lock.   *)
(* A transaction committed at time clock therefore works with a time n     *)
(* that may lag behind: n is any value of Nows.                            *)
(*                                                                         *)
(* A password is represented by the number of times it was replaced        *)
(* (epoch), a supplied password by whether it is the one in force.         *)
(***************************************************************************)
EXTENDS Integers, FiniteSets, Sequences

CONSTANTS
    Accounts,       \* usernames; one not yet created is an unknown username
    Tokens,         \* session tokens that may be issued
    Roles,          \* roles an account may hold
    Administrator,  \* Role.ADMINISTRATOR
    NoUser,         \* no row for this username
    NoSession,      \* no row for this token
    Shared,         \* the '' account_key: failures kept for the global limit only
    Window,         \* FAILURE_WINDOW
    AccountLimit,   \* ACCOUNT_FAILURE_LIMIT
    GlobalLimit,    \* GLOBAL_FAILURE_LIMIT
    Lifetime,       \* session_lifetime
    Idle,           \* idle_timeout
    MaxLag,         \* bound: how far a caller's clock reading lags its commit
    MaxTime,        \* bound: last clock value explored
    MaxEpoch,       \* bound: password replacements per account
    MaxRejections   \* bound: rejected password checks explored

ASSUME AuthRoles == Administrator \in Roles
ASSUME AuthShared == Shared \notin Accounts
ASSUME AuthLimits == /\ AccountLimit \in Nat \ {0} /\ GlobalLimit \in Nat \ {0}
                     /\ Window \in Nat \ {0} /\ Lifetime \in Nat \ {0}
                     /\ Idle \in Nat \ {0}
ASSUME AuthBounds == /\ MaxLag \in Nat /\ MaxTime \in Nat
                     /\ MaxEpoch \in Nat /\ MaxRejections \in Nat

VARIABLES
    users,       \* the users table
    sessions,    \* the sessions table
    failures,    \* the auth_failures table: row number -> [key, at]
    rejections,  \* history: commit time of each rejected check, by row number
    lastEvent,   \* head of the auth_events chain
    clock        \* wall clock

vars == <<users, sessions, failures, rejections, lastEvent, clock>>

UserRow == [role : Roles, active : BOOLEAN, mustChange : BOOLEAN, epoch : Nat]

\* epoch is history: the password that opened the session.
SessionRow == [user : Accounts, created : Nat, expires : Nat, lastSeen : Nat,
               revoked : BOOLEAN, epoch : Nat]

ASSUME AuthNulls == NoUser \notin UserRow /\ NoSession \notin SessionRow

FailureRow == [key : Accounts \cup {Shared}, at : Nat]

Actions == {"NONE", "ADMINISTRATOR_BOOTSTRAPPED", "USER_CREATED", "LOGIN_SUCCEEDED",
            "LOGIN_FAILED", "REAUTHENTICATION_FAILED", "AUTHENTICATION_THROTTLED",
            "SESSION_REVOKED", "ALL_SESSIONS_REVOKED", "PASSWORD_CHANGED",
            "USER_ACTIVATED", "USER_SUSPENDED", "PASSWORD_RESET",
            "USER_SESSIONS_REVOKED", "ADMINISTRATOR_RECOVERED"}

TypeOK ==
    /\ users \in [Accounts -> UserRow \cup {NoUser}]
    /\ sessions \in [Tokens -> SessionRow \cup {NoSession}]
    /\ DOMAIN failures \subseteq 1..Len(rejections)
    /\ failures \in [DOMAIN failures -> FailureRow]
    /\ rejections \in Seq(Nat)
    /\ lastEvent \in [action : Actions, subject : Accounts \cup {Shared}]
    /\ clock \in Nat

Init ==
    /\ users = [u \in Accounts |-> NoUser]
    /\ sessions = [t \in Tokens |-> NoSession]
    /\ failures = <<>>
    /\ rejections = <<>>
    /\ lastEvent = [action |-> "NONE", subject |-> Shared]
    /\ clock = 0

-----------------------------------------------------------------------------
(* Shared pieces of the transactions *)

\* The clock readings a transaction that commits now may carry.
Nows == {n \in 0..clock : n + MaxLag >= clock}

Known(u) == users[u] # NoUser

\* An administrator _require_administrator accepts.
Unrestricted(u) ==
    /\ Known(u)
    /\ users[u].role = Administrator
    /\ users[u].active
    /\ ~users[u].mustChange

AvailableAdministrators == {u \in Accounts : Unrestricted(u)}

\* _protect_last_administrator lets this target be taken away.
MayLose(u) == Unrestricted(u) => Cardinality(AvailableAdministrators) > 1

\* _append_event
Audit(action, subject) == lastEvent' = [action |-> action, subject |-> subject]

LiveSession(t) == sessions[t] # NoSession /\ ~sessions[t].revoked

\* Variant: sessions that look idle are left alone.
RevokeBusySessionsOf(u) ==
    sessions' = [t \in Tokens |->
                    IF LiveSession(t) /\ sessions[t].user = u
                       /\ sessions[t].lastSeen + Idle > clock
                    THEN [sessions[t] EXCEPT !.revoked = TRUE]
                    ELSE sessions[t]]

\* _revoke_user_sessions
RevokeSessionsOf(u) ==
    sessions' = [t \in Tokens |->
                    IF LiveSession(t) /\ sessions[t].user = u
                    THEN [sessions[t] EXCEPT !.revoked = TRUE]
                    ELSE sessions[t]]

-----------------------------------------------------------------------------
(* _check_password: pruning, throttling, the failure counters *)

\* Rows that survive the DELETE with this caller's cutoff.
Recent(n) == {i \in DOMAIN failures : failures[i].at > n - Window}

AgainstAccount(u, n) == {i \in Recent(n) : failures[i].key = u}

AccountFull(u, n) == Cardinality(AgainstAccount(u, n)) >= AccountLimit
LaboratoryFull(n) == Cardinality(Recent(n)) >= GlobalLimit
Throttled(u, n) == AccountFull(u, n) \/ LaboratoryFull(n)

Oldest(rows) == CHOOSE at \in {failures[i].at : i \in rows} :
                    \A i \in rows : at <= failures[i].at

Later(a, b) == IF a >= b THEN a ELSE b

\* Variant: told to wait for the first of the two limits to clear only.
RetryAfterFirst(u, n) ==
    LET account == IF AccountFull(u, n) THEN Oldest(AgainstAccount(u, n)) ELSE n
        laboratory == IF LaboratoryFull(n) THEN Oldest(Recent(n)) ELSE n
    IN  Later(1, (IF account <= laboratory THEN account ELSE laboratory) + Window - n)

\* The delay, in clock units, the throttled caller is told to wait.
RetryAfter(u, n) ==
    LET account == IF AccountFull(u, n) THEN Oldest(AgainstAccount(u, n)) ELSE 0
        laboratory == IF LaboratoryFull(n) THEN Oldest(Recent(n)) ELSE 0
    IN  Later(1, Later(account, laboratory) + Window - n)

\* The row a failed check inserts, after the pruning.
RecordFailure(u, n) ==
    LET row == Len(rejections) + 1
    IN  /\ Len(rejections) < MaxRejections
        /\ failures' = [i \in Recent(n) \cup {row} |->
                           IF i = row THEN [key |-> u, at |-> n] ELSE failures[i]]
        /\ rejections' = Append(rejections, clock)

\* Variant: a success deletes the accounts' failures.
DroppedRows(names, rows) ==
    [i \in {j \in rows : failures[j].key \notin names} |-> failures[i]]

\* _clear_account_failures, over the rows that survive the pruning (or all of
\* them): the rows stay, for the global limit.
SweptRows(names, rows) ==
    [i \in rows |-> IF failures[i].key \in names
                    THEN [failures[i] EXCEPT !.key = Shared]
                    ELSE failures[i]]

\* A check that ends in AuthenticationError: it commits, and changes nothing
\* but the failure table and the audit chain.
CheckRefused(u, n, valid, failedEvent) ==
    \/ /\ Throttled(u, n)
       /\ failures' = SweptRows({}, Recent(n))
       /\ Audit("AUTHENTICATION_THROTTLED", u)
       /\ UNCHANGED <<users, sessions, rejections, clock>>
    \/ /\ ~Throttled(u, n)
       /\ ~(valid /\ Known(u) /\ users[u].active)
       /\ RecordFailure(u, n)
       /\ Audit(failedEvent, u)
       /\ UNCHANGED <<users, sessions, clock>>

\* A check that returns: the caller's transaction goes on from here.
CheckPassed(u, n, valid) ==
    /\ ~Throttled(u, n)
    /\ valid /\ Known(u) /\ users[u].active
    /\ UNCHANGED <<rejections, clock>>

-----------------------------------------------------------------------------
(* Operations *)

BootstrapAdministrator(u) ==
    /\ \A v \in Accounts : ~Known(v)
    /\ users' = [users EXCEPT ![u] = [role |-> Administrator, active |-> TRUE,
                                      mustChange |-> FALSE, epoch |-> 0]]
    /\ Audit("ADMINISTRATOR_BOOTSTRAPPED", u)
    /\ UNCHANGED <<sessions, failures, rejections, clock>>

\* The one caller, the API, passes its actor and a temporary password.
CreateUser(actor, u, role) ==
    /\ Unrestricted(actor)
    /\ ~Known(u)
    /\ users' = [users EXCEPT ![u] = [role |-> role, active |-> TRUE,
                                      mustChange |-> TRUE, epoch |-> 0]]
    /\ Audit("USER_CREATED", u)
    /\ UNCHANGED <<sessions, failures, rejections, clock>>

\* Variant: the lifetime is subtracted.
NewSessionBackdated(u, n) ==
    [user |-> u, created |-> n, expires |-> n - Lifetime, lastSeen |-> n,
     revoked |-> FALSE, epoch |-> users[u].epoch]

NewSession(u, n) ==
    [user |-> u, created |-> n, expires |-> n + Lifetime, lastSeen |-> n,
     revoked |-> FALSE, epoch |-> users[u].epoch]

Authenticate(u, t, valid, n) ==
    \/ CheckRefused(u, n, valid, "LOGIN_FAILED")
    \/ /\ CheckPassed(u, n, valid)
       /\ sessions[t] = NoSession
       /\ failures' = SweptRows({u}, Recent(n))
       /\ sessions' = [sessions EXCEPT ![t] = NewSession(u, n)]
       /\ Audit("LOGIN_SUCCEEDED", u)
       /\ UNCHANGED users

\* Variant: the idle deadline is not checked.
ResolvableWhenIdle(t, n) ==
    /\ LiveSession(t)
    /\ sessions[t].expires > n
    /\ sessions[t].created <= n
    /\ users[sessions[t].user].active

\* The SELECT of resolve_session finds the row.
Resolvable(t, n) ==
    /\ LiveSession(t)
    /\ sessions[t].expires > n
    /\ sessions[t].created <= n
    /\ sessions[t].lastSeen > n - Idle
    /\ users[sessions[t].user].active

\* allow: the caller is one a temporary password may reach.
ResolveSession(t, allow, n) ==
    /\ Resolvable(t, n)
    /\ users[sessions[t].user].mustChange => allow
    /\ sessions' = [sessions EXCEPT ![t].lastSeen = Later(@, n)]
    /\ UNCHANGED <<users, failures, rejections, lastEvent, clock>>

\* Variant: the audit event is forgotten.
RevokeSessionSilently(t) ==
    /\ LiveSession(t)
    /\ sessions' = [sessions EXCEPT ![t].revoked = TRUE]
    /\ UNCHANGED <<users, failures, rejections, lastEvent, clock>>

RevokeSession(t) ==
    /\ LiveSession(t)
    /\ sessions' = [sessions EXCEPT ![t].revoked = TRUE]
    /\ Audit("SESSION_REVOKED", sessions[t].user)
    /\ UNCHANGED <<users, failures, rejections, clock>>

RevokeAllSessions(u) ==
    /\ Known(u)
    /\ RevokeSessionsOf(u)
    /\ Audit("ALL_SESSIONS_REVOKED", u)
    /\ UNCHANGED <<users, failures, rejections, clock>>

\* The row once password_hash and must_change_password are set.
WithPassword(row, mustChange) ==
    [row EXCEPT !.epoch = @ + 1, !.mustChange = mustChange]

\* A new password equal to the old one raises ValueError: a rolled-back step.
ChangePassword(u, valid, n) ==
    /\ Known(u)
    /\ \/ CheckRefused(u, n, valid, "REAUTHENTICATION_FAILED")
       \/ /\ CheckPassed(u, n, valid)
          /\ users[u].epoch < MaxEpoch
          /\ failures' = SweptRows({u}, Recent(n))
          /\ users' = [users EXCEPT ![u] = WithPassword(@, FALSE)]
          /\ RevokeSessionsOf(u)
          /\ Audit("PASSWORD_CHANGED", u)

SuspendUser(actor, u, valid, n) ==
    /\ Unrestricted(actor)
    /\ \/ CheckRefused(actor, n, valid, "REAUTHENTICATION_FAILED")
       \/ /\ CheckPassed(actor, n, valid)
          /\ Known(u) /\ u # actor /\ MayLose(u)
          /\ failures' = SweptRows({actor}, Recent(n))
          /\ users' = [users EXCEPT ![u] = [@ EXCEPT !.active = FALSE]]
          /\ RevokeSessionsOf(u)
          /\ Audit("USER_SUSPENDED", u)

ActivateUser(actor, u, valid, n) ==
    /\ Unrestricted(actor)
    /\ \/ CheckRefused(actor, n, valid, "REAUTHENTICATION_FAILED")
       \/ /\ CheckPassed(actor, n, valid)
          /\ Known(u)
          /\ failures' = SweptRows({actor}, Recent(n))
          /\ users' = [users EXCEPT ![u] = [@ EXCEPT !.active = TRUE]]
          /\ Audit("USER_ACTIVATED", u)
          /\ UNCHANGED sessions

ResetPassword(actor, u, valid, n) ==
    /\ Unrestricted(actor)
    /\ \/ CheckRefused(actor, n, valid, "REAUTHENTICATION_FAILED")
       \/ /\ CheckPassed(actor, n, valid)
          /\ Known(u) /\ u # actor /\ users[u].active /\ MayLose(u)
          /\ users[u].epoch < MaxEpoch
          /\ failures' = SweptRows({actor, u}, Recent(n))
          /\ users' = [users EXCEPT ![u] = WithPassword(@, TRUE)]
          /\ RevokeSessionsOf(u)
          /\ Audit("PASSWORD_RESET", u)

RevokeUserSessions(actor, u, valid, n) ==
    /\ Unrestricted(actor)
    /\ \/ CheckRefused(actor, n, valid, "REAUTHENTICATION_FAILED")
       \/ /\ CheckPassed(actor, n, valid)
          /\ Known(u)
          /\ failures' = SweptRows({actor}, Recent(n))
          /\ RevokeSessionsOf(u)
          /\ Audit("USER_SESSIONS_REVOKED", u)
          /\ UNCHANGED users

\* Variant: the recovered account gets a temporary password.
RecoverWithTemporaryPassword(u) ==
    /\ Known(u) /\ users[u].role = Administrator
    /\ users[u].epoch < MaxEpoch
    /\ users' = [users EXCEPT ![u] = [WithPassword(@, TRUE) EXCEPT !.active = TRUE]]
    /\ RevokeSessionsOf(u)
    /\ failures' = SweptRows({u}, DOMAIN failures)
    /\ Audit("ADMINISTRATOR_RECOVERED", u)
    /\ UNCHANGED <<rejections, clock>>

\* The local operator's command line, beside the running server.
RecoverAdministrator(u) ==
    /\ Known(u) /\ users[u].role = Administrator
    /\ users[u].epoch < MaxEpoch
    /\ users' = [users EXCEPT ![u] = [WithPassword(@, FALSE) EXCEPT !.active = TRUE]]
    /\ RevokeSessionsOf(u)
    /\ failures' = SweptRows({u}, DOMAIN failures)
    /\ Audit("ADMINISTRATOR_RECOVERED", u)
    /\ UNCHANGED <<rejections, clock>>

Tick ==
    /\ clock < MaxTime
    /\ clock' = clock + 1
    /\ UNCHANGED <<users, sessions, failures, rejections, lastEvent>>

Next ==
    \/ \E u \in Accounts : BootstrapAdministrator(u)
    \/ \E actor, u \in Accounts, role \in Roles : CreateUser(actor, u, role)
    \/ \E u \in Accounts, t \in Tokens, valid \in BOOLEAN, n \in Nows :
           Authenticate(u, t, valid, n)
    \/ \E t \in Tokens, allow \in BOOLEAN, n \in Nows : ResolveSession(t, allow, n)
    \/ \E t \in Tokens : RevokeSession(t)
    \/ \E u \in Accounts : RevokeAllSessions(u)
    \/ \E u \in Accounts, valid \in BOOLEAN, n \in Nows : ChangePassword(u, valid, n)
    \/ \E actor, u \in Accounts, valid \in BOOLEAN, n \in Nows :
           \/ SuspendUser(actor, u, valid, n)
           \/ ActivateUser(actor, u, valid, n)
           \/ ResetPassword(actor, u, valid, n)
           \/ RevokeUserSessions(actor, u, valid, n)
    \/ \E u \in Accounts : RecoverAdministrator(u)
    \/ Tick

Spec == Init /\ [][Next]_vars

-----------------------------------------------------------------------------
(* Properties *)

\* Once an account exists, some active administrator with a permanent password
\* exists, whatever administrators do to each other concurrently
\* (_protect_last_administrator, the self-suspension guard, recovery).
AdminAvailable == (\E u \in Accounts : Known(u)) => AvailableAdministrators # {}

\* A session that is not revoked belongs to an active account and was opened
\* with the password now in force: suspension, reset, change and recovery end
\* every session opened before them, in the same transaction.
SessionsFollowCredential ==
    \A t \in Tokens : LiveSession(t) =>
        LET u == sessions[t].user
        IN  Known(u) /\ users[u].active /\ sessions[t].epoch = users[u].epoch

\* No reading of the clock makes resolve_session accept this token any more.
DeadSession(t) ==
    /\ sessions[t] # NoSession
    /\ \/ sessions[t].revoked
       \/ sessions[t].expires + MaxLag <= clock
       \/ sessions[t].lastSeen + Idle + MaxLag <= clock
       \/ ~users[sessions[t].user].active

\* A session that is over stays over, whatever is done to the account
\* afterwards, and an out-of-order request never pulls the idle deadline back.
SessionsNeverRevive ==
    [][\A t \in Tokens : sessions[t] # NoSession =>
          /\ DeadSession(t) => DeadSession(t)' /\ sessions'[t].lastSeen = sessions[t].lastSeen
          /\ sessions'[t].lastSeen >= sessions[t].lastSeen
          /\ sessions'[t].expires = sessions[t].expires]_vars

\* In any stretch of Window - MaxLag, at most GlobalLimit password checks are
\* answered with "wrong", over all accounts together, however many succeed in
\* between (the global bucket survives _clear_account_failures).
GuessBudget ==
    Cardinality({i \in DOMAIN rejections : rejections[i] + Window > clock + MaxLag})
        <= GlobalLimit

\* The Retry-After a throttled caller is given is honest: after that delay
\* and no further failure it is not throttled, and not a moment earlier.
RetryHintHonest ==
    \A u \in Accounts, n \in Nows : Throttled(u, n) =>
        /\ ~Throttled(u, n + RetryAfter(u, n))
        /\ \A m \in n .. (n + RetryAfter(u, n) - 1) : Throttled(u, m)

Rejected == {"LOGIN_FAILED", "REAUTHENTICATION_FAILED"}

AccountChanges == {"ADMINISTRATOR_BOOTSTRAPPED", "USER_CREATED", "PASSWORD_CHANGED",
                   "USER_ACTIVATED", "USER_SUSPENDED", "PASSWORD_RESET",
                   "ADMINISTRATOR_RECOVERED"}

SessionEndings == {"SESSION_REVOKED", "ALL_SESSIONS_REVOKED", "USER_SESSIONS_REVOKED",
                   "PASSWORD_CHANGED", "USER_SUSPENDED", "PASSWORD_RESET",
                   "ADMINISTRATOR_RECOVERED"}

\* An account, a session's end or beginning, or a rejected check never commits
\* without the audit event that names the account (_append_event is in every
\* transaction, also in those that end in AuthenticationError).
ChangesAudited ==
    [][/\ \A u \in Accounts : users'[u] # users[u] =>
              lastEvent'.subject = u /\ lastEvent'.action \in AccountChanges
       /\ \A t \in Tokens : LiveSession(t) # LiveSession(t)' =>
              /\ lastEvent'.subject = sessions'[t].user
              /\ lastEvent'.action \in
                     IF LiveSession(t) THEN SessionEndings ELSE {"LOGIN_SUCCEEDED"}
       /\ rejections' # rejections => lastEvent'.action \in Rejected]_vars
=============================================================================
