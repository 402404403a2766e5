-------------------------- MODULE AuthStoreProofs --------------------------
(***************************************************************************)
(* Theorems about AuthStore, for every set of accounts and tokens, every   *)
(* limit and every bound.                                                  *)
(***************************************************************************)
EXTENDS AuthStore, FiniteSetTheorems, WellFoundedInduction, TLAPS

-----------------------------------------------------------------------------
(* What the shared pieces of the transactions preserve *)

\* Sweeping rows of the table keeps them well-formed and keeps their stamps.
LEMMA SweptRowsType ==
    ASSUME TypeOK, NEW names, NEW rows \in SUBSET DOMAIN failures
    PROVE  /\ DOMAIN SweptRows(names, rows) = rows
           /\ SweptRows(names, rows) \in [rows -> FailureRow]
           /\ \A i \in rows :
                /\ SweptRows(names, rows)[i].at = failures[i].at
                /\ SweptRows(names, rows)[i].key \in {failures[i].key, Shared}
BY DEF SweptRows, TypeOK, FailureRow

\* Revoking an account's sessions keeps the table well-formed.
LEMMA RevokeSessionsType ==
    ASSUME TypeOK, NEW u \in Accounts, RevokeSessionsOf(u)
    PROVE  sessions' \in [Tokens -> SessionRow \cup {NoSession}]
BY DEF RevokeSessionsOf, LiveSession, TypeOK, SessionRow

\* Replacing a password keeps the account's row well-formed, and all but two fields.
LEMMA WithPasswordType ==
    ASSUME NEW row \in UserRow, NEW mustChange \in BOOLEAN
    PROVE  /\ WithPassword(row, mustChange) \in UserRow
           /\ WithPassword(row, mustChange).role = row.role
           /\ WithPassword(row, mustChange).active = row.active
           /\ WithPassword(row, mustChange).mustChange = mustChange
           /\ WithPassword(row, mustChange).epoch = row.epoch + 1
<1> DEFINE next == row.epoch + 1
<1>1. next \in Nat
  BY DEF UserRow
<1>2. LET new == [row EXCEPT !.epoch = next, !.mustChange = mustChange]
      IN  /\ new \in UserRow /\ new.role = row.role /\ new.active = row.active
          /\ new.mustChange = mustChange /\ new.epoch = next
  <2> HIDE DEF next
  <2>1. QED
    BY <1>1 DEF UserRow
<1>3. QED
  BY <1>2 DEF WithPassword

\* The clock readings a transaction may carry are times.
LEMMA NowsAreTimes ==
    ASSUME TypeOK, NEW n \in Nows
    PROVE  n \in Nat /\ n <= clock /\ n + MaxLag >= clock
BY AuthBounds DEF Nows, TypeOK

\* A refused check touches neither accounts nor sessions and keeps the table typed.
LEMMA RefusedType ==
    ASSUME TypeOK, NEW u \in Accounts, NEW n \in Nows, NEW valid \in BOOLEAN,
           NEW event \in Actions, CheckRefused(u, n, valid, event)
    PROVE  TypeOK'
<1>1. n \in Nat
  BY NowsAreTimes
<1>2. Recent(n) \in SUBSET DOMAIN failures
  BY DEF Recent
<1>3. CASE failures' = SweptRows({}, Recent(n)) /\ Audit("AUTHENTICATION_THROTTLED", u)
           /\ UNCHANGED <<users, sessions, rejections, clock>>
  <2>1. DOMAIN failures' = Recent(n) /\ failures' \in [Recent(n) -> FailureRow]
    BY <1>2, <1>3, SweptRowsType
  <2>2. lastEvent' \in [action : Actions, subject : Accounts \cup {Shared}]
    BY <1>3 DEF Audit, Actions
  <2>3. QED
    BY <1>2, <1>3, <2>1, <2>2 DEF TypeOK
<1>4. CASE RecordFailure(u, n) /\ Audit(event, u) /\ UNCHANGED <<users, sessions, clock>>
  <2> DEFINE row == Len(rejections) + 1
  <2>1. /\ rejections' \in Seq(Nat) /\ Len(rejections') = row /\ row \in Nat \ {0}
    BY <1>4 DEF RecordFailure, TypeOK
  <2>2. /\ DOMAIN failures' = Recent(n) \cup {row}
        /\ failures' \in [Recent(n) \cup {row} -> FailureRow]
    BY <1>1, <1>2, <1>4 DEF RecordFailure, TypeOK, FailureRow
  <2>3. Recent(n) \cup {row} \subseteq 1..row
    BY <1>2, <2>1 DEF TypeOK
  <2>4. lastEvent' \in [action : Actions, subject : Accounts \cup {Shared}]
    BY <1>4 DEF Audit
  <2>5. QED
    BY <1>4, <2>1, <2>2, <2>3, <2>4 DEF TypeOK
<1>5. QED
  BY <1>3, <1>4 DEF CheckRefused

\* After a check that passed, a transaction that sweeps the rows, writes typed
\* accounts and sessions and audits its action leaves the state typed.
LEMMA PassedType ==
    ASSUME TypeOK, NEW u \in Accounts, NEW n \in Nows, NEW valid \in BOOLEAN,
           CheckPassed(u, n, valid), NEW names, failures' = SweptRows(names, Recent(n)),
           users' \in [Accounts -> UserRow \cup {NoUser}],
           sessions' \in [Tokens -> SessionRow \cup {NoSession}],
           NEW event \in Actions, NEW v \in Accounts, Audit(event, v)
    PROVE  TypeOK'
<1>1. Recent(n) \in SUBSET DOMAIN failures
  BY DEF Recent
<1>2. DOMAIN failures' = Recent(n) /\ failures' \in [Recent(n) -> FailureRow]
  BY <1>1, SweptRowsType
<1>3. lastEvent' \in [action : Actions, subject : Accounts \cup {Shared}]
  BY DEF Audit
<1>4. UNCHANGED <<rejections, clock>>
  BY DEF CheckPassed
<1>5. QED
  BY <1>1, <1>2, <1>3, <1>4 DEF TypeOK

-----------------------------------------------------------------------------
(* Type correctness *)

\* The store starts well-formed.
LEMMA TypeInit == Init => TypeOK
BY DEF Init, TypeOK, Actions

\* Every transaction and every tick keeps the tables well-formed.
LEMMA TypeStep == TypeOK /\ [Next]_vars => TypeOK'
<1> SUFFICES ASSUME TypeOK, [Next]_vars PROVE TypeOK'
  OBVIOUS
<1>1. ASSUME NEW u \in Accounts, BootstrapAdministrator(u) PROVE TypeOK'
  <2>1. users' \in [Accounts -> UserRow \cup {NoUser}]
    BY <1>1, AuthRoles DEF BootstrapAdministrator, TypeOK, UserRow
  <2>2. lastEvent' \in [action : Actions, subject : Accounts \cup {Shared}]
    BY <1>1 DEF BootstrapAdministrator, Audit, Actions
  <2>3. QED
    BY <1>1, <2>1, <2>2 DEF BootstrapAdministrator, TypeOK
<1>2. ASSUME NEW actor \in Accounts, NEW u \in Accounts, NEW role \in Roles,
             CreateUser(actor, u, role)
      PROVE  TypeOK'
  <2>1. users' \in [Accounts -> UserRow \cup {NoUser}]
    BY <1>2 DEF CreateUser, TypeOK, UserRow
  <2>2. lastEvent' \in [action : Actions, subject : Accounts \cup {Shared}]
    BY <1>2 DEF CreateUser, Audit, Actions
  <2>3. QED
    BY <1>2, <2>1, <2>2 DEF CreateUser, TypeOK
<1>3. ASSUME NEW u \in Accounts, NEW t \in Tokens, NEW valid \in BOOLEAN, NEW n \in Nows,
             Authenticate(u, t, valid, n)
      PROVE  TypeOK'
  <2>1. CASE CheckRefused(u, n, valid, "LOGIN_FAILED")
    BY <2>1, RefusedType DEF Actions
  <2>2. CASE /\ CheckPassed(u, n, valid)
             /\ failures' = SweptRows({u}, Recent(n))
             /\ sessions' = [sessions EXCEPT ![t] = NewSession(u, n)]
             /\ Audit("LOGIN_SUCCEEDED", u)
             /\ UNCHANGED users
    <3>1. users[u] \in UserRow
      BY <2>2 DEF CheckPassed, Known, TypeOK
    <3>2. NewSession(u, n) \in SessionRow
      BY <3>1, NowsAreTimes, AuthLimits DEF NewSession, SessionRow, UserRow
    <3>3. sessions' \in [Tokens -> SessionRow \cup {NoSession}]
      BY <2>2, <3>2 DEF TypeOK
    <3>4. users' \in [Accounts -> UserRow \cup {NoUser}]
      BY <2>2 DEF TypeOK
    <3>5. "LOGIN_SUCCEEDED" \in Actions
      BY DEF Actions
    <3>6. QED
      BY <2>2, <3>3, <3>4, <3>5, PassedType
  <2>3. QED
    BY <1>3, <2>1, <2>2 DEF Authenticate
<1>4. ASSUME NEW t \in Tokens, NEW allow \in BOOLEAN, NEW n \in Nows,
             ResolveSession(t, allow, n)
      PROVE  TypeOK'
  <2>1. sessions[t] \in SessionRow
    BY <1>4 DEF ResolveSession, Resolvable, LiveSession, TypeOK
  <2>2. [sessions[t] EXCEPT !.lastSeen = Later(@, n)] \in SessionRow
    BY <2>1, NowsAreTimes DEF Later, SessionRow
  <2>3. sessions' \in [Tokens -> SessionRow \cup {NoSession}]
    BY <1>4, <2>2 DEF ResolveSession, TypeOK
  <2>4. QED
    BY <1>4, <2>3 DEF ResolveSession, TypeOK
<1>5. ASSUME NEW t \in Tokens, RevokeSession(t) PROVE TypeOK'
  <2>1. sessions[t] \in SessionRow
    BY <1>5 DEF RevokeSession, LiveSession, TypeOK
  <2>2. sessions' \in [Tokens -> SessionRow \cup {NoSession}]
    BY <1>5, <2>1 DEF RevokeSession, TypeOK, SessionRow
  <2>3. lastEvent' \in [action : Actions, subject : Accounts \cup {Shared}]
    BY <1>5, <2>1 DEF RevokeSession, Audit, Actions, SessionRow
  <2>4. QED
    BY <1>5, <2>2, <2>3 DEF RevokeSession, TypeOK
<1>6. ASSUME NEW u \in Accounts, RevokeAllSessions(u) PROVE TypeOK'
  <2>1. sessions' \in [Tokens -> SessionRow \cup {NoSession}]
    BY <1>6, RevokeSessionsType DEF RevokeAllSessions
  <2>2. lastEvent' \in [action : Actions, subject : Accounts \cup {Shared}]
    BY <1>6 DEF RevokeAllSessions, Audit, Actions
  <2>3. QED
    BY <1>6, <2>1, <2>2 DEF RevokeAllSessions, TypeOK
<1>7. ASSUME NEW u \in Accounts, NEW valid \in BOOLEAN, NEW n \in Nows,
             ChangePassword(u, valid, n)
      PROVE  TypeOK'
  <2>1. CASE CheckRefused(u, n, valid, "REAUTHENTICATION_FAILED")
    BY <2>1, RefusedType DEF Actions
  <2>2. CASE /\ CheckPassed(u, n, valid)
             /\ failures' = SweptRows({u}, Recent(n))
             /\ users' = [users EXCEPT ![u] = WithPassword(@, FALSE)]
             /\ RevokeSessionsOf(u)
             /\ Audit("PASSWORD_CHANGED", u)
    <3>1. users[u] \in UserRow
      BY <2>2 DEF CheckPassed, Known, TypeOK
    <3>2. users' \in [Accounts -> UserRow \cup {NoUser}]
      <4>1. WithPassword(users[u], FALSE) \in UserRow
        BY <3>1, WithPasswordType
      <4>2. QED
        BY <2>2, <4>1 DEF TypeOK
    <3>3. "PASSWORD_CHANGED" \in Actions
      BY DEF Actions
    <3>4. QED
      BY <2>2, <3>2, <3>3, RevokeSessionsType, PassedType
  <2>3. QED
    BY <1>7, <2>1, <2>2 DEF ChangePassword
<1>8. ASSUME NEW actor \in Accounts, NEW u \in Accounts, NEW valid \in BOOLEAN,
             NEW n \in Nows,
             \/ SuspendUser(actor, u, valid, n) \/ ActivateUser(actor, u, valid, n)
             \/ ResetPassword(actor, u, valid, n) \/ RevokeUserSessions(actor, u, valid, n)
      PROVE  TypeOK'
  <2>1. CASE CheckRefused(actor, n, valid, "REAUTHENTICATION_FAILED")
    BY <2>1, RefusedType DEF Actions
  <2>2. CASE ~CheckRefused(actor, n, valid, "REAUTHENTICATION_FAILED")
    <3>1. CheckPassed(actor, n, valid) /\ Known(u)
      BY <1>8, <2>2 DEF SuspendUser, ActivateUser, ResetPassword, RevokeUserSessions
    <3>2. users[u] \in UserRow
      BY <3>1 DEF Known, TypeOK
    <3>3. CASE SuspendUser(actor, u, valid, n)
      <4>1. users' \in [Accounts -> UserRow \cup {NoUser}]
        <5>1. [users[u] EXCEPT !.active = FALSE] \in UserRow
          BY <3>2 DEF UserRow
        <5>2. QED
          BY <2>2, <3>3, <5>1 DEF SuspendUser, TypeOK
      <4>2. /\ failures' = SweptRows({actor}, Recent(n)) /\ RevokeSessionsOf(u)
            /\ Audit("USER_SUSPENDED", u) /\ "USER_SUSPENDED" \in Actions
        BY <2>2, <3>3 DEF SuspendUser, Actions
      <4>3. sessions' \in [Tokens -> SessionRow \cup {NoSession}]
        BY <4>2, RevokeSessionsType
      <4>4. QED
        BY <3>1, <4>1, <4>2, <4>3, PassedType
    <3>4. CASE ActivateUser(actor, u, valid, n)
      <4>1. users' \in [Accounts -> UserRow \cup {NoUser}]
        <5>1. [users[u] EXCEPT !.active = TRUE] \in UserRow
          BY <3>2 DEF UserRow
        <5>2. QED
          BY <2>2, <3>4, <5>1 DEF ActivateUser, TypeOK
      <4>2. /\ failures' = SweptRows({actor}, Recent(n)) /\ sessions' = sessions
            /\ Audit("USER_ACTIVATED", u) /\ "USER_ACTIVATED" \in Actions
        BY <2>2, <3>4 DEF ActivateUser, Actions
      <4>3. sessions' \in [Tokens -> SessionRow \cup {NoSession}]
        BY <4>2 DEF TypeOK
      <4>4. QED
        BY <3>1, <4>1, <4>2, <4>3, PassedType
    <3>5. CASE ResetPassword(actor, u, valid, n)
      <4>1. users' \in [Accounts -> UserRow \cup {NoUser}]
        <5>1. WithPassword(users[u], TRUE) \in UserRow
          BY <3>2, WithPasswordType
        <5>2. QED
          BY <2>2, <3>5, <5>1 DEF ResetPassword, TypeOK
      <4>2. /\ failures' = SweptRows({actor, u}, Recent(n)) /\ RevokeSessionsOf(u)
            /\ Audit("PASSWORD_RESET", u) /\ "PASSWORD_RESET" \in Actions
        BY <2>2, <3>5 DEF ResetPassword, Actions
      <4>3. sessions' \in [Tokens -> SessionRow \cup {NoSession}]
        BY <4>2, RevokeSessionsType
      <4>4. QED
        BY <3>1, <4>1, <4>2, <4>3, PassedType
    <3>6. CASE RevokeUserSessions(actor, u, valid, n)
      <4>1. /\ failures' = SweptRows({actor}, Recent(n)) /\ RevokeSessionsOf(u)
            /\ Audit("USER_SESSIONS_REVOKED", u) /\ "USER_SESSIONS_REVOKED" \in Actions
            /\ users' = users
        BY <2>2, <3>6 DEF RevokeUserSessions, Actions
      <4>2. users' \in [Accounts -> UserRow \cup {NoUser}]
        BY <4>1 DEF TypeOK
      <4>3. sessions' \in [Tokens -> SessionRow \cup {NoSession}]
        BY <4>1, RevokeSessionsType
      <4>4. QED
        BY <3>1, <4>1, <4>2, <4>3, PassedType
    <3>7. QED
      BY <1>8, <3>3, <3>4, <3>5, <3>6
  <2>3. QED
    BY <2>1, <2>2
<1>9. ASSUME NEW u \in Accounts, RecoverAdministrator(u) PROVE TypeOK'
  <2>1. users[u] \in UserRow
    BY <1>9 DEF RecoverAdministrator, Known, TypeOK
  <2>2. users' \in [Accounts -> UserRow \cup {NoUser}]
    <3>1. [WithPassword(users[u], FALSE) EXCEPT !.active = TRUE] \in UserRow
      <4>1. WithPassword(users[u], FALSE) \in UserRow
        BY <2>1, WithPasswordType
      <4>2. QED
        BY <4>1 DEF UserRow
    <3>2. QED
      BY <1>9, <3>1 DEF RecoverAdministrator, TypeOK
  <2>3. DOMAIN failures' = DOMAIN failures /\ failures' \in [DOMAIN failures -> FailureRow]
    BY <1>9, SweptRowsType DEF RecoverAdministrator
  <2>4. lastEvent' \in [action : Actions, subject : Accounts \cup {Shared}]
    BY <1>9 DEF RecoverAdministrator, Audit, Actions
  <2>5. sessions' \in [Tokens -> SessionRow \cup {NoSession}]
    BY <1>9, RevokeSessionsType DEF RecoverAdministrator
  <2>6. QED
    BY <1>9, <2>2, <2>3, <2>4, <2>5 DEF RecoverAdministrator, TypeOK
<1>10. CASE Tick
  BY <1>10 DEF Tick, TypeOK
<1>11. CASE UNCHANGED vars
  BY <1>11 DEF vars, TypeOK
<1>12. QED
  BY <1>1, <1>2, <1>3, <1>4, <1>5, <1>6, <1>7, <1>8, <1>9, <1>10, <1>11 DEF Next

\* The tables of the store are well-formed in every reachable state.
THEOREM TypeCorrect == Spec => []TypeOK
BY TypeInit, TypeStep, PTL DEF Spec

-----------------------------------------------------------------------------
(* The laboratory never loses its last administrator *)

\* Transactions other than these leave the accounts as they are.
AccountSteps ==
    \/ \E u \in Accounts : BootstrapAdministrator(u) \/ RecoverAdministrator(u)
    \/ \E actor, u \in Accounts, role \in Roles : CreateUser(actor, u, role)
    \/ \E u \in Accounts, valid \in BOOLEAN, n \in Nows :
           ChangePassword(u, valid, n) /\ ~UNCHANGED users
    \/ \E actor, u \in Accounts, valid \in BOOLEAN, n \in Nows :
           /\ \/ SuspendUser(actor, u, valid, n)
              \/ ActivateUser(actor, u, valid, n)
              \/ ResetPassword(actor, u, valid, n)
           /\ ~UNCHANGED users

\* A refused check leaves accounts and sessions alone.
LEMMA RefusedChangesNothing ==
    ASSUME NEW u, NEW n, NEW valid, NEW event, CheckRefused(u, n, valid, event)
    PROVE  UNCHANGED <<users, sessions>>
BY DEF CheckRefused

\* Every step leaves the accounts alone or is one of AccountSteps.
LEMMA AccountStepCases ==
    ASSUME [Next]_vars PROVE UNCHANGED users \/ AccountSteps
<1> SUFFICES ASSUME ~UNCHANGED users PROVE AccountSteps
  OBVIOUS
<1>1. ASSUME NEW u \in Accounts, NEW t \in Tokens, NEW valid \in BOOLEAN, NEW n \in Nows,
             Authenticate(u, t, valid, n)
      PROVE  UNCHANGED users
  BY <1>1, RefusedChangesNothing DEF Authenticate
<1>2. ASSUME NEW actor \in Accounts, NEW u \in Accounts, NEW valid \in BOOLEAN,
             NEW n \in Nows, RevokeUserSessions(actor, u, valid, n)
      PROVE  UNCHANGED users
  BY <1>2, RefusedChangesNothing DEF RevokeUserSessions
<1>3. ASSUME NEW t \in Tokens, NEW allow \in BOOLEAN, NEW n \in Nows,
             ResolveSession(t, allow, n)
      PROVE  UNCHANGED users
  BY <1>3 DEF ResolveSession
<1>4. ASSUME NEW t \in Tokens, RevokeSession(t) PROVE UNCHANGED users
  BY <1>4 DEF RevokeSession
<1>5. ASSUME NEW u \in Accounts, RevokeAllSessions(u) PROVE UNCHANGED users
  BY <1>5 DEF RevokeAllSessions
<1>6. ~Tick /\ ~UNCHANGED vars
  BY DEF Tick, vars
<1>7. QED
  BY <1>1, <1>2, <1>3, <1>4, <1>5, <1>6 DEF Next, AccountSteps

\* An available administrator after the step is all that has to be shown.
LEMMA WitnessAdministrator ==
    ASSUME NEW w \in Accounts, Unrestricted(w)' PROVE AdminAvailable'
BY DEF AdminAvailable, AvailableAdministrators

\* An administrator whose row the step does not touch stays available.
LEMMA UntouchedAdministrator ==
    ASSUME NEW w \in Accounts, Unrestricted(w), users'[w] = users[w]
    PROVE  AdminAvailable'
BY WitnessAdministrator DEF Unrestricted, Known

\* The availability of an administrator is inductive, given the types.
LEMMA AdminStep == TypeOK /\ AdminAvailable /\ [Next]_vars => AdminAvailable'
<1> SUFFICES ASSUME TypeOK, AdminAvailable, [Next]_vars PROVE AdminAvailable'
  OBVIOUS
<1>1. CASE UNCHANGED users
  BY <1>1 DEF AdminAvailable, AvailableAdministrators, Unrestricted, Known
<1>2. ASSUME NEW u \in Accounts, BootstrapAdministrator(u) PROVE AdminAvailable'
  <2>1. /\ users'[u] = [role |-> Administrator, active |-> TRUE,
                       mustChange |-> FALSE, epoch |-> 0]
        /\ users'[u] \in UserRow
    BY <1>2, AuthRoles DEF BootstrapAdministrator, TypeOK, UserRow
  <2>2. QED
    BY <2>1, AuthNulls, WitnessAdministrator DEF Unrestricted, Known
<1>3. ASSUME NEW actor \in Accounts, NEW u \in Accounts, NEW role \in Roles,
             CreateUser(actor, u, role)
      PROVE  AdminAvailable'
  <2>1. actor # u /\ Unrestricted(actor) /\ users'[actor] = users[actor]
    BY <1>3 DEF CreateUser, Unrestricted, TypeOK
  <2>2. QED
    BY <2>1, UntouchedAdministrator
<1>4. ASSUME NEW u \in Accounts, NEW valid \in BOOLEAN, NEW n \in Nows,
             ChangePassword(u, valid, n), ~UNCHANGED users
      PROVE  AdminAvailable'
  <2>1. /\ Known(u) /\ users[u].active
        /\ users' = [users EXCEPT ![u] = WithPassword(@, FALSE)]
    BY <1>4, RefusedChangesNothing DEF ChangePassword, CheckPassed
  <2>2. PICK w \in Accounts : Unrestricted(w)
    BY <2>1 DEF AdminAvailable, AvailableAdministrators
  <2>3. CASE w = u
    <3>1. users[u] \in UserRow /\ users'[u] = WithPassword(users[u], FALSE)
      BY <2>1 DEF Known, TypeOK
    <3>2. /\ users'[u].role = Administrator /\ users'[u].active
          /\ ~users'[u].mustChange /\ users'[u] \in UserRow
      BY <2>1, <2>2, <2>3, <3>1, WithPasswordType DEF Unrestricted
    <3>3. QED
      BY <3>2, AuthNulls, WitnessAdministrator DEF Unrestricted, Known
  <2>4. CASE w # u
    BY <2>1, <2>2, <2>4, UntouchedAdministrator DEF TypeOK
  <2>5. QED
    BY <2>3, <2>4
<1>5. ASSUME NEW actor \in Accounts, NEW u \in Accounts, NEW valid \in BOOLEAN,
             NEW n \in Nows,
             SuspendUser(actor, u, valid, n) \/ ResetPassword(actor, u, valid, n),
             ~UNCHANGED users
      PROVE  AdminAvailable'
  <2>1. Unrestricted(actor) /\ actor # u /\ users'[actor] = users[actor]
    BY <1>5, RefusedChangesNothing DEF SuspendUser, ResetPassword, TypeOK
  <2>2. QED
    BY <2>1, UntouchedAdministrator
<1>6. ASSUME NEW actor \in Accounts, NEW u \in Accounts, NEW valid \in BOOLEAN,
             NEW n \in Nows, ActivateUser(actor, u, valid, n), ~UNCHANGED users
      PROVE  AdminAvailable'
  <2>1. /\ Unrestricted(actor)
        /\ users' = [users EXCEPT ![u] = [@ EXCEPT !.active = TRUE]]
    BY <1>6, RefusedChangesNothing DEF ActivateUser
  <2>2. users[actor] \in UserRow
    BY <2>1 DEF Unrestricted, Known, TypeOK
  <2>3. CASE u = actor
    <3>1. users'[actor] = [users[actor] EXCEPT !.active = TRUE]
      BY <2>1, <2>3 DEF TypeOK
    <3>2. /\ users'[actor].role = Administrator /\ users'[actor].active
          /\ ~users'[actor].mustChange /\ users'[actor] \in UserRow
      BY <2>1, <2>2, <3>1 DEF Unrestricted, UserRow
    <3>3. QED
      BY <3>2, AuthNulls, WitnessAdministrator DEF Unrestricted, Known
  <2>4. CASE u # actor
    BY <2>1, <2>4, UntouchedAdministrator DEF TypeOK
  <2>5. QED
    BY <2>3, <2>4
<1>7. ASSUME NEW u \in Accounts, RecoverAdministrator(u) PROVE AdminAvailable'
  <2>1. users[u] \in UserRow /\ users[u].role = Administrator
    BY <1>7 DEF RecoverAdministrator, Known, TypeOK
  <2>2. /\ WithPassword(users[u], FALSE) \in UserRow
        /\ WithPassword(users[u], FALSE).role = Administrator
        /\ ~WithPassword(users[u], FALSE).mustChange
    BY <2>1, WithPasswordType
  <2>3. users'[u] = [WithPassword(users[u], FALSE) EXCEPT !.active = TRUE]
    BY <1>7 DEF RecoverAdministrator, TypeOK
  <2>4. /\ users'[u].role = Administrator /\ users'[u].active
        /\ ~users'[u].mustChange /\ users'[u] \in UserRow
    BY <2>2, <2>3 DEF UserRow
  <2>5. QED
    BY <2>4, AuthNulls, WitnessAdministrator DEF Unrestricted, Known
<1>8. QED
  BY <1>1, <1>2, <1>3, <1>4, <1>5, <1>6, <1>7, AccountStepCases DEF AccountSteps

\* Administrators cannot lock the laboratory out of its own administration.
THEOREM AdministratorStaysAvailable == Spec => []AdminAvailable
<1>1. Init => AdminAvailable
  BY DEF Init, AdminAvailable, Known
<1>2. QED
  BY <1>1, TypeCorrect, AdminStep, PTL DEF Spec

-----------------------------------------------------------------------------
(* A live session is one of the password in force *)

\* Ending every session of u makes room for any new row of u.
LEMMA RevokedFollowsCredential ==
    ASSUME TypeOK, SessionsFollowCredential, NEW u \in Accounts, RevokeSessionsOf(u),
           \A v \in Accounts : v # u => users'[v] = users[v]
    PROVE  SessionsFollowCredential'
<1> SUFFICES ASSUME NEW t \in Tokens, LiveSession(t)'
             PROVE  /\ users'[sessions'[t].user] # NoUser
                    /\ users'[sessions'[t].user].active
                    /\ sessions'[t].epoch = users'[sessions'[t].user].epoch
  BY DEF SessionsFollowCredential, Known
<1>1. CASE LiveSession(t) /\ sessions[t].user = u
  <2>1. sessions'[t] = [sessions[t] EXCEPT !.revoked = TRUE] /\ sessions[t] \in SessionRow
    BY <1>1 DEF RevokeSessionsOf, LiveSession, TypeOK
  <2>2. sessions'[t].revoked
    BY <2>1 DEF SessionRow
  <2>3. QED
    BY <2>2 DEF LiveSession
<1>2. CASE ~(LiveSession(t) /\ sessions[t].user = u)
  <2>1. sessions'[t] = sessions[t]
    BY <1>2 DEF RevokeSessionsOf
  <2>2. LiveSession(t) /\ sessions[t] \in SessionRow
    BY <2>1 DEF LiveSession, TypeOK
  <2>3. sessions[t].user \in Accounts /\ sessions[t].user # u
    BY <1>2, <2>2 DEF SessionRow
  <2>4. QED
    BY <2>1, <2>2, <2>3 DEF SessionsFollowCredential, Known
<1>3. QED
  BY <1>1, <1>2

\* A step that starts no session, and leaves active accounts active with their
\* password, keeps live sessions current.
LEMMA SameFollowsCredential ==
    ASSUME TypeOK, SessionsFollowCredential, UNCHANGED sessions,
           \A v \in Accounts : Known(v) /\ users[v].active =>
               Known(v)' /\ users'[v].active /\ users'[v].epoch = users[v].epoch
    PROVE  SessionsFollowCredential'
BY DEF SessionsFollowCredential, LiveSession, TypeOK, SessionRow

\* The link between sessions and credentials is inductive, given the types.
LEMMA CredentialStep ==
    TypeOK /\ SessionsFollowCredential /\ [Next]_vars => SessionsFollowCredential'
<1> SUFFICES ASSUME TypeOK, SessionsFollowCredential, [Next]_vars
             PROVE  SessionsFollowCredential'
  OBVIOUS
<1>1. CASE UNCHANGED <<users, sessions>>
  BY <1>1 DEF SessionsFollowCredential, LiveSession, Known
<1>2. ASSUME NEW u \in Accounts, NEW row \in UserRow, UNCHANGED sessions, ~Known(u),
             users' = [users EXCEPT ![u] = row]
      PROVE  SessionsFollowCredential'
  BY <1>2, SameFollowsCredential DEF Known, TypeOK
<1>3. ASSUME NEW u \in Accounts, BootstrapAdministrator(u)
      PROVE  SessionsFollowCredential'
  BY <1>2, <1>3, AuthRoles DEF BootstrapAdministrator, UserRow
<1>4. ASSUME NEW actor \in Accounts, NEW u \in Accounts, NEW role \in Roles,
             CreateUser(actor, u, role)
      PROVE  SessionsFollowCredential'
  BY <1>2, <1>4 DEF CreateUser, UserRow
<1>5. ASSUME NEW u \in Accounts, NEW t \in Tokens, NEW valid \in BOOLEAN, NEW n \in Nows,
             Authenticate(u, t, valid, n)
      PROVE  SessionsFollowCredential'
  <2>1. CASE CheckRefused(u, n, valid, "LOGIN_FAILED")
    BY <1>1, <2>1, RefusedChangesNothing
  <2>2. CASE /\ CheckPassed(u, n, valid)
             /\ sessions' = [sessions EXCEPT ![t] = NewSession(u, n)]
             /\ UNCHANGED users
    <3>1. Known(u) /\ users[u].active
      BY <2>2 DEF CheckPassed
    <3>2. ASSUME NEW s \in Tokens, LiveSession(s)'
          PROVE  /\ users'[sessions'[s].user] # NoUser
                 /\ users'[sessions'[s].user].active
                 /\ sessions'[s].epoch = users'[sessions'[s].user].epoch
      <4>1. CASE s = t
        BY <2>2, <3>1, <4>1 DEF NewSession, Known, TypeOK
      <4>2. CASE s # t
        <5>1. sessions'[s] = sessions[s] /\ LiveSession(s)
          BY <2>2, <3>2, <4>2 DEF LiveSession, TypeOK
        <5>2. QED
          BY <2>2, <5>1 DEF SessionsFollowCredential, Known
      <4>3. QED
        BY <4>1, <4>2
    <3>3. QED
      BY <3>2 DEF SessionsFollowCredential, Known
  <2>3. QED
    BY <1>5, <2>1, <2>2 DEF Authenticate
<1>6. ASSUME NEW t \in Tokens, sessions[t] \in SessionRow, UNCHANGED users,
             \/ \E at \in Nat : sessions' = [sessions EXCEPT ![t] = [@ EXCEPT !.lastSeen = at]]
             \/ sessions' = [sessions EXCEPT ![t] = [@ EXCEPT !.revoked = TRUE]]
      PROVE  SessionsFollowCredential'
  <2>1. ASSUME NEW s \in Tokens, LiveSession(s)'
        PROVE  /\ LiveSession(s) /\ sessions'[s].user = sessions[s].user
               /\ sessions'[s].epoch = sessions[s].epoch
    <3>1. CASE s # t
      BY <1>6, <2>1, <3>1 DEF LiveSession, TypeOK
    <3>2. CASE s = t
      <4>1. PICK at \in Nat : sessions'[t] = [sessions[t] EXCEPT !.lastSeen = at]
                              \/ sessions'[t] = [sessions[t] EXCEPT !.revoked = TRUE]
        BY <1>6 DEF TypeOK
      <4>2. ~sessions'[t].revoked /\ sessions[t] # NoSession
        BY <1>6, <2>1, <3>2, AuthNulls DEF LiveSession
      <4>3. QED
        BY <1>6, <3>2, <4>1, <4>2 DEF LiveSession, SessionRow
    <3>3. QED
      BY <3>1, <3>2
  <2>2. QED
    BY <1>6, <2>1 DEF SessionsFollowCredential, Known
<1>7. ASSUME NEW t \in Tokens, NEW allow \in BOOLEAN, NEW n \in Nows,
             ResolveSession(t, allow, n)
      PROVE  SessionsFollowCredential'
  <2>1. sessions[t] \in SessionRow
    BY <1>7 DEF ResolveSession, Resolvable, LiveSession, TypeOK
  <2>2. Later(sessions[t].lastSeen, n) \in Nat
    BY <2>1, NowsAreTimes DEF Later, SessionRow
  <2>3. sessions' = [sessions EXCEPT ![t] =
                        [@ EXCEPT !.lastSeen = Later(sessions[t].lastSeen, n)]]
    BY <1>7 DEF ResolveSession
  <2>4. QED
    BY <1>6, <1>7, <2>1, <2>2, <2>3 DEF ResolveSession
<1>8. ASSUME NEW t \in Tokens, RevokeSession(t) PROVE SessionsFollowCredential'
  <2>1. sessions[t] \in SessionRow
    BY <1>8 DEF RevokeSession, LiveSession, TypeOK
  <2>2. sessions' = [sessions EXCEPT ![t] = [@ EXCEPT !.revoked = TRUE]]
    BY <1>8 DEF RevokeSession
  <2>3. QED
    BY <1>6, <1>8, <2>1, <2>2 DEF RevokeSession
<1>9. ASSUME NEW u \in Accounts, RevokeAllSessions(u) PROVE SessionsFollowCredential'
  BY <1>9, RevokedFollowsCredential DEF RevokeAllSessions
<1>10. ASSUME NEW u \in Accounts, NEW valid \in BOOLEAN, NEW n \in Nows,
              ChangePassword(u, valid, n)
       PROVE  SessionsFollowCredential'
  <2>1. CASE CheckRefused(u, n, valid, "REAUTHENTICATION_FAILED")
    BY <1>1, <2>1, RefusedChangesNothing
  <2>2. CASE RevokeSessionsOf(u) /\ users' = [users EXCEPT ![u] = WithPassword(@, FALSE)]
    BY <2>2, RevokedFollowsCredential DEF TypeOK
  <2>3. QED
    BY <1>10, <2>1, <2>2 DEF ChangePassword
<1>11. ASSUME NEW actor \in Accounts, NEW u \in Accounts, NEW valid \in BOOLEAN,
              NEW n \in Nows,
              \/ SuspendUser(actor, u, valid, n)
              \/ ResetPassword(actor, u, valid, n)
              \/ RevokeUserSessions(actor, u, valid, n)
       PROVE  SessionsFollowCredential'
  <2>1. CASE CheckRefused(actor, n, valid, "REAUTHENTICATION_FAILED")
    BY <1>1, <2>1, RefusedChangesNothing
  <2>2. CASE ~CheckRefused(actor, n, valid, "REAUTHENTICATION_FAILED")
    <3>1. /\ RevokeSessionsOf(u)
          /\ \A v \in Accounts : v # u => users'[v] = users[v]
      BY <1>11, <2>2 DEF SuspendUser, ResetPassword, RevokeUserSessions, TypeOK
    <3>2. QED
      BY <3>1, RevokedFollowsCredential
  <2>3. QED
    BY <2>1, <2>2
<1>12. ASSUME NEW actor \in Accounts, NEW u \in Accounts, NEW valid \in BOOLEAN,
              NEW n \in Nows, ActivateUser(actor, u, valid, n)
       PROVE  SessionsFollowCredential'
  <2>1. CASE CheckRefused(actor, n, valid, "REAUTHENTICATION_FAILED")
    BY <1>1, <2>1, RefusedChangesNothing
  <2>2. CASE /\ Known(u) /\ UNCHANGED sessions
             /\ users' = [users EXCEPT ![u] = [@ EXCEPT !.active = TRUE]]
    <3>1. users[u] \in UserRow
      BY <2>2 DEF Known, TypeOK
    <3>2. /\ users'[u] \in UserRow /\ users'[u].active
          /\ users'[u].epoch = users[u].epoch
      BY <2>2, <3>1 DEF TypeOK, UserRow
    <3>3. QED
      BY <2>2, <3>2, AuthNulls, SameFollowsCredential DEF Known, TypeOK
  <2>3. QED
    BY <1>12, <2>1, <2>2 DEF ActivateUser
<1>13. ASSUME NEW u \in Accounts, RecoverAdministrator(u) PROVE SessionsFollowCredential'
  BY <1>13, RevokedFollowsCredential DEF RecoverAdministrator, TypeOK
<1>14. CASE Tick \/ UNCHANGED vars
  BY <1>1, <1>14 DEF Tick, vars
<1>15. QED
  BY <1>3, <1>4, <1>5, <1>7, <1>8, <1>9, <1>10, <1>11, <1>12, <1>13, <1>14 DEF Next

\* No session outlives the password that opened it or the suspension of its account.
THEOREM SessionsStayCurrent == Spec => []SessionsFollowCredential
<1>1. Init => SessionsFollowCredential
  BY DEF Init, SessionsFollowCredential, LiveSession
<1>2. QED
  BY <1>1, TypeCorrect, CredentialStep, PTL DEF Spec

-----------------------------------------------------------------------------
(* The laboratory-wide guess budget *)

\* The strengthening of GuessBudget.  The table is never longer than the
\* limit, its stamps lag the commits by MaxLag at most, and no rejection that is
\* recent by the commit clock has been pruned from it by a lagging caller.
BudgetInv ==
    /\ IsFiniteSet(DOMAIN failures) /\ Cardinality(DOMAIN failures) <= GlobalLimit
    /\ \A i \in DOMAIN failures : failures[i].at + MaxLag >= rejections[i]
    /\ \A i \in DOMAIN rejections :
           rejections[i] + Window > clock + MaxLag => i \in DOMAIN failures

\* Besides ticking, a step leaves the failure table alone, prunes it, or prunes
\* it and adds one row below the limit.
TableKept ==
    /\ DOMAIN failures' = DOMAIN failures
    /\ \A i \in DOMAIN failures : /\ failures'[i].at = failures[i].at
                                 /\ failures'[i].key \in {failures[i].key, Shared}
    /\ rejections' = rejections /\ clock' \in {clock, clock + 1}

TablePruned(n) ==
    /\ DOMAIN failures' = Recent(n)
    /\ \A i \in Recent(n) : /\ failures'[i].at = failures[i].at
                            /\ failures'[i].key \in {failures[i].key, Shared}
    /\ UNCHANGED <<rejections, clock>>

TableExtended(u, n) == ~Throttled(u, n) /\ RecordFailure(u, n) /\ UNCHANGED clock

\* A refused check prunes the table or extends it.
LEMMA RefusedTable ==
    ASSUME TypeOK, NEW u \in Accounts, NEW n \in Nows, NEW valid, NEW event,
           CheckRefused(u, n, valid, event)
    PROVE  TablePruned(n) \/ TableExtended(u, n)
<1>1. Recent(n) \in SUBSET DOMAIN failures
  BY DEF Recent
<1>2. CASE failures' = SweptRows({}, Recent(n)) /\ UNCHANGED <<rejections, clock>>
  BY <1>1, <1>2, SweptRowsType DEF TablePruned
<1>3. CASE ~Throttled(u, n) /\ RecordFailure(u, n) /\ UNCHANGED clock
  BY <1>3 DEF TableExtended
<1>4. QED
  BY <1>2, <1>3 DEF CheckRefused

\* A passed check whose transaction sweeps the recent rows prunes the table.
LEMMA PassedTable ==
    ASSUME TypeOK, NEW u, NEW n, NEW valid, CheckPassed(u, n, valid),
           NEW names, failures' = SweptRows(names, Recent(n))
    PROVE  TablePruned(n)
<1>1. Recent(n) \in SUBSET DOMAIN failures
  BY DEF Recent
<1>2. QED
  BY <1>1, SweptRowsType DEF CheckPassed, TablePruned

\* Every step is one of those three kinds.
LEMMA TableSteps ==
    ASSUME TypeOK, [Next]_vars
    PROVE  TableKept \/ \E n \in Nows : TablePruned(n)
                                        \/ \E u \in Accounts : TableExtended(u, n)
<1> DEFINE Goal == TableKept \/ \E n \in Nows : TablePruned(n)
                                        \/ \E u \in Accounts : TableExtended(u, n)
<1>1. ASSUME UNCHANGED <<failures, rejections>>, clock' \in {clock, clock + 1} PROVE Goal
  BY <1>1 DEF TableKept
<1>2. ASSUME NEW u \in Accounts, BootstrapAdministrator(u) PROVE Goal
  BY <1>1, <1>2 DEF BootstrapAdministrator
<1>3. ASSUME NEW actor \in Accounts, NEW u \in Accounts, NEW role \in Roles,
             CreateUser(actor, u, role)
      PROVE  Goal
  BY <1>1, <1>3 DEF CreateUser
<1>4. ASSUME NEW u \in Accounts, NEW t \in Tokens, NEW valid \in BOOLEAN, NEW n \in Nows,
             Authenticate(u, t, valid, n)
      PROVE  Goal
  BY <1>4, RefusedTable, PassedTable DEF Authenticate
<1>5. ASSUME NEW t \in Tokens, NEW allow \in BOOLEAN, NEW n \in Nows,
             ResolveSession(t, allow, n)
      PROVE  Goal
  BY <1>1, <1>5 DEF ResolveSession
<1>6. ASSUME NEW t \in Tokens, RevokeSession(t) PROVE Goal
  BY <1>1, <1>6 DEF RevokeSession
<1>7. ASSUME NEW u \in Accounts, RevokeAllSessions(u) PROVE Goal
  BY <1>1, <1>7 DEF RevokeAllSessions
<1>8. ASSUME NEW u \in Accounts, NEW valid \in BOOLEAN, NEW n \in Nows,
             ChangePassword(u, valid, n)
      PROVE  Goal
  BY <1>8, RefusedTable, PassedTable DEF ChangePassword
<1>9. ASSUME NEW actor \in Accounts, NEW u \in Accounts, NEW valid \in BOOLEAN,
             NEW n \in Nows,
             \/ SuspendUser(actor, u, valid, n) \/ ActivateUser(actor, u, valid, n)
             \/ ResetPassword(actor, u, valid, n) \/ RevokeUserSessions(actor, u, valid, n)
      PROVE  Goal
  <2>1. CASE CheckRefused(actor, n, valid, "REAUTHENTICATION_FAILED")
    BY <2>1, RefusedTable
  <2>2. CASE ~CheckRefused(actor, n, valid, "REAUTHENTICATION_FAILED")
    <3>1. PICK names : CheckPassed(actor, n, valid) /\ failures' = SweptRows(names, Recent(n))
      BY <1>9, <2>2 DEF SuspendUser, ActivateUser, ResetPassword, RevokeUserSessions
    <3>2. QED
      BY <3>1, PassedTable
  <2>3. QED
    BY <2>1, <2>2
<1>10. ASSUME NEW u \in Accounts, RecoverAdministrator(u) PROVE Goal
  <2>1. failures' = SweptRows({u}, DOMAIN failures) /\ UNCHANGED <<rejections, clock>>
    BY <1>10 DEF RecoverAdministrator
  <2>2. QED
    BY <2>1, SweptRowsType DEF TableKept
<1>11. CASE Tick
  BY <1>1, <1>11 DEF Tick
<1>12. CASE UNCHANGED vars
  BY <1>1, <1>12 DEF vars
<1>13. QED
  BY <1>2, <1>3, <1>4, <1>5, <1>6, <1>7, <1>8, <1>9, <1>10, <1>11, <1>12 DEF Next

\* The strengthened invariant is inductive, given the types.
LEMMA BudgetStep == TypeOK /\ BudgetInv /\ [Next]_vars => BudgetInv'
<1> SUFFICES ASSUME TypeOK, BudgetInv, [Next]_vars PROVE BudgetInv'
  OBVIOUS
<1>1. /\ clock \in Nat /\ MaxLag \in Nat /\ Window \in Nat /\ GlobalLimit \in Nat
      /\ rejections \in Seq(Nat) /\ DOMAIN failures \subseteq DOMAIN rejections
      /\ \A i \in DOMAIN rejections : rejections[i] \in Nat
      /\ \A i \in DOMAIN failures : failures[i].at \in Nat
  BY AuthLimits, AuthBounds DEF TypeOK, FailureRow
<1>2. CASE TableKept
  BY <1>1, <1>2 DEF TableKept, BudgetInv
<1>3. ASSUME NEW n \in Nows
      PROVE  /\ Recent(n) \subseteq DOMAIN failures /\ IsFiniteSet(Recent(n))
             /\ Cardinality(Recent(n)) \in Nat /\ Cardinality(Recent(n)) <= GlobalLimit
             /\ \A i \in DOMAIN rejections :
                    rejections[i] + Window > clock + MaxLag => i \in Recent(n)
  <2>1. Recent(n) \subseteq DOMAIN failures
    BY DEF Recent
  <2>2. /\ IsFiniteSet(Recent(n)) /\ Cardinality(Recent(n)) <= Cardinality(DOMAIN failures)
        /\ Cardinality(Recent(n)) \in Nat /\ Cardinality(DOMAIN failures) \in Nat
    BY <2>1, FS_Subset, FS_CardinalityType DEF BudgetInv
  <2>3. ASSUME NEW i \in DOMAIN rejections, rejections[i] + Window > clock + MaxLag
        PROVE  i \in Recent(n)
    <3>1. i \in DOMAIN failures /\ failures[i].at + MaxLag >= rejections[i]
      BY <2>3 DEF BudgetInv
    <3>2. n \in Nat /\ n <= clock
      BY NowsAreTimes
    <3>3. failures[i].at > n - Window
      <4>1. failures[i].at \in Nat /\ rejections[i] \in Nat
        BY <1>1, <2>3, <3>1
      <4>2. clock \in Int /\ MaxLag \in Int /\ Window \in Int /\ n \in Int /\ n <= clock
        BY <1>1, <3>2
      <4>3. \A at, past \in Int : at + MaxLag >= past /\ past + Window > clock + MaxLag
                                  => at > n - Window
        BY <4>2
      <4> QED
        BY <2>3, <3>1, <4>1, <4>3
    <3>4. QED
      BY <3>1, <3>3 DEF Recent
  <2>4. QED
    BY <1>1, <2>1, <2>2, <2>3 DEF BudgetInv
<1>4. ASSUME NEW n \in Nows, TablePruned(n) PROVE BudgetInv'
  BY <1>1, <1>3, <1>4 DEF TablePruned, BudgetInv
<1>5. ASSUME NEW n \in Nows, NEW u \in Accounts, TableExtended(u, n) PROVE BudgetInv'
  <2> DEFINE row == Len(rejections) + 1
  <2>1. row \notin Recent(n) /\ row \in Nat
    BY <1>1, <1>3
  <2>2. /\ DOMAIN failures' = Recent(n) \cup {row}
        /\ failures'[row].at = n
        /\ \A i \in Recent(n) : failures'[i] = failures[i]
    BY <1>5, <2>1 DEF TableExtended, RecordFailure
  <2>3. /\ IsFiniteSet(DOMAIN failures')
        /\ Cardinality(DOMAIN failures') = Cardinality(Recent(n)) + 1
    BY <1>3, <2>1, <2>2, FS_AddElement
  <2>4. Cardinality(Recent(n)) < GlobalLimit
    BY <1>1, <1>3, <1>5 DEF TableExtended, Throttled, LaboratoryFull
  <2>5. /\ rejections' = Append(rejections, clock) /\ clock' = clock
        /\ DOMAIN rejections' = DOMAIN rejections \cup {row}
        /\ rejections'[row] = clock
        /\ \A i \in DOMAIN rejections : rejections'[i] = rejections[i]
    BY <1>1, <1>5 DEF TableExtended, RecordFailure
  <2>6. n + MaxLag >= clock
    BY NowsAreTimes
  <2>7. \A i \in DOMAIN failures' : failures'[i].at + MaxLag >= rejections'[i]
    BY <1>1, <1>3, <2>2, <2>5, <2>6 DEF BudgetInv
  <2>8. \A i \in DOMAIN rejections' :
            rejections'[i] + Window > clock' + MaxLag => i \in DOMAIN failures'
    BY <1>3, <2>2, <2>5
  <2>9. Cardinality(DOMAIN failures') <= GlobalLimit
    BY <1>1, <1>3, <2>3, <2>4
  <2>10. QED
    BY <2>3, <2>7, <2>8, <2>9 DEF BudgetInv
<1>6. QED
  BY <1>2, <1>4, <1>5, TableSteps

\* Recent rejections are rows of the table, so there are no more of them.
LEMMA BudgetFollows == TypeOK /\ BudgetInv => GuessBudget
<1> SUFFICES ASSUME TypeOK, BudgetInv PROVE GuessBudget
  OBVIOUS
<1> DEFINE recent == {i \in DOMAIN rejections : rejections[i] + Window > clock + MaxLag}
<1>1. recent \in SUBSET DOMAIN failures
  BY DEF BudgetInv
<1>2. /\ Cardinality(recent) <= Cardinality(DOMAIN failures)
      /\ Cardinality(recent) \in Nat /\ Cardinality(DOMAIN failures) \in Nat
  BY <1>1, FS_Subset, FS_CardinalityType DEF BudgetInv
<1>3. QED
  BY <1>2, AuthLimits DEF BudgetInv, GuessBudget

\* No stretch of Window - MaxLag sees more than GlobalLimit wrong guesses, for any
\* number of accounts, callers and successful logins in between.
THEOREM GuessesStayWithinBudget == Spec => []GuessBudget
<1>1. Init => BudgetInv
  BY FS_EmptySet, AuthLimits DEF Init, BudgetInv
<1>2. QED
  BY <1>1, TypeCorrect, BudgetStep, BudgetFollows, PTL DEF Spec

-----------------------------------------------------------------------------
(* Retry-After *)

RowsOf(u) == {i \in DOMAIN failures : failures[i].key = u}

\* No account has more rows than its limit, even those a lagging caller still
\* counts: a row is added below the limit only, and by a caller who pruned.
HintInv == \A u \in Accounts : Cardinality(RowsOf(u)) <= AccountLimit

\* A set of counted failures is finite, and a proper part of it is smaller.
LEMMA CountedRows ==
    ASSUME BudgetInv, NEW rows \in SUBSET DOMAIN failures
    PROVE  /\ IsFiniteSet(rows) /\ Cardinality(rows) \in Nat
           /\ \A part \in SUBSET rows :
                /\ Cardinality(part) \in Nat
                /\ Cardinality(part) <= Cardinality(rows)
                /\ part # rows => Cardinality(part) < Cardinality(rows)
<1>1. IsFiniteSet(rows) /\ Cardinality(rows) \in Nat
  BY FS_Subset, FS_CardinalityType DEF BudgetInv
<1>2. ASSUME NEW part \in SUBSET rows
      PROVE  /\ Cardinality(part) \in Nat /\ Cardinality(part) <= Cardinality(rows)
             /\ part # rows => Cardinality(part) < Cardinality(rows)
  <2>1. IsFiniteSet(part) /\ Cardinality(part) \in Nat
    BY <1>1, FS_Subset, FS_CardinalityType
  <2>2. Cardinality(part) <= Cardinality(rows) /\ (Cardinality(rows) = Cardinality(part) => rows = part)
    BY <1>1, FS_Subset
  <2> QED
    BY <1>1, <2>1, <2>2
<1> QED
  BY <1>1, <1>2

\* Every step keeps the hint's invariant: only a rejected check adds a failure, and one.
LEMMA HintStep == TypeOK /\ BudgetInv /\ HintInv /\ [Next]_vars => HintInv'
<1> SUFFICES ASSUME TypeOK, BudgetInv, HintInv, [Next]_vars, NEW u \in Accounts
             PROVE  Cardinality(RowsOf(u)') <= AccountLimit
  BY DEF HintInv
<1>1. /\ RowsOf(u) \in SUBSET DOMAIN failures /\ Cardinality(RowsOf(u)) <= AccountLimit
      /\ AccountLimit \in Nat
  BY AuthLimits DEF RowsOf, HintInv
<1>2. Cardinality(RowsOf(u)) \in Nat
  BY <1>1, CountedRows
<1>3. ASSUME RowsOf(u)' \subseteq RowsOf(u) PROVE Cardinality(RowsOf(u)') <= AccountLimit
  BY <1>1, <1>2, <1>3, CountedRows
<1>4. CASE TableKept
  <2>1. RowsOf(u)' \subseteq RowsOf(u)
    BY <1>4, AuthShared DEF TableKept, RowsOf
  <2> QED
    BY <2>1, <1>3
<1>5. ASSUME NEW n \in Nows, TablePruned(n) PROVE RowsOf(u)' \subseteq RowsOf(u)
  BY <1>5, AuthShared DEF TablePruned, RowsOf, Recent
<1>6. ASSUME NEW n \in Nows, NEW v \in Accounts, TableExtended(v, n)
      PROVE  Cardinality(RowsOf(u)') <= AccountLimit
  <2> DEFINE row == Len(rejections) + 1
             mine == AgainstAccount(u, n)
  <2>1. /\ DOMAIN failures' = Recent(n) \cup {row} /\ failures'[row].key = v
        /\ \A i \in Recent(n) : i # row => failures'[i] = failures[i]
    BY <1>6 DEF TableExtended, RecordFailure
  <2>2. mine \in SUBSET RowsOf(u)
    BY DEF AgainstAccount, Recent, RowsOf
  <2>3. CASE v # u
    <3>1. RowsOf(u)' \subseteq RowsOf(u)
      BY <2>1, <2>3 DEF RowsOf, Recent
    <3> QED
      BY <3>1, <1>3
  <2>4. CASE v = u
    <3>1. RowsOf(u)' \subseteq mine \cup {row}
      BY <2>1 DEF RowsOf, AgainstAccount
    <3>2. Cardinality(mine) \in Nat /\ Cardinality(mine) < AccountLimit /\ IsFiniteSet(mine)
      BY <1>1, <1>6, <2>2, <2>4, CountedRows DEF TableExtended, Throttled, AccountFull, RowsOf
    <3>3. /\ IsFiniteSet(mine \cup {row})
          /\ Cardinality(mine \cup {row}) \in Nat
          /\ Cardinality(mine \cup {row}) <= Cardinality(mine) + 1
      BY <3>2, FS_AddElement, FS_CardinalityType
    <3> HIDE DEF mine, row
    <3>4. /\ Cardinality(RowsOf(u)') <= Cardinality(mine \cup {row})
          /\ Cardinality(RowsOf(u)') \in Nat
      BY <3>1, <3>3, FS_Subset, FS_CardinalityType
    <3> QED
      BY <1>1, <3>2, <3>3, <3>4
  <2> QED
    BY <2>3, <2>4
<1> QED
  BY <1>3, <1>4, <1>5, <1>6, TableSteps

\* Of any times, one is the earliest.
LEMMA SmallestTime ==
  ASSUME NEW T \in SUBSET Nat, T # {}
  PROVE  \E n \in T : \A m \in T : n <= m
<1> DEFINE I == {1 .. n : n \in T}
           R == StrictSubsetOrdering(Nat)
<1>1. \A n \in T : 1 .. n \in FiniteSubsetsOf(Nat)
  BY FS_Interval DEF FiniteSubsetsOf
<1>2. I \subseteq FiniteSubsetsOf(Nat) /\ I # {}
  BY <1>1
<1>3. IsWellFoundedOn(R, FiniteSubsetsOf(Nat))
  BY FS_StrictSubsetOrderingWellFounded
<1> HIDE DEF R
<1>4. \E x \in I : \A y \in I : ~ (<<y, x>> \in R)
  <2> HIDE DEF I
  <2> QED
    BY <1>2, <1>3, WFMin
<1>5. PICK n \in T : \A y \in I : ~ (<<y, 1 .. n>> \in R)
  BY <1>4
<1>6. ASSUME NEW m \in T, m < n PROVE FALSE
  <2>1. 1 .. m \subseteq 1 .. n /\ 1 .. m # 1 .. n
    <3>1. n \in 1 .. n /\ n \notin 1 .. m
      BY <1>6
    <3> QED
      BY <1>6, <3>1
  <2>2. <<1 .. m, 1 .. n>> \in R
    BY <2>1 DEF R, StrictSubsetOrdering
  <2> QED
    BY <2>2, <1>5
<1> QED
  BY <1>5, <1>6

\* Oldest is what its name says of rows that are there.
LEMMA OldestRow ==
    ASSUME TypeOK, BudgetInv, NEW rows \in SUBSET DOMAIN failures, rows # {}
    PROVE  /\ Oldest(rows) \in Nat
           /\ \E i \in rows : failures[i].at = Oldest(rows)
           /\ \A i \in rows : Oldest(rows) <= failures[i].at
<1> DEFINE Stamps == {failures[i].at : i \in rows}
<1>1. \A i \in rows : failures[i].at \in Nat
  BY DEF TypeOK, FailureRow
<1>2. Stamps \subseteq Nat /\ Stamps # {}
  BY <1>1
<1>3. \E least \in Stamps : \A at \in Stamps : least <= at
  <2> HIDE DEF Stamps
  <2> QED
    BY <1>2, SmallestTime
<1>4. \E at \in Stamps : \A i \in rows : at <= failures[i].at
  BY <1>3
<1> QED
  BY <1>1, <1>4 DEF Oldest

\* A limit that is reached when asked at n is reached until its oldest row
\* falls out of the window, and not from then on: what both halves of Throttled
\* have in common.  counted are the rows that count at n, Later rows at m.
At(rows, m) == {i \in rows : failures[i].at > m - Window}

\* A limit that holds when a caller looks ends exactly when its oldest failure in the
\* window falls out of it, as no more than the limit are counted.
LEMMA LimitClears ==
    ASSUME TypeOK, BudgetInv, NEW rows \in SUBSET DOMAIN failures, NEW limit \in Nat \ {0},
           Cardinality(rows) <= limit, NEW n \in Nat
    PROVE  /\ Cardinality(At(rows, n)) >= limit =>
                /\ Oldest(At(rows, n)) \in Nat
                /\ Oldest(At(rows, n)) + Window > n
                /\ \A m \in Nat : m >= n =>
                     (Cardinality(At(rows, m)) >= limit <=> m < Oldest(At(rows, n)) + Window)
           /\ Cardinality(At(rows, n)) < limit =>
                \A m \in Nat : m >= n => Cardinality(At(rows, m)) < limit
<1>0. Window \in Nat \ {0} /\ \A i \in rows : failures[i].at \in Nat
  BY AuthLimits DEF TypeOK, FailureRow
<1>1. \A m \in Nat : /\ At(rows, m) \in SUBSET rows /\ Cardinality(At(rows, m)) \in Nat
                     /\ At(rows, m) \in SUBSET DOMAIN failures
  BY CountedRows DEF At
<1>2. Cardinality(rows) \in Nat
  BY CountedRows
<1>3. ASSUME NEW m \in Nat, m >= n
      PROVE  /\ At(rows, m) \in SUBSET At(rows, n)
             /\ Cardinality(At(rows, m)) <= Cardinality(At(rows, n))
  <2>1. At(rows, m) \in SUBSET At(rows, n)
    BY <1>0, <1>3 DEF At
  <2> QED
    BY <2>1, <1>1, CountedRows
<1>4. ASSUME Cardinality(At(rows, n)) < limit, NEW m \in Nat, m >= n
      PROVE  Cardinality(At(rows, m)) < limit
  BY <1>1, <1>3, <1>4
<1>5. ASSUME Cardinality(At(rows, n)) >= limit
      PROVE  /\ Oldest(At(rows, n)) \in Nat
             /\ Oldest(At(rows, n)) + Window > n
             /\ \A m \in Nat : m >= n =>
                  (Cardinality(At(rows, m)) >= limit <=> m < Oldest(At(rows, n)) + Window)
  <2> DEFINE all == At(rows, n)
             oldest == Oldest(all)
  <2>1. all # {}
    BY <1>5, FS_EmptySet
  <2>2. /\ oldest \in Nat /\ \E i \in all : failures[i].at = oldest
        /\ \A i \in all : oldest <= failures[i].at
    BY <1>1, <2>1, OldestRow
  <2>3. oldest > n - Window
    BY <2>2 DEF At
  <2>4. ASSUME NEW m \in Nat, m >= n, m < oldest + Window PROVE Cardinality(At(rows, m)) >= limit
    <3>1. At(rows, m) = all
      BY <1>0, <1>3, <2>2, <2>4 DEF At
    <3> QED
      BY <1>5, <3>1
  <2>5. ASSUME NEW m \in Nat, m >= n, m >= oldest + Window PROVE ~(Cardinality(At(rows, m)) >= limit)
    <3>1. PICK i \in all : failures[i].at = oldest
      BY <2>2
    <3>2. i \in rows /\ i \notin At(rows, m)
      BY <1>0, <2>2, <2>5, <3>1 DEF At
    <3>3. At(rows, m) # rows
      BY <3>2
    <3>4. Cardinality(At(rows, m)) < Cardinality(rows)
      BY <1>1, <3>3, CountedRows
    <3> QED
      BY <1>1, <1>2, <3>4
  <2> HIDE DEF oldest
  <2>6. oldest + Window > n
    BY <1>0, <2>2, <2>3
  <2>7. \A m \in Nat : m >= n => (Cardinality(At(rows, m)) >= limit <=> m < oldest + Window)
    BY <1>0, <2>2, <2>4, <2>5
  <2> QED
    BY <2>2, <2>6, <2>7 DEF oldest
<1> QED
  BY <1>4, <1>5

\* So the hint is the first moment, by the caller's clock, at which neither limit holds.
LEMMA HintFollows == TypeOK /\ BudgetInv /\ HintInv => RetryHintHonest
<1> SUFFICES ASSUME TypeOK, BudgetInv, HintInv, NEW u \in Accounts, NEW n \in Nows,
                    Throttled(u, n)
             PROVE  /\ ~Throttled(u, n + RetryAfter(u, n))
                    /\ \A m \in n .. (n + RetryAfter(u, n) - 1) : Throttled(u, m)
  BY DEF RetryHintHonest
<1> DEFINE all == DOMAIN failures
           mine == RowsOf(u)
           R == RetryAfter(u, n)
<1>1. n \in Nat /\ Window \in Nat \ {0}
  BY NowsAreTimes, AuthLimits
<1>2. \A m \in Nat : Recent(m) = At(all, m) /\ AgainstAccount(u, m) = At(mine, m)
  BY DEF Recent, AgainstAccount, At, RowsOf
<1>3. /\ mine \in SUBSET all /\ Cardinality(mine) <= AccountLimit
      /\ all \in SUBSET all /\ Cardinality(all) <= GlobalLimit
      /\ AccountLimit \in Nat \ {0} /\ GlobalLimit \in Nat \ {0}
  BY AuthLimits DEF HintInv, BudgetInv, RowsOf
<1>a. \A m \in Nat : Cardinality(At(mine, m)) \in Nat /\ Cardinality(At(all, m)) \in Nat
  BY <1>3, CountedRows DEF At
<1> HIDE DEF mine, all
<1> DEFINE account == IF AccountFull(u, n) THEN Oldest(At(mine, n)) ELSE 0
           laboratory == IF LaboratoryFull(n) THEN Oldest(At(all, n)) ELSE 0
<1>4. /\ AccountFull(u, n) => /\ account \in Nat /\ account + Window > n
                              /\ \A m \in Nat : m >= n => (AccountFull(u, m) <=> m < account + Window)
      /\ ~AccountFull(u, n) => \A m \in Nat : m >= n => ~AccountFull(u, m)
  <2>1. \A m \in Nat : AccountFull(u, m) <=> Cardinality(At(mine, m)) >= AccountLimit
    BY <1>2 DEF AccountFull
  <2>2. \A m \in Nat : ~AccountFull(u, m) <=> Cardinality(At(mine, m)) < AccountLimit
    BY <2>1, <1>a, <1>3
  <2>3. mine \in SUBSET DOMAIN failures
    BY <1>3 DEF all
  <2> QED
    BY <1>1, <1>3, <2>1, <2>2, <2>3, LimitClears
<1>5. /\ LaboratoryFull(n) => /\ laboratory \in Nat /\ laboratory + Window > n
                              /\ \A m \in Nat : m >= n => (LaboratoryFull(m) <=> m < laboratory + Window)
      /\ ~LaboratoryFull(n) => \A m \in Nat : m >= n => ~LaboratoryFull(m)
  <2>1. \A m \in Nat : LaboratoryFull(m) <=> Cardinality(At(all, m)) >= GlobalLimit
    BY <1>2 DEF LaboratoryFull
  <2>2. \A m \in Nat : ~LaboratoryFull(m) <=> Cardinality(At(all, m)) < GlobalLimit
    BY <2>1, <1>a, <1>3
  <2>3. all \in SUBSET DOMAIN failures
    BY <1>3 DEF all
  <2> QED
    BY <1>1, <1>3, <2>1, <2>2, <2>3, LimitClears
<1>6. R = Later(1, Later(account, laboratory) + Window - n)
  BY <1>1, <1>2 DEF RetryAfter
<1>7. account \in Nat /\ laboratory \in Nat /\ (AccountFull(u, n) \/ LaboratoryFull(n))
  BY <1>4, <1>5 DEF Throttled
<1>8. /\ ~AccountFull(u, n) => account = 0
      /\ ~LaboratoryFull(n) => laboratory = 0
  OBVIOUS
<1> HIDE DEF account, laboratory, R
<1>9. n + R = Later(account, laboratory) + Window /\ R \in Nat
  BY <1>1, <1>4, <1>5, <1>6, <1>7, <1>8 DEF Later
<1>10. ASSUME NEW m \in Nat, m >= n PROVE Throttled(u, m) <=> m < Later(account, laboratory) + Window
  BY <1>1, <1>4, <1>5, <1>7, <1>8, <1>10 DEF Later, Throttled
<1> QED
  BY <1>1, <1>9, <1>10 DEF R

\* The Retry-After a throttled caller is given is the time to wait, to the
\* second, whatever the limits, the window, and the lag of other callers.
THEOREM RetryHintsAreHonest == Spec => []RetryHintHonest
<1>1. Init => BudgetInv /\ HintInv
  BY FS_EmptySet, AuthLimits DEF Init, BudgetInv, HintInv, RowsOf
<1> QED
  BY <1>1, TypeCorrect, BudgetStep, HintStep, HintFollows, PTL DEF Spec

-----------------------------------------------------------------------------
(* What a step does to sessions, and what it tells the audit chain *)

\* Nothing but the failure table, the clock, or a rejection with its event.
ChecksOnly ==
    /\ UNCHANGED <<users, sessions>>
    /\ clock' \in {clock, clock + 1}
    /\ rejections' # rejections => lastEvent'.action \in Rejected

SignsIn(u, t, n) ==
    /\ sessions[t] = NoSession
    /\ sessions' = [sessions EXCEPT ![t] = NewSession(u, n)]
    /\ Audit("LOGIN_SUCCEEDED", u)
    /\ UNCHANGED <<users, rejections, clock>>

SeesSession(t, n) ==
    /\ Resolvable(t, n)
    /\ sessions' = [sessions EXCEPT ![t].lastSeen = Later(@, n)]
    /\ UNCHANGED <<users, rejections, clock>>

\* All sessions of u end, and perhaps u's row changes.
EndsSessions(u) ==
    /\ RevokeSessionsOf(u)
    /\ \A v \in Accounts \ {u} : users'[v] = users[v]
    /\ lastEvent'.subject = u /\ lastEvent'.action \in SessionEndings
    /\ users'[u] # users[u] => lastEvent'.action \in AccountChanges
    /\ UNCHANGED <<rejections, clock>>

ChangesAccount(u) ==
    /\ UNCHANGED <<sessions, rejections, clock>>
    /\ \A v \in Accounts \ {u} : users'[v] = users[v]
    /\ lastEvent'.subject = u /\ lastEvent'.action \in AccountChanges

Effect ==
    \/ ChecksOnly
    \/ \E u \in Accounts, t \in Tokens, n \in Nows : SignsIn(u, t, n)
    \/ \E t \in Tokens, n \in Nows : SeesSession(t, n)
    \/ \E t \in Tokens : RevokeSession(t)
    \/ \E u \in Accounts : EndsSessions(u) \/ ChangesAccount(u)

\* A refused check records a rejection with its event, or nothing.
LEMMA RefusedEffect ==
    ASSUME NEW u \in Accounts, NEW n \in Nows, NEW valid \in BOOLEAN,
           NEW event \in Rejected, CheckRefused(u, n, valid, event)
    PROVE  ChecksOnly
BY DEF CheckRefused, RecordFailure, Audit, ChecksOnly

\* A new row for an account whose sessions end.
LEMMA NewRowEffect ==
    ASSUME TypeOK, NEW u \in Accounts, NEW row, users' = [users EXCEPT ![u] = row],
           RevokeSessionsOf(u), NEW event \in AccountChanges \cap SessionEndings,
           lastEvent' = [action |-> event, subject |-> u], UNCHANGED <<rejections, clock>>
    PROVE  EndsSessions(u)
<1>1. \A v \in Accounts \ {u} : users'[v] = users[v]
  BY DEF TypeOK
<1>2. QED
  BY <1>1 DEF EndsSessions

\* Every transaction is of one of these kinds.
LEMMA StepEffect == TypeOK /\ [Next]_vars => Effect
<1> SUFFICES ASSUME TypeOK, [Next]_vars PROVE Effect
  OBVIOUS
<1> USE DEF Audit
<1>1. ASSUME NEW u \in Accounts, BootstrapAdministrator(u) PROVE ChangesAccount(u)
  BY <1>1 DEF BootstrapAdministrator, ChangesAccount, AccountChanges, TypeOK
<1>2. ASSUME NEW actor \in Accounts, NEW u \in Accounts, NEW role \in Roles,
             CreateUser(actor, u, role)
      PROVE  ChangesAccount(u)
  BY <1>2 DEF CreateUser, ChangesAccount, AccountChanges, TypeOK
<1>3. ASSUME NEW u \in Accounts, NEW t \in Tokens, NEW valid \in BOOLEAN, NEW n \in Nows,
             Authenticate(u, t, valid, n)
      PROVE  ChecksOnly \/ SignsIn(u, t, n)
  <2>1. CASE CheckRefused(u, n, valid, "LOGIN_FAILED")
    BY <2>1, RefusedEffect DEF Rejected
  <2>2. QED
    BY <1>3, <2>1 DEF Authenticate, CheckPassed, SignsIn
<1>4. ASSUME NEW t \in Tokens, NEW allow \in BOOLEAN, NEW n \in Nows,
             ResolveSession(t, allow, n)
      PROVE  SeesSession(t, n)
  BY <1>4 DEF ResolveSession, SeesSession
<1>5. ASSUME NEW u \in Accounts, RevokeAllSessions(u) PROVE EndsSessions(u)
  BY <1>5 DEF RevokeAllSessions, EndsSessions, SessionEndings
<1>6. ASSUME NEW u \in Accounts, NEW valid \in BOOLEAN, NEW n \in Nows,
             ChangePassword(u, valid, n)
      PROVE  ChecksOnly \/ EndsSessions(u)
  <2>1. CASE CheckRefused(u, n, valid, "REAUTHENTICATION_FAILED")
    BY <2>1, RefusedEffect DEF Rejected
  <2>2. QED
    BY <1>6, <2>1, NewRowEffect
    DEF ChangePassword, CheckPassed, SessionEndings, AccountChanges
<1>7. ASSUME NEW actor \in Accounts, NEW u \in Accounts, NEW valid \in BOOLEAN,
             NEW n \in Nows,
             \/ SuspendUser(actor, u, valid, n) \/ ActivateUser(actor, u, valid, n)
             \/ ResetPassword(actor, u, valid, n) \/ RevokeUserSessions(actor, u, valid, n)
      PROVE  ChecksOnly \/ EndsSessions(u) \/ ChangesAccount(u)
  <2>1. CASE CheckRefused(actor, n, valid, "REAUTHENTICATION_FAILED")
    BY <2>1, RefusedEffect DEF Rejected
  <2>2. CASE ~CheckRefused(actor, n, valid, "REAUTHENTICATION_FAILED")
    <3>1. CASE SuspendUser(actor, u, valid, n) \/ ResetPassword(actor, u, valid, n)
      <4>1. PICK row : users' = [users EXCEPT ![u] = row]
        BY <2>2, <3>1 DEF SuspendUser, ResetPassword
      <4>2. /\ RevokeSessionsOf(u) /\ UNCHANGED <<rejections, clock>>
            /\ \E event \in {"USER_SUSPENDED", "PASSWORD_RESET"} :
                 lastEvent' = [action |-> event, subject |-> u]
        BY <2>2, <3>1 DEF SuspendUser, ResetPassword, CheckPassed
      <4>3. QED
        BY <4>1, <4>2, NewRowEffect DEF SessionEndings, AccountChanges
    <3>2. CASE RevokeUserSessions(actor, u, valid, n)
      BY <2>2, <3>2 DEF RevokeUserSessions, CheckPassed, EndsSessions, SessionEndings
    <3>3. CASE ActivateUser(actor, u, valid, n)
      BY <2>2, <3>3 DEF ActivateUser, CheckPassed, ChangesAccount, AccountChanges, TypeOK
    <3>4. QED
      BY <1>7, <3>1, <3>2, <3>3
  <2>3. QED
    BY <2>1, <2>2
<1>8. ASSUME NEW u \in Accounts, RecoverAdministrator(u) PROVE EndsSessions(u)
  BY <1>8 DEF RecoverAdministrator, EndsSessions, SessionEndings, AccountChanges, TypeOK
<1>9. CASE Tick \/ UNCHANGED vars
  BY <1>9 DEF Tick, vars, ChecksOnly, Effect
<1>10. QED
  BY <1>1, <1>2, <1>3, <1>4, <1>5, <1>6, <1>7, <1>8, <1>9 DEF Next, Effect

\* Revoking touches nothing of a session but its mark.
LEMMA RevokingMarks ==
    ASSUME TypeOK, NEW u, RevokeSessionsOf(u), NEW t \in Tokens, sessions[t] # NoSession
    PROVE  /\ sessions'[t] \in SessionRow
           /\ sessions'[t].user = sessions[t].user
           /\ sessions'[t].expires = sessions[t].expires
           /\ sessions'[t].lastSeen = sessions[t].lastSeen
           /\ sessions[t].revoked => sessions'[t].revoked
           /\ ~sessions[t].revoked /\ sessions'[t].revoked => sessions[t].user = u
BY DEF RevokeSessionsOf, LiveSession, TypeOK, SessionRow

-----------------------------------------------------------------------------
(* Sessions do not revive *)

\* No time that is left, for any reading of the clock.
OutOfTime(row) == row.expires + MaxLag <= clock \/ row.lastSeen + Idle + MaxLag <= clock

\* A step neither revives a session nor pulls its deadlines back.
LEMMA DeadStaysDead ==
    ASSUME TypeOK, SessionsFollowCredential, [Next]_vars, NEW t \in Tokens,
           sessions[t] # NoSession
    PROVE  /\ DeadSession(t) =>
                DeadSession(t)' /\ sessions'[t].lastSeen = sessions[t].lastSeen
           /\ sessions'[t].lastSeen >= sessions[t].lastSeen
           /\ sessions'[t].expires = sessions[t].expires
<1>1. sessions[t] \in SessionRow /\ clock \in Nat /\ MaxLag \in Nat /\ Idle \in Nat
  BY AuthBounds, AuthLimits DEF TypeOK
<1>2. DeadSession(t) => sessions[t].revoked \/ OutOfTime(sessions[t])
  BY DEF DeadSession, OutOfTime, SessionsFollowCredential, LiveSession
<1>3. ASSUME sessions'[t] \in SessionRow, clock' \in {clock, clock + 1},
             sessions'[t].expires = sessions[t].expires,
             sessions'[t].lastSeen = sessions[t].lastSeen,
             sessions[t].revoked => sessions'[t].revoked
      PROVE  /\ DeadSession(t) =>
                  DeadSession(t)' /\ sessions'[t].lastSeen = sessions[t].lastSeen
             /\ sessions'[t].lastSeen >= sessions[t].lastSeen
             /\ sessions'[t].expires = sessions[t].expires
  <2>1. sessions[t].expires \in Nat /\ sessions[t].lastSeen \in Nat
    BY <1>1 DEF SessionRow
  <2>2. sessions'[t] # NoSession
    BY <1>3, AuthNulls
  <2>3. OutOfTime(sessions[t]) =>
          \/ sessions'[t].expires + MaxLag <= clock'
          \/ sessions'[t].lastSeen + Idle + MaxLag <= clock'
    BY <1>1, <1>3, <2>1 DEF OutOfTime
  <2>4. QED
    BY <1>2, <1>3, <2>1, <2>2, <2>3 DEF DeadSession
<1>4. CASE ChecksOnly
  BY <1>1, <1>3, <1>4 DEF ChecksOnly
<1>5. ASSUME NEW u \in Accounts, NEW s \in Tokens, NEW n \in Nows, SignsIn(u, s, n)
      PROVE  sessions'[t] = sessions[t] /\ clock' = clock
  BY <1>5 DEF SignsIn, TypeOK
<1>6. ASSUME NEW s \in Tokens, NEW n \in Nows, SeesSession(s, n)
      PROVE  /\ DeadSession(t) =>
                  DeadSession(t)' /\ sessions'[t].lastSeen = sessions[t].lastSeen
             /\ sessions'[t].lastSeen >= sessions[t].lastSeen
             /\ sessions'[t].expires = sessions[t].expires
  <2>1. CASE s # t
    <3>1. sessions'[t] = sessions[t] /\ clock' = clock
      BY <1>6, <2>1 DEF SeesSession, TypeOK
    <3>2. QED
      BY <1>1, <1>3, <3>1
  <2>2. CASE s = t
    <3>1. n \in Nat /\ n + MaxLag >= clock
      BY NowsAreTimes
    <3>2. /\ sessions[t].expires \in Nat /\ sessions[t].lastSeen \in Nat
          /\ sessions[t].revoked \in BOOLEAN
      BY <1>1 DEF SessionRow
    <3>3. ~sessions[t].revoked /\ sessions[t].expires > n /\ sessions[t].lastSeen > n - Idle
      BY <1>6, <2>2 DEF SeesSession, Resolvable, LiveSession
    <3>4. ~DeadSession(t)
      BY <1>1, <1>2, <3>1, <3>2, <3>3 DEF OutOfTime
    <3>5. /\ sessions'[t].expires = sessions[t].expires
          /\ sessions'[t].lastSeen = Later(sessions[t].lastSeen, n)
      BY <1>1, <1>6, <2>2 DEF SeesSession, TypeOK, SessionRow
    <3>6. QED
      BY <3>1, <3>2, <3>4, <3>5 DEF Later
  <2>3. QED
    BY <2>1, <2>2
<1>7. ASSUME NEW s \in Tokens, RevokeSession(s)
      PROVE  /\ sessions'[t] \in SessionRow /\ clock' = clock
             /\ sessions'[t].expires = sessions[t].expires
             /\ sessions'[t].lastSeen = sessions[t].lastSeen
             /\ sessions[t].revoked => sessions'[t].revoked
  BY <1>1, <1>7 DEF RevokeSession, TypeOK, SessionRow
<1>8. ASSUME NEW u \in Accounts, EndsSessions(u)
      PROVE  /\ sessions'[t] \in SessionRow /\ clock' = clock
             /\ sessions'[t].expires = sessions[t].expires
             /\ sessions'[t].lastSeen = sessions[t].lastSeen
             /\ sessions[t].revoked => sessions'[t].revoked
  BY <1>8, RevokingMarks DEF EndsSessions
<1>9. ASSUME NEW u \in Accounts, ChangesAccount(u)
      PROVE  sessions'[t] = sessions[t] /\ clock' = clock
  BY <1>9 DEF ChangesAccount
<1>10. QED
  BY <1>1, <1>3, <1>4, <1>5, <1>6, <1>7, <1>8, <1>9, StepEffect DEF Effect

\* Once a session is over, no later suspension, activation, reset or lagging
\* request brings it back, for any values of the deadlines.
THEOREM DeadSessionsStayDead == Spec => SessionsNeverRevive
<1>1. TypeOK /\ SessionsFollowCredential /\ [Next]_vars =>
        [\A t \in Tokens : sessions[t] # NoSession =>
           /\ DeadSession(t) => DeadSession(t)' /\ sessions'[t].lastSeen = sessions[t].lastSeen
           /\ sessions'[t].lastSeen >= sessions[t].lastSeen
           /\ sessions'[t].expires = sessions[t].expires]_vars
  BY DeadStaysDead
<1>2. QED
  BY <1>1, TypeCorrect, SessionsStayCurrent, PTL DEF Spec, SessionsNeverRevive

-----------------------------------------------------------------------------
(* Changes are audited *)

\* Whatever kind a step is of, the last event of the chain tells of it.
LEMMA EffectAudited ==
    ASSUME TypeOK, Effect
    PROVE  /\ \A u \in Accounts : users'[u] # users[u] =>
                  lastEvent'.subject = u /\ lastEvent'.action \in AccountChanges
           /\ \A t \in Tokens : LiveSession(t) # LiveSession(t)' =>
                  /\ lastEvent'.subject = sessions'[t].user
                  /\ lastEvent'.action \in
                         IF LiveSession(t) THEN SessionEndings ELSE {"LOGIN_SUCCEEDED"}
           /\ rejections' # rejections => lastEvent'.action \in Rejected
<1>1. CASE ChecksOnly
  BY <1>1 DEF ChecksOnly, LiveSession
<1>2. ASSUME NEW u \in Accounts, NEW t \in Tokens, NEW n \in Nows, SignsIn(u, t, n)
      PROVE  /\ UNCHANGED <<users, rejections>> /\ ~LiveSession(t)
             /\ sessions'[t].user = u /\ lastEvent'.subject = u
             /\ lastEvent'.action = "LOGIN_SUCCEEDED"
             /\ \A s \in Tokens \ {t} : sessions'[s] = sessions[s]
  BY <1>2 DEF SignsIn, Audit, NewSession, LiveSession, TypeOK
<1>3. ASSUME NEW t \in Tokens, NEW n \in Nows, SeesSession(t, n)
      PROVE  /\ UNCHANGED <<users, rejections>>
             /\ \A s \in Tokens : LiveSession(s) <=> LiveSession(s)'
  <2>1. sessions[t] \in SessionRow /\ ~sessions[t].revoked
    BY <1>3 DEF SeesSession, Resolvable, LiveSession, TypeOK
  <2>2. Later(sessions[t].lastSeen, n) \in Nat
    BY <2>1, NowsAreTimes DEF Later, SessionRow
  <2>3. sessions'[t] \in SessionRow /\ ~sessions'[t].revoked
    BY <1>3, <2>1, <2>2 DEF SeesSession, SessionRow, TypeOK
  <2>4. \A s \in Tokens \ {t} : sessions'[s] = sessions[s]
    BY <1>3 DEF SeesSession, TypeOK
  <2>5. QED
    BY <1>3, <2>1, <2>3, <2>4, AuthNulls DEF SeesSession, LiveSession
<1>4. ASSUME NEW t \in Tokens, RevokeSession(t)
      PROVE  /\ UNCHANGED <<users, rejections>> /\ LiveSession(t)
             /\ lastEvent'.subject = sessions'[t].user
             /\ lastEvent'.action \in SessionEndings
             /\ \A s \in Tokens \ {t} : sessions'[s] = sessions[s]
  <2>1. sessions[t] \in SessionRow
    BY <1>4 DEF RevokeSession, LiveSession, TypeOK
  <2>2. QED
    BY <1>4, <2>1 DEF RevokeSession, Audit, SessionEndings, TypeOK, SessionRow
<1>5. ASSUME NEW u \in Accounts, EndsSessions(u)
      PROVE  \A t \in Tokens : LiveSession(t) # LiveSession(t)' =>
               LiveSession(t) /\ sessions'[t].user = u
  <2>1. ASSUME NEW t \in Tokens, sessions[t] = NoSession
        PROVE  sessions'[t] = NoSession
    BY <1>5, <2>1 DEF EndsSessions, RevokeSessionsOf, LiveSession
  <2>2. ASSUME NEW t \in Tokens, sessions[t] # NoSession
        PROVE  LiveSession(t) # LiveSession(t)' => LiveSession(t) /\ sessions'[t].user = u
    <3>1. /\ sessions'[t] # NoSession /\ sessions'[t].user = sessions[t].user
          /\ sessions[t].revoked => sessions'[t].revoked
          /\ ~sessions[t].revoked /\ sessions'[t].revoked => sessions[t].user = u
      BY <1>5, <2>2, RevokingMarks, AuthNulls DEF EndsSessions
    <3>2. QED
      BY <2>2, <3>1 DEF LiveSession
  <2>3. QED
    BY <2>1, <2>2 DEF LiveSession
<1>6. QED
  BY <1>1, <1>2, <1>3, <1>4, <1>5 DEF Effect, EndsSessions, ChangesAccount, LiveSession

\* No account changes, no session begins or ends and no guess is rejected
\* without an event of the audit chain that says so and names the account.
THEOREM ChangesAlwaysAudited == Spec => ChangesAudited
<1>1. TypeOK /\ [Next]_vars =>
        [/\ \A u \in Accounts : users'[u] # users[u] =>
               lastEvent'.subject = u /\ lastEvent'.action \in AccountChanges
         /\ \A t \in Tokens : LiveSession(t) # LiveSession(t)' =>
               /\ lastEvent'.subject = sessions'[t].user
               /\ lastEvent'.action \in
                      IF LiveSession(t) THEN SessionEndings ELSE {"LOGIN_SUCCEEDED"}
         /\ rejections' # rejections => lastEvent'.action \in Rejected]_vars
  BY StepEffect, EffectAudited
<1>2. QED
  BY <1>1, TypeCorrect, PTL DEF Spec, ChangesAudited
=============================================================================
