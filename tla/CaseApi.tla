------------------------------ MODULE CaseApi ------------------------------
(***************************************************************************)
(* The case handlers of the HTTP interface (api/app.py) running together.  *)
(* FastAPI runs every handler in a thread of its own, and a handler asks   *)
(* the account store and the case register one locked call at a time: who  *)
(* is calling, may they act on this case, is the user they name active,    *)
(* and only then the write.  Each call is a step here; what a handler      *)
(* learnt from an earlier call may be out of date at the next one.         *)
(***************************************************************************)
EXTENDS CaseStore

CONSTANTS Workers,        \* handler threads
          Idle,           \* a thread with no request
          RoleOf,         \* the role an account was created with
          Suspendable,    \* bound: accounts that are ever suspended
          MaxGrants       \* bound: assignment rows of one case

VARIABLES active,         \* accounts that are not suspended
          req             \* the request each thread is serving

apiVars == <<cases, assignments, exhibits, trail, active, req>>

-----------------------------------------------------------------------------
\* Roles (auth/store.py ROLE_PERMISSIONS), as far as the case handlers go.

Permissions == {"case:create", "case:assign", "case:process", "case:approve",
                "exhibit:create", "evidence:ingest", "biometric:authorize"}

RolePermissions ==
  [administrator  |-> Permissions,
   supervisor     |-> {"case:assign", "case:process", "case:approve", "biometric:authorize"},
   examiner       |-> {"case:process"},
   intake_officer |-> {"case:create", "exhibit:create", "evidence:ingest"},
   investigator   |-> {},
   auditor        |-> {}]

\* Handlers run in a pool of threads.
ASSUME ApiThreads == IsFiniteSet(Workers)

ASSUME ApiBounds == Suspendable \subseteq Users /\ MaxGrants \in Nat

ASSUME RolesKnown == RoleOf \in [Users -> DOMAIN RolePermissions]

Holds(u, permission) == permission \in RolePermissions[RoleOf[u]]

\* The handlers of the other stores record through record_activity: which
\* permission each asks for, and how many events it records after asking once.
Recorder(permission, events) == [permission |-> permission, events |-> events]

Recorders ==
  [ingest    |-> Recorder("evidence:ingest", 2),
   verify    |-> Recorder("case:process", 1),
   scan      |-> Recorder("case:process", 2),
   extract   |-> Recorder("case:process", 2),
   register  |-> Recorder("case:process", 2),
   inspect   |-> Recorder("case:process", 1),
   bookmark  |-> Recorder("case:process", 1),
   authorize |-> Recorder("biometric:authorize", 1),
   detect    |-> Recorder("case:process", 2),
   track     |-> Recorder("case:process", 2),
   export    |-> Recorder("case:approve", 2)]

\* The action of an event names the handler; which of its events it is, whether
\* it tells of success or failure, and its subject are the other modules' matter.
ASSUME RecordersKnown == OtherActions \subseteq DOMAIN Recorders

Administrators == {u \in Users : RoleOf[u] = "administrator"}

-----------------------------------------------------------------------------
\* Requests.  `seen` is the case as its client last read it: the version in a
\* transition request is the one shown with the status the client acts on.

Unseen == [status |-> "intake", version |-> 0]

Arguments ==
  [create |-> {"-"}, assign |-> Users, revoke |-> Users,
   transition |-> Statuses, exhibit |-> Exhibits, record |-> OtherActions]

Busy == {t \in Workers : req[t] # Idle}

Serving(t, ops, stage) ==
  t \in Busy /\ req[t].op \in ops /\ req[t].stage = stage

Proceed(t, stage) == req' = [req EXCEPT ![t].stage = stage]

Respond(t) == req' = [req EXCEPT ![t] = Idle]

\* Variant: closing is taken for an ordinary step.
PermissionForApprovalOnly(r) ==
  CASE r.op = "create"              -> "case:create"
    [] r.op \in {"assign", "revoke"} -> "case:assign"
    [] r.op = "exhibit"             -> "exhibit:create"
    [] r.op = "record"              -> Recorders[r.arg].permission
    [] r.op = "transition"          ->
         IF r.arg = "approved" THEN "case:approve" ELSE "case:process"

PermissionFor(r) ==
  CASE r.op = "create"              -> "case:create"
    [] r.op \in {"assign", "revoke"} -> "case:assign"
    [] r.op = "exhibit"             -> "exhibit:create"
    [] r.op = "record"              -> Recorders[r.arg].permission
    [] r.op = "transition"          ->
         IF r.arg \in {"approved", "closed"} THEN "case:approve" ELSE "case:process"

-----------------------------------------------------------------------------
\* current_user: the bearer token resolves to an active account.
Receive(t, u, op, c, arg) ==
  /\ req[t] = Idle
  /\ u \in active
  /\ Len(trail[c]) + Cardinality(Busy) < MaxTrail
  /\ CaseExists(c) => cases[c].version < MaxVersion
  /\ op = "assign" => Len(assignments[c]) < MaxGrants
  /\ req' = [req EXCEPT ![t] =
       [op |-> op, actor |-> u, case |-> c, arg |-> arg, stage |-> "received",
        seen |-> IF CaseExists(c) THEN cases[c] ELSE Unseen]]
  /\ UNCHANGED <<caseVars, active>>

\* Variant: the role decides alone.
MayActUnassigned(r) ==
  /\ Holds(r.actor, PermissionFor(r))
  /\ r.op = "create" \/ CaseExists(r.case)

\* authorize, and for a handler of one case get_case and has_access.
MayAct(r) ==
  /\ Holds(r.actor, PermissionFor(r))
  /\ \/ r.op = "create"
     \/ CaseExists(r.case) /\ (r.actor \in Administrators \/ HasAccess(r.case, r.actor))

AuthorizeCase(t) ==
  /\ Serving(t, DOMAIN Arguments, "received")
  /\ IF MayAct(req[t]) THEN Proceed(t, "authorized") ELSE Respond(t)
  /\ UNCHANGED <<caseVars, active>>

\* assign_case_user reads the account it is about to assign.
CheckAssignee(t) ==
  /\ Serving(t, {"assign"}, "authorized")
  /\ IF req[t].arg \in active THEN Proceed(t, "checked") ELSE Respond(t)
  /\ UNCHANGED <<caseVars, active>>

\* revoke_case_user: no supervisor revokes their own access.
RevokesSelf(r) == r.actor = r.arg /\ r.actor \notin Administrators

CheckRevokee(t) ==
  /\ Serving(t, {"revoke"}, "authorized")
  /\ IF RevokesSelf(req[t]) THEN Respond(t) ELSE Proceed(t, "checked")
  /\ UNCHANGED <<caseVars, active>>

\* A handler that records that it starts, works, and records how it ended.
Begins(r) == r.op = "record" /\ r.stage = "authorized" /\ Recorders[r.arg].events = 2

ReadyToWrite(t) ==
  \/ Serving(t, {"create", "transition", "exhibit", "record"}, "authorized")
  \/ Serving(t, {"assign", "revoke"}, "checked")
  \/ Serving(t, {"record"}, "begun")

\* The write, with what the request carries; the register decides again.
Write(t) ==
  /\ ReadyToWrite(t)
  /\ LET r == req[t] IN
       \/ r.op = "create"     /\ CreateCase(r.case, r.actor)
       \/ r.op = "assign"     /\ AssignUser(r.case, r.arg, r.actor)
       \/ r.op = "revoke"     /\ RevokeUser(r.case, r.arg, r.actor)
       \/ r.op = "transition" /\ TransitionCase(r.case, r.arg, r.seen.version, r.actor)
       \/ r.op = "exhibit"    /\ AddExhibit(r.case, r.arg, r.actor)
       \/ r.op = "record"     /\ RecordActivity(r.case, r.arg, r.actor)
  /\ IF Begins(req[t]) THEN Proceed(t, "begun") ELSE Respond(t)
  /\ UNCHANGED active

\* Any call may raise, because the register refuses what is asked or because the
\* database does; the handler answers with the error and nothing more is written.
Refuse(t) ==
  /\ t \in Busy
  /\ Respond(t)
  /\ UNCHANGED <<caseVars, active>>

\* set_user_active, called by an administrator while handlers are running; the
\* last active administrator stays (see AuthStore).
SetUserActive(u) ==
  /\ active' = IF u \in active THEN active \ {u} ELSE active \cup {u}
  /\ active' \cap Administrators # {}
  /\ UNCHANGED <<caseVars, req>>

-----------------------------------------------------------------------------
ApiInit == Init /\ active = Users /\ req = [t \in Workers |-> Idle]

Step(t) == \/ AuthorizeCase(t) \/ CheckAssignee(t) \/ CheckRevokee(t)
           \/ Write(t) \/ Refuse(t)

ApiNext ==
  \/ \E t \in Workers, u \in Users, c \in Cases, op \in DOMAIN Arguments :
       \E arg \in Arguments[op] : Receive(t, u, op, c, arg)
  \/ \E t \in Workers : Step(t)
  \/ \E u \in Suspendable : SetUserActive(u)

ApiSpec == ApiInit /\ [][ApiNext]_apiVars

-----------------------------------------------------------------------------
\* Properties.

PermissionOf(e) ==
  CASE e.action = "CASE_CREATED"        -> "case:create"
    [] e.action = "EXHIBIT_REGISTERED"  -> "exhibit:create"
    [] e.action = "CASE_STATUS_CHANGED" ->
         IF e.to \in {"approved", "closed"} THEN "case:approve" ELSE "case:process"
    [] e.action \in OtherActions         -> Recorders[e.action].permission
    [] OTHER                            -> "case:assign"

\* Every event in a trail was done by someone whose role permits it: nobody
\* but a supervisor or an administrator ever approves or closes a case or
\* grants access, the creator's own first grant excepted (the permission each
\* handler asks for before it calls the register).
TrailActorsEntitled ==
  \A c \in Cases : \A i \in DOMAIN trail[c] :
    i = 2 \/ Holds(trail[c][i].actor, PermissionOf(trail[c][i]))

\* Need to know: whoever acted on a case without being an administrator had
\* been granted access to that very case earlier in its trail (authorize_case).
TrailActorsKnewCase ==
  \A c \in Cases : \A i \in DOMAIN trail[c] :
    \/ i <= 2
    \/ trail[c][i].actor \in Administrators
    \/ \E j \in 1 .. i - 1 : /\ trail[c][j].action = "CASE_ACCESS_GRANTED"
                             /\ trail[c][j].user = trail[c][i].actor

\* What the role and the assignment check of the handlers leave in the trail.
TrailActorsAllowed == TrailActorsEntitled /\ TrailActorsKnewCase

LastRevocation(c, u) ==
  {i \in DOMAIN trail[c] :
     /\ trail[c][i].action = "CASE_ACCESS_REVOKED" /\ trail[c][i].user = u
     /\ \A j \in i + 1 .. Len(trail[c]) :
          ~(trail[c][j].action = "CASE_ACCESS_GRANTED" /\ trail[c][j].user = u)
     /\ \A j \in i + 1 .. Len(trail[c]) :
          ~(trail[c][j].action = "CASE_ACCESS_REVOKED" /\ trail[c][j].user = u)}

\* The threads past the checks that let u act on c.
PastChecks(c, u) ==
  {t \in Busy : /\ req[t].actor = u /\ req[t].case = c
                /\ req[t].op # "create" /\ req[t].stage # "received"}

\* Those of them that have two events to record, and the events still to come.
Starting(c, u) == {t \in PastChecks(c, u) : Begins(req[t])}

ToCome(c, u) == Cardinality(PastChecks(c, u)) + Cardinality(Starting(c, u))

\* A revocation cannot stop the requests already past authorize_case, but no new
\* one gets through: what a user without administrator role writes after losing
\* access, and may still write, is at most two events for each other thread,
\* what the longest handlers record after asking once.
LateWritesBounded ==
  \A c \in Cases, u \in Users \ Administrators : \A i \in LastRevocation(c, u) :
    Cardinality({j \in i + 1 .. Len(trail[c]) : trail[c][j].actor = u})
    + ToCome(c, u) <= 2 * (Cardinality(Workers) - 1)

\* A status change is applied to the status its author had in front of them,
\* however many other changes and send-backs other users made meanwhile
\* (expected_version against the version column).
ChangesWhatWasSeen ==
  [][\A c \in DOMAIN cases :
       cases'[c] # cases[c] =>
         \E t \in Busy : /\ req[t].op = "transition" /\ req[t].case = c
                         /\ req[t].seen.status = cases[c].status
                         /\ cases'[c].status = req[t].arg
                         /\ req'[t] = Idle]_apiVars

\* "Inactive users cannot be assigned to cases" (api/app.py:611).
OnlyActiveUsersAssigned ==
  [][\A c \in Cases :
       Len(assignments'[c]) > Len(assignments[c]) =>
         LET row == assignments'[c][Len(assignments'[c])]
         IN  row.user # row.assignedBy => row.user \in active]_apiVars
=============================================================================
