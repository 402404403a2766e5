----------------------------- MODULE CaseStore -----------------------------
(***************************************************************************)
(* The case register, src/forenx/cases/store.py: cases with a status and a *)
(* version, exhibits, need-to-know assignments and the activity trail that *)
(* every change appends to in the same transaction.                        *)
(*                                                                         *)
(* One store object holds one connection behind one lock, so a method is   *)
(* one atomic step; a method that raises is rolled back whole and leaves   *)
(* no trace, hence the actions are the calls that succeed and each guard   *)
(* collects the reasons a call is refused.                                 *)
(***************************************************************************)
EXTENDS Integers, Sequences, FiniteSets

CONSTANTS Cases,          \* case references (UNIQUE in the table)
          Users,          \* account identifiers
          Exhibits,       \* exhibit numbers (UNIQUE within a case)
          OtherActions,   \* actions the API records through record_activity
          NotRevoked,     \* the NULL of case_assignments.revoked_by
          MaxVersion,     \* bound: status changes of one case
          MaxTrail        \* bound: activity events of one case

ASSUME CaseBounds == MaxVersion \in Nat /\ MaxTrail \in Nat

ASSUME CaseNulls == NotRevoked \notin Users

ASSUME OtherActionsApart ==
  OtherActions \cap {"CASE_CREATED", "CASE_ACCESS_GRANTED", "CASE_ACCESS_REVOKED",
                     "CASE_STATUS_CHANGED", "EXHIBIT_REGISTERED"} = {}

VARIABLES cases,          \* the cases table: reference -> status and version
          assignments,    \* case_assignments rows of a case, oldest first
          exhibits,       \* exhibit numbers registered in a case
          trail           \* activity_events of a case in sequence order

caseVars == <<cases, assignments, exhibits, trail>>

-----------------------------------------------------------------------------
\* Statuses and the moves between them (cases/domain.py).

Statuses == {"intake", "acquisition", "processing", "examiner-review",
             "supervisor-review", "approved", "closed"}

\* Variant: the supervisor closes without approving.
AllowedTransitionsSkipping ==
  [s \in Statuses |->
     CASE s = "intake"            -> {"acquisition"}
       [] s = "acquisition"       -> {"processing", "intake"}
       [] s = "processing"        -> {"examiner-review", "acquisition"}
       [] s = "examiner-review"   -> {"supervisor-review", "processing"}
       [] s = "supervisor-review" -> {"approved", "examiner-review", "closed"}
       [] s = "approved"          -> {"closed", "examiner-review"}
       [] s = "closed"            -> {}]

AllowedTransitions ==
  [s \in Statuses |->
     CASE s = "intake"            -> {"acquisition"}
       [] s = "acquisition"       -> {"processing", "intake"}
       [] s = "processing"        -> {"examiner-review", "acquisition"}
       [] s = "examiner-review"   -> {"supervisor-review", "processing"}
       [] s = "supervisor-review" -> {"approved", "examiner-review"}
       [] s = "approved"          -> {"closed", "examiner-review"}
       [] s = "closed"            -> {}]

CaseRows == [status : Statuses, version : Nat \ {0}]

AssignmentRows == [user : Users, assignedBy : Users,
                   revokedBy : Users \cup {NotRevoked}]

\* An event keeps the details its action writes to details_json.
Created(u) == [action |-> "CASE_CREATED", actor |-> u]
Granted(by, u, a) ==
  [action |-> "CASE_ACCESS_GRANTED", actor |-> by, user |-> u, assignment |-> a]
Revoked(by, u, a) ==
  [action |-> "CASE_ACCESS_REVOKED", actor |-> by, user |-> u, assignment |-> a]
StatusChanged(by, from, to) ==
  [action |-> "CASE_STATUS_CHANGED", actor |-> by, from |-> from, to |-> to]
Registered(by, x) ==
  [action |-> "EXHIBIT_REGISTERED", actor |-> by, exhibit |-> x]
Recorded(by, a) == [action |-> a, actor |-> by]

Events ==
  [action : {"CASE_CREATED"} \cup OtherActions, actor : Users]
  \cup [action : {"CASE_ACCESS_GRANTED", "CASE_ACCESS_REVOKED"}, actor : Users,
        user : Users, assignment : Nat \ {0}]
  \cup [action : {"CASE_STATUS_CHANGED"}, actor : Users,
        from : Statuses, to : Statuses]
  \cup [action : {"EXHIBIT_REGISTERED"}, actor : Users, exhibit : Exhibits]

-----------------------------------------------------------------------------
\* Reads.

CaseExists(c) == c \in DOMAIN cases

ActiveAssignments(c, u) ==
  {a \in DOMAIN assignments[c] :
     assignments[c][a].user = u /\ assignments[c][a].revokedBy = NotRevoked}

HasAccess(c, u) == ActiveAssignments(c, u) # {}

\* _append_activity numbers the event after the latest one it reads.
AppendActivity(c, events) == trail' = [trail EXCEPT ![c] = @ \o events]

NewAssignment(c) == Len(assignments[c]) + 1

InsertAssignment(c, u, by) ==
  assignments' = [assignments EXCEPT
    ![c] = Append(@, [user |-> u, assignedBy |-> by, revokedBy |-> NotRevoked])]

-----------------------------------------------------------------------------
\* Writes.  XxxAccepted is the condition under which the method commits.

Init ==
  /\ cases = [c \in {} |-> [status |-> "intake", version |-> 1]]
  /\ assignments = [c \in Cases |-> <<>>]
  /\ exhibits = [c \in Cases |-> {}]
  /\ trail = [c \in Cases |-> <<>>]

CreateAccepted(c) == ~CaseExists(c)

CreateCase(c, u) ==
  /\ CreateAccepted(c)
  /\ cases' = [k \in DOMAIN cases \cup {c} |->
                 IF k = c THEN [status |-> "intake", version |-> 1]
                          ELSE cases[k]]
  /\ InsertAssignment(c, u, u)
  /\ AppendActivity(c, <<Created(u), Granted(u, u, NewAssignment(c))>>)
  /\ UNCHANGED exhibits

\* Variant: the unique index covers revoked rows only.
AssignAcceptedTwice(c, u) == CaseExists(c)

\* The partial unique index admits one unrevoked row per case and user.
AssignAccepted(c, u) == CaseExists(c) /\ ~HasAccess(c, u)

\* Variant: without the revoke-only trigger, a new grant reopens the old row.
AssignUserReopening(c, u, by) ==
  /\ AssignAccepted(c, u)
  /\ LET old == {a \in DOMAIN assignments[c] : assignments[c][a].user = u}
     IN  IF old = {}
           THEN /\ InsertAssignment(c, u, by)
                /\ AppendActivity(c, <<Granted(by, u, NewAssignment(c))>>)
           ELSE LET a == CHOOSE a \in old : TRUE
                IN  /\ assignments' =
                         [assignments EXCEPT ![c][a].revokedBy = NotRevoked]
                    /\ AppendActivity(c, <<Granted(by, u, a)>>)
  /\ UNCHANGED <<cases, exhibits>>

AssignUser(c, u, by) ==
  /\ AssignAccepted(c, u)
  /\ InsertAssignment(c, u, by)
  /\ AppendActivity(c, <<Granted(by, u, NewAssignment(c))>>)
  /\ UNCHANGED <<cases, exhibits>>

RevokeAccepted(c, u) == HasAccess(c, u)

RevokeUser(c, u, by) ==
  /\ RevokeAccepted(c, u)
  /\ LET a == CHOOSE a \in ActiveAssignments(c, u) : TRUE
     IN  /\ assignments' = [assignments EXCEPT ![c][a].revokedBy = by]
         /\ AppendActivity(c, <<Revoked(by, u, a)>>)
  /\ UNCHANGED <<cases, exhibits>>

\* Variant: expected_version is not compared.
TransitionAcceptedAnyVersion(c, target, expected) ==
  CaseExists(c) /\ target \in AllowedTransitions[cases[c].status]

\* Variant: only the terminal status is protected.
TransitionAcceptedAnyMove(c, target, expected) ==
  /\ CaseExists(c)
  /\ cases[c].version = expected
  /\ cases[c].status # "closed"

TransitionAccepted(c, target, expected) ==
  /\ CaseExists(c)
  /\ cases[c].version = expected
  /\ target \in AllowedTransitions[cases[c].status]

\* Variant: the event reads its `from` after the UPDATE.
TransitionCaseLateRead(c, target, expected, by) ==
  /\ TransitionAccepted(c, target, expected)
  /\ cases' = [cases EXCEPT
       ![c] = [status |-> target, version |-> cases[c].version + 1]]
  /\ AppendActivity(c, <<StatusChanged(by, target, target)>>)
  /\ UNCHANGED <<assignments, exhibits>>

TransitionCase(c, target, expected, by) ==
  /\ TransitionAccepted(c, target, expected)
  /\ cases' = [cases EXCEPT
       ![c] = [status |-> target, version |-> cases[c].version + 1]]
  /\ AppendActivity(c, <<StatusChanged(by, cases[c].status, target)>>)
  /\ UNCHANGED <<assignments, exhibits>>

ExhibitAccepted(c, x) == CaseExists(c) /\ x \notin exhibits[c]

AddExhibit(c, x, by) ==
  /\ ExhibitAccepted(c, x)
  /\ exhibits' = [exhibits EXCEPT ![c] = @ \cup {x}]
  /\ AppendActivity(c, <<Registered(by, x)>>)
  /\ UNCHANGED <<cases, assignments>>

RecordActivity(c, a, by) ==
  /\ CaseExists(c)
  /\ AppendActivity(c, <<Recorded(by, a)>>)
  /\ UNCHANGED <<cases, assignments, exhibits>>

-----------------------------------------------------------------------------
Room(c) == Len(trail[c]) < MaxTrail

Change(c, u) ==
  \/ CreateCase(c, u)
  \/ Room(c) /\ \E v \in Users : AssignUser(c, v, u) \/ RevokeUser(c, v, u)
  \/ Room(c) /\ \E target \in Statuses, expected \in 1 .. MaxVersion :
       TransitionCase(c, target, expected, u)
  \/ Room(c) /\ \E x \in Exhibits : AddExhibit(c, x, u)
  \/ Room(c) /\ \E a \in OtherActions : RecordActivity(c, a, u)

Next == \E c \in Cases, u \in Users : Change(c, u)

Spec == Init /\ [][Next]_caseVars

-----------------------------------------------------------------------------
\* Properties.

\* The tables hold rows of their declared shape (schema, store.py 70-190).
TypeOK ==
  /\ DOMAIN cases \subseteq Cases
  /\ cases \in [DOMAIN cases -> CaseRows]
  /\ assignments \in [Cases -> Seq(AssignmentRows)]
  /\ exhibits \in [Cases -> SUBSET Exhibits]
  /\ trail \in [Cases -> Seq(Events)]

Places(c, action) == {i \in DOMAIN trail[c] : trail[c][i].action = action}

Changes(events) == {i \in DOMAIN events : events[i].action = "CASE_STATUS_CHANGED"}

StatusChanges(c) == Changes(trail[c])

\* The changes among events walk from intake to the row's status unbroken,
\* and there are exactly version - 1 of them.
TellsStatus(events, row) ==
  /\ row.version = Cardinality(Changes(events)) + 1
  /\ Changes(events) = {} => row.status = "intake"
  /\ \A i \in Changes(events) :
       /\ (\A j \in Changes(events) : i <= j) => events[i].from = "intake"
       /\ (\A j \in Changes(events) : j <= i) => events[i].to = row.status
       /\ \A j \in Changes(events) :
            (i < j /\ \A k \in Changes(events) : k <= i \/ k >= j)
              => events[j].from = events[i].to

\* The trail alone tells the status and version of every case
\* (transition_case's UPDATE and its event).
TrailTellsStatus == \A c \in DOMAIN cases : TellsStatus(trail[c], cases[c])

\* The trail alone tells who may see a case: every assignment row has exactly
\* one grant event naming its user, a revoked row has exactly one later
\* revocation by the recorded user, and no user holds two open rows.
TrailTellsAccess ==
  \A c \in Cases :
    /\ \A u \in Users : Cardinality(ActiveAssignments(c, u)) <= 1
    /\ \A i \in Places(c, "CASE_ACCESS_GRANTED") \cup Places(c, "CASE_ACCESS_REVOKED") :
         trail[c][i].assignment \in DOMAIN assignments[c]
    /\ \A a \in DOMAIN assignments[c] :
         LET row == assignments[c][a]
             grants  == {i \in Places(c, "CASE_ACCESS_GRANTED") :
                           trail[c][i].assignment = a}
             revokes == {i \in Places(c, "CASE_ACCESS_REVOKED") :
                           trail[c][i].assignment = a}
         IN  /\ Cardinality(grants) = 1
             /\ Cardinality(revokes) = IF row.revokedBy = NotRevoked THEN 0 ELSE 1
             /\ \A i \in grants : /\ trail[c][i].user = row.user
                                  /\ trail[c][i].actor = row.assignedBy
             /\ \A j \in revokes : /\ trail[c][j].user = row.user
                                   /\ trail[c][j].actor = row.revokedBy
                                   /\ \A i \in grants : i < j

\* Nobody closes a case on an approval that was taken back: after the latest
\* time the case reached the examiner, both supervisor review and approval
\* were recorded, in that order, before it closed (ALLOWED_CASE_TRANSITIONS).
ClosedOnCurrentApproval ==
  \A c \in DOMAIN cases :
    cases[c].status = "closed" =>
      \E s, a \in StatusChanges(c) :
        /\ s < a
        /\ trail[c][s].to = "supervisor-review"
        /\ trail[c][a].to = "approved"
        /\ \A i \in StatusChanges(c) :
             trail[c][i].to = "examiner-review" => i < s

\* History is never rewritten: a step extends a trail or leaves it, keeps
\* every assignment row but for an open row's revocation, and never lowers a
\* version (the immutability triggers and the version + 1 of the UPDATE).
HistoryOnlyGrows ==
  [][\A c \in Cases :
       /\ \A i \in DOMAIN trail[c] :
            i \in DOMAIN trail'[c] /\ trail'[c][i] = trail[c][i]
       /\ \A a \in DOMAIN assignments[c] :
            /\ a \in DOMAIN assignments'[c]
            /\ assignments'[c][a].user = assignments[c][a].user
            /\ assignments'[c][a].assignedBy = assignments[c][a].assignedBy
            /\ assignments[c][a].revokedBy # NotRevoked
                 => assignments'[c][a] = assignments[c][a]
       /\ c \in DOMAIN cases =>
            /\ c \in DOMAIN cases'
            /\ cases'[c].version >= cases[c].version
            /\ cases[c].status # cases'[c].status
                 => cases'[c].version > cases[c].version]_caseVars

\* The register implements the lifecycle it promises.
StageOf ==
  [s \in Statuses |->
     CASE s = "intake"            -> 1
       [] s = "acquisition"       -> 2
       [] s = "processing"        -> 3
       [] s = "examiner-review"   -> 4
       [] s = "supervisor-review" -> 5
       [] s = "approved"          -> 6
       [] s = "closed"            -> 7]

Stage == [c \in Cases |-> IF CaseExists(c) THEN StageOf[cases[c].status] ELSE 0]

Lifecycle == INSTANCE CaseLifecycle WITH stage <- Stage

\* Every change of the cases table is one move of the abstract lifecycle
\* (transition_case with ALLOWED_CASE_TRANSITIONS against CaseLifecycle).
ImplementsLifecycle == Lifecycle!Spec
=============================================================================
