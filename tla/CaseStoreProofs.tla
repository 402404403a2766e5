-------------------------- MODULE CaseStoreProofs --------------------------
(***************************************************************************)
(* Proofs about the case register: its tables keep their shape, the trail  *)
(* tells the status of every case and who may see it, history only grows,  *)
(* and the register implements the lifecycle of CaseLifecycle, for any     *)
(* cases, users, exhibits and bounds.                                      *)
(***************************************************************************)
EXTENDS CaseStore, FiniteSetTheorems, SequenceTheorems, TLAPS

-----------------------------------------------------------------------------
\* Helpers.

\* What _append_activity leaves in a trail that held events.
LEMMA AppendActivityType ==
  ASSUME TypeOK, NEW c \in Cases, NEW events \in Seq(Events),
         AppendActivity(c, events)
  PROVE  trail' \in [Cases -> Seq(Events)]
<1>1. trail[c] \in Seq(Events)
  BY DEF TypeOK
<1>2. trail[c] \o events \in Seq(Events)
  BY <1>1
<1> QED
  BY <1>2 DEF AppendActivity, TypeOK

\* What an INSERT leaves in a table of assignment rows.
LEMMA InsertAssignmentType ==
  ASSUME TypeOK, NEW c \in Cases, NEW u \in Users, NEW by \in Users,
         InsertAssignment(c, u, by)
  PROVE  assignments' \in [Cases -> Seq(AssignmentRows)]
<1> DEFINE row == [user |-> u, assignedBy |-> by, revokedBy |-> NotRevoked]
<1>1. row \in AssignmentRows
  BY DEF AssignmentRows
<1> HIDE DEF row
<1>2. Append(assignments[c], row) \in Seq(AssignmentRows)
  BY <1>1 DEF TypeOK
<1>3. assignments' = [assignments EXCEPT ![c] = Append(assignments[c], row)]
  BY DEF InsertAssignment, row, TypeOK
<1> QED
  BY <1>2, <1>3 DEF TypeOK

\* Row numbers are positive.
LEMMA NewAssignmentType ==
  ASSUME TypeOK, NEW c \in Cases
  PROVE  NewAssignment(c) \in Nat \ {0}
<1>1. Len(assignments[c]) \in Nat
  BY DEF TypeOK
<1> QED
  BY <1>1 DEF NewAssignment

\* Each kind of event is an event.
LEMMA EventTypes ==
  ASSUME NEW u \in Users, NEW v \in Users
  PROVE  /\ Created(u) \in Events
         /\ \A a \in Nat \ {0} : Granted(u, v, a) \in Events /\ Revoked(u, v, a) \in Events
         /\ \A s, t \in Statuses : StatusChanged(u, s, t) \in Events
         /\ \A x \in Exhibits : Registered(u, x) \in Events
         /\ \A a \in OtherActions : Recorded(u, a) \in Events
<1>1. Created(u) \in Events
  BY DEF Created, Events
<1>2. ASSUME NEW a \in Nat \ {0}
      PROVE  Granted(u, v, a) \in Events /\ Revoked(u, v, a) \in Events
  BY DEF Granted, Revoked, Events
<1>3. ASSUME NEW s \in Statuses, NEW t \in Statuses
      PROVE  StatusChanged(u, s, t) \in Events
  BY DEF StatusChanged, Events
<1>4. ASSUME NEW x \in Exhibits PROVE Registered(u, x) \in Events
  BY DEF Registered, Events
<1>5. ASSUME NEW a \in OtherActions PROVE Recorded(u, a) \in Events
  BY DEF Recorded, Events
<1> QED
  BY <1>1, <1>2, <1>3, <1>4, <1>5

\* A legal move leads to a status.
LEMMA TransitionTarget ==
  ASSUME NEW s \in Statuses, NEW t \in AllowedTransitions[s]
  PROVE  t \in Statuses
BY DEF AllowedTransitions, Statuses

\* The six ways the register changes.
Operation(c, u) ==
  \/ CreateCase(c, u)
  \/ \E v \in Users : AssignUser(c, v, u)
  \/ \E v \in Users : RevokeUser(c, v, u)
  \/ \E target \in Statuses, expected \in Nat : TransitionCase(c, target, expected, u)
  \/ \E x \in Exhibits : AddExhibit(c, x, u)
  \/ \E a \in OtherActions : RecordActivity(c, a, u)

\* A step is one operation on one case.
LEMMA StepOperates ==
  ASSUME Next
  PROVE  \E c \in Cases, u \in Users : Operation(c, u)
<1>1. \A expected \in 1 .. MaxVersion : expected \in Nat
  BY CaseBounds
<1> QED
  BY <1>1 DEF Next, Change, Operation

-----------------------------------------------------------------------------
\* The tables keep their shape.

\* The empty register has its shape.
LEMMA InitTyped ==
  ASSUME Init PROVE TypeOK
BY DEF Init, TypeOK

\* A case is created with version one, one grant and two events.
LEMMA CreateTyped ==
  ASSUME TypeOK, NEW c \in Cases, NEW u \in Users, CreateCase(c, u)
  PROVE  TypeOK'
<1>1. /\ DOMAIN cases' \subseteq Cases
      /\ cases' \in [DOMAIN cases' -> CaseRows]
  BY DEF TypeOK, CreateCase, CaseRows, Statuses
<1>2. assignments' \in [Cases -> Seq(AssignmentRows)]
  BY InsertAssignmentType DEF CreateCase
<1>3. Granted(u, u, NewAssignment(c)) \in Events /\ Created(u) \in Events
  BY EventTypes, NewAssignmentType
<1>4. <<Created(u), Granted(u, u, NewAssignment(c))>> \in Seq(Events)
  BY <1>3
<1>5. trail' \in [Cases -> Seq(Events)]
  BY <1>4, AppendActivityType DEF CreateCase
<1> QED
  BY <1>1, <1>2, <1>5 DEF TypeOK, CreateCase

\* A grant adds one assignment row and one event.
LEMMA AssignTyped ==
  ASSUME TypeOK, NEW c \in Cases, NEW u \in Users, NEW by \in Users,
         AssignUser(c, u, by)
  PROVE  TypeOK'
<1>1. assignments' \in [Cases -> Seq(AssignmentRows)]
  BY InsertAssignmentType DEF AssignUser
<1>2. <<Granted(by, u, NewAssignment(c))>> \in Seq(Events)
  BY EventTypes, NewAssignmentType
<1>3. trail' \in [Cases -> Seq(Events)]
  BY <1>2, AppendActivityType DEF AssignUser
<1> QED
  BY <1>1, <1>3 DEF TypeOK, AssignUser

\* A revocation closes one assignment row and adds one event.
LEMMA RevokeTyped ==
  ASSUME TypeOK, NEW c \in Cases, NEW u \in Users, NEW by \in Users,
         RevokeUser(c, u, by)
  PROVE  TypeOK'
<1> DEFINE a == CHOOSE a \in ActiveAssignments(c, u) : TRUE
<1>1. a \in ActiveAssignments(c, u)
  BY DEF RevokeUser, RevokeAccepted, HasAccess
<1>2. a \in DOMAIN assignments[c] /\ assignments[c] \in Seq(AssignmentRows)
  BY <1>1 DEF ActiveAssignments, TypeOK
<1>3. /\ assignments' = [assignments EXCEPT ![c][a].revokedBy = by]
      /\ AppendActivity(c, <<Revoked(by, u, a)>>)
  BY DEF RevokeUser
<1> HIDE DEF a
<1>4. a \in Nat \ {0}
  BY <1>2
<1>5. trail' \in [Cases -> Seq(Events)]
  <2>1. <<Revoked(by, u, a)>> \in Seq(Events)
    BY <1>4, EventTypes
  <2> QED
    BY <2>1, <1>3, AppendActivityType
<1>6. assignments' \in [Cases -> Seq(AssignmentRows)]
  <2> DEFINE rows == assignments[c]
             row == [rows[a] EXCEPT !.revokedBy = by]
  <2>1. assignments' = [assignments EXCEPT ![c] = [rows EXCEPT ![a] = row]]
    BY <1>3 DEF TypeOK
  <2>2. row \in AssignmentRows
    <3>1. rows[a] \in AssignmentRows
      BY <1>2
    <3> HIDE DEF rows
    <3> QED
      BY <3>1 DEF AssignmentRows
  <2> HIDE DEF row
  <2>3. [rows EXCEPT ![a] = row] \in Seq(AssignmentRows)
    BY <1>2, <2>2
  <2> QED
    BY <2>1, <2>3 DEF TypeOK
<1> QED
  BY <1>5, <1>6 DEF TypeOK, RevokeUser

\* A transition writes status and version and adds one event.
LEMMA TransitionTyped ==
  ASSUME TypeOK, NEW c \in Cases, NEW target \in Statuses, NEW expected,
         NEW by \in Users, TransitionCase(c, target, expected, by)
  PROVE  TypeOK'
<1>1. c \in DOMAIN cases /\ cases[c] \in CaseRows
  BY DEF TransitionCase, TransitionAccepted, CaseExists, TypeOK
<1>2. [status |-> target, version |-> cases[c].version + 1] \in CaseRows
  BY <1>1 DEF CaseRows
<1>3. DOMAIN cases' = DOMAIN cases /\ cases' \in [DOMAIN cases -> CaseRows]
  BY <1>1, <1>2 DEF TransitionCase, TypeOK
<1>4. <<StatusChanged(by, cases[c].status, target)>> \in Seq(Events)
  <2>1. cases[c].status \in Statuses
    BY <1>1 DEF CaseRows
  <2> QED
    BY <2>1, EventTypes
<1>5. trail' \in [Cases -> Seq(Events)]
  BY <1>4, AppendActivityType DEF TransitionCase
<1> QED
  BY <1>3, <1>5 DEF TypeOK, TransitionCase

\* An exhibit adds its row and one event.
LEMMA ExhibitTyped ==
  ASSUME TypeOK, NEW c \in Cases, NEW x \in Exhibits, NEW by \in Users,
         AddExhibit(c, x, by)
  PROVE  TypeOK'
<1>1. <<Registered(by, x)>> \in Seq(Events)
  BY EventTypes
<1>2. trail' \in [Cases -> Seq(Events)]
  BY <1>1, AppendActivityType DEF AddExhibit
<1>3. exhibits' \in [Cases -> SUBSET Exhibits]
  BY DEF AddExhibit, TypeOK
<1> QED
  BY <1>2, <1>3 DEF TypeOK, AddExhibit

\* Any other activity adds one event.
LEMMA RecordTyped ==
  ASSUME TypeOK, NEW c \in Cases, NEW a \in OtherActions, NEW by \in Users,
         RecordActivity(c, a, by)
  PROVE  TypeOK'
<1>1. <<Recorded(by, a)>> \in Seq(Events)
  BY EventTypes
<1>2. trail' \in [Cases -> Seq(Events)]
  BY <1>1, AppendActivityType DEF RecordActivity
<1> QED
  BY <1>2 DEF TypeOK, RecordActivity

\* So each operation keeps the tables' shape,
LEMMA OperationTyped ==
  ASSUME TypeOK, NEW c \in Cases, NEW u \in Users, Operation(c, u)
  PROVE  TypeOK'
BY CreateTyped, AssignTyped, RevokeTyped, TransitionTyped, ExhibitTyped, RecordTyped
DEF Operation

\* and each step.
LEMMA StepTyped ==
  ASSUME TypeOK, Next PROVE TypeOK'
BY StepOperates, OperationTyped

\* The tables of the register always hold rows of their declared shape.
THEOREM TypeCorrect == Spec => []TypeOK
<1>1. TypeOK /\ UNCHANGED caseVars => TypeOK'
  BY DEF TypeOK, caseVars
<1> QED
  BY InitTyped, StepTyped, <1>1, PTL DEF Spec

-----------------------------------------------------------------------------
\* The trail tells the status.

\* The changes of a sequence of events form a finite set of positions.
LEMMA ChangesFinite ==
  ASSUME NEW events \in Seq(Events)
  PROVE  /\ Changes(events) \subseteq 1 .. Len(events)
         /\ IsFiniteSet(Changes(events))
         /\ Len(events) \in Nat
<1>1. Len(events) \in Nat /\ Changes(events) \subseteq 1 .. Len(events)
  BY DEF Changes
<1>2. IsFiniteSet(1 .. Len(events))
  BY <1>1, FS_Interval
<1> QED
  BY <1>1, <1>2, FS_Subset

\* An appended event is the last one and leaves the others in place.
LEMMA AppendedEvent ==
  ASSUME NEW events \in Seq(Events), NEW e \in Events
  PROVE  LET longer == events \o <<e>>
             n == Len(events) + 1
         IN  /\ DOMAIN longer = DOMAIN events \cup {n}
             /\ n \notin DOMAIN events
             /\ longer[n] = e
             /\ \A i \in DOMAIN events : longer[i] = events[i]
OBVIOUS

\* An event of another kind changes nothing of the walk.
LEMMA OtherEventKeepsWalk ==
  ASSUME NEW events \in Seq(Events), NEW e \in Events, NEW row,
         e.action # "CASE_STATUS_CHANGED", TellsStatus(events, row)
  PROVE  TellsStatus(events \o <<e>>, row)
<1> DEFINE longer == events \o <<e>>
<1>1. /\ DOMAIN longer = DOMAIN events \cup {Len(events) + 1}
      /\ longer[Len(events) + 1] = e
      /\ \A i \in DOMAIN events : longer[i] = events[i]
  BY AppendedEvent
<1> HIDE DEF longer
<1>2. Changes(longer) = Changes(events)
  BY <1>1 DEF Changes
<1>3. \A i \in Changes(events) : longer[i] = events[i]
  BY <1>1 DEF Changes
<1>4. TellsStatus(longer, row)
  BY <1>2, <1>3 DEF TellsStatus
<1> QED
  BY <1>4 DEF longer

\* A change departs from the status of the row and raises its version.
LEMMA ChangeExtendsWalk ==
  ASSUME NEW events \in Seq(Events), NEW row \in CaseRows, NEW by \in Users,
         NEW target \in Statuses, TellsStatus(events, row)
  PROVE  TellsStatus(events \o <<StatusChanged(by, row.status, target)>>,
                     [status |-> target, version |-> row.version + 1])
<1> DEFINE e == StatusChanged(by, row.status, target)
           longer == events \o <<e>>
           n == Len(events) + 1
           new == [status |-> target, version |-> row.version + 1]
<1>1. e \in Events
  <2>1. row.status \in Statuses
    BY DEF CaseRows
  <2> QED
    BY <2>1, EventTypes
<1>2. e.action = "CASE_STATUS_CHANGED" /\ e.from = row.status /\ e.to = target
  BY DEF StatusChanged
<1>3. new.status = target /\ new.version = row.version + 1
  OBVIOUS
<1>4. /\ DOMAIN longer = DOMAIN events \cup {n}
      /\ n \notin DOMAIN events
      /\ longer[n] = e
      /\ \A i \in DOMAIN events : longer[i] = events[i]
  BY <1>1, AppendedEvent
<1>5. /\ Changes(events) \subseteq 1 .. Len(events)
      /\ IsFiniteSet(Changes(events))
      /\ Len(events) \in Nat
  BY ChangesFinite
<1> HIDE DEF e, longer, new
<1>6. Changes(longer) = Changes(events) \cup {n}
  BY <1>2, <1>4 DEF Changes
<1>7. \A i \in Changes(events) : i \in Nat /\ i < n /\ longer[i] = events[i]
  BY <1>4, <1>5 DEF Changes
<1>8. new.version = Cardinality(Changes(longer)) + 1
  <2>1. n \notin Changes(events)
    BY <1>4 DEF Changes
  <2>2. Cardinality(Changes(longer)) = Cardinality(Changes(events)) + 1
    BY <2>1, <1>5, <1>6, FS_AddElement
  <2>3. row.version = Cardinality(Changes(events)) + 1
    BY DEF TellsStatus
  <2> QED
    BY <2>2, <2>3, <1>3
<1>9. ASSUME NEW i \in Changes(longer), \A j \in Changes(longer) : i <= j
      PROVE  longer[i].from = "intake"
  <2>1. CASE i = n
    <3>1. Changes(events) = {}
      BY <2>1, <1>5, <1>6, <1>7, <1>9
    <3> QED
      BY <3>1, <2>1, <1>2, <1>4 DEF TellsStatus
  <2>2. CASE i # n
    BY <2>2, <1>6, <1>7, <1>9 DEF TellsStatus
  <2> QED
    BY <2>1, <2>2
<1>10. ASSUME NEW i \in Changes(longer), \A j \in Changes(longer) : j <= i
       PROVE  longer[i].to = new.status
  <2>1. n <= i
    BY <1>6, <1>10
  <2>2. i = n
    BY <2>1, <1>5, <1>6, <1>7
  <2> QED
    BY <2>2, <1>2, <1>3, <1>4
<1>11. ASSUME NEW i \in Changes(longer), NEW j \in Changes(longer), i < j,
              \A k \in Changes(longer) : k <= i \/ k >= j
       PROVE  longer[j].from = longer[i].to
  <2>1. i \in Changes(events)
    BY <1>5, <1>6, <1>7, <1>11
  <2>2. CASE j = n
    <3>1. \A k \in Changes(events) : k <= i
      BY <2>2, <1>5, <1>6, <1>7, <1>11
    <3>2. events[i].to = row.status
      BY <2>1, <3>1 DEF TellsStatus
    <3> QED
      BY <3>2, <2>1, <2>2, <1>2, <1>4, <1>7
  <2>3. CASE j # n
    BY <2>1, <2>3, <1>6, <1>7, <1>11 DEF TellsStatus
  <2> QED
    BY <2>2, <2>3
<1>12. Changes(longer) # {}
  BY <1>6
<1>13. TellsStatus(longer, new)
  BY <1>8, <1>9, <1>10, <1>11, <1>12 DEF TellsStatus
<1> QED
  BY <1>13 DEF e, longer, new

\* A case that does not exist has neither trail nor assignments: they and the
\* case are written in one transaction.
TrailsOfCases ==
  \A c \in Cases : c \notin DOMAIN cases => trail[c] = <<>> /\ assignments[c] = <<>>

OthersKeepAssignments(c) ==
  \A d \in Cases : d # c => assignments'[d] = assignments[d]

WalkInv == TypeOK /\ TrailTellsStatus /\ TrailsOfCases

\* Opening a case starts its walk and disturbs no other.
LEMMA CreateKeepsWalk ==
  ASSUME WalkInv, NEW c \in Cases, NEW u \in Users, CreateCase(c, u)
  PROVE  TrailTellsStatus' /\ TrailsOfCases'
<1> USE DEF WalkInv
<1> DEFINE g == Granted(u, u, NewAssignment(c))
           row == [status |-> "intake", version |-> 1]
<1>1. Created(u).action = "CASE_CREATED" /\ g.action = "CASE_ACCESS_GRANTED"
  BY DEF Created, Granted
<1>2. trail[c] = <<>> /\ c \notin DOMAIN cases
  BY DEF CreateCase, CreateAccepted, CaseExists, TrailsOfCases
<1>3. /\ cases' = [k \in DOMAIN cases \cup {c} |-> IF k = c THEN row ELSE cases[k]]
      /\ trail' = [trail EXCEPT ![c] = trail[c] \o <<Created(u), g>>]
  BY DEF CreateCase, AppendActivity, TypeOK
<1> HIDE DEF g
<1>4. trail'[c] = <<Created(u), g>>
  BY <1>2, <1>3 DEF TypeOK
<1>5. Changes(<<Created(u), g>>) = {}
  BY <1>1 DEF Changes
<1>6. TellsStatus(trail'[c], row)
  <2>1. row.status = "intake" /\ row.version = 1
    OBVIOUS
  <2>2. Cardinality({}) = 0
    BY FS_EmptySet
  <2> DEFINE first == <<Created(u), g>>
  <2>3. TellsStatus(first, row)
    <3>1. Changes(first) = {}
      BY <1>5
    <3> HIDE DEF first, row
    <3> QED
      BY <2>1, <2>2, <3>1 DEF TellsStatus
  <2> QED
    BY <2>3, <1>4
<1>7. ASSUME NEW d \in Cases, d # c
      PROVE  /\ trail'[d] = trail[d] /\ assignments'[d] = assignments[d]
             /\ d \in DOMAIN cases <=> d \in DOMAIN cases'
             /\ d \in DOMAIN cases => cases'[d] = cases[d]
  BY <1>3, <1>7 DEF TypeOK, CreateCase, InsertAssignment
<1> HIDE DEF row
<1>8. DOMAIN cases' = DOMAIN cases \cup {c} /\ cases'[c] = row
  BY <1>3
<1> QED
  BY <1>6, <1>7, <1>8 DEF TrailTellsStatus, TrailsOfCases, TypeOK

\* One event of another kind keeps every walk.
LEMMA AppendKeepsWalk ==
  ASSUME WalkInv, NEW c \in DOMAIN cases, NEW e \in Events,
         e.action # "CASE_STATUS_CHANGED",
         AppendActivity(c, <<e>>), UNCHANGED cases, OthersKeepAssignments(c)
  PROVE  TrailTellsStatus' /\ TrailsOfCases'
<1> USE DEF WalkInv
<1>1. c \in Cases /\ trail[c] \in Seq(Events)
  BY DEF TypeOK
<1>2. trail' = [trail EXCEPT ![c] = trail[c] \o <<e>>]
  BY DEF AppendActivity, TypeOK
<1>3. TellsStatus(trail[c] \o <<e>>, cases[c])
  BY <1>1, OtherEventKeepsWalk DEF TrailTellsStatus
<1>4. /\ trail'[c] = trail[c] \o <<e>>
      /\ \A d \in Cases : d # c => trail'[d] = trail[d]
  BY <1>1, <1>2 DEF TypeOK
<1> QED
  BY <1>1, <1>3, <1>4
  DEF TrailTellsStatus, TrailsOfCases, OthersKeepAssignments, TypeOK

\* A transition extends the walk of its case.
LEMMA TransitionKeepsWalk ==
  ASSUME WalkInv, NEW c \in Cases, NEW target \in Statuses, NEW expected,
         NEW by \in Users, TransitionCase(c, target, expected, by)
  PROVE  TrailTellsStatus' /\ TrailsOfCases'
<1> USE DEF WalkInv
<1> DEFINE e == StatusChanged(by, cases[c].status, target)
           new == [status |-> target, version |-> cases[c].version + 1]
<1>1. c \in DOMAIN cases /\ cases[c] \in CaseRows /\ trail[c] \in Seq(Events)
  BY DEF TransitionCase, TransitionAccepted, CaseExists, TypeOK
<1>2. TellsStatus(trail[c] \o <<e>>, new)
  BY <1>1, ChangeExtendsWalk DEF TrailTellsStatus
<1>3. cases' = [cases EXCEPT ![c] = new]
  BY DEF TransitionCase
<1>4. trail' = [trail EXCEPT ![c] = trail[c] \o <<e>>]
  BY DEF TransitionCase, AppendActivity, TypeOK
<1> HIDE DEF e, new
<1>5. /\ trail'[c] = trail[c] \o <<e>>
      /\ \A d \in Cases : d # c => trail'[d] = trail[d]
  BY <1>1, <1>4 DEF TypeOK
<1>6. /\ DOMAIN cases' = DOMAIN cases /\ cases'[c] = new
      /\ \A d \in DOMAIN cases : d # c => cases'[d] = cases[d]
  BY <1>1, <1>3 DEF TypeOK
<1>7. TrailTellsStatus'
  <2>1. ASSUME NEW d \in DOMAIN cases PROVE TellsStatus(trail'[d], cases'[d])
    <3>1. TellsStatus(trail[d], cases[d]) /\ d \in Cases
      BY DEF TrailTellsStatus, TypeOK
    <3> QED
      BY <1>2, <1>5, <1>6, <3>1
  <2> QED
    BY <1>6, <2>1 DEF TrailTellsStatus, TellsStatus
<1>8. TrailsOfCases'
  BY <1>1, <1>5, <1>6 DEF TrailsOfCases, TransitionCase
<1> QED
  BY <1>7, <1>8

\* No case, no event.
LEMMA InitWalk ==
  ASSUME Init PROVE WalkInv
<1>1. TrailTellsStatus /\ TrailsOfCases
  BY DEF Init, TrailTellsStatus, TrailsOfCases
<1> QED
  BY <1>1, InitTyped DEF WalkInv

\* An operation extends the walk in the trail as it moves the row.
LEMMA OperationWalk ==
  ASSUME WalkInv, NEW c \in Cases, NEW u \in Users, Operation(c, u)
  PROVE  WalkInv'
<1>1. TypeOK'
  BY OperationTyped DEF WalkInv
<1>3. TypeOK
  BY DEF WalkInv
<1>4. CASE CreateCase(c, u)
  BY <1>1, <1>4, CreateKeepsWalk DEF WalkInv
<1>5. ASSUME NEW v \in Users, AssignUser(c, v, u) PROVE WalkInv'
  <2>1. Granted(u, v, NewAssignment(c)) \in Events
    BY <1>3, EventTypes, NewAssignmentType
  <2>2. Granted(u, v, NewAssignment(c)).action # "CASE_STATUS_CHANGED"
    BY DEF Granted
  <2>3. OthersKeepAssignments(c)
    BY <1>3, <1>5 DEF AssignUser, InsertAssignment, OthersKeepAssignments, TypeOK
  <2> QED
    BY <2>1, <2>2, <2>3, <1>1, <1>5, AppendKeepsWalk
    DEF WalkInv, AssignUser, AssignAccepted, CaseExists
<1>6. ASSUME NEW v \in Users, RevokeUser(c, v, u) PROVE WalkInv'
  <2> DEFINE a == CHOOSE a \in ActiveAssignments(c, v) : TRUE
  <2>1. a \in DOMAIN assignments[c] /\ assignments[c] \in Seq(AssignmentRows)
    BY <1>3, <1>6 DEF RevokeUser, RevokeAccepted, HasAccess, ActiveAssignments, TypeOK
  <2>2. AppendActivity(c, <<Revoked(u, v, a)>>) /\ UNCHANGED cases
    BY <1>6 DEF RevokeUser
  <2> HIDE DEF a
  <2>3. a \in Nat \ {0}
    BY <2>1
  <2>4. Revoked(u, v, a) \in Events
    BY <2>3, EventTypes
  <2>5. Revoked(u, v, a).action # "CASE_STATUS_CHANGED"
    BY DEF Revoked
  <2>6. c \in DOMAIN cases
    BY <1>3, <1>6, <2>1 DEF WalkInv, TrailsOfCases
  <2>7. OthersKeepAssignments(c)
    BY <1>3, <1>6 DEF RevokeUser, OthersKeepAssignments, TypeOK
  <2> QED
    BY <2>2, <2>4, <2>5, <2>6, <2>7, <1>1, AppendKeepsWalk DEF WalkInv
<1>7. ASSUME NEW target \in Statuses, NEW expected \in Nat,
             TransitionCase(c, target, expected, u)
      PROVE  WalkInv'
  BY <1>1, <1>7, TransitionKeepsWalk DEF WalkInv
<1>8. ASSUME NEW x \in Exhibits, AddExhibit(c, x, u) PROVE WalkInv'
  <2>1. Registered(u, x) \in Events
    BY EventTypes
  <2>2. Registered(u, x).action # "CASE_STATUS_CHANGED"
    BY DEF Registered
  <2> QED
    BY <2>1, <2>2, <1>1, <1>8, AppendKeepsWalk
    DEF WalkInv, AddExhibit, ExhibitAccepted, CaseExists, OthersKeepAssignments
<1>9. ASSUME NEW a \in OtherActions, RecordActivity(c, a, u) PROVE WalkInv'
  <2>1. Recorded(u, a) \in Events
    BY EventTypes
  <2>2. Recorded(u, a).action # "CASE_STATUS_CHANGED"
    BY OtherActionsApart DEF Recorded
  <2> QED
    BY <2>1, <2>2, <1>1, <1>9, AppendKeepsWalk
    DEF WalkInv, RecordActivity, CaseExists, OthersKeepAssignments
<1> QED
  BY <1>4, <1>5, <1>6, <1>7, <1>8, <1>9 DEF Operation

\* So does a step.
LEMMA StepWalk ==
  ASSUME WalkInv, Next PROVE WalkInv'
BY StepOperates, OperationWalk

\* The activity trail alone tells the status and version of every case, at any
\* moment: no transaction leaves a change out of it or writes one twice.
THEOREM TrailAlwaysTellsStatus == Spec => []TrailTellsStatus
<1>1. WalkInv /\ UNCHANGED caseVars => WalkInv'
  BY DEF WalkInv, TypeOK, TrailTellsStatus, TrailsOfCases, caseVars
<1>2. WalkInv => TrailTellsStatus
  BY DEF WalkInv
<1> QED
  BY InitWalk, StepWalk, <1>1, <1>2, PTL DEF Spec

-----------------------------------------------------------------------------
\* The register implements the lifecycle.

\* An empty register is a lifecycle in which no case is open.
LEMMA InitStage ==
  ASSUME Init PROVE Lifecycle!Init
BY DEF Init, Lifecycle!Init, Stage, CaseExists

\* A legal move of a status is one move of its stage.
LEMMA MoveOfStage ==
  ASSUME NEW s \in Statuses, NEW t \in AllowedTransitions[s]
  PROVE  \/ StageOf[s] \in 1 .. 6 /\ StageOf[t] = StageOf[s] + 1
         \/ StageOf[s] \in 2 .. 6 /\ StageOf[t] = IF StageOf[s] = 6 THEN 4
                                                  ELSE StageOf[s] - 1
BY DEF Statuses, AllowedTransitions, StageOf

\* Creating a case opens it.
LEMMA CreateStage ==
  ASSUME TypeOK, NEW c \in Cases, NEW u \in Users, CreateCase(c, u)
  PROVE  Lifecycle!Open(c)
<1>1. Stage[c] = 0
  BY DEF CreateCase, CreateAccepted, Stage
<1>2. /\ DOMAIN cases' = DOMAIN cases \cup {c}
      /\ cases'[c].status = "intake"
      /\ \A d \in DOMAIN cases : d # c => cases'[d] = cases[d]
  BY DEF CreateCase
<1>3. StageOf["intake"] = 1
  BY DEF StageOf, Statuses
<1>4. Stage' = [Stage EXCEPT ![c] = 1]
  BY <1>2, <1>3 DEF Stage, CaseExists
<1> QED
  BY <1>1, <1>4 DEF Lifecycle!Open, Lifecycle!First

\* A transition advances the case or sends it back.
LEMMA TransitionStage ==
  ASSUME TypeOK, NEW c \in Cases, NEW target \in Statuses, NEW expected,
         NEW by \in Users, TransitionCase(c, target, expected, by)
  PROVE  Lifecycle!Advance(c) \/ Lifecycle!SendBack(c)
<1>1. c \in DOMAIN cases /\ cases[c].status \in Statuses
  BY DEF TransitionCase, TransitionAccepted, CaseExists, TypeOK, CaseRows
<1>2. target \in AllowedTransitions[cases[c].status]
  BY DEF TransitionCase, TransitionAccepted
<1>3. /\ DOMAIN cases' = DOMAIN cases
      /\ cases'[c].status = target
      /\ \A d \in DOMAIN cases : d # c => cases'[d] = cases[d]
  BY <1>1 DEF TransitionCase, TypeOK
<1>4. Stage' = [Stage EXCEPT ![c] = StageOf[target]]
  BY <1>1, <1>3 DEF Stage, CaseExists
<1>5. Stage[c] = StageOf[cases[c].status]
  BY <1>1 DEF Stage, CaseExists
<1>6. \/ Stage[c] \in 1 .. 6 /\ StageOf[target] = Stage[c] + 1
      \/ Stage[c] \in 2 .. 6 /\ StageOf[target] = IF Stage[c] = 6 THEN 4
                                                   ELSE Stage[c] - 1
  BY <1>1, <1>2, <1>5, MoveOfStage
<1> HIDE DEF Stage
<1>7. CASE Stage[c] \in 1 .. 6 /\ StageOf[target] = Stage[c] + 1
  BY <1>4, <1>7 DEF Lifecycle!Advance, Lifecycle!First, Lifecycle!Last
<1>8. CASE Stage[c] \in 2 .. 6 /\ StageOf[target] = IF Stage[c] = 6 THEN 4
                                                     ELSE Stage[c] - 1
  BY <1>4, <1>8
  DEF Lifecycle!SendBack, Lifecycle!First, Lifecycle!Approved, Lifecycle!Review
<1> QED
  BY <1>6, <1>7, <1>8

\* Every other operation leaves the stage where it is,
LEMMA OperationStage ==
  ASSUME TypeOK, NEW c \in Cases, NEW u \in Users, Operation(c, u)
  PROVE  Lifecycle!Next \/ UNCHANGED Stage
<1>2. CASE CreateCase(c, u)
  BY <1>2, CreateStage DEF Lifecycle!Next
<1>3. CASE \E target \in Statuses, expected \in Nat : TransitionCase(c, target, expected, u)
  BY <1>3, TransitionStage DEF Lifecycle!Next
<1>4. CASE UNCHANGED cases
  BY <1>4 DEF Stage, CaseExists
<1> QED
  BY <1>2, <1>3, <1>4 DEF Operation, AssignUser, RevokeUser, AddExhibit, RecordActivity

\* so each step is a step of the lifecycle or none.
LEMMA StepStage ==
  ASSUME TypeOK, Next PROVE Lifecycle!Next \/ UNCHANGED Stage
BY StepOperates, OperationStage

\* Every run of the register is a run of the lifecycle it promises: stages are
\* passed one at a time and in order, and a closed case stays closed.
THEOREM RegisterImplementsLifecycle == Spec => ImplementsLifecycle
<1>1. UNCHANGED caseVars => UNCHANGED Stage
  BY DEF caseVars, Stage, CaseExists
<1> QED
  BY InitStage, StepStage, TypeCorrect, <1>1, PTL
  DEF Spec, ImplementsLifecycle, Lifecycle!Spec
-----------------------------------------------------------------------------
\* Closing rests on the current approval.

\* What the changes so far must show when a case is in one of its last statuses.
Reviewed(events, s) ==
  /\ s \in Changes(events) /\ events[s].to = "supervisor-review"
  /\ \A i \in Changes(events) : events[i].to = "examiner-review" => i < s

Backed(events, status) ==
  /\ status = "supervisor-review" => \E s \in Changes(events) : Reviewed(events, s)
  /\ status \in {"approved", "closed"} =>
       \E s, a \in Changes(events) :
         Reviewed(events, s) /\ s < a /\ events[a].to = "approved"

ApprovalInv == WalkInv /\ \A c \in DOMAIN cases : Backed(trail[c], cases[c].status)

\* An operation opens a case, moves one, or appends an event of another kind.
LEMMA OperationAppends ==
  ASSUME WalkInv, NEW c \in Cases, NEW u \in Users, Operation(c, u)
  PROVE  \/ CreateCase(c, u)
         \/ \E target \in Statuses, expected \in Nat : TransitionCase(c, target, expected, u)
         \/ /\ UNCHANGED cases
            /\ \E e \in Events : /\ e.action # "CASE_STATUS_CHANGED"
                                /\ AppendActivity(c, <<e>>)
<1> DEFINE Other == /\ UNCHANGED cases
                    /\ \E e \in Events : /\ e.action # "CASE_STATUS_CHANGED"
                                        /\ AppendActivity(c, <<e>>)
<1>2. ASSUME NEW v \in Users, AssignUser(c, v, u) PROVE Other
  <2>1. Granted(u, v, NewAssignment(c)) \in Events
    BY EventTypes, NewAssignmentType DEF WalkInv
  <2>2. Granted(u, v, NewAssignment(c)).action # "CASE_STATUS_CHANGED"
    BY DEF Granted
  <2> QED
    BY <1>2, <2>1, <2>2 DEF AssignUser
<1>3. ASSUME NEW v \in Users, RevokeUser(c, v, u) PROVE Other
  <2> DEFINE a == CHOOSE a \in ActiveAssignments(c, v) : TRUE
  <2>1. a \in DOMAIN assignments[c] /\ assignments[c] \in Seq(AssignmentRows)
    BY <1>3 DEF RevokeUser, RevokeAccepted, HasAccess, ActiveAssignments, WalkInv, TypeOK
  <2>2. AppendActivity(c, <<Revoked(u, v, a)>>) /\ UNCHANGED cases
    BY <1>3 DEF RevokeUser
  <2> HIDE DEF a
  <2>3. a \in Nat \ {0}
    BY <2>1
  <2>4. Revoked(u, v, a) \in Events
    BY <2>3, EventTypes
  <2>5. Revoked(u, v, a).action # "CASE_STATUS_CHANGED"
    BY DEF Revoked
  <2> QED
    BY <2>2, <2>4, <2>5
<1>4. ASSUME NEW x \in Exhibits, AddExhibit(c, x, u) PROVE Other
  <2>1. Registered(u, x) \in Events /\ Registered(u, x).action # "CASE_STATUS_CHANGED"
    BY EventTypes DEF Registered
  <2> QED
    BY <1>4, <2>1 DEF AddExhibit
<1>5. ASSUME NEW a \in OtherActions, RecordActivity(c, a, u) PROVE Other
  <2>1. Recorded(u, a) \in Events /\ Recorded(u, a).action # "CASE_STATUS_CHANGED"
    BY EventTypes, OtherActionsApart DEF Recorded
  <2> QED
    BY <1>5, <2>1 DEF RecordActivity
<1> HIDE DEF Other
<1>6. \/ CreateCase(c, u)
      \/ \E target \in Statuses, expected \in Nat : TransitionCase(c, target, expected, u)
      \/ Other
  BY <1>2, <1>3, <1>4, <1>5 DEF Operation
<1> QED
  BY <1>6 DEF Other

\* An event of another kind backs what was backed.
LEMMA OtherEventKeepsBacking ==
  ASSUME NEW events \in Seq(Events), NEW e \in Events, NEW status,
         e.action # "CASE_STATUS_CHANGED", Backed(events, status)
  PROVE  Backed(events \o <<e>>, status)
<1> DEFINE longer == events \o <<e>>
<1>1. /\ DOMAIN longer = DOMAIN events \cup {Len(events) + 1}
      /\ longer[Len(events) + 1] = e
      /\ \A i \in DOMAIN events : longer[i] = events[i]
  BY AppendedEvent
<1> HIDE DEF longer
<1>2. Changes(longer) = Changes(events) /\ \A i \in Changes(events) : longer[i] = events[i]
  BY <1>1 DEF Changes
<1>3. \A s \in Changes(events) : Reviewed(events, s) => Reviewed(longer, s)
  BY <1>2 DEF Reviewed
<1>4. Backed(longer, status)
  BY <1>2, <1>3 DEF Backed
<1> QED
  BY <1>4 DEF longer

\* A legal change is backed by the changes before it and itself.
LEMMA ChangeKeepsBacking ==
  ASSUME NEW events \in Seq(Events), NEW status \in Statuses, NEW by \in Users,
         NEW target \in AllowedTransitions[status], Backed(events, status)
  PROVE  Backed(events \o <<StatusChanged(by, status, target)>>, target)
<1> DEFINE e == StatusChanged(by, status, target)
           longer == events \o <<e>>
           n == Len(events) + 1
<1>1. e \in Events
  BY TransitionTarget, EventTypes
<1>2. e.action = "CASE_STATUS_CHANGED" /\ e.to = target
  BY DEF StatusChanged
<1>3. /\ DOMAIN longer = DOMAIN events \cup {n}
      /\ n \notin DOMAIN events /\ longer[n] = e
      /\ \A i \in DOMAIN events : longer[i] = events[i]
  BY <1>1, AppendedEvent
<1>4. Len(events) \in Nat /\ Changes(events) \subseteq 1 .. Len(events)
  BY ChangesFinite
<1> HIDE DEF e, longer
<1>5. Changes(longer) = Changes(events) \cup {n}
  BY <1>2, <1>3 DEF Changes
<1>6. \A i \in Changes(events) : i \in Nat /\ i < n /\ longer[i] = events[i]
  BY <1>3, <1>4 DEF Changes
<1>7. ASSUME target # "examiner-review"
      PROVE  \A s \in Changes(events) : Reviewed(events, s) => Reviewed(longer, s)
  BY <1>2, <1>3, <1>5, <1>6, <1>7 DEF Reviewed
<1>8. CASE target = "supervisor-review"
  <2>1. \A i \in Changes(longer) : longer[i].to = "examiner-review" => i < n
    BY <1>2, <1>3, <1>5, <1>6, <1>8
  <2>2. Reviewed(longer, n)
    BY <1>2, <1>3, <1>5, <1>8, <2>1 DEF Reviewed
  <2> QED
    BY <1>5, <1>8, <2>2 DEF Backed, longer, e
<1>9. CASE target = "approved"
  <2>1. status = "supervisor-review"
    BY <1>9 DEF AllowedTransitions, Statuses
  <2>2. PICK s \in Changes(events) : Reviewed(events, s)
    BY <2>1 DEF Backed
  <2>3. Reviewed(longer, s) /\ s < n /\ s \in Changes(longer) /\ n \in Changes(longer)
        /\ longer[n].to = "approved"
    BY <1>2, <1>3, <1>5, <1>6, <1>7, <1>9, <2>2
  <2> QED
    BY <1>9, <2>3 DEF Backed, longer, e
<1>10. CASE target = "closed"
  <2>1. status = "approved"
    BY <1>10 DEF AllowedTransitions, Statuses
  <2>2. PICK s, a \in Changes(events) : Reviewed(events, s) /\ s < a /\ events[a].to = "approved"
    BY <2>1 DEF Backed
  <2>3. /\ s \in Changes(longer) /\ a \in Changes(longer)
        /\ Reviewed(longer, s) /\ s < a /\ longer[a].to = "approved"
    BY <1>5, <1>6, <1>7, <1>10, <2>2
  <2> QED
    BY <1>10, <2>3 DEF Backed, longer, e
<1>11. CASE target \notin {"supervisor-review", "approved", "closed"}
  BY <1>11 DEF Backed
<1> QED
  BY <1>8, <1>9, <1>10, <1>11

\* An operation leaves an approved or closed case with its approval in the trail.
LEMMA OperationBacked ==
  ASSUME ApprovalInv, NEW c \in Cases, NEW u \in Users, Operation(c, u)
  PROVE  ApprovalInv'
<1>0. WalkInv /\ WalkInv' /\ TypeOK
  BY OperationWalk DEF ApprovalInv, WalkInv
<1>1. \/ CreateCase(c, u)
      \/ \E target \in Statuses, expected \in Nat : TransitionCase(c, target, expected, u)
      \/ /\ UNCHANGED cases
         /\ \E e \in Events : /\ e.action # "CASE_STATUS_CHANGED"
                             /\ AppendActivity(c, <<e>>)
  BY <1>0, OperationAppends
<1>2. trail[c] \in Seq(Events)
  BY <1>0 DEF TypeOK
<1>3. CASE CreateCase(c, u)
  <2>1. /\ DOMAIN cases' = DOMAIN cases \cup {c} /\ cases'[c].status = "intake"
        /\ \A d \in DOMAIN cases : d # c => cases'[d] = cases[d]
        /\ \A d \in Cases : d # c => trail'[d] = trail[d]
    BY <1>0, <1>3 DEF CreateCase, AppendActivity, TypeOK
  <2>2. Backed(trail'[c], cases'[c].status)
    BY <2>1 DEF Backed
  <2> QED
    BY <1>0, <2>1, <2>2 DEF ApprovalInv, TypeOK
<1>4. ASSUME NEW target \in Statuses, NEW expected, TransitionCase(c, target, expected, u)
      PROVE  ApprovalInv'
  <2>1. /\ c \in DOMAIN cases /\ cases[c].status \in Statuses
        /\ target \in AllowedTransitions[cases[c].status]
    BY <1>0, <1>4 DEF TransitionCase, TransitionAccepted, CaseExists, TypeOK, CaseRows
  <2>2. /\ DOMAIN cases' = DOMAIN cases /\ cases'[c].status = target
        /\ \A d \in DOMAIN cases : d # c => cases'[d] = cases[d]
        /\ trail'[c] = trail[c] \o <<StatusChanged(u, cases[c].status, target)>>
        /\ \A d \in Cases : d # c => trail'[d] = trail[d]
    BY <1>0, <1>4, <2>1 DEF TransitionCase, AppendActivity, TypeOK
  <2>3. Backed(trail'[c], cases'[c].status)
    BY <1>2, <2>1, <2>2, ChangeKeepsBacking DEF ApprovalInv
  <2> QED
    BY <1>0, <2>2, <2>3 DEF ApprovalInv, TypeOK
<1>5. ASSUME UNCHANGED cases, NEW e \in Events, e.action # "CASE_STATUS_CHANGED",
             AppendActivity(c, <<e>>)
      PROVE  ApprovalInv'
  <2>1. /\ trail'[c] = trail[c] \o <<e>>
        /\ \A d \in Cases : d # c => trail'[d] = trail[d]
    BY <1>0, <1>5 DEF AppendActivity, TypeOK
  <2>2. c \in DOMAIN cases => Backed(trail'[c], cases[c].status)
    BY <1>2, <1>5, <2>1, OtherEventKeepsBacking DEF ApprovalInv
  <2> QED
    BY <1>0, <1>5, <2>1, <2>2 DEF ApprovalInv, TypeOK
<1> QED
  BY <1>1, <1>3, <1>4, <1>5

\* So does a step.
LEMMA StepBacked ==
  ASSUME ApprovalInv, Next PROVE ApprovalInv'
BY StepOperates, OperationBacked

\* Nobody closes a case on an approval that was taken back: supervisor review
\* and approval follow the last return to the examiner, for any number of
\* cases, users and send-backs.
THEOREM ClosingRestsOnApproval == Spec => []ClosedOnCurrentApproval
<1>1. Init => ApprovalInv
  BY InitWalk DEF ApprovalInv, Init
<1>2. ApprovalInv /\ [Next]_caseVars => ApprovalInv'
  <2>1. ApprovalInv /\ UNCHANGED caseVars => ApprovalInv'
    BY DEF ApprovalInv, WalkInv, TypeOK, TrailTellsStatus, TrailsOfCases, caseVars
  <2> QED
    BY <2>1, StepBacked
<1>3. ApprovalInv => ClosedOnCurrentApproval
  BY DEF ApprovalInv, Backed, Reviewed, ClosedOnCurrentApproval, StatusChanges
<1> QED
  BY <1>1, <1>2, <1>3, PTL DEF Spec

-----------------------------------------------------------------------------
\* History only grows.

TrailsGrow ==
  \A c \in Cases : \A i \in DOMAIN trail[c] :
    i \in DOMAIN trail'[c] /\ trail'[c][i] = trail[c][i]

RowKept(old, new) ==
  /\ new.user = old.user /\ new.assignedBy = old.assignedBy
  /\ old.revokedBy # NotRevoked => new = old

AssignmentsKept ==
  \A c \in Cases : \A a \in DOMAIN assignments[c] :
    a \in DOMAIN assignments'[c] /\ RowKept(assignments[c][a], assignments'[c][a])

VersionsRise ==
  \A c \in DOMAIN cases :
    /\ c \in DOMAIN cases' /\ cases'[c].version >= cases[c].version
    /\ cases[c].status # cases'[c].status => cases'[c].version > cases[c].version

\* Appending to one trail leaves what every trail held.
LEMMA AppendGrows ==
  ASSUME TypeOK, NEW c \in Cases, NEW events \in Seq(Events), AppendActivity(c, events)
  PROVE  TrailsGrow
<1>1. trail[c] \in Seq(Events)
  BY DEF TypeOK
<1>2. \A i \in DOMAIN trail[c] : /\ i \in DOMAIN (trail[c] \o events)
                                 /\ (trail[c] \o events)[i] = trail[c][i]
  BY <1>1
<1>3. trail' = [trail EXCEPT ![c] = trail[c] \o events]
  BY DEF AppendActivity
<1> QED
  BY <1>2, <1>3 DEF TrailsGrow, TypeOK

\* A new row leaves the rows that are there.
LEMMA InsertKeeps ==
  ASSUME TypeOK, NEW c \in Cases, NEW u, NEW by, InsertAssignment(c, u, by)
  PROVE  AssignmentsKept
<1> DEFINE row == [user |-> u, assignedBy |-> by, revokedBy |-> NotRevoked]
<1>1. assignments[c] \in Seq(AssignmentRows)
  BY DEF TypeOK
<1>2. assignments' = [assignments EXCEPT ![c] = Append(assignments[c], row)]
  BY DEF InsertAssignment
<1> HIDE DEF row
<1>3. \A a \in DOMAIN assignments[c] : /\ a \in DOMAIN Append(assignments[c], row)
                                       /\ Append(assignments[c], row)[a] = assignments[c][a]
  BY <1>1
<1>4. \A d \in Cases : \A a \in DOMAIN assignments[d] :
        a \in DOMAIN assignments'[d] /\ assignments'[d][a] = assignments[d][a]
  BY <1>2, <1>3 DEF TypeOK
<1> QED
  BY <1>4 DEF AssignmentsKept, RowKept

\* A revocation writes one field of one row, which was open.
LEMMA RevokeKeeps ==
  ASSUME TypeOK, NEW c \in Cases, NEW u \in Users, NEW by \in Users, RevokeUser(c, u, by)
  PROVE  AssignmentsKept /\ TrailsGrow
<1> DEFINE a == CHOOSE a \in ActiveAssignments(c, u) : TRUE
<1>1. a \in ActiveAssignments(c, u)
  BY DEF RevokeUser, RevokeAccepted, HasAccess
<1>2. /\ a \in DOMAIN assignments[c] /\ assignments[c] \in Seq(AssignmentRows)
      /\ assignments[c][a].revokedBy = NotRevoked
  BY <1>1 DEF ActiveAssignments, TypeOK
<1>3. /\ assignments' = [assignments EXCEPT ![c][a].revokedBy = by]
      /\ AppendActivity(c, <<Revoked(by, u, a)>>)
  BY DEF RevokeUser
<1> HIDE DEF a
<1>4. TrailsGrow
  <2>1. <<Revoked(by, u, a)>> \in Seq(Events)
    BY <1>2, EventTypes
  <2> QED
    BY <2>1, <1>3, AppendGrows
<1>5. \A d \in Cases : d # c => assignments'[d] = assignments[d]
  BY <1>3 DEF TypeOK
<1>6. assignments'[c] = [assignments[c] EXCEPT ![a] = [assignments[c][a] EXCEPT !.revokedBy = by]]
  BY <1>3 DEF TypeOK
<1>7. assignments[c][a] \in AssignmentRows
  BY <1>2
<1>8. \A b \in DOMAIN assignments[c] :
        b \in DOMAIN assignments'[c] /\ RowKept(assignments[c][b], assignments'[c][b])
  <2> TAKE b \in DOMAIN assignments[c]
  <2>1. CASE b = a
    BY <2>1, <1>2, <1>6, <1>7 DEF RowKept, AssignmentRows
  <2>2. CASE b # a
    BY <2>2, <1>6 DEF RowKept
  <2> QED
    BY <2>1, <2>2
<1> QED
  BY <1>4, <1>5, <1>8 DEF AssignmentsKept, RowKept

\* A status change raises the version of its case and of no other.
LEMMA TransitionRaises ==
  ASSUME TypeOK, NEW c \in Cases, NEW target \in Statuses, NEW expected,
         NEW by \in Users, TransitionCase(c, target, expected, by)
  PROVE  VersionsRise
<1>1. c \in DOMAIN cases /\ \A d \in DOMAIN cases : cases[d].version \in Nat
  BY DEF TransitionCase, TransitionAccepted, CaseExists, TypeOK, CaseRows
<1>2. /\ DOMAIN cases' = DOMAIN cases
      /\ cases'[c].version = cases[c].version + 1
      /\ \A d \in DOMAIN cases : d # c => cases'[d] = cases[d]
  BY <1>1 DEF TransitionCase, TypeOK
<1> QED
  BY <1>1, <1>2 DEF VersionsRise

\* A table that is left alone has neither shrunk nor been rewritten.
LEMMA UnchangedKept ==
  ASSUME TypeOK
  PROVE  /\ UNCHANGED trail => TrailsGrow
         /\ UNCHANGED assignments => AssignmentsKept
         /\ UNCHANGED cases => VersionsRise
<1>1. \A c \in DOMAIN cases : cases[c].version \in Nat
  BY DEF TypeOK, CaseRows
<1> QED
  BY <1>1 DEF TrailsGrow, AssignmentsKept, RowKept, VersionsRise

\* An operation only adds to trails, assignments and versions.
LEMMA OperationGrows ==
  ASSUME TypeOK, NEW c \in Cases, NEW u \in Users, Operation(c, u)
  PROVE  TrailsGrow /\ AssignmentsKept /\ VersionsRise
<1> DEFINE Grown == TrailsGrow /\ AssignmentsKept /\ VersionsRise
<1>2. ASSUME CreateCase(c, u) PROVE Grown
  <2>1. <<Created(u), Granted(u, u, NewAssignment(c))>> \in Seq(Events)
    <3>1. Created(u) \in Events /\ Granted(u, u, NewAssignment(c)) \in Events
      BY EventTypes, NewAssignmentType
    <3> QED
      BY <3>1
  <2>2. VersionsRise
    <3>1. \A d \in DOMAIN cases : cases[d].version \in Nat
      BY DEF TypeOK, CaseRows
    <3>2. \A d \in DOMAIN cases : d \in DOMAIN cases' /\ cases'[d] = cases[d]
      BY <1>2 DEF CreateCase, CreateAccepted, CaseExists
    <3> QED
      BY <3>1, <3>2 DEF VersionsRise
  <2> QED
    BY <1>2, <2>1, <2>2, AppendGrows, InsertKeeps DEF CreateCase
<1>3. ASSUME NEW v \in Users, AssignUser(c, v, u) PROVE Grown
  <2>1. <<Granted(u, v, NewAssignment(c))>> \in Seq(Events)
    BY EventTypes, NewAssignmentType
  <2> QED
    BY <1>3, <2>1, AppendGrows, InsertKeeps, UnchangedKept DEF AssignUser
<1>4. ASSUME NEW v \in Users, RevokeUser(c, v, u) PROVE Grown
  BY <1>4, RevokeKeeps, UnchangedKept DEF RevokeUser
<1>5. ASSUME NEW target \in Statuses, NEW expected, TransitionCase(c, target, expected, u)
      PROVE  Grown
  <2>1. cases[c].status \in Statuses
    BY <1>5 DEF TransitionCase, TransitionAccepted, CaseExists, TypeOK, CaseRows
  <2>2. <<StatusChanged(u, cases[c].status, target)>> \in Seq(Events)
    BY <2>1, EventTypes
  <2> QED
    BY <1>5, <2>2, AppendGrows, TransitionRaises, UnchangedKept DEF TransitionCase
<1>6. ASSUME NEW x \in Exhibits, AddExhibit(c, x, u) PROVE Grown
  <2>1. <<Registered(u, x)>> \in Seq(Events)
    BY EventTypes
  <2> QED
    BY <1>6, <2>1, AppendGrows, UnchangedKept DEF AddExhibit
<1>7. ASSUME NEW a \in OtherActions, RecordActivity(c, a, u) PROVE Grown
  <2>1. <<Recorded(u, a)>> \in Seq(Events)
    BY EventTypes
  <2> QED
    BY <1>7, <2>1, AppendGrows, UnchangedKept DEF RecordActivity
<1> HIDE DEF Grown
<1>8. Grown
  BY <1>2, <1>3, <1>4, <1>5, <1>6, <1>7 DEF Operation
<1> QED
  BY <1>8 DEF Grown

\* No operation of the register rewrites recorded history: trails are extended,
\* assignment rows kept but for the revocation of an open one, versions rise.
THEOREM HistoryAlwaysGrows == Spec => HistoryOnlyGrows
<1>1. TypeOK /\ [Next]_caseVars => [TrailsGrow /\ AssignmentsKept /\ VersionsRise]_caseVars
  BY StepOperates, OperationGrows
<1>2. TypeOK /\ [TrailsGrow /\ AssignmentsKept /\ VersionsRise]_caseVars =>
        [\A c \in Cases :
           /\ \A i \in DOMAIN trail[c] :
                i \in DOMAIN trail'[c] /\ trail'[c][i] = trail[c][i]
           /\ \A a \in DOMAIN assignments[c] :
                /\ a \in DOMAIN assignments'[c]
                /\ assignments'[c][a].user = assignments[c][a].user
                /\ assignments'[c][a].assignedBy = assignments[c][a].assignedBy
                /\ assignments[c][a].revokedBy # NotRevoked
                     => assignments'[c][a] = assignments[c][a]
           /\ c \in DOMAIN cases =>
                /\ c \in DOMAIN cases'
                /\ cases'[c].version >= cases[c].version
                /\ cases[c].status # cases'[c].status
                     => cases'[c].version > cases[c].version]_caseVars
  BY DEF TrailsGrow, AssignmentsKept, RowKept, VersionsRise
<1> QED
  BY <1>1, <1>2, TypeCorrect, PTL DEF Spec, HistoryOnlyGrows
-----------------------------------------------------------------------------
\* The trail tells who has access.

AccessActions == {"CASE_ACCESS_GRANTED", "CASE_ACCESS_REVOKED"}

\* Where events tell of an assignment row, by the kind of event.
Mentions(events, action, a) ==
  {i \in DOMAIN events : events[i].action = action /\ events[i].assignment = a}

Names(event, user, actor) == event.user = user /\ event.actor = actor

\* One grant and, of a revoked row only, one later revocation.
RowTold(events, a, row) ==
  \E i \in DOMAIN events :
    /\ Mentions(events, "CASE_ACCESS_GRANTED", a) = {i}
    /\ Names(events[i], row.user, row.assignedBy)
    /\ \/ /\ row.revokedBy = NotRevoked
          /\ Mentions(events, "CASE_ACCESS_REVOKED", a) = {}
       \/ /\ row.revokedBy # NotRevoked
          /\ \E j \in DOMAIN events :
               /\ Mentions(events, "CASE_ACCESS_REVOKED", a) = {j}
               /\ Names(events[j], row.user, row.revokedBy) /\ i < j

OneOpenRow(rows) ==
  \A a, b \in DOMAIN rows :
    /\ rows[a].user = rows[b].user
    /\ rows[a].revokedBy = NotRevoked /\ rows[b].revokedBy = NotRevoked
    => a = b

TellsAccess(rows, events) ==
  /\ OneOpenRow(rows)
  /\ \A i \in DOMAIN events :
       events[i].action \in AccessActions => events[i].assignment \in DOMAIN rows
  /\ \A a \in DOMAIN rows : RowTold(events, a, rows[a])

AccessInv == WalkInv /\ \A c \in Cases : TellsAccess(assignments[c], trail[c])

\* A row that the last event does not mention is told as before.
LEMMA UnmentionedRow ==
  ASSUME NEW events \in Seq(Events), NEW e \in Events, NEW a, NEW row,
         RowTold(events, a, row),
         e.action \in AccessActions => e.assignment # a
  PROVE  RowTold(events \o <<e>>, a, row)
<1> DEFINE longer == events \o <<e>>
<1>1. /\ DOMAIN longer = DOMAIN events \cup {Len(events) + 1}
      /\ longer[Len(events) + 1] = e
      /\ \A i \in DOMAIN events : longer[i] = events[i]
  BY AppendedEvent
<1> HIDE DEF longer
<1>2. \A action \in AccessActions : Mentions(longer, action, a) = Mentions(events, action, a)
  BY <1>1 DEF Mentions
<1>3. /\ Mentions(longer, "CASE_ACCESS_GRANTED", a) = Mentions(events, "CASE_ACCESS_GRANTED", a)
      /\ Mentions(longer, "CASE_ACCESS_REVOKED", a) = Mentions(events, "CASE_ACCESS_REVOKED", a)
  BY <1>2 DEF AccessActions
<1>4. RowTold(longer, a, row)
  BY <1>1, <1>3 DEF RowTold
<1> QED
  BY <1>4 DEF longer

\* An event of another kind tells nothing of access.
LEMMA OtherEventKeepsAccess ==
  ASSUME NEW rows, NEW events \in Seq(Events), NEW e \in Events,
         e.action \notin AccessActions, TellsAccess(rows, events)
  PROVE  TellsAccess(rows, events \o <<e>>)
<1>1. \A a \in DOMAIN rows : RowTold(events \o <<e>>, a, rows[a])
  BY UnmentionedRow DEF TellsAccess
<1>2. \A i \in DOMAIN (events \o <<e>>) :
        (events \o <<e>>)[i].action \in AccessActions
          => (events \o <<e>>)[i].assignment \in DOMAIN rows
  BY AppendedEvent DEF TellsAccess
<1> QED
  BY <1>1, <1>2 DEF TellsAccess

\* A grant tells of the row it inserts.
LEMMA GrantTells ==
  ASSUME NEW rows \in Seq(AssignmentRows), NEW events \in Seq(Events),
         NEW u \in Users, NEW by \in Users, TellsAccess(rows, events),
         \A a \in DOMAIN rows : rows[a].user = u => rows[a].revokedBy # NotRevoked
  PROVE  TellsAccess(
           Append(rows, [user |-> u, assignedBy |-> by, revokedBy |-> NotRevoked]),
           events \o <<Granted(by, u, Len(rows) + 1)>>)
<1> DEFINE row == [user |-> u, assignedBy |-> by, revokedBy |-> NotRevoked]
           k == Len(rows) + 1
           e == Granted(by, u, k)
           more == Append(rows, row)
           longer == events \o <<e>>
           n == Len(events) + 1
<1>1. e \in Events
  BY EventTypes
<1>2. /\ e.action = "CASE_ACCESS_GRANTED" /\ e.assignment = k
      /\ Names(e, u, by)
  BY DEF Granted, Names
<1>3. /\ DOMAIN longer = DOMAIN events \cup {n}
      /\ n \notin DOMAIN events /\ longer[n] = e
      /\ \A i \in DOMAIN events : longer[i] = events[i]
  BY <1>1, AppendedEvent
<1>4. row \in AssignmentRows
  BY DEF AssignmentRows
<1>5. row.user = u /\ row.assignedBy = by /\ row.revokedBy = NotRevoked
  OBVIOUS
<1> HIDE DEF row
<1>6. /\ DOMAIN more = DOMAIN rows \cup {k}
      /\ k \notin DOMAIN rows /\ more[k] = row
      /\ \A a \in DOMAIN rows : more[a] = rows[a]
  BY <1>4
<1> HIDE DEF e, k, more, longer, n
<1>7. OneOpenRow(more)
  BY <1>5, <1>6 DEF OneOpenRow, TellsAccess
<1>8. \A i \in DOMAIN longer :
        longer[i].action \in AccessActions => longer[i].assignment \in DOMAIN more
  BY <1>2, <1>3, <1>6 DEF TellsAccess
<1>9. ASSUME NEW a \in DOMAIN rows PROVE RowTold(longer, a, more[a])
  <2>1. RowTold(events, a, rows[a]) /\ e.assignment # a
    BY <1>2, <1>6 DEF TellsAccess
  <2> QED
    BY <1>1, <1>6, <2>1, UnmentionedRow DEF longer
<1>10. RowTold(longer, k, row)
  <2>1. \A i \in DOMAIN events : events[i].action \in AccessActions => events[i].assignment # k
    BY <1>6 DEF TellsAccess
  <2>2. Mentions(longer, "CASE_ACCESS_GRANTED", k) = {n}
    BY <1>2, <1>3, <2>1 DEF Mentions, AccessActions
  <2>3. Mentions(longer, "CASE_ACCESS_REVOKED", k) = {}
    BY <1>2, <1>3, <2>1 DEF Mentions, AccessActions
  <2> QED
    BY <1>2, <1>3, <1>5, <2>2, <2>3 DEF RowTold
<1>11. TellsAccess(more, longer)
  BY <1>6, <1>7, <1>8, <1>9, <1>10 DEF TellsAccess
<1> QED
  BY <1>11 DEF more, longer, e, k, row

\* A revocation tells of the open row it closes.
LEMMA RevocationTells ==
  ASSUME NEW rows \in Seq(AssignmentRows), NEW events \in Seq(Events),
         NEW a \in DOMAIN rows, NEW by \in Users, TellsAccess(rows, events),
         rows[a].revokedBy = NotRevoked
  PROVE  TellsAccess([rows EXCEPT ![a].revokedBy = by],
                     events \o <<Revoked(by, rows[a].user, a)>>)
<1> DEFINE e == Revoked(by, rows[a].user, a)
           closed == [rows EXCEPT ![a].revokedBy = by]
           longer == events \o <<e>>
           n == Len(events) + 1
<1>0. rows[a] \in AssignmentRows /\ a \in Nat \ {0}
  OBVIOUS
<1>1. rows[a] \in AssignmentRows /\ rows[a].user \in Users /\ a \in Nat \ {0}
  BY <1>0 DEF AssignmentRows
<1>2. e \in Events
  BY <1>1, EventTypes
<1>3. /\ e.action = "CASE_ACCESS_REVOKED" /\ e.assignment = a
      /\ Names(e, rows[a].user, by)
  BY DEF Revoked, Names
<1>4. /\ DOMAIN longer = DOMAIN events \cup {n}
      /\ n \notin DOMAIN events /\ longer[n] = e
      /\ \A i \in DOMAIN events : longer[i] = events[i] /\ i < n
  <2>1. \A i \in DOMAIN events : i < n
    OBVIOUS
  <2> QED
    BY <1>2, <2>1, AppendedEvent
<1>5. /\ DOMAIN closed = DOMAIN rows
      /\ \A b \in DOMAIN rows : b # a => closed[b] = rows[b]
      /\ closed[a].user = rows[a].user
      /\ closed[a].assignedBy = rows[a].assignedBy
      /\ closed[a].revokedBy = by
  BY <1>1 DEF AssignmentRows
<1>6. by # NotRevoked
  BY CaseNulls
<1> HIDE DEF e, closed, longer, n
<1>7. OneOpenRow(closed)
  BY <1>5, <1>6 DEF OneOpenRow, TellsAccess
<1>8. \A i \in DOMAIN longer :
        longer[i].action \in AccessActions => longer[i].assignment \in DOMAIN closed
  BY <1>3, <1>4, <1>5 DEF TellsAccess
<1>9. ASSUME NEW b \in DOMAIN rows, b # a PROVE RowTold(longer, b, closed[b])
  <2>1. RowTold(events, b, rows[b]) /\ e.assignment # b
    BY <1>3, <1>9 DEF TellsAccess
  <2> QED
    BY <1>2, <1>5, <1>9, <2>1, UnmentionedRow DEF longer
<1>10. RowTold(longer, a, closed[a])
  <2>1. PICK i \in DOMAIN events :
          /\ Mentions(events, "CASE_ACCESS_GRANTED", a) = {i}
          /\ Names(events[i], rows[a].user, rows[a].assignedBy)
          /\ Mentions(events, "CASE_ACCESS_REVOKED", a) = {}
    BY DEF TellsAccess, RowTold
  <2>2. Mentions(longer, "CASE_ACCESS_GRANTED", a) = {i}
    BY <1>3, <1>4, <2>1 DEF Mentions
  <2>3. Mentions(longer, "CASE_ACCESS_REVOKED", a) = {n}
    BY <1>3, <1>4, <2>1 DEF Mentions
  <2> QED
    BY <1>3, <1>4, <1>5, <1>6, <2>1, <2>2, <2>3 DEF RowTold
<1>11. TellsAccess(closed, longer)
  BY <1>5, <1>7, <1>8, <1>9, <1>10 DEF TellsAccess
<1> QED
  BY <1>11 DEF closed, longer, e
\* A step that only appends an event of another kind, for one case.
LEMMA OtherStepKeepsAccess ==
  ASSUME AccessInv, WalkInv', NEW c \in Cases, NEW e \in Events,
         e.action \notin AccessActions, AppendActivity(c, <<e>>), UNCHANGED assignments
  PROVE  AccessInv'
<1>1. TypeOK /\ trail[c] \in Seq(Events)
  BY DEF AccessInv, WalkInv, TypeOK
<1>2. /\ trail'[c] = trail[c] \o <<e>>
      /\ \A d \in Cases : d # c => trail'[d] = trail[d]
  BY <1>1 DEF AppendActivity, TypeOK
<1>3. TellsAccess(assignments[c], trail'[c])
  BY <1>1, <1>2, OtherEventKeepsAccess DEF AccessInv
<1> QED
  BY <1>2, <1>3 DEF AccessInv

\* A grant whose user has no open row, after what the trail told already.
LEMMA GrantStepKeepsAccess ==
  ASSUME AccessInv, WalkInv', NEW c \in Cases, NEW u \in Users, NEW by \in Users,
         ~HasAccess(c, u), InsertAssignment(c, u, by), NEW events \in Seq(Events),
         TellsAccess(assignments[c], events),
         trail' = [trail EXCEPT ![c] = events \o <<Granted(by, u, NewAssignment(c))>>]
  PROVE  AccessInv'
<1>1. TypeOK /\ assignments[c] \in Seq(AssignmentRows)
  BY DEF AccessInv, WalkInv, TypeOK
<1>2. \A a \in DOMAIN assignments[c] :
        assignments[c][a].user = u => assignments[c][a].revokedBy # NotRevoked
  BY DEF HasAccess, ActiveAssignments
<1>3. /\ assignments'[c] = Append(assignments[c],
           [user |-> u, assignedBy |-> by, revokedBy |-> NotRevoked])
      /\ \A d \in Cases : d # c => assignments'[d] = assignments[d]
  BY <1>1 DEF InsertAssignment, TypeOK
<1>4. /\ trail'[c] = events \o <<Granted(by, u, Len(assignments[c]) + 1)>>
      /\ \A d \in Cases : d # c => trail'[d] = trail[d]
  BY <1>1 DEF NewAssignment, TypeOK
<1>5. TellsAccess(assignments'[c], trail'[c])
  BY <1>1, <1>2, <1>3, <1>4, GrantTells
<1> QED
  BY <1>3, <1>4, <1>5 DEF AccessInv

\* Opening a case grants it to the one who opens it.
LEMMA CreateKeepsAccess ==
  ASSUME AccessInv, WalkInv', NEW c \in Cases, NEW u \in Users, CreateCase(c, u)
  PROVE  AccessInv'
<1> DEFINE g == Granted(u, u, NewAssignment(c))
<1>1. TypeOK /\ trail[c] = <<>> /\ assignments[c] = <<>>
  BY DEF AccessInv, WalkInv, CreateCase, CreateAccepted, CaseExists, TrailsOfCases
<1>2. Created(u) \in Events /\ Created(u).action \notin AccessActions
  BY EventTypes DEF Created, AccessActions
<1>3. TellsAccess(assignments[c], trail[c] \o <<Created(u)>>)
  <2>1. trail[c] \in Seq(Events) /\ TellsAccess(assignments[c], trail[c])
    BY <1>1 DEF AccessInv, TypeOK
  <2> QED
    BY <1>2, <2>1, OtherEventKeepsAccess
<1>4. ~HasAccess(c, u)
  BY <1>1 DEF HasAccess, ActiveAssignments
<1>5. g \in Events
  BY <1>1, EventTypes, NewAssignmentType
<1> HIDE DEF g
<1>6. trail[c] \o <<Created(u), g>> = (trail[c] \o <<Created(u)>>) \o <<g>>
  BY <1>1, <1>2, <1>5
<1>7. trail' = [trail EXCEPT ![c] = (trail[c] \o <<Created(u)>>) \o <<g>>]
  BY <1>6 DEF CreateCase, AppendActivity, g
<1>8. trail[c] \o <<Created(u)>> \in Seq(Events)
  BY <1>1, <1>2
<1>9. InsertAssignment(c, u, u)
  BY DEF CreateCase
<1> QED
  BY <1>3, <1>4, <1>7, <1>8, <1>9, GrantStepKeepsAccess DEF g

\* A revocation closes the open row it tells of.
LEMMA RevokeKeepsAccess ==
  ASSUME AccessInv, WalkInv', NEW c \in Cases, NEW u \in Users, NEW by \in Users,
         RevokeUser(c, u, by)
  PROVE  AccessInv'
<1> DEFINE a == CHOOSE a \in ActiveAssignments(c, u) : TRUE
<1>1. a \in ActiveAssignments(c, u)
  BY DEF RevokeUser, RevokeAccepted, HasAccess
<1>2. /\ TypeOK /\ assignments[c] \in Seq(AssignmentRows) /\ trail[c] \in Seq(Events)
      /\ a \in DOMAIN assignments[c] /\ assignments[c][a].user = u
      /\ assignments[c][a].revokedBy = NotRevoked
  BY <1>1 DEF ActiveAssignments, AccessInv, WalkInv, TypeOK
<1>3. /\ assignments' = [assignments EXCEPT ![c][a].revokedBy = by]
      /\ AppendActivity(c, <<Revoked(by, u, a)>>)
  BY DEF RevokeUser
<1> HIDE DEF a
<1>4. /\ assignments'[c] = [assignments[c] EXCEPT ![a].revokedBy = by]
      /\ \A d \in Cases : d # c => assignments'[d] = assignments[d]
  BY <1>2, <1>3 DEF TypeOK
<1>5. /\ trail'[c] = trail[c] \o <<Revoked(by, u, a)>>
      /\ \A d \in Cases : d # c => trail'[d] = trail[d]
  BY <1>2, <1>3 DEF AppendActivity, TypeOK
<1>6. TellsAccess(assignments'[c], trail'[c])
  <2>1. TellsAccess(assignments[c], trail[c])
    BY DEF AccessInv
  <2>2. TellsAccess([assignments[c] EXCEPT ![a].revokedBy = by],
                    trail[c] \o <<Revoked(by, assignments[c][a].user, a)>>)
    BY <1>2, <2>1, RevocationTells
  <2> QED
    BY <1>2, <1>4, <1>5, <2>2
<1> QED
  BY <1>4, <1>5, <1>6 DEF AccessInv

\* An operation keeps the rows of assignments and the events that tell them together.
LEMMA OperationKeepsAccess ==
  ASSUME AccessInv, NEW c \in Cases, NEW u \in Users, Operation(c, u)
  PROVE  AccessInv'
<1>0. WalkInv /\ WalkInv' /\ TypeOK
  BY OperationWalk DEF AccessInv, WalkInv
<1>2. CASE CreateCase(c, u)
  BY <1>0, <1>2, CreateKeepsAccess
<1>3. ASSUME NEW v \in Users, AssignUser(c, v, u) PROVE AccessInv'
  <2>1. trail' = [trail EXCEPT ![c] = trail[c] \o <<Granted(u, v, NewAssignment(c))>>]
    BY <1>3 DEF AssignUser, AppendActivity
  <2>2. trail[c] \in Seq(Events) /\ TellsAccess(assignments[c], trail[c])
    BY <1>0 DEF AccessInv, TypeOK
  <2>3. ~HasAccess(c, v) /\ InsertAssignment(c, v, u)
    BY <1>3 DEF AssignUser, AssignAccepted
  <2> QED
    BY <1>0, <2>1, <2>2, <2>3, GrantStepKeepsAccess
<1>4. ASSUME NEW v \in Users, RevokeUser(c, v, u) PROVE AccessInv'
  BY <1>0, <1>4, RevokeKeepsAccess
<1>5. ASSUME NEW target \in Statuses, NEW expected \in Nat, TransitionCase(c, target, expected, u)
      PROVE  AccessInv'
  <2> DEFINE e == StatusChanged(u, cases[c].status, target)
  <2>1. cases[c].status \in Statuses
    BY <1>0, <1>5 DEF TransitionCase, TransitionAccepted, CaseExists, TypeOK, CaseRows
  <2>2. e \in Events /\ e.action \notin AccessActions
    BY <2>1, EventTypes DEF StatusChanged, AccessActions
  <2> QED
    BY <1>0, <1>5, <2>2, OtherStepKeepsAccess DEF TransitionCase
<1>6. ASSUME NEW x \in Exhibits, AddExhibit(c, x, u) PROVE AccessInv'
  <2>1. Registered(u, x) \in Events /\ Registered(u, x).action \notin AccessActions
    BY EventTypes DEF Registered, AccessActions
  <2> QED
    BY <1>0, <1>6, <2>1, OtherStepKeepsAccess DEF AddExhibit
<1>7. ASSUME NEW o \in OtherActions, RecordActivity(c, o, u) PROVE AccessInv'
  <2>1. Recorded(u, o) \in Events /\ Recorded(u, o).action \notin AccessActions
    BY EventTypes, OtherActionsApart DEF Recorded, AccessActions
  <2> QED
    BY <1>0, <1>7, <2>1, OtherStepKeepsAccess DEF RecordActivity
<1> QED
  BY <1>2, <1>3, <1>4, <1>5, <1>6, <1>7 DEF Operation

\* So does a step.
LEMMA StepKeepsAccess ==
  ASSUME AccessInv, Next PROVE AccessInv'
BY StepOperates, OperationKeepsAccess

\* What the invariant says with witnesses, the property counts.
LEMMA AccessCounted ==
  ASSUME AccessInv PROVE TrailTellsAccess
<1> SUFFICES ASSUME NEW c \in Cases
             PROVE  /\ \A u \in Users : Cardinality(ActiveAssignments(c, u)) <= 1
                    /\ \A i \in Places(c, "CASE_ACCESS_GRANTED")
                                \cup Places(c, "CASE_ACCESS_REVOKED") :
                         trail[c][i].assignment \in DOMAIN assignments[c]
                    /\ \A a \in DOMAIN assignments[c] :
                         LET row == assignments[c][a]
                             grants  == {i \in Places(c, "CASE_ACCESS_GRANTED") :
                                           trail[c][i].assignment = a}
                             revokes == {i \in Places(c, "CASE_ACCESS_REVOKED") :
                                           trail[c][i].assignment = a}
                         IN  /\ Cardinality(grants) = 1
                             /\ Cardinality(revokes) =
                                  IF row.revokedBy = NotRevoked THEN 0 ELSE 1
                             /\ \A i \in grants : /\ trail[c][i].user = row.user
                                                  /\ trail[c][i].actor = row.assignedBy
                             /\ \A j \in revokes : /\ trail[c][j].user = row.user
                                                   /\ trail[c][j].actor = row.revokedBy
                                                   /\ \A i \in grants : i < j
  BY DEF TrailTellsAccess
<1>1. TellsAccess(assignments[c], trail[c])
  BY DEF AccessInv
<1>2. ASSUME NEW u \in Users PROVE Cardinality(ActiveAssignments(c, u)) <= 1
  <2>1. CASE ActiveAssignments(c, u) = {}
    BY <2>1, FS_EmptySet
  <2>2. CASE ActiveAssignments(c, u) # {}
    <3>1. PICK a : a \in ActiveAssignments(c, u)
      BY <2>2
    <3>2. ActiveAssignments(c, u) = {a}
      BY <1>1, <3>1 DEF ActiveAssignments, TellsAccess, OneOpenRow
    <3>3. Cardinality(ActiveAssignments(c, u)) = 1
      BY <3>2, FS_Singleton
    <3> QED
      BY <3>3
  <2> QED
    BY <2>1, <2>2
<1>3. \A i \in Places(c, "CASE_ACCESS_GRANTED") \cup Places(c, "CASE_ACCESS_REVOKED") :
        trail[c][i].assignment \in DOMAIN assignments[c]
  BY <1>1 DEF Places, TellsAccess, AccessActions
<1>4. ASSUME NEW a \in DOMAIN assignments[c]
      PROVE  LET row == assignments[c][a]
                 grants  == {i \in Places(c, "CASE_ACCESS_GRANTED") :
                               trail[c][i].assignment = a}
                 revokes == {i \in Places(c, "CASE_ACCESS_REVOKED") :
                               trail[c][i].assignment = a}
             IN  /\ Cardinality(grants) = 1
                 /\ Cardinality(revokes) =
                      IF row.revokedBy = NotRevoked THEN 0 ELSE 1
                 /\ \A i \in grants : /\ trail[c][i].user = row.user
                                      /\ trail[c][i].actor = row.assignedBy
                 /\ \A j \in revokes : /\ trail[c][j].user = row.user
                                       /\ trail[c][j].actor = row.revokedBy
                                       /\ \A i \in grants : i < j
  <2> DEFINE row == assignments[c][a]
             grants  == {i \in Places(c, "CASE_ACCESS_GRANTED") : trail[c][i].assignment = a}
             revokes == {i \in Places(c, "CASE_ACCESS_REVOKED") : trail[c][i].assignment = a}
  <2>1. /\ grants = Mentions(trail[c], "CASE_ACCESS_GRANTED", a)
        /\ revokes = Mentions(trail[c], "CASE_ACCESS_REVOKED", a)
    BY DEF Places, Mentions
  <2> HIDE DEF grants, revokes, row
  <2>2. RowTold(trail[c], a, row)
    BY <1>1 DEF TellsAccess, row
  <2>3. PICK i \in DOMAIN trail[c] :
          /\ grants = {i}
          /\ Names(trail[c][i], row.user, row.assignedBy)
          /\ \/ row.revokedBy = NotRevoked /\ revokes = {}
             \/ /\ row.revokedBy # NotRevoked
                /\ \E j \in DOMAIN trail[c] :
                     /\ revokes = {j}
                     /\ Names(trail[c][j], row.user, row.revokedBy) /\ i < j
    BY <2>1, <2>2 DEF RowTold
  <2>4. Cardinality(grants) = 1
    BY <2>3, FS_Singleton
  <2>5. CASE row.revokedBy = NotRevoked
    <3>1. revokes = {} /\ Cardinality(revokes) = 0
      BY <2>3, <2>5, FS_EmptySet
    <3> QED
      BY <2>3, <2>4, <2>5, <3>1 DEF Names, row, grants, revokes
  <2>6. CASE row.revokedBy # NotRevoked
    <3>1. PICK j \in DOMAIN trail[c] :
            /\ revokes = {j}
            /\ Names(trail[c][j], row.user, row.revokedBy) /\ i < j
      BY <2>3, <2>6
    <3>2. Cardinality(revokes) = 1
      BY <3>1, FS_Singleton
    <3>3. /\ \A k \in grants : Names(trail[c][k], row.user, row.assignedBy)
          /\ \A k \in revokes : /\ Names(trail[c][k], row.user, row.revokedBy)
                                /\ \A l \in grants : l < k
      BY <2>3, <3>1
    <3> QED
      BY <2>4, <2>6, <3>2, <3>3 DEF Names, row, grants, revokes
  <2> QED
    BY <2>5, <2>6
<1> QED
  BY <1>2, <1>3, <1>4

\* The activity trail alone tells who may see a case and since when, at any
\* moment: every assignment row has its one grant, every revoked row its one
\* later revocation, and nobody holds two open rows.
THEOREM TrailAlwaysTellsAccess == Spec => []TrailTellsAccess
<1>1. Init => AccessInv
  <2>1. ASSUME Init PROVE \A c \in Cases : TellsAccess(assignments[c], trail[c])
    BY <2>1 DEF Init, TellsAccess, OneOpenRow
  <2> QED
    BY <2>1, InitWalk DEF AccessInv
<1>2. AccessInv /\ [Next]_caseVars => AccessInv'
  <2>1. AccessInv /\ UNCHANGED caseVars => AccessInv'
    BY DEF AccessInv, WalkInv, TypeOK, TrailTellsStatus, TrailsOfCases, caseVars
  <2> QED
    BY <2>1, StepKeepsAccess
<1> QED
  BY <1>1, <1>2, AccessCounted, PTL DEF Spec
=============================================================================
