---------------------------- MODULE CaseApiProofs ----------------------------
(***************************************************************************)
(* Proofs about the case handlers running together: whoever is named in a  *)
(* trail was entitled and knew the case, and a status change applies to    *)
(* the status its author saw, for any number of threads, users and cases.  *)
(***************************************************************************)
EXTENDS CaseApi, CaseStoreProofs

-----------------------------------------------------------------------------
\* The inductive invariant.

Operations == {"create", "assign", "revoke", "transition", "exhibit", "record"}

RequestRows ==
  [op : Operations, actor : Users, case : Cases,
   arg : {"-"} \cup Users \cup Statuses \cup Exhibits \cup OtherActions,
   stage : {"received", "authorized", "checked", "begun"},
   seen : [status : Statuses, version : Nat]]

\* A request names what its operation works on.
ArgumentFits(r) ==
  /\ r.op \in {"assign", "revoke"} => r.arg \in Users
  /\ r.op = "transition" => r.arg \in Statuses
  /\ r.op = "exhibit" => r.arg \in Exhibits
  /\ r.op = "record" => r.arg \in OtherActions

GrantTo(e, u) == e.action = "CASE_ACCESS_GRANTED" /\ e.user = u

Knows(c, u) == u \in Administrators \/ \E j \in DOMAIN trail[c] : GrantTo(trail[c][j], u)

\* What a handler that is past its checks has learnt, and what stays of it.
Learnt(r) ==
  r.stage # "received" =>
    /\ Holds(r.actor, PermissionFor(r))
    /\ r.op # "create" => CaseExists(r.case) /\ Knows(r.case, r.actor)

\* What a client saw is the past of the case, or its present.
SeenBefore(r) ==
  IF CaseExists(r.case)
    THEN /\ r.seen.version <= cases[r.case].version
         /\ r.seen.version = cases[r.case].version => r.seen.status = cases[r.case].status
    ELSE r.seen.version = 0

RequestsOK ==
  /\ req \in [Workers -> RequestRows \cup {Idle}]
  /\ \A t \in Busy : ArgumentFits(req[t]) /\ Learnt(req[t]) /\ SeenBefore(req[t])

\* A trail begins with its case and the creator's grant; every assignment has
\* its grant in the trail.
TrailsBegun ==
  \A c \in Cases : IF CaseExists(c) THEN Len(trail[c]) >= 2 ELSE trail[c] = <<>>

GrantsRecorded ==
  \A c \in Cases : \A a \in DOMAIN assignments[c] :
    \E j \in DOMAIN trail[c] : GrantTo(trail[c][j], assignments[c][a].user)

AllowedAt(events, i) ==
  /\ i = 2 \/ Holds(events[i].actor, PermissionOf(events[i]))
  /\ \/ i <= 2
     \/ events[i].actor \in Administrators
     \/ \E j \in 1 .. i - 1 : GrantTo(events[j], events[i].actor)

Allowed(events) == \A i \in DOMAIN events : AllowedAt(events, i)

ActorsOK == \A c \in Cases : Allowed(trail[c])

ApiInv == TypeOK /\ RequestsOK /\ TrailsBegun /\ GrantsRecorded /\ ActorsOK

-----------------------------------------------------------------------------
\* Lemmas about one write.

\* What the invariant says of one request being served.
LEMMA RequestTyped ==
  ASSUME ApiInv, NEW t \in Workers, t \in Busy
  PROVE  /\ req[t] \in RequestRows /\ ArgumentFits(req[t])
         /\ Learnt(req[t]) /\ SeenBefore(req[t])
BY DEF ApiInv, RequestsOK, Busy

\* A write is one operation of the register, by a handler past its checks.
LEMMA WriteOperates ==
  ASSUME ApiInv, NEW t \in Workers, Write(t)
  PROVE  /\ t \in Busy /\ req[t] \in RequestRows /\ req[t].stage # "received"
         /\ Operation(req[t].case, req[t].actor)
<1> DEFINE r == req[t]
<1>1. t \in Busy /\ r.stage # "received"
  BY DEF Write, ReadyToWrite, Serving
<1>2. r \in RequestRows /\ ArgumentFits(r)
  BY <1>1, RequestTyped
<1>3. r.seen.version \in Nat
  BY <1>2 DEF RequestRows
<1>4. \/ r.op = "create"     /\ CreateCase(r.case, r.actor)
      \/ r.op = "assign"     /\ AssignUser(r.case, r.arg, r.actor)
      \/ r.op = "revoke"     /\ RevokeUser(r.case, r.arg, r.actor)
      \/ r.op = "transition" /\ TransitionCase(r.case, r.arg, r.seen.version, r.actor)
      \/ r.op = "exhibit"    /\ AddExhibit(r.case, r.arg, r.actor)
      \/ r.op = "record"     /\ RecordActivity(r.case, r.arg, r.actor)
  BY DEF Write
<1> HIDE DEF r
<1>5. Operation(r.case, r.actor)
  BY <1>2, <1>3, <1>4 DEF ArgumentFits, Operation
<1> QED
  BY <1>1, <1>2, <1>5 DEF r

\* After a write the handler answers, or goes on to its second event.
AfterWrite(r) == IF Begins(r) THEN [r EXCEPT !.stage = "begun"] ELSE Idle

LEMMA RequestAfterWrite ==
  ASSUME ApiInv, NEW t \in Workers, Write(t)
  PROVE  /\ req' = [req EXCEPT ![t] = AfterWrite(req[t])]
         /\ Begins(req[t]) =>
              /\ AfterWrite(req[t]) \in RequestRows
              /\ AfterWrite(req[t]).op = req[t].op /\ AfterWrite(req[t]).actor = req[t].actor
              /\ AfterWrite(req[t]).case = req[t].case /\ AfterWrite(req[t]).arg = req[t].arg
              /\ AfterWrite(req[t]).seen = req[t].seen /\ AfterWrite(req[t]).stage = "begun"
<1>1. req[t] \in RequestRows
  BY WriteOperates
<1>2. CASE Begins(req[t])
  <2>1. req' = [req EXCEPT ![t] = AfterWrite(req[t])]
    <3>1. AfterWrite(req[t]) = [req[t] EXCEPT !.stage = "begun"]
      BY <1>2 DEF AfterWrite
    <3>2. req' = [req EXCEPT ![t] = [req[t] EXCEPT !.stage = "begun"]]
      BY <1>2 DEF Write, Proceed
    <3> QED
      BY <3>1, <3>2
  <2> QED
    BY <1>1, <1>2, <2>1 DEF AfterWrite, RequestRows
<1>3. CASE ~Begins(req[t])
  BY <1>3 DEF Write, Respond, AfterWrite
<1> QED
  BY <1>2, <1>3

\* What was granted stays granted.
LEMMA GrantsStay ==
  ASSUME TrailsGrow, NEW c \in Cases, NEW u, NEW j \in DOMAIN trail[c], GrantTo(trail[c][j], u)
  PROVE  j \in DOMAIN trail'[c] /\ GrantTo(trail'[c][j], u)
BY DEF TrailsGrow

\* Whoever knew a case, and what a client saw of it, remains so.
LEMMA LearntStays ==
  ASSUME ApiInv, NEW r \in RequestRows, Learnt(r), SeenBefore(r),
         TrailsGrow, VersionsRise, cases' \in [DOMAIN cases' -> CaseRows]
  PROVE  Learnt(r)' /\ SeenBefore(r)'
<1>1. r.case \in Cases /\ r.seen.version \in Nat
  BY DEF RequestRows
<1>2. Knows(r.case, r.actor) => Knows(r.case, r.actor)'
  BY <1>1, GrantsStay DEF Knows, Administrators
<1>3. CaseExists(r.case) => CaseExists(r.case)'
  BY DEF CaseExists, VersionsRise
<1>4. Learnt(r)'
  BY <1>2, <1>3 DEF Learnt, Holds, PermissionFor
<1>5. SeenBefore(r)'
  <2>1. CASE r.case \in DOMAIN cases
    <3>1. /\ r.case \in DOMAIN cases' /\ cases'[r.case].version >= cases[r.case].version
          /\ cases[r.case].status # cases'[r.case].status
               => cases'[r.case].version > cases[r.case].version
      BY <2>1 DEF VersionsRise
    <3>2. cases[r.case].version \in Nat /\ cases'[r.case].version \in Nat
      BY <2>1, <3>1 DEF ApiInv, TypeOK, CaseRows
    <3>3. /\ r.seen.version <= cases[r.case].version
          /\ r.seen.version = cases[r.case].version => r.seen.status = cases[r.case].status
      BY <2>1 DEF SeenBefore, CaseExists
    <3> QED
      BY <1>1, <3>1, <3>2, <3>3 DEF SeenBefore, CaseExists
  <2>2. CASE r.case \notin DOMAIN cases
    <3>1. r.seen.version = 0
      BY <2>2 DEF SeenBefore, CaseExists
    <3>2. r.case \in DOMAIN cases' => cases'[r.case].version \in Nat \ {0}
      BY DEF CaseRows
    <3> QED
      BY <3>1, <3>2 DEF SeenBefore, CaseExists
  <2> QED
    BY <2>1, <2>2
<1> QED
  BY <1>4, <1>5

\* An event of an entitled actor who knows the case may follow the trail.
LEMMA AllowedEventFollows ==
  ASSUME NEW events \in Seq(Events), NEW e \in Events, Allowed(events), Len(events) >= 2,
         Holds(e.actor, PermissionOf(e)),
         e.actor \in Administrators \/ \E j \in DOMAIN events : GrantTo(events[j], e.actor)
  PROVE  Allowed(events \o <<e>>)
<1> DEFINE longer == events \o <<e>>
           n == Len(events) + 1
<1>1. /\ DOMAIN longer = DOMAIN events \cup {n} /\ longer[n] = e
      /\ \A i \in DOMAIN events : longer[i] = events[i]
  BY AppendedEvent
<1>2. DOMAIN events = 1 .. Len(events) /\ Len(events) \in Nat
  OBVIOUS
<1> HIDE DEF longer
<1>3. AllowedAt(longer, n)
  <2>1. \A j \in DOMAIN events : j \in 1 .. n - 1 /\ longer[j] = events[j]
    BY <1>1, <1>2
  <2> QED
    BY <1>1, <2>1 DEF AllowedAt
<1>4. ASSUME NEW i \in DOMAIN events PROVE AllowedAt(longer, i)
  <2>1. AllowedAt(events, i) /\ longer[i] = events[i]
    BY <1>1 DEF Allowed
  <2>2. \A j \in 1 .. i - 1 : longer[j] = events[j]
    BY <1>1, <1>2
  <2> QED
    BY <2>1, <2>2 DEF AllowedAt
<1>5. Allowed(longer)
  BY <1>1, <1>3, <1>4 DEF Allowed
<1> QED
  BY <1>5 DEF longer

\* What an operation other than the first appends: one event, of the requester,
\* for which the handler asked the right permission.
LEMMA WriteAppends ==
  ASSUME ApiInv, NEW t \in Workers, Write(t), req[t].op # "create"
  PROVE  \E e \in Events : /\ AppendActivity(req[t].case, <<e>>)
                           /\ e.actor = req[t].actor
                           /\ PermissionOf(e) = PermissionFor(req[t])
<1> DEFINE r == req[t]
           c == r.case
           u == r.actor
           Good(e) == e \in Events /\ e.actor = u /\ PermissionOf(e) = PermissionFor(r)
<1>1. r \in RequestRows /\ ArgumentFits(r)
  BY WriteOperates, RequestTyped
<1>2. c \in Cases /\ u \in Users /\ r.seen.version \in Nat
  BY <1>1 DEF RequestRows
<1>3. \/ r.op = "assign"     /\ AssignUser(c, r.arg, u)
      \/ r.op = "revoke"     /\ RevokeUser(c, r.arg, u)
      \/ r.op = "transition" /\ TransitionCase(c, r.arg, r.seen.version, u)
      \/ r.op = "exhibit"    /\ AddExhibit(c, r.arg, u)
      \/ r.op = "record"     /\ RecordActivity(c, r.arg, u)
  BY DEF Write
<1>4. TypeOK
  BY DEF ApiInv
<1> HIDE DEF r
<1>5. ASSUME r.op = "assign", AssignUser(c, r.arg, u)
      PROVE  \E e : Good(e) /\ AppendActivity(c, <<e>>)
  <2> DEFINE e == Granted(u, r.arg, NewAssignment(c))
  <2>1. r.arg \in Users
    BY <1>1, <1>5 DEF ArgumentFits
  <2>2. e \in Events
    BY <1>2, <1>4, <2>1, EventTypes, NewAssignmentType
  <2>3. e.actor = u /\ PermissionOf(e) = "case:assign"
    <3>1. e.actor = u /\ e.action = "CASE_ACCESS_GRANTED"
      BY DEF Granted
    <3> QED
      BY <3>1, OtherActionsApart DEF PermissionOf
  <2>4. PermissionFor(r) = "case:assign"
    BY <1>5 DEF PermissionFor
  <2>5. AppendActivity(c, <<e>>)
    BY <1>5 DEF AssignUser
  <2> QED
    BY <2>2, <2>3, <2>4, <2>5
<1>6. ASSUME r.op = "revoke", RevokeUser(c, r.arg, u)
      PROVE  \E e : Good(e) /\ AppendActivity(c, <<e>>)
  <2> DEFINE a == CHOOSE a \in ActiveAssignments(c, r.arg) : TRUE
             e == Revoked(u, r.arg, a)
  <2>1. r.arg \in Users
    BY <1>1, <1>6 DEF ArgumentFits
  <2>2. a \in DOMAIN assignments[c] /\ assignments[c] \in Seq(AssignmentRows)
    BY <1>2, <1>4, <1>6 DEF RevokeUser, RevokeAccepted, HasAccess, ActiveAssignments, TypeOK
  <2>3. AppendActivity(c, <<e>>)
    BY <1>6 DEF RevokeUser
  <2> HIDE DEF a
  <2>4. a \in Nat \ {0}
    BY <2>2
  <2>5. e \in Events
    BY <1>2, <2>1, <2>4, EventTypes
  <2>6. e.actor = u /\ PermissionOf(e) = "case:assign"
    <3>1. e.actor = u /\ e.action = "CASE_ACCESS_REVOKED"
      BY DEF Revoked
    <3> QED
      BY <3>1, OtherActionsApart DEF PermissionOf
  <2>7. PermissionFor(r) = "case:assign"
    BY <1>6 DEF PermissionFor
  <2> QED
    BY <2>3, <2>5, <2>6, <2>7
<1>7. ASSUME r.op = "transition", TransitionCase(c, r.arg, r.seen.version, u)
      PROVE  \E e : Good(e) /\ AppendActivity(c, <<e>>)
  <2> DEFINE e == StatusChanged(u, cases[c].status, r.arg)
  <2>1. r.arg \in Statuses /\ cases[c].status \in Statuses
    BY <1>1, <1>4, <1>7
    DEF ArgumentFits, TransitionCase, TransitionAccepted, CaseExists, TypeOK, CaseRows
  <2>2. e \in Events
    BY <1>2, <2>1, EventTypes
  <2>3. e.actor = u /\ e.action = "CASE_STATUS_CHANGED" /\ e.to = r.arg
    BY DEF StatusChanged
  <2>4. PermissionOf(e) = PermissionFor(r)
    <3> DEFINE p == IF r.arg \in {"approved", "closed"} THEN "case:approve" ELSE "case:process"
    <3>1. PermissionOf(e) = p
      <4> HIDE DEF e
      <4> QED
        BY <2>3, OtherActionsApart DEF PermissionOf
    <3>2. PermissionFor(r) = p
      BY <1>7 DEF PermissionFor
    <3> QED
      BY <3>1, <3>2
  <2>5. AppendActivity(c, <<e>>)
    BY <1>7 DEF TransitionCase
  <2> QED
    BY <2>2, <2>3, <2>4, <2>5
<1>8. ASSUME r.op = "exhibit", AddExhibit(c, r.arg, u)
      PROVE  \E e : Good(e) /\ AppendActivity(c, <<e>>)
  <2> DEFINE e == Registered(u, r.arg)
  <2>1. e \in Events
    BY <1>1, <1>2, <1>8, EventTypes DEF ArgumentFits
  <2>2. e.actor = u /\ e.action = "EXHIBIT_REGISTERED"
    BY DEF Registered
  <2>3. PermissionOf(e) = PermissionFor(r)
    <3>1. PermissionOf(e) = "exhibit:create"
      <4> HIDE DEF e
      <4> QED
        BY <2>2, OtherActionsApart DEF PermissionOf
    <3>2. PermissionFor(r) = "exhibit:create"
      BY <1>8 DEF PermissionFor
    <3> QED
      BY <3>1, <3>2
  <2>4. AppendActivity(c, <<e>>)
    BY <1>8 DEF AddExhibit
  <2> QED
    BY <2>1, <2>2, <2>3, <2>4
<1>9. ASSUME r.op = "record", RecordActivity(c, r.arg, u)
      PROVE  \E e : Good(e) /\ AppendActivity(c, <<e>>)
  <2> DEFINE e == Recorded(u, r.arg)
  <2>0. r.arg \in OtherActions
    BY <1>1, <1>9 DEF ArgumentFits
  <2>1. e \in Events
    BY <1>2, <2>0, EventTypes
  <2>2. e.actor = u /\ e.action = r.arg
    BY DEF Recorded
  <2>3. PermissionOf(e) = PermissionFor(r)
    <3>1. PermissionOf(e) = Recorders[r.arg].permission
      <4> HIDE DEF e
      <4> QED
        BY <2>0, <2>2, OtherActionsApart DEF PermissionOf
    <3>2. PermissionFor(r) = Recorders[r.arg].permission
      BY <1>9 DEF PermissionFor
    <3> QED
      BY <3>1, <3>2
  <2>4. AppendActivity(c, <<e>>)
    BY <1>9 DEF RecordActivity
  <2> QED
    BY <2>1, <2>2, <2>3, <2>4
<1>10. \E e : Good(e) /\ AppendActivity(c, <<e>>)
  BY <1>3, <1>5, <1>6, <1>7, <1>8, <1>9
<1> QED
  BY <1>10 DEF r

-----------------------------------------------------------------------------
\* Every step keeps the invariant.

\* Nothing is served and nothing is recorded at first.
LEMMA InitApi ==
  ASSUME ApiInit PROVE ApiInv
<1>1. TypeOK
  BY InitTyped DEF ApiInit
<1>2. RequestsOK
  BY DEF ApiInit, RequestsOK, Busy
<1>3. TrailsBegun /\ GrantsRecorded /\ ActorsOK
  BY DEF ApiInit, Init, TrailsBegun, GrantsRecorded, ActorsOK, Allowed, CaseExists
<1> QED
  BY <1>1, <1>2, <1>3 DEF ApiInv

\* A step that only answers or advances one request.
LEMMA RequestStep ==
  ASSUME ApiInv, UNCHANGED caseVars, NEW t \in Workers, NEW r,
         \/ r = Idle
         \/ r \in RequestRows /\ ArgumentFits(r) /\ Learnt(r) /\ SeenBefore(r),
         req' = [req EXCEPT ![t] = r]
  PROVE  ApiInv'
<1>1. UNCHANGED <<cases, assignments, exhibits, trail>>
  BY DEF caseVars
<1>2. req' \in [Workers -> RequestRows \cup {Idle}]
  BY DEF ApiInv, RequestsOK
<1>3. ASSUME NEW s \in Busy'
      PROVE  (ArgumentFits(req[s]) /\ Learnt(req[s]) /\ SeenBefore(req[s]))'
  <2>1. s \in Workers /\ req'[s] # Idle
    BY DEF Busy
  <2>2. CASE s = t
    <3>1. req'[s] = r /\ ArgumentFits(r) /\ Learnt(r) /\ SeenBefore(r)
      BY <2>1, <2>2 DEF ApiInv, RequestsOK
    <3> QED
      BY <3>1, <1>1
      DEF ArgumentFits, Learnt, SeenBefore, Knows, Holds, PermissionFor, CaseExists
  <2>3. CASE s # t
    <3>1. req'[s] = req[s] /\ s \in Busy
      BY <2>1, <2>3 DEF ApiInv, RequestsOK, Busy
    <3>2. ArgumentFits(req[s]) /\ Learnt(req[s]) /\ SeenBefore(req[s])
      BY <3>1 DEF ApiInv, RequestsOK
    <3> QED
      BY <3>1, <3>2, <1>1
      DEF ArgumentFits, Learnt, SeenBefore, Knows, Holds, PermissionFor, CaseExists
  <2> QED
    BY <2>2, <2>3
<1>4. TypeOK' /\ TrailsBegun' /\ GrantsRecorded' /\ ActorsOK'
  BY <1>1 DEF ApiInv, TypeOK, TrailsBegun, GrantsRecorded, ActorsOK, CaseExists
<1> QED
  BY <1>2, <1>3, <1>4 DEF ApiInv, RequestsOK

\* A request that arrives has learnt nothing but what its client saw.
LEMMA ReceiveKeeps ==
  ASSUME ApiInv, NEW t \in Workers, NEW u \in Users, NEW c \in Cases,
         NEW op \in DOMAIN Arguments, NEW arg \in Arguments[op], Receive(t, u, op, c, arg)
  PROVE  ApiInv'
<1> DEFINE r == [op |-> op, actor |-> u, case |-> c, arg |-> arg, stage |-> "received",
                 seen |-> IF CaseExists(c) THEN cases[c] ELSE Unseen]
<1>1. op \in Operations /\ arg \in {"-"} \cup Users \cup Statuses \cup Exhibits \cup OtherActions
  BY DEF Arguments, Operations
<1>2. r.seen \in [status : Statuses, version : Nat]
  BY DEF ApiInv, TypeOK, CaseRows, CaseExists, Unseen, Statuses
<1>3. r \in RequestRows
  BY <1>1, <1>2 DEF RequestRows
<1>4. ArgumentFits(r)
  BY DEF ArgumentFits, Arguments
<1>5. Learnt(r)
  BY DEF Learnt
<1>6. SeenBefore(r)
  <2>1. CaseExists(c) => cases[c].version \in Nat
    BY DEF ApiInv, TypeOK, CaseRows, CaseExists
  <2> QED
    BY <2>1 DEF SeenBefore, Unseen
<1>7. req' = [req EXCEPT ![t] = r] /\ UNCHANGED caseVars
  BY DEF Receive
<1> HIDE DEF r
<1> QED
  BY <1>3, <1>4, <1>5, <1>6, <1>7, RequestStep

\* A check adds to what its request learnt what is true at that moment.
LEMMA CheckKeeps ==
  ASSUME ApiInv, NEW t \in Workers,
         AuthorizeCase(t) \/ CheckAssignee(t) \/ CheckRevokee(t) \/ Refuse(t)
  PROVE  ApiInv'
<1>1. t \in Busy /\ UNCHANGED caseVars
  BY DEF AuthorizeCase, CheckAssignee, CheckRevokee, Refuse, Serving
<1>2. /\ req[t] \in RequestRows /\ ArgumentFits(req[t])
      /\ Learnt(req[t]) /\ SeenBefore(req[t])
  BY <1>1, RequestTyped
<1>3. CASE Respond(t)
  BY <1>1, <1>3, RequestStep DEF Respond
<1>4. ASSUME NEW stage \in {"authorized", "checked"}, Proceed(t, stage),
             req[t].stage # "received" \/ MayAct(req[t])
      PROVE  ApiInv'
  <2> DEFINE r == [req[t] EXCEPT !.stage = stage]
  <2>1. /\ r \in RequestRows /\ r.op = req[t].op /\ r.actor = req[t].actor
        /\ r.case = req[t].case /\ r.arg = req[t].arg /\ r.seen = req[t].seen
    BY <1>2 DEF RequestRows
  <2>2. req' = [req EXCEPT ![t] = r]
    BY <1>4 DEF Proceed
  <2> HIDE DEF r
  <2>3. ArgumentFits(r) /\ SeenBefore(r)
    BY <1>2, <2>1 DEF ArgumentFits, SeenBefore
  <2>4. PermissionFor(r) = PermissionFor(req[t])
    BY <2>1 DEF PermissionFor
  <2>5. Learnt(r)
    <3>1. CASE req[t].stage # "received"
      BY <3>1, <1>2, <2>1, <2>4 DEF Learnt
    <3>2. CASE MayAct(req[t])
      <4>1. HasAccess(req[t].case, req[t].actor) => Knows(req[t].case, req[t].actor)
        BY <1>2 DEF HasAccess, ActiveAssignments, ApiInv, GrantsRecorded, Knows, RequestRows
      <4>2. req[t].op # "create" =>
              CaseExists(req[t].case) /\ Knows(req[t].case, req[t].actor)
        BY <3>2, <4>1 DEF MayAct, Knows
      <4>3. Holds(req[t].actor, PermissionFor(req[t]))
        BY <3>2 DEF MayAct
      <4> QED
        BY <4>2, <4>3, <2>1, <2>4 DEF Learnt
    <3> QED
      BY <1>4, <3>1, <3>2
  <2> QED
    BY <1>1, <2>1, <2>2, <2>3, <2>5, RequestStep
<1>5. CASE AuthorizeCase(t)
  BY <1>3, <1>4, <1>5 DEF AuthorizeCase
<1>6. CASE CheckAssignee(t) \/ CheckRevokee(t)
  BY <1>3, <1>4, <1>6 DEF CheckAssignee, CheckRevokee, Serving
<1>7. CASE Refuse(t)
  BY <1>3, <1>7 DEF Refuse
<1> QED
  BY <1>5, <1>6, <1>7

\* The operation moves the tables on; every other request keeps what it learnt.
LEMMA WriteKeepsRequests ==
  ASSUME ApiInv, NEW t \in Workers, Write(t)
  PROVE  TypeOK' /\ RequestsOK' /\ TrailsGrow /\ AssignmentsKept /\ VersionsRise
<1>1. req[t] \in RequestRows /\ Operation(req[t].case, req[t].actor)
  BY WriteOperates
<1>2. TypeOK' /\ TrailsGrow /\ AssignmentsKept /\ VersionsRise
  BY <1>1, OperationTyped, OperationGrows DEF ApiInv, RequestRows
<1>3. /\ req' = [req EXCEPT ![t] = AfterWrite(req[t])]
      /\ AfterWrite(req[t]) \in RequestRows \cup {Idle}
  BY RequestAfterWrite DEF AfterWrite
<1>4. req' \in [Workers -> RequestRows \cup {Idle}]
  BY <1>3 DEF ApiInv, RequestsOK
<1>5. ASSUME NEW s \in Busy'
      PROVE  (ArgumentFits(req[s]) /\ Learnt(req[s]) /\ SeenBefore(req[s]))'
  <2>1. s \in Workers /\ req'[s] # Idle
    BY DEF Busy
  <2>2. PICK r \in RequestRows :
          r = req'[s] /\ ArgumentFits(r) /\ Learnt(r) /\ SeenBefore(r)
    <3>1. CASE s = t
      <4>1. req'[s] = AfterWrite(req[t]) /\ Begins(req[t])
        BY <1>3, <2>1, <3>1 DEF AfterWrite, ApiInv, RequestsOK
      <4>2. /\ ArgumentFits(req[t]) /\ Learnt(req[t]) /\ SeenBefore(req[t])
            /\ req[t].stage # "received"
        BY WriteOperates, RequestTyped
      <4> DEFINE r == AfterWrite(req[t])
      <4>3. /\ r \in RequestRows /\ r.op = req[t].op /\ r.actor = req[t].actor
            /\ r.case = req[t].case /\ r.arg = req[t].arg /\ r.seen = req[t].seen
        BY <4>1, RequestAfterWrite
      <4> HIDE DEF r
      <4>4. PermissionFor(r) = PermissionFor(req[t])
        BY <4>3 DEF PermissionFor
      <4>5. ArgumentFits(r) /\ Learnt(r) /\ SeenBefore(r)
        BY <4>2, <4>3, <4>4 DEF ArgumentFits, Learnt, SeenBefore
      <4> QED
        BY <4>1, <4>3, <4>5 DEF r
    <3>2. CASE s # t
      <4>1. req'[s] = req[s] /\ s \in Busy
        BY <1>3, <2>1, <3>2 DEF ApiInv, RequestsOK, Busy
      <4> QED
        BY <4>1, RequestTyped DEF Busy
    <3> QED
      BY <3>1, <3>2
  <2>3. Learnt(r)' /\ SeenBefore(r)'
    BY <1>2, <2>2, LearntStays DEF TypeOK
  <2>4. req'[s] = r
    BY <2>2
  <2> QED
    BY <2>2, <2>3, <2>4
    DEF ArgumentFits, Learnt, SeenBefore, Knows, Holds, PermissionFor, CaseExists
<1> QED
  BY <1>2, <1>4, <1>5 DEF RequestsOK

\* The first write of a case: its creation and the creator's grant.
LEMMA CreateKeeps ==
  ASSUME ApiInv, NEW t \in Workers, Write(t), req[t].op = "create"
  PROVE  TrailsBegun' /\ GrantsRecorded' /\ ActorsOK'
<1> DEFINE c == req[t].case
           u == req[t].actor
           g == Granted(u, u, NewAssignment(c))
<1>1. /\ c \in Cases /\ u \in Users /\ Holds(u, "case:create")
      /\ CreateCase(c, u)
  <2>1. req[t] \in RequestRows /\ req[t].stage # "received" /\ Learnt(req[t])
    BY WriteOperates, RequestTyped
  <2>2. PermissionFor(req[t]) = "case:create"
    BY DEF PermissionFor
  <2> QED
    BY <2>1, <2>2 DEF Write, RequestRows, Learnt
<1> HIDE DEF c, u
<1>2. c \notin DOMAIN cases /\ trail[c] = <<>>
  BY <1>1 DEF CreateCase, CreateAccepted, CaseExists, ApiInv, TrailsBegun
<1>3. /\ Created(u).action = "CASE_CREATED" /\ Created(u).actor = u
      /\ g.action = "CASE_ACCESS_GRANTED" /\ g.user = u
  BY DEF Created, Granted
<1>4. trail' = [trail EXCEPT ![c] = trail[c] \o <<Created(u), g>>]
  BY <1>1 DEF CreateCase, AppendActivity
<1> HIDE DEF g
<1>5. trail'[c] = <<Created(u), g>> /\ \A d \in Cases : d # c => trail'[d] = trail[d]
  BY <1>1, <1>2, <1>4 DEF ApiInv, TypeOK
<1>6. TrailsBegun'
  <2>1. DOMAIN cases' = DOMAIN cases \cup {c}
    BY <1>1 DEF CreateCase
  <2>2. Len(trail'[c]) >= 2
    BY <1>5
  <2> QED
    BY <1>5, <2>1, <2>2 DEF ApiInv, TrailsBegun, CaseExists
<1>7. Allowed(trail'[c])
  <2> DEFINE first == <<Created(u), g>>
  <2>1. PermissionOf(Created(u)) = "case:create"
    BY <1>3, OtherActionsApart DEF PermissionOf
  <2>2. DOMAIN first = {1, 2} /\ first[1] = Created(u)
    OBVIOUS
  <2> HIDE DEF first
  <2>3. AllowedAt(first, 1) /\ AllowedAt(first, 2)
    BY <1>1, <1>3, <2>1, <2>2 DEF AllowedAt
  <2>4. Allowed(first)
    BY <2>2, <2>3 DEF Allowed
  <2> QED
    BY <1>5, <2>4 DEF first
<1>8. ActorsOK'
  BY <1>5, <1>7 DEF ApiInv, ActorsOK
<1>9. GrantsRecorded'
  <2> DEFINE row == [user |-> u, assignedBy |-> u, revokedBy |-> NotRevoked]
  <2>1. assignments' = [assignments EXCEPT ![c] = Append(assignments[c], row)]
    BY <1>1 DEF CreateCase, InsertAssignment
  <2>2. row.user = u
    OBVIOUS
  <2> HIDE DEF row
  <2>3. assignments[c] = <<>>
    <3>1. \A a \in DOMAIN assignments[c] : FALSE
      BY <1>1, <1>2 DEF ApiInv, GrantsRecorded
    <3>2. assignments[c] \in Seq(AssignmentRows)
      BY <1>1 DEF ApiInv, TypeOK
    <3>3. Len(assignments[c]) = 0
      <4>1. Len(assignments[c]) \in Nat /\ DOMAIN assignments[c] = 1 .. Len(assignments[c])
        BY <3>2
      <4>2. 1 \notin DOMAIN assignments[c]
        BY <3>1
      <4> QED
        BY <4>1, <4>2
    <3> QED
      BY <3>2, <3>3, EmptySeq
  <2>4. assignments'[c] = <<row>> /\ \A d \in Cases : d # c => assignments'[d] = assignments[d]
    BY <1>1, <2>1, <2>3 DEF ApiInv, TypeOK
  <2>5. \A a \in DOMAIN assignments'[c] : assignments'[c][a].user = u
    BY <2>2, <2>4
  <2>6. 2 \in DOMAIN trail'[c] /\ GrantTo(trail'[c][2], u)
    BY <1>3, <1>5 DEF GrantTo
  <2> QED
    BY <1>5, <2>4, <2>5, <2>6 DEF ApiInv, GrantsRecorded
<1> QED
  BY <1>6, <1>8, <1>9

\* A later write: one event by somebody who was entitled and knew the case.
LEMMA AppendKeeps ==
  ASSUME ApiInv, NEW t \in Workers, Write(t), req[t].op # "create"
  PROVE  TrailsBegun' /\ GrantsRecorded' /\ ActorsOK'
<1> DEFINE c == req[t].case
           u == req[t].actor
<1>1. /\ c \in Cases /\ u \in Users /\ Holds(u, PermissionFor(req[t]))
      /\ c \in DOMAIN cases /\ Knows(c, u)
  BY WriteOperates, RequestTyped DEF RequestRows, Learnt, CaseExists
<1>2. PICK e \in Events : /\ AppendActivity(c, <<e>>) /\ e.actor = u
                          /\ PermissionOf(e) = PermissionFor(req[t])
  BY WriteAppends
<1>3. TypeOK' /\ TrailsGrow /\ AssignmentsKept /\ VersionsRise
  BY WriteKeepsRequests
<1>4. \/ req[t].op = "assign" /\ AssignUser(c, req[t].arg, u)
      \/ UNCHANGED assignments
      \/ req[t].op = "revoke" /\ RevokeUser(c, req[t].arg, u)
  BY DEF Write, TransitionCase, AddExhibit, RecordActivity
<1>5. DOMAIN cases' = DOMAIN cases
  BY <1>1 DEF Write, AssignUser, RevokeUser, TransitionCase, AddExhibit, RecordActivity, ApiInv, TypeOK
<1> HIDE DEF c, u
<1>6. /\ trail'[c] = trail[c] \o <<e>> /\ trail[c] \in Seq(Events)
      /\ \A d \in Cases : d # c => trail'[d] = trail[d]
  BY <1>1, <1>2 DEF AppendActivity, ApiInv, TypeOK
<1>7. Len(trail[c]) >= 2 /\ Allowed(trail[c])
  BY <1>1 DEF ApiInv, TrailsBegun, CaseExists, ActorsOK
<1>8. TrailsBegun'
  <2>1. Len(trail'[c]) = Len(trail[c]) + 1 /\ Len(trail[c]) \in Nat
    BY <1>6
  <2> QED
    BY <1>1, <1>5, <1>6, <1>7, <2>1 DEF ApiInv, TrailsBegun, CaseExists
<1>9. ActorsOK'
  <2>1. u \in Administrators \/ \E j \in DOMAIN trail[c] : GrantTo(trail[c][j], u)
    BY <1>1 DEF Knows
  <2>2. Allowed(trail[c] \o <<e>>)
    BY <1>1, <1>2, <1>6, <1>7, <2>1, AllowedEventFollows
  <2> QED
    BY <1>6, <2>2 DEF ApiInv, ActorsOK
<1>10. GrantsRecorded'
  <2>1. ASSUME NEW d \in Cases, NEW a \in DOMAIN assignments'[d], a \in DOMAIN assignments[d]
        PROVE  \E j \in DOMAIN trail'[d] : GrantTo(trail'[d][j], assignments'[d][a].user)
    <3>1. assignments'[d][a].user = assignments[d][a].user
      BY <1>3, <2>1 DEF AssignmentsKept, RowKept
    <3>2. PICK j \in DOMAIN trail[d] : GrantTo(trail[d][j], assignments[d][a].user)
      BY <2>1 DEF ApiInv, GrantsRecorded
    <3>3. j \in DOMAIN trail'[d] /\ trail'[d][j] = trail[d][j]
      BY <1>3, <3>2 DEF TrailsGrow
    <3> QED
      BY <3>1, <3>2, <3>3
  <2>2. CASE UNCHANGED assignments
    BY <2>1, <2>2 DEF GrantsRecorded
  <2>3. CASE req[t].op = "revoke" /\ RevokeUser(c, req[t].arg, u)
    <3>1. \A d \in Cases : DOMAIN assignments'[d] = DOMAIN assignments[d]
      BY <2>3 DEF RevokeUser, ApiInv, TypeOK
    <3> QED
      BY <2>1, <3>1 DEF GrantsRecorded
  <2>4. CASE req[t].op = "assign" /\ AssignUser(c, req[t].arg, u)
    <3> DEFINE v == req[t].arg
               row == [user |-> v, assignedBy |-> u, revokedBy |-> NotRevoked]
               g == Granted(u, v, NewAssignment(c))
    <3>1. assignments' = [assignments EXCEPT ![c] = Append(assignments[c], row)]
      BY <2>4 DEF AssignUser, InsertAssignment
    <3>2. trail' = [trail EXCEPT ![c] = trail[c] \o <<g>>]
      BY <2>4 DEF AssignUser, AppendActivity
    <3>3. row.user = v /\ GrantTo(g, v)
      BY DEF GrantTo, Granted
    <3> HIDE DEF row, g
    <3>4. trail'[c] = trail[c] \o <<g>>
      BY <1>1, <3>2 DEF ApiInv, TypeOK
    <3>5. /\ Len(trail[c]) + 1 \in DOMAIN trail'[c]
          /\ trail'[c][Len(trail[c]) + 1] = g
      BY <1>6, <3>4
    <3>6. assignments[c] \in Seq(AssignmentRows) /\ assignments'[c] = Append(assignments[c], row)
      BY <1>1, <3>1 DEF ApiInv, TypeOK
    <3>7. \A a \in DOMAIN assignments'[c] :
            a \in DOMAIN assignments[c] \/ assignments'[c][a] = row
      BY <3>6
    <3>8. \A d \in Cases : d # c => assignments'[d] = assignments[d]
      BY <3>1 DEF ApiInv, TypeOK
    <3> HIDE DEF v
    <3> QED
      BY <2>1, <3>3, <3>5, <3>7, <3>8 DEF GrantsRecorded
  <2> QED
    BY <1>4, <2>2, <2>3, <2>4 DEF c, u
<1> QED
  BY <1>8, <1>9, <1>10

\* A suspension changes nothing that a request has learnt.
LEMMA UserActiveKeeps ==
  ASSUME ApiInv, NEW u, SetUserActive(u) PROVE ApiInv'
<1>1. UNCHANGED <<cases, assignments, exhibits, trail, req>>
  BY DEF SetUserActive, caseVars
<1> QED
  BY <1>1
  DEF ApiInv, TypeOK, RequestsOK, Busy, ArgumentFits, Learnt, SeenBefore, Knows, Holds,
      PermissionFor, CaseExists, TrailsBegun, GrantsRecorded, ActorsOK

\* Every step of the handlers keeps the invariant.
LEMMA StepApi ==
  ASSUME ApiInv, [ApiNext]_apiVars PROVE ApiInv'
<1>1. ASSUME NEW t \in Workers, Step(t) PROVE ApiInv'
  <2>1. CASE Write(t)
    BY <2>1, WriteKeepsRequests, CreateKeeps, AppendKeeps DEF ApiInv
  <2> QED
    BY <1>1, <2>1, CheckKeeps DEF Step
<1>2. CASE UNCHANGED apiVars
  BY <1>2
  DEF apiVars, ApiInv, TypeOK, RequestsOK, Busy, ArgumentFits, Learnt, SeenBefore, Knows,
      Holds, PermissionFor, CaseExists, TrailsBegun, GrantsRecorded, ActorsOK
<1> QED
  BY <1>1, <1>2, ReceiveKeeps, UserActiveKeeps DEF ApiNext

\* The inductive invariant holds in every reachable state.
THEOREM ApiInvariant == ApiSpec => []ApiInv
BY InitApi, StepApi, PTL DEF ApiSpec

\* Whoever is named in a trail held the permission its event asks for and, an
\* administrator excepted, had been granted that case before, for any number of
\* threads, suspensions and revocations in between.
THEOREM ActorsAlwaysAllowed == ApiSpec => []TrailActorsAllowed
<1>1. ApiInv => TrailActorsAllowed
  BY DEF ApiInv, ActorsOK, Allowed, AllowedAt, GrantTo, TrailActorsAllowed,
         TrailActorsEntitled, TrailActorsKnewCase
<1> QED
  BY <1>1, ApiInvariant, PTL

\* A case that exists changes by one write, of a request that saw its status.
LEMMA ChangeWasSeen ==
  ASSUME ApiInv, [ApiNext]_apiVars, NEW c \in DOMAIN cases, cases'[c] # cases[c]
  PROVE  \E t \in Busy : /\ req[t].op = "transition" /\ req[t].case = c
                         /\ req[t].seen.status = cases[c].status
                         /\ cases'[c].status = req[t].arg
                         /\ req'[t] = Idle
<1>1. PICK t \in Workers : Write(t)
  BY DEF ApiNext, Step, Receive, AuthorizeCase, CheckAssignee, CheckRevokee, Refuse,
         SetUserActive, apiVars, caseVars
<1>2. t \in Busy /\ SeenBefore(req[t])
  BY <1>1, WriteOperates, RequestTyped
<1>4. req[t].op = "transition"
      /\ TransitionCase(req[t].case, req[t].arg, req[t].seen.version, req[t].actor)
  <2>1. CASE CreateCase(req[t].case, req[t].actor)
    BY <2>1 DEF CreateCase, CreateAccepted, CaseExists
  <2> QED
    BY <1>1, <2>1 DEF Write, AssignUser, RevokeUser, AddExhibit, RecordActivity
<1>5. req[t].case = c
  BY <1>4 DEF TransitionCase, ApiInv, TypeOK
<1>6. cases[c].version = req[t].seen.version /\ cases'[c].status = req[t].arg
  BY <1>4, <1>5 DEF TransitionCase, TransitionAccepted, ApiInv, TypeOK
<1>7. req[t].seen.status = cases[c].status
  BY <1>2, <1>5, <1>6 DEF SeenBefore, CaseExists
<1>8. req'[t] = Idle
  <2>1. AfterWrite(req[t]) = Idle
    BY <1>4 DEF AfterWrite, Begins
  <2> QED
    BY <1>1, <2>1, RequestAfterWrite DEF ApiInv, RequestsOK
<1> QED
  BY <1>2, <1>4, <1>5, <1>6, <1>7, <1>8

\* A status change is applied to the status its author had in front of them,
\* whatever other threads did since the page was read.
THEOREM ChangesApplyToWhatWasSeen == ApiSpec => ChangesWhatWasSeen
<1>1. ApiInv /\ [ApiNext]_apiVars =>
        [\A c \in DOMAIN cases :
           cases'[c] # cases[c] =>
             \E t \in Busy : /\ req[t].op = "transition" /\ req[t].case = c
                             /\ req[t].seen.status = cases[c].status
                             /\ cases'[c].status = req[t].arg
                             /\ req'[t] = Idle]_apiVars
  BY ChangeWasSeen
<1> QED
  BY <1>1, ApiInvariant, PTL DEF ApiSpec, ChangesWhatWasSeen
-----------------------------------------------------------------------------
\* What the register promises under one call at a time it keeps under handlers.

\* What handlers do to the register are its operations.
LEMMA HandlersOperate ==
  ASSUME ApiInv, [ApiNext]_apiVars
  PROVE  (\E c \in Cases, u \in Users : Operation(c, u)) \/ UNCHANGED caseVars
<1>1. ASSUME NEW t \in Workers, Write(t) PROVE \E c \in Cases, u \in Users : Operation(c, u)
  BY <1>1, WriteOperates DEF RequestRows
<1> QED
  BY <1>1 DEF ApiNext, Step, Receive, AuthorizeCase, CheckAssignee, CheckRevokee, Refuse,
              SetUserActive, apiVars, caseVars

RegisterInv == AccessInv /\ ApprovalInv

\* So every step keeps the register's own invariants.
LEMMA RegisterInvStep ==
  ASSUME ApiInv, RegisterInv, [ApiNext]_apiVars PROVE RegisterInv'
<1>1. CASE UNCHANGED caseVars
  BY <1>1 DEF RegisterInv, AccessInv, ApprovalInv, WalkInv, TypeOK, TrailTellsStatus,
              TrailsOfCases, caseVars
<1> QED
  BY <1>1, HandlersOperate, OperationKeepsAccess, OperationBacked DEF RegisterInv

\* The register begins empty.
LEMMA RegisterInvInit ==
  ASSUME ApiInit PROVE RegisterInv
<1>1. Init
  BY DEF ApiInit
<1>2. \A c \in Cases : TellsAccess(assignments[c], trail[c])
  BY <1>1 DEF Init, TellsAccess, OneOpenRow
<1>3. DOMAIN cases = {}
  BY <1>1 DEF Init
<1> QED
  BY <1>1, <1>2, <1>3, InitWalk DEF RegisterInv, AccessInv, ApprovalInv

\* The register's own invariants hold also when handlers on overlapping threads
\* are its only callers.
THEOREM RegisterInvariant == ApiSpec => []RegisterInv
BY RegisterInvInit, RegisterInvStep, ApiInvariant, PTL DEF ApiSpec

\* Handlers running together, on what each learnt before, leave the register
\* all it promises when it is called alone: the trail tells who may see a case.
THEOREM HandlersTellAccess == ApiSpec => []TrailTellsAccess
<1>1. RegisterInv => TrailTellsAccess
  BY AccessCounted DEF RegisterInv
<1> QED
  BY <1>1, RegisterInvariant, PTL

\* ... and what status each case is in, and nobody closes a case on an approval
\* that was taken back.
THEOREM HandlersTellStatus == ApiSpec => [](TrailTellsStatus /\ ClosedOnCurrentApproval)
<1>1. RegisterInv => TrailTellsStatus /\ ClosedOnCurrentApproval
  BY DEF RegisterInv, AccessInv, ApprovalInv, WalkInv, Backed, Reviewed,
         ClosedOnCurrentApproval, StatusChanges
<1> QED
  BY <1>1, RegisterInvariant, PTL

\* ... and history only grows.
THEOREM HandlersGrowHistory == ApiSpec => HistoryOnlyGrows
<1>1. ApiInv /\ [ApiNext]_apiVars => [TrailsGrow /\ AssignmentsKept /\ VersionsRise]_caseVars
  BY HandlersOperate, OperationGrows DEF ApiInv
<1>2. [TrailsGrow /\ AssignmentsKept /\ VersionsRise]_caseVars =>
        [\A c \in Cases :
           /\ \A i \in DOMAIN trail[c] :
                i \in DOMAIN trail'[c] /\ trail'[c][i] = trail[c][i]
           /\ \A a \in DOMAIN assignments[c] :
                /\ a \in DOMAIN assignments'[c]
                /\ assignments'[c][a].user = assignments[c][a].user
                /\ assignments'[c][a].assignedBy = assignments[c][a].assignedBy
                /\ assignments[c][a].revokedBy # NotRevoked
                     => assignments'[c][a] = assignments[c][a]
           /\ c \in DOMAIN cases =>
                /\ c \in DOMAIN cases'
                /\ cases'[c].version >= cases[c].version
                /\ cases[c].status # cases'[c].status
                     => cases'[c].version > cases[c].version]_caseVars
  BY DEF TrailsGrow, AssignmentsKept, RowKept, VersionsRise
<1> QED
  BY <1>1, <1>2, ApiInvariant, PTL DEF ApiSpec, HistoryOnlyGrows

\* ... and every run of the handlers is a run of the lifecycle.
THEOREM HandlersImplementLifecycle == ApiSpec => ImplementsLifecycle
<1>1. ApiInit => Lifecycle!Init
  BY InitStage DEF ApiInit
<1>2. ApiInv /\ [ApiNext]_apiVars => [Lifecycle!Next]_Stage
  <2>1. UNCHANGED caseVars => UNCHANGED Stage
    BY DEF caseVars, Stage, CaseExists
  <2> QED
    BY <2>1, HandlersOperate, OperationStage DEF ApiInv
<1> QED
  BY <1>1, <1>2, ApiInvariant, PTL DEF ApiSpec, ImplementsLifecycle, Lifecycle!Spec
-----------------------------------------------------------------------------
\* After a revocation.

RevocationOf(e, u) == e.action = "CASE_ACCESS_REVOKED" /\ e.user = u

\* LastRevocation and the late writes, of a sequence of events.
Ending(events, u) ==
  {i \in DOMAIN events :
     /\ RevocationOf(events[i], u)
     /\ \A j \in i + 1 .. Len(events) : ~GrantTo(events[j], u)
     /\ \A j \in i + 1 .. Len(events) : ~RevocationOf(events[j], u)}

Late(events, u, i) == {j \in i + 1 .. Len(events) : events[j].actor = u}

\* Whoever lost access has none, and writes at most twice for each other thread.
LateInv ==
  \A c \in Cases, u \in Users \ Administrators : \A i \in Ending(trail[c], u) :
    /\ ~HasAccess(c, u)
    /\ Cardinality(Late(trail[c], u, i)) + ToCome(c, u) <= 2 * (Cardinality(Workers) - 1)

\* What an appended event does to the last revocation and what came after it.
LateAfter(events, e, u, longer) ==
  LET n == Len(events) + 1
  IN  /\ RevocationOf(e, u) => Ending(longer, u) \subseteq {n} /\ Late(longer, u, n) = {}
      /\ GrantTo(e, u) => Ending(longer, u) = {}
      /\ ~RevocationOf(e, u) => Ending(longer, u) \subseteq Ending(events, u)
      /\ \A i \in DOMAIN events :
           Late(longer, u, i) = Late(events, u, i) \cup (IF e.actor = u THEN {n} ELSE {})

\* What one more event does to the writes after a revocation.
LEMMA LateAppended ==
  ASSUME NEW events \in Seq(Events), NEW e \in Events, NEW u, NEW longer,
         longer = events \o <<e>>
  PROVE  LateAfter(events, e, u, longer)
<1> DEFINE n == Len(events) + 1
<1>1. /\ n - 1 \in Nat /\ DOMAIN events = 1 .. n - 1 /\ Len(events) = n - 1
      /\ Len(longer) = n /\ DOMAIN longer = 1 .. n /\ longer[n] = e
      /\ \A i \in 1 .. n - 1 : longer[i] = events[i]
  OBVIOUS
<1> HIDE DEF n
<1>2. ASSUME RevocationOf(e, u)
      PROVE  Ending(longer, u) \subseteq {n} /\ Late(longer, u, n) = {}
  <2>1. \A i \in 1 .. n - 1 : n \in i + 1 .. Len(longer) /\ RevocationOf(longer[n], u)
    BY <1>1, <1>2
  <2>2. ASSUME NEW i \in Ending(longer, u) PROVE i = n
    <3>1. /\ i \in 1 .. n
          /\ \A j \in i + 1 .. Len(longer) : ~RevocationOf(longer[j], u)
      BY <1>1 DEF Ending
    <3> QED
      BY <1>1, <2>1, <3>1
  <2>3. n + 1 .. Len(longer) = {}
    BY <1>1
  <2> QED
    BY <2>2, <2>3 DEF Late
<1>3. ASSUME GrantTo(e, u) PROVE Ending(longer, u) = {}
  <2>1. \A i \in 1 .. n - 1 : n \in i + 1 .. Len(longer) /\ GrantTo(longer[n], u)
    BY <1>1, <1>3
  <2>2. ~RevocationOf(longer[n], u)
    BY <1>1, <1>3 DEF RevocationOf, GrantTo
  <2> QED
    BY <1>1, <2>1, <2>2 DEF Ending
<1>4. ASSUME ~RevocationOf(e, u)
      PROVE  Ending(longer, u) \subseteq Ending(events, u)
  <2>1. ASSUME NEW i \in Ending(longer, u) PROVE i \in Ending(events, u)
    <3>1. i \in 1 .. n - 1 /\ longer[i] = events[i] /\ RevocationOf(longer[i], u)
      BY <1>1, <1>4 DEF Ending
    <3>2. \A j \in i + 1 .. n - 1 : longer[j] = events[j] /\ j \in i + 1 .. Len(longer)
      BY <1>1, <3>1
    <3> QED
      BY <1>1, <3>1, <3>2 DEF Ending
  <2> QED
    BY <2>1
<1>5. ASSUME NEW i \in DOMAIN events
      PROVE  Late(longer, u, i) = Late(events, u, i) \cup (IF e.actor = u THEN {n} ELSE {})
  BY <1>1 DEF Late
<1> QED
  BY <1>2, <1>3, <1>4, <1>5 DEF n, LateAfter

\* The sets that are counted are finite.
LEMMA LateCounted ==
  ASSUME NEW events \in Seq(Events), NEW u, NEW i \in DOMAIN events
  PROVE  IsFiniteSet(Late(events, u, i)) /\ Cardinality(Late(events, u, i)) \in Nat
<1>1. i + 1 \in Int /\ Len(events) \in Int
  OBVIOUS
<1>2. IsFiniteSet(i + 1 .. Len(events))
  BY <1>1, FS_Interval
<1>3. Late(events, u, i) \subseteq i + 1 .. Len(events)
  BY DEF Late
<1> QED
  BY <1>2, <1>3, FS_Subset, FS_CardinalityType

\* A subset that misses an element has one fewer.
LEMMA OneFewer ==
  ASSUME NEW S, IsFiniteSet(S), NEW x \in S, NEW T, T \subseteq S \ {x}
  PROVE  Cardinality(T) <= Cardinality(S) - 1
<1>1. IsFiniteSet(S \ {x}) /\ Cardinality(S \ {x}) = Cardinality(S) - 1
  BY FS_RemoveElement
<1>2. Cardinality(T) <= Cardinality(S \ {x})
  BY <1>1, FS_Subset
<1> QED
  BY <1>1, <1>2

LEMMA ThreadsCounted ==
  ASSUME NEW c, NEW u
  PROVE  /\ IsFiniteSet(PastChecks(c, u)) /\ Cardinality(PastChecks(c, u)) \in Nat
         /\ IsFiniteSet(Starting(c, u)) /\ Cardinality(Starting(c, u)) \in Nat
         /\ PastChecks(c, u) \subseteq Workers /\ Starting(c, u) \subseteq Workers
<1>1. PastChecks(c, u) \subseteq Workers /\ Starting(c, u) \subseteq Workers
  BY DEF PastChecks, Starting, Busy
<1> QED
  BY <1>1, ApiThreads, FS_Subset, FS_CardinalityType

\* No handler records under the permission that grants and revokes access.
LEMMA NoRecorderAssigns ==
  \A a \in OtherActions : Recorders[a].permission # "case:assign"
<1>1. \A a \in DOMAIN Recorders : Recorders[a].permission # "case:assign"
  BY DEF Recorders, Recorder
<1> QED
  BY <1>1, RecordersKnown

\* A write other than a creation is one event that tells what became of access.
LEMMA WriteAccess ==
  ASSUME ApiInv, RegisterInv, NEW t \in Workers, Write(t), req[t].op # "create",
         NEW c \in Cases, c = req[t].case
  PROVE  \E e \in Events :
           /\ AppendActivity(c, <<e>>) /\ e.actor = req[t].actor
           /\ \A u \in Users : RevocationOf(e, u) => req[t].op = "revoke" /\ ~HasAccess(c, u)'
           /\ \A u \in Users : ~GrantTo(e, u) /\ ~HasAccess(c, u) => ~HasAccess(c, u)'
<1> DEFINE r == req[t]
           by == r.actor
           Tells(e) ==
             /\ \A u \in Users : RevocationOf(e, u) => r.op = "revoke" /\ ~HasAccess(c, u)'
             /\ \A u \in Users : ~GrantTo(e, u) /\ ~HasAccess(c, u) => ~HasAccess(c, u)'
<1>1. PICK e \in Events : AppendActivity(c, <<e>>) /\ e.actor = by
  BY WriteAppends
<1>2. /\ c \in Cases /\ by \in Users /\ ArgumentFits(r)
      /\ assignments[c] \in Seq(AssignmentRows) /\ trail[c] \in Seq(Events)
      /\ TypeOK /\ OneOpenRow(assignments[c])
  BY WriteOperates, RequestTyped
  DEF RequestRows, ApiInv, TypeOK, RegisterInv, AccessInv, TellsAccess
<1>3. trail'[c] = trail[c] \o <<e>>
  BY <1>1, <1>2 DEF AppendActivity, TypeOK
<1>4. \A d \in Events : AppendActivity(c, <<d>>) => d = e
  <2> SUFFICES ASSUME NEW d \in Events, AppendActivity(c, <<d>>) PROVE d = e
    OBVIOUS
  <2>1. trail'[c] = trail[c] \o <<d>>
    BY <1>2 DEF AppendActivity, TypeOK
  <2> QED
    BY <1>2, <1>3, <2>1, AppendedEvent
<1>5. \/ r.op = "assign" /\ AssignUser(c, r.arg, by)
      \/ r.op = "revoke" /\ RevokeUser(c, r.arg, by)
      \/ UNCHANGED assignments /\ (r.op = "transition" \/ r.op = "exhibit" \/ r.op = "record")
  BY DEF Write, TransitionCase, AddExhibit, RecordActivity
<1>6. ASSUME r.op = "assign", AssignUser(c, r.arg, by) PROVE Tells(e)
  <2> DEFINE v == r.arg
             row == [user |-> v, assignedBy |-> by, revokedBy |-> NotRevoked]
             g == Granted(by, v, NewAssignment(c))
  <2>1. v \in Users
    BY <1>2, <1>6 DEF ArgumentFits
  <2>2. g \in Events /\ AppendActivity(c, <<g>>)
    BY <1>2, <1>6, <2>1, EventTypes, NewAssignmentType DEF AssignUser
  <2>3. e = g
    BY <1>4, <2>2
  <2>4. GrantTo(e, v) /\ \A u : ~RevocationOf(e, u)
    BY <2>3 DEF GrantTo, RevocationOf, Granted
  <2>5. assignments'[c] = Append(assignments[c], row) /\ row.user = v
    BY <1>2, <1>6 DEF AssignUser, InsertAssignment, TypeOK
  <2> HIDE DEF v, row, g
  <2>6. \A a \in DOMAIN assignments'[c] :
          \/ a \in DOMAIN assignments[c] /\ assignments'[c][a] = assignments[c][a]
          \/ assignments'[c][a] = row
    BY <1>2, <2>5
  <2>7. \A u \in Users : ~GrantTo(e, u) /\ ~HasAccess(c, u) => ~HasAccess(c, u)'
    BY <2>4, <2>5, <2>6 DEF HasAccess, ActiveAssignments
  <2> QED
    BY <2>4, <2>7
<1>7. ASSUME r.op = "revoke", RevokeUser(c, r.arg, by) PROVE Tells(e)
  <2> DEFINE v == r.arg
             a == CHOOSE a \in ActiveAssignments(c, v) : TRUE
             g == Revoked(by, v, a)
  <2>1. v \in Users
    BY <1>2, <1>7 DEF ArgumentFits
  <2>2. a \in ActiveAssignments(c, v)
    BY <1>7 DEF RevokeUser, RevokeAccepted, HasAccess
  <2>3. assignments' = [assignments EXCEPT ![c][a].revokedBy = by] /\ AppendActivity(c, <<g>>)
    BY <1>7 DEF RevokeUser
  <2> HIDE DEF a, v
  <2>4. /\ a \in DOMAIN assignments[c] /\ a \in Nat \ {0}
        /\ assignments[c][a].user = v /\ assignments[c][a].revokedBy = NotRevoked
    BY <1>2, <2>2 DEF ActiveAssignments
  <2>5. g \in Events
    BY <1>2, <2>1, <2>4, EventTypes
  <2>6. e = g
    BY <1>4, <2>3, <2>5
  <2>7. /\ RevocationOf(e, v)
        /\ \A u : ~GrantTo(e, u) /\ (RevocationOf(e, u) => u = v)
    BY <2>6 DEF GrantTo, RevocationOf, Revoked
  <2>8. /\ DOMAIN assignments'[c] = DOMAIN assignments[c]
        /\ assignments'[c][a].revokedBy = by
        /\ \A b \in DOMAIN assignments[c] : b # a => assignments'[c][b] = assignments[c][b]
    <3>1. assignments[c][a] \in AssignmentRows
      BY <1>2, <2>4
    <3>2. assignments'[c] =
            [assignments[c] EXCEPT ![a] = [assignments[c][a] EXCEPT !.revokedBy = by]]
      BY <1>2, <2>3 DEF TypeOK
    <3> QED
      BY <2>4, <3>1, <3>2 DEF AssignmentRows
  <2>9. by # NotRevoked
    BY <1>2, CaseNulls
  <2>10. \A u \in Users : ~HasAccess(c, u) => ~HasAccess(c, u)'
    BY <2>8, <2>9 DEF HasAccess, ActiveAssignments
  <2>11. ASSUME NEW u \in Users, u = v PROVE ~HasAccess(c, u)'
    <3>1. \A b \in DOMAIN assignments[c] :
            b # a => assignments[c][b].user # u \/ assignments[c][b].revokedBy # NotRevoked
      BY <1>2, <2>4, <2>11 DEF OneOpenRow
    <3> QED
      BY <2>8, <2>9, <3>1 DEF HasAccess, ActiveAssignments
  <2> QED
    BY <1>7, <2>7, <2>10, <2>11
<1>8. ASSUME UNCHANGED assignments, r.op = "transition" \/ r.op = "exhibit" \/ r.op = "record"
      PROVE  Tells(e)
  <2>1. \A u : HasAccess(c, u)' <=> HasAccess(c, u)
    BY <1>8 DEF HasAccess, ActiveAssignments
  <2>2. \A u : ~RevocationOf(e, u)
    <3>1. PermissionOf(e) = PermissionFor(r)
      BY <1>4, WriteAppends
    <3>2. PermissionFor(r) # "case:assign"
      <4>1. CASE r.op = "record"
        <5>1. Recorders[r.arg].permission # "case:assign"
          BY <1>2, <4>1, NoRecorderAssigns DEF ArgumentFits
        <5> QED
          BY <4>1, <5>1 DEF PermissionFor
      <4> QED
        BY <1>8, <4>1 DEF PermissionFor
    <3>3. e.action = "CASE_ACCESS_REVOKED" => PermissionOf(e) = "case:assign"
      BY OtherActionsApart DEF PermissionOf
    <3> QED
      BY <3>1, <3>2, <3>3 DEF RevocationOf
  <2> QED
    BY <2>1, <2>2
<1> HIDE DEF Tells
<1>9. Tells(e)
  BY <1>5, <1>6, <1>7, <1>8
<1> QED
  BY <1>1, <1>9 DEF Tells

\* A step that writes nothing lets no thread through that was not.
LEMMA NobodyPasses ==
  ASSUME ApiInv, [ApiNext]_apiVars, UNCHANGED caseVars, NEW c \in Cases,
         NEW u \in Users \ Administrators, ~HasAccess(c, u)
  PROVE  PastChecks(c, u)' \subseteq PastChecks(c, u)
<1> SUFFICES ASSUME NEW s \in PastChecks(c, u)', s \notin PastChecks(c, u) PROVE FALSE
  OBVIOUS
<1>1. /\ s \in Workers /\ req'[s] # Idle /\ req'[s].actor = u /\ req'[s].case = c
      /\ req'[s].op # "create" /\ req'[s].stage # "received"
  BY DEF PastChecks, Busy
<1>2. req'[s] # req[s]
  BY <1>1 DEF PastChecks, Busy
<1>3. req \in [Workers -> RequestRows \cup {Idle}]
  BY DEF ApiInv, RequestsOK
<1>4. ASSUME NEW t \in Workers, Respond(t) PROVE FALSE
  BY <1>1, <1>2, <1>3, <1>4 DEF Respond
<1>5. ASSUME NEW t \in Workers, NEW stage, t \in Busy, Proceed(t, stage),
             req[t].stage # "received" \/ MayAct(req[t])
      PROVE  FALSE
  <2>1. s = t /\ req[t] \in RequestRows
    BY <1>2, <1>3, <1>5 DEF Proceed, Busy
  <2>2. /\ req'[t] = [req[t] EXCEPT !.stage = stage]
        /\ req'[t].actor = req[t].actor /\ req'[t].case = req[t].case
        /\ req'[t].op = req[t].op
    BY <1>3, <1>5, <2>1 DEF Proceed, RequestRows
  <2>3. req[t].actor = u /\ req[t].case = c /\ req[t].op # "create"
    BY <1>1, <2>1, <2>2
  <2>4. CASE req[t].stage # "received"
    BY <1>5, <2>1, <2>3, <2>4 DEF PastChecks
  <2>5. CASE MayAct(req[t])
    BY <2>3, <2>5 DEF MayAct
  <2> QED
    BY <1>5, <2>4, <2>5
<1>6. ASSUME NEW t \in Workers, Step(t) PROVE FALSE
  <2>1. CASE AuthorizeCase(t)
    BY <1>4, <1>5, <2>1 DEF AuthorizeCase, Serving
  <2>2. CASE CheckAssignee(t)
    BY <1>4, <1>5, <2>2 DEF CheckAssignee, Serving
  <2>3. CASE CheckRevokee(t)
    BY <1>4, <1>5, <2>3 DEF CheckRevokee, Serving
  <2>4. CASE Write(t)
    <3>1. t \in Busy /\ req[t].stage # "received"
      BY <2>4, WriteOperates
    <3> QED
      BY <1>4, <1>5, <2>4, <3>1 DEF Write
  <2>5. CASE Refuse(t)
    BY <1>4, <2>5 DEF Refuse
  <2> QED
    BY <1>6, <2>1, <2>2, <2>3, <2>4, <2>5 DEF Step
<1>7. ASSUME NEW t \in Workers, NEW v \in Users, NEW d \in Cases, NEW op, NEW arg,
             Receive(t, v, op, d, arg)
      PROVE  FALSE
  <2>1. s = t
    BY <1>2, <1>3, <1>7 DEF Receive
  <2>2. req'[t].stage = "received"
    BY <1>3, <1>7 DEF Receive
  <2> QED
    BY <1>1, <2>1, <2>2
<1>8. ASSUME UNCHANGED req PROVE FALSE
  BY <1>2, <1>8
<1> QED
  BY <1>6, <1>7, <1>8 DEF ApiNext, SetUserActive, apiVars

\* ... and none that had one event to record has two.
LEMMA NobodyStarts ==
  ASSUME ApiInv, [ApiNext]_apiVars, UNCHANGED caseVars, NEW c \in Cases,
         NEW u \in Users \ Administrators, ~HasAccess(c, u)
  PROVE  Starting(c, u)' \subseteq Starting(c, u)
<1> SUFFICES ASSUME NEW s \in Starting(c, u)', s \notin Starting(c, u) PROVE FALSE
  OBVIOUS
<1>1. s \in PastChecks(c, u)' /\ s \in PastChecks(c, u)
  BY NobodyPasses DEF Starting
<1>2. /\ s \in Workers /\ req'[s] # Idle /\ req[s].stage # "received"
      /\ req'[s].op = "record" /\ req'[s].stage = "authorized"
  BY <1>1 DEF Starting, PastChecks, Busy, Begins
<1>3. req'[s] # req[s]
  BY <1>1 DEF Starting, Begins
<1>4. req \in [Workers -> RequestRows \cup {Idle}] /\ s \in Busy
  BY <1>1 DEF ApiInv, RequestsOK, PastChecks
<1>5. ASSUME NEW t \in Workers, Respond(t) PROVE FALSE
  BY <1>2, <1>3, <1>4, <1>5 DEF Respond
<1>6. ASSUME NEW t \in Workers, t \in Busy, Proceed(t, "checked") PROVE FALSE
  <2>1. s = t /\ req[t] \in RequestRows
    BY <1>3, <1>4, <1>6 DEF Proceed, Busy
  <2>2. req'[t] = [req[t] EXCEPT !.stage = "checked"]
    BY <1>4, <1>6, <2>1 DEF Proceed
  <2>3. req'[t].stage = "checked"
    BY <2>1, <2>2 DEF RequestRows
  <2> QED
    BY <1>2, <2>1, <2>3
<1>7. ASSUME NEW t \in Workers, Step(t) PROVE FALSE
  <2>1. CASE AuthorizeCase(t)
    <3>1. s # t
      BY <1>2, <2>1 DEF AuthorizeCase, Serving
    <3>2. req'[s] = req[s]
      BY <1>2, <1>4, <2>1, <3>1 DEF AuthorizeCase, Proceed, Respond
    <3> QED
      BY <1>3, <3>2
  <2>2. CASE CheckAssignee(t) \/ CheckRevokee(t)
    BY <1>5, <1>6, <2>2 DEF CheckAssignee, CheckRevokee, Serving
  <2>3. CASE Write(t)
    <3>1. req'[s] = IF s = t THEN AfterWrite(req[t]) ELSE req[s]
      BY <1>2, <1>4, <2>3, RequestAfterWrite
    <3>2. AfterWrite(req[t]) = Idle \/ AfterWrite(req[t]).stage = "begun"
      BY <2>3, RequestAfterWrite DEF AfterWrite
    <3> QED
      BY <1>2, <1>3, <3>1, <3>2
  <2>4. CASE Refuse(t)
    BY <1>5, <2>4 DEF Refuse
  <2> QED
    BY <1>7, <2>1, <2>2, <2>3, <2>4 DEF Step
<1>8. ASSUME NEW t \in Workers, NEW v \in Users, NEW d \in Cases, NEW op, NEW arg,
             Receive(t, v, op, d, arg)
      PROVE  FALSE
  <2>1. s = t /\ req[t] = Idle
    BY <1>3, <1>4, <1>8 DEF Receive
  <2> QED
    BY <1>4, <2>1 DEF Busy
<1>9. ASSUME UNCHANGED req PROVE FALSE
  BY <1>3, <1>9
<1> QED
  BY <1>7, <1>8, <1>9 DEF ApiNext, SetUserActive, apiVars

\* A write takes its own thread out, or leaves it one event, and lets none in.
LEMMA ThreadWritten ==
  ASSUME ApiInv, NEW t \in Workers, Write(t), NEW c, NEW u
  PROVE  /\ PastChecks(c, u)' \subseteq PastChecks(c, u)
         /\ Starting(c, u)' \subseteq Starting(c, u) \ {t}
         /\ ~Begins(req[t]) => t \notin PastChecks(c, u)'
         /\ Begins(req[t]) /\ t \in PastChecks(c, u) => t \in Starting(c, u)
         /\ /\ req[t].actor = u /\ req[t].case = c /\ req[t].op # "create"
            => t \in PastChecks(c, u)
<1>1. req \in [Workers -> RequestRows \cup {Idle}]
  BY DEF ApiInv, RequestsOK
<1>2. \A s \in Workers : req'[s] = IF s = t THEN AfterWrite(req[t]) ELSE req[s]
  BY <1>1, RequestAfterWrite
<1>3. t \in Busy /\ req[t].stage # "received"
  BY WriteOperates
<1>4. \/ ~Begins(req[t]) /\ AfterWrite(req[t]) = Idle
      \/ /\ Begins(req[t]) /\ AfterWrite(req[t]).stage = "begun"
         /\ AfterWrite(req[t]).op = req[t].op /\ AfterWrite(req[t]).actor = req[t].actor
         /\ AfterWrite(req[t]).case = req[t].case
  BY RequestAfterWrite DEF AfterWrite
<1>5. PastChecks(c, u)' \subseteq PastChecks(c, u)
  BY <1>2, <1>3, <1>4 DEF PastChecks, Busy
<1>6. Starting(c, u)' \subseteq Starting(c, u) \ {t}
  BY <1>2, <1>3, <1>4, <1>5 DEF Starting, Begins, PastChecks, Busy
<1> QED
  BY <1>2, <1>3, <1>4, <1>5, <1>6 DEF PastChecks, Starting, Busy

\* LateInv for one user and case.
NobodyLate(c, u) ==
  \A i \in Ending(trail[c], u) :
    /\ ~HasAccess(c, u)
    /\ Cardinality(Late(trail[c], u, i)) + ToCome(c, u) <= 2 * (Cardinality(Workers) - 1)

\* Fewer threads with fewer events to record have less to come.
LEMMA LessToCome ==
  ASSUME NEW c, NEW u, PastChecks(c, u)' \subseteq PastChecks(c, u),
         Starting(c, u)' \subseteq Starting(c, u)
  PROVE  /\ ToCome(c, u) \in Nat /\ ToCome(c, u)' \in Nat
         /\ Cardinality(PastChecks(c, u)') \in Nat
         /\ Cardinality(PastChecks(c, u)') <= Cardinality(PastChecks(c, u))
         /\ Cardinality(Starting(c, u)') \in Nat
         /\ Cardinality(Starting(c, u)') <= Cardinality(Starting(c, u))
         /\ ToCome(c, u)' <= ToCome(c, u)
<1>1. /\ IsFiniteSet(PastChecks(c, u)) /\ Cardinality(PastChecks(c, u)) \in Nat
      /\ IsFiniteSet(Starting(c, u)) /\ Cardinality(Starting(c, u)) \in Nat
  BY ThreadsCounted
<1>2. /\ Cardinality(PastChecks(c, u)') \in Nat
      /\ Cardinality(PastChecks(c, u)') <= Cardinality(PastChecks(c, u))
  BY <1>1, FS_Subset, FS_CardinalityType
<1>3. /\ Cardinality(Starting(c, u)') \in Nat
      /\ Cardinality(Starting(c, u)') <= Cardinality(Starting(c, u))
  BY <1>1, FS_Subset, FS_CardinalityType
<1> QED
  BY <1>1, <1>2, <1>3 DEF ToCome

\* A step that writes nothing and admits nobody leaves no more writes to come.
LEMMA NoMoreToCome ==
  ASSUME TypeOK, NEW c \in Cases, NEW u \in Users, NobodyLate(c, u),
         trail'[c] = trail[c], ~HasAccess(c, u) => ~HasAccess(c, u)',
         ~HasAccess(c, u) => /\ PastChecks(c, u)' \subseteq PastChecks(c, u)
                             /\ Starting(c, u)' \subseteq Starting(c, u)
  PROVE  NobodyLate(c, u)'
<1> SUFFICES ASSUME NEW i \in Ending(trail[c], u)
             PROVE  /\ ~HasAccess(c, u)'
                    /\ Cardinality(Late(trail[c], u, i)) + ToCome(c, u)'
                         <= 2 * (Cardinality(Workers) - 1)
  BY DEF NobodyLate
<1>1. trail[c] \in Seq(Events) /\ i \in DOMAIN trail[c]
  BY DEF TypeOK, Ending
<1>2. /\ ~HasAccess(c, u)
      /\ Cardinality(Late(trail[c], u, i)) + ToCome(c, u) <= 2 * (Cardinality(Workers) - 1)
  BY DEF NobodyLate
<1>3. Cardinality(Late(trail[c], u, i)) \in Nat /\ Cardinality(Workers) \in Nat
  BY <1>1, LateCounted, ApiThreads, FS_CardinalityType
<1>4. ToCome(c, u) \in Nat /\ ToCome(c, u)' \in Nat /\ ToCome(c, u)' <= ToCome(c, u)
  BY <1>2, LessToCome
<1> QED
  BY <1>2, <1>3, <1>4

\* A write was one of those to come, so it takes one of them away.
LEMMA LateWritten ==
  ASSUME ApiInv, RegisterInv, LateInv, NEW t \in Workers, Write(t), NEW c \in Cases,
         NEW u \in Users \ Administrators
  PROVE  NobodyLate(c, u)'
<1>1. /\ TypeOK /\ trail[c] \in Seq(Events) /\ NobodyLate(c, u)
      /\ PastChecks(c, u)' \subseteq PastChecks(c, u)
      /\ Starting(c, u)' \subseteq Starting(c, u) \ {t}
  BY ThreadWritten DEF ApiInv, TypeOK, LateInv, NobodyLate
<1>2. CASE req[t].case # c
  <2>1. trail'[c] = trail[c] /\ assignments'[c] = assignments[c]
    <3> DEFINE d == req[t].case
    <3>a. \E events : AppendActivity(d, events)
      BY DEF Write, CreateCase, AssignUser, RevokeUser, TransitionCase, AddExhibit,
             RecordActivity
    <3>1. \E events : trail' = [trail EXCEPT ![d] = trail[d] \o events]
      BY <3>a DEF AppendActivity
    <3>2. \/ UNCHANGED assignments
          \/ \E rows : assignments' = [assignments EXCEPT ![d] = rows]
      BY DEF Write, CreateCase, AssignUser, RevokeUser, TransitionCase, AddExhibit,
             RecordActivity, InsertAssignment
    <3> QED
      BY <1>1, <1>2, <3>1, <3>2 DEF TypeOK
  <2>2. HasAccess(c, u)' <=> HasAccess(c, u)
    BY <2>1 DEF HasAccess, ActiveAssignments
  <2> QED
    BY <1>1, <2>1, <2>2, NoMoreToCome
<1>3. CASE req[t].case = c /\ req[t].op = "create"
  <2> DEFINE first == <<Created(req[t].actor),
                        Granted(req[t].actor, req[t].actor, NewAssignment(c))>>
  <2>1. CreateCase(c, req[t].actor)
    BY <1>3 DEF Write
  <2>2. trail[c] = <<>>
    BY <2>1 DEF CreateCase, CreateAccepted, CaseExists, ApiInv, TrailsBegun
  <2>3. trail' = [trail EXCEPT ![c] = trail[c] \o first]
    BY <2>1 DEF CreateCase, AppendActivity
  <2>4. \A i \in DOMAIN first : first[i].action # "CASE_ACCESS_REVOKED"
    BY DEF Created, Granted
  <2> HIDE DEF first
  <2>5. trail'[c] = <<>> \o first
    BY <1>1, <2>2, <2>3 DEF TypeOK
  <2>6. trail'[c] = first
    BY <2>5 DEF first
  <2>7. Ending(first, u) = {}
    BY <2>4 DEF Ending, RevocationOf
  <2> QED
    BY <2>6, <2>7 DEF NobodyLate
<1>4. CASE req[t].case = c /\ req[t].op # "create"
  <2>1. PICK e \in Events :
          /\ AppendActivity(c, <<e>>) /\ e.actor = req[t].actor
          /\ \A v \in Users : RevocationOf(e, v) => req[t].op = "revoke" /\ ~HasAccess(c, v)'
          /\ \A v \in Users : ~GrantTo(e, v) /\ ~HasAccess(c, v) => ~HasAccess(c, v)'
    BY <1>4, WriteAccess
  <2> DEFINE old == trail[c]
             new == trail'[c]
             n == Len(old) + 1
             P == Cardinality(PastChecks(c, u))
             Q == Cardinality(PastChecks(c, u)')
             B == Cardinality(Starting(c, u))
             S == Cardinality(Starting(c, u)')
             W == Cardinality(Workers)
  <2>2. new = old \o <<e>> /\ old \in Seq(Events)
    BY <1>1, <2>1 DEF AppendActivity, TypeOK
  <2> HIDE DEF old, new
  <2>3. /\ RevocationOf(e, u) => Ending(new, u) \subseteq {n} /\ Late(new, u, n) = {}
        /\ GrantTo(e, u) => Ending(new, u) = {}
        /\ ~RevocationOf(e, u) => Ending(new, u) \subseteq Ending(old, u)
        /\ \A i \in DOMAIN old :
             Late(new, u, i) = Late(old, u, i) \cup (IF e.actor = u THEN {n} ELSE {})
    <3>1. LateAfter(old, e, u, new)
      BY <2>2, LateAppended
    <3> QED
      BY <3>1 DEF LateAfter
  <2>4. /\ W \in Nat /\ P \in Nat /\ Q \in Nat /\ B \in Nat /\ S \in Nat
        /\ Q <= P /\ S <= B /\ ToCome(c, u) = P + B /\ ToCome(c, u)' = Q + S
    BY <1>1, ThreadsCounted, LessToCome, ApiThreads, FS_CardinalityType DEF ToCome
  <2>5. /\ IsFiniteSet(PastChecks(c, u)) /\ IsFiniteSet(Starting(c, u))
        /\ PastChecks(c, u) \subseteq Workers
    BY ThreadsCounted
  <2>6. e.actor = u => Q + S <= P + B - 1
    <3> SUFFICES ASSUME e.actor = u PROVE Q + S <= P + B - 1
      OBVIOUS
    <3>1. t \in PastChecks(c, u)
      BY <1>4, <2>1, ThreadWritten
    <3>2. CASE Begins(req[t])
      <4>1. t \in Starting(c, u) /\ Starting(c, u)' \subseteq Starting(c, u) \ {t}
        BY <3>1, <3>2, ThreadWritten
      <4>2. S <= B - 1
        BY <2>5, <4>1, OneFewer
      <4> QED
        BY <2>4, <4>2
    <3>3. CASE ~Begins(req[t])
      <4>1. PastChecks(c, u)' \subseteq PastChecks(c, u) \ {t}
        BY <1>1, <3>3, ThreadWritten
      <4>2. Q <= P - 1
        BY <2>5, <3>1, <4>1, OneFewer
      <4> QED
        BY <2>4, <4>2
    <3> QED
      BY <3>2, <3>3
  <2>7. RevocationOf(e, u) => Q <= W - 1 /\ S <= W - 1
    <3> SUFFICES ASSUME RevocationOf(e, u) PROVE Q <= W - 1 /\ S <= W - 1
      OBVIOUS
    <3>1. ~Begins(req[t])
      BY <2>1 DEF Begins
    <3>2. /\ PastChecks(c, u)' \subseteq Workers \ {t}
          /\ Starting(c, u)' \subseteq Workers \ {t}
      BY <1>1, <2>5, <3>1, ThreadWritten DEF Starting
    <3>3. IsFiniteSet(Workers \ {t}) /\ Cardinality(Workers \ {t}) = W - 1
      BY ApiThreads, FS_RemoveElement
    <3> QED
      BY <3>2, <3>3, FS_Subset
  <2> HIDE DEF P, Q, B, S, W
  <2> SUFFICES ASSUME NEW i \in Ending(new, u)
               PROVE  /\ ~HasAccess(c, u)'
                      /\ Cardinality(Late(new, u, i)) + (Q + S) <= 2 * (W - 1)
    BY <2>4 DEF NobodyLate, new, W
  <2>9. CASE RevocationOf(e, u)
    <3>1. i = n /\ Late(new, u, i) = {} /\ ~HasAccess(c, u)'
      BY <2>1, <2>3, <2>9
    <3>2. Cardinality(Late(new, u, i)) = 0
      BY <3>1, FS_EmptySet
    <3> QED
      BY <2>4, <2>7, <2>9, <3>1, <3>2
  <2>10. CASE ~RevocationOf(e, u)
    <3>1. ~GrantTo(e, u) /\ i \in Ending(old, u) /\ i \in DOMAIN old
      BY <2>3, <2>10 DEF Ending
    <3>2. ~HasAccess(c, u) /\ Cardinality(Late(old, u, i)) + (P + B) <= 2 * (W - 1)
      BY <1>1, <2>4, <3>1 DEF NobodyLate, old, W
    <3>3. ~HasAccess(c, u)'
      BY <2>1, <3>1, <3>2
    <3>4. IsFiniteSet(Late(old, u, i)) /\ Cardinality(Late(old, u, i)) \in Nat
      BY <2>2, <3>1, LateCounted
    <3>5. CASE e.actor = u
      <4>1. Late(new, u, i) = Late(old, u, i) \cup {n}
        BY <2>3, <3>1, <3>5
      <4>2. /\ Cardinality(Late(new, u, i)) \in Nat
            /\ Cardinality(Late(new, u, i)) <= Cardinality(Late(old, u, i)) + 1
        <5>1. Cardinality(Late(old, u, i) \cup {n}) =
                IF n \in Late(old, u, i) THEN Cardinality(Late(old, u, i))
                                         ELSE Cardinality(Late(old, u, i)) + 1
          BY <3>4, FS_AddElement
        <5> QED
          BY <3>4, <4>1, <5>1
      <4> QED
        BY <2>4, <2>6, <3>2, <3>3, <3>4, <3>5, <4>2
    <3>6. CASE e.actor # u
      <4>1. Late(new, u, i) = Late(old, u, i)
        BY <2>3, <3>1, <3>6
      <4> QED
        BY <2>4, <3>2, <3>3, <3>4, <4>1
    <3> QED
      BY <3>5, <3>6
  <2> QED
    BY <2>9, <2>10
<1> QED
  BY <1>2, <1>3, <1>4

\* Every step keeps late writes and those to come within two for each other thread.
LEMMA LateInvStep ==
  ASSUME ApiInv, RegisterInv, LateInv, [ApiNext]_apiVars PROVE LateInv'
<1> SUFFICES ASSUME NEW c \in Cases, NEW u \in Users \ Administrators
             PROVE  NobodyLate(c, u)'
  BY DEF LateInv, NobodyLate, Administrators
<1>1. CASE UNCHANGED caseVars
  <2>1. /\ trail'[c] = trail[c] /\ NobodyLate(c, u) /\ TypeOK
        /\ HasAccess(c, u)' <=> HasAccess(c, u)
    BY <1>1 DEF caseVars, HasAccess, ActiveAssignments, LateInv, NobodyLate, ApiInv
  <2> QED
    BY <1>1, <2>1, NobodyPasses, NobodyStarts, NoMoreToCome
<1>2. ASSUME NEW t \in Workers, Write(t) PROVE NobodyLate(c, u)'
  BY <1>2, LateWritten
<1> QED
  BY <1>1, <1>2 DEF ApiNext, Step, Receive, AuthorizeCase, CheckAssignee, CheckRevokee,
                    Refuse, SetUserActive, apiVars, caseVars

\* A revocation cannot stop the calls already past authorize_case, but whoever
\* lost access writes at most two events for each other thread, the most that a
\* handler records after asking once, however many threads, users, grants and
\* revocations there are.
THEOREM LateWritesAreBounded == ApiSpec => []LateWritesBounded
<1>1. ApiInit => LateInv
  BY DEF ApiInit, Init, LateInv, Ending
<1>2. LateInv => LateWritesBounded
  <2>1. \A c \in Cases, u \in Users : /\ LastRevocation(c, u) = Ending(trail[c], u)
    BY DEF LastRevocation, Ending, RevocationOf, GrantTo
  <2> QED
    BY <2>1 DEF LateInv, LateWritesBounded, Late
<1>3. LateInv /\ RegisterInv /\ ApiInv /\ [ApiNext]_apiVars => LateInv'
  BY LateInvStep
<1> QED
  BY <1>1, <1>2, <1>3, RegisterInvariant, ApiInvariant, PTL DEF ApiSpec
=============================================================================
