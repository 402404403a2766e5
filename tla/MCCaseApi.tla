----------------------------- MODULE MCCaseApi -----------------------------
\* Small instances of the case handlers for TLC: each behaviour plays one scene.
EXTENDS CaseApi, TLC

CONSTANTS c1, admin, supervisor, examiner, x1, w1, w2,
          Scenes          \* those a behaviour may play

VARIABLE scene

Roles ==
  [u \in Users |-> CASE u = admin      -> "administrator"
                     [] u = supervisor -> "supervisor"
                     [] u = examiner   -> "examiner"]

Everyone == {admin, supervisor, examiner}
AdminAndSupervisor == {admin, supervisor}
CaseWork == {"create", "assign", "revoke", "transition"}

\* "life": a whole case life with send-backs, one request at a time, nobody revoked.
\* "races": two users racing on a case through two threads.
\* "assignment": a user suspended while being assigned.
SceneOf ==
  [life       |-> [users |-> {admin, examiner}, threads |-> 1, ops |-> CaseWork \ {"revoke"},
                   suspended |-> {}, version |-> 9, trail |-> 10, grants |-> 2],
   races      |-> [users |-> AdminAndSupervisor, threads |-> 2, ops |-> DOMAIN Arguments,
                   suspended |-> AdminAndSupervisor, version |-> 3, trail |-> 6, grants |-> 6],
   assignment |-> [users |-> Everyone, threads |-> 2, ops |-> CaseWork,
                   suspended |-> Everyone, version |-> 3, trail |-> 4, grants |-> 4]]

\* There is room in the scene for another request about c.
SceneHasRoom(s, c, op) ==
  /\ Cardinality(Busy) < s.threads
  /\ Len(trail[c]) + Cardinality(Busy) < s.trail
  /\ CaseExists(c) => cases[c].version < s.version
  /\ op = "assign" => Len(assignments[c]) < s.grants

ArgumentsIn(s, op) == IF op \in {"assign", "revoke"} THEN s.users ELSE Arguments[op]

SceneInit == ApiInit /\ scene \in Scenes

\* ApiNext with the users, requests and suspensions of the scene.
SceneNext ==
  /\ UNCHANGED scene
  /\ LET s == SceneOf[scene]
     IN  \/ \E t \in Workers, c \in Cases, op \in s.ops :
              /\ SceneHasRoom(s, c, op)
              /\ \E u \in s.users, arg \in ArgumentsIn(s, op) : Receive(t, u, op, c, arg)
         \/ \E t \in Workers : Step(t)
         \/ \E u \in s.suspended : SetUserActive(u)

SceneSpec == SceneInit /\ [][SceneNext]_<<apiVars, scene>>

\* Threads and case references are only compared for equality.
Interchangeable == Permutations(Workers) \cup Permutations(Cases)
=============================================================================
