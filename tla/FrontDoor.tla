------------------------------ MODULE FrontDoor ------------------------------
(***************************************************************************)
(* The servers of Installation and the login requests of LoginGate on one  *)
(* database: every server of the data directory issues and consumes the    *)
(* same login_challenges, and a request dies with the server that runs it, *)
(* also between its two transactions.                                      *)
(***************************************************************************)
EXTENDS Installation, LoginGate

CONSTANT NoServer         \* the request runs nowhere

VARIABLE servedBy         \* login request -> the server that runs it

frontVars == <<installVars, gateVars, servedBy>>

-----------------------------------------------------------------------------
Up(l) == servers[l].stage = "serving"

FrontInit ==
  /\ InstallInit /\ GateInit
  /\ servedBy = [r \in Requests |-> NoServer]

ServerStep ==
  /\ \/ \E l \in Launches : StartUp(l) \/ FailStart(l)
     \/ \E o \in Operators, l \in Launches : OperatorSetup(o, l)
     \/ \E o \in Operators : Bootstrap(o)
  /\ UNCHANGED <<gateVars, servedBy>>

\* The database keeps what the killed requests committed.
KillServer(l) ==
  /\ Kill(l)
  /\ requests' = [r \in Requests |-> IF servedBy[r] = l THEN Idle ELSE requests[r]]
  /\ servedBy' = [r \in Requests |-> IF servedBy[r] = l THEN NoServer ELSE servedBy[r]]
  /\ UNCHANGED <<issued, guesses>>

Issue(l, c, lag) ==
  /\ Up(l)
  /\ IssueLoginChallenge(c, lag)
  /\ UNCHANGED <<installVars, servedBy>>

Receive(l, r, c) ==
  /\ Up(l)
  /\ Submit(r, c)
  /\ servedBy' = [servedBy EXCEPT ![r] = l]
  /\ UNCHANGED installVars

LoginStep(r) ==
  /\ \E right \in BOOLEAN, lag \in Lags : ConsumeLoginChallenge(r, right, lag)
  /\ UNCHANGED <<installVars, servedBy>>

Reply(r) ==
  /\ Finish(r)
  /\ servedBy' = [servedBy EXCEPT ![r] = NoServer]
  /\ UNCHANGED installVars

Passing == ClockTicks /\ UNCHANGED <<installVars, servedBy>>

FrontNext ==
  \/ ServerStep
  \/ \E l \in Launches : KillServer(l)
  \/ \E l \in Launches, c \in Challenges, lag \in Lags : Issue(l, c, lag)
  \/ \E l \in Launches, r \in Requests, c \in Challenges : Receive(l, r, c)
  \/ \E r \in Requests : LoginStep(r) \/ Reply(r)
  \/ Passing

\* Launches go on and are started again, time passes; nobody has to set up, log
\* in, or be killed.
FrontSpec ==
  /\ FrontInit /\ [][FrontNext]_frontVars
  /\ WF_frontVars(Passing)
  /\ \A l \in Launches : WF_frontVars(StartUp(l) /\ UNCHANGED <<gateVars, servedBy>>)
=============================================================================
