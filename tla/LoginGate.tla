------------------------------ MODULE LoginGate ------------------------------
(***************************************************************************)
(* The picture a user reads before a password is looked at:                *)
(* issue_login_challenge and consume_login_challenge (auth/store.py), and  *)
(* the login handler (api/app.py), which consumes a challenge in one       *)
(* transaction and checks the password in another (AuthStore).             *)
(*                                                                         *)
(* Requests run in threads of their own, and each reads the wall clock     *)
(* before it queues for the write lock, up to MaxLag ago.  Times are kept  *)
(* relative to the clock, so it never stops.                               *)
(***************************************************************************)
EXTENDS Integers, FiniteSets

CONSTANTS Challenges,     \* challenges, each in use once at a time
          Requests,       \* threads that serve /auth/login
          NoChallenge,    \* the request holds none
          Outstanding,    \* MAX_OUTSTANDING_CHALLENGES
          Validity,       \* two minutes
          MaxLag          \* bound: how far a clock reading lags

ASSUME GateConstants ==
  /\ IsFiniteSet(Challenges) /\ NoChallenge \notin Challenges
  /\ Outstanding \in Nat \ {0} /\ Validity \in Nat \ {0} /\ MaxLag \in Nat

VARIABLES issued,         \* login_challenges: challenge -> time until expires_at
          guesses,        \* history: challenge -> answers compared with it
          requests        \* thread -> its challenge and how far it is

gateVars == <<issued, guesses, requests>>

-----------------------------------------------------------------------------
Lags == 0 .. MaxLag

Idle == [challenge |-> NoChallenge, stage |-> "idle"]

\* For a caller whose clock reading lags: expires_at > now.
Unexpired(c, lag) == issued[c] + lag > 0

\* Variant: the expired rows are counted.
OutstandingAll(lag) == DOMAIN issued

\* The rows that survive the DELETE of issue_login_challenge.
OutstandingFor(lag) == {c \in DOMAIN issued : Unexpired(c, lag)}

Refused(lag) == Cardinality(OutstandingFor(lag)) >= Outstanding

Only(table, keys) == [c \in keys |-> table[c]]

Held == {requests[r].challenge : r \in Requests}

\* A token is random: it is not one a request still uses.
IssueLoginChallenge(c, lag) ==
  /\ ~Refused(lag)
  /\ c \notin DOMAIN issued \cup Held
  /\ issued' = [k \in OutstandingFor(lag) \cup {c} |-> IF k = c THEN Validity - lag ELSE issued[k]]
  /\ guesses' = [guesses EXCEPT ![c] = 0]
  /\ UNCHANGED requests

\* A request names a challenge: outstanding, used already, or never issued.
Submit(r, c) ==
  /\ requests[r].stage = "idle"
  /\ requests' = [requests EXCEPT ![r] = [challenge |-> c, stage |-> "sent"]]
  /\ UNCHANGED <<issued, guesses>>

Answer(r, stage) == requests' = [requests EXCEPT ![r].stage = stage]

\* Variant: a wrong answer leaves the row for another try.
ConsumeRightAnswer(r, right, lag) ==
  /\ requests[r].stage = "sent"
  /\ LET c     == requests[r].challenge
         found == c \in DOMAIN issued
         valid == found /\ Unexpired(c, lag)
     IN  /\ issued' = IF right THEN Only(issued, DOMAIN issued \ {c}) ELSE issued
         /\ guesses' = IF valid THEN [guesses EXCEPT ![c] = @ + 1] ELSE guesses
         /\ Answer(r, IF valid /\ right THEN "admitted" ELSE "failed")

\* Whatever the answer, the row goes; only an unexpired one is compared.
ConsumeLoginChallenge(r, right, lag) ==
  /\ requests[r].stage = "sent"
  /\ LET c     == requests[r].challenge
         found == c \in DOMAIN issued
         valid == found /\ Unexpired(c, lag)
     IN  /\ issued' = Only(issued, DOMAIN issued \ {c})
         /\ guesses' = IF valid THEN [guesses EXCEPT ![c] = @ + 1] ELSE guesses
         /\ Answer(r, IF valid /\ right THEN "admitted" ELSE "failed")

\* The password is checked (Authenticate of AuthStore) or the client told.
Finish(r) ==
  /\ requests[r].stage \in {"admitted", "failed"}
  /\ requests' = [requests EXCEPT ![r] = Idle]
  /\ UNCHANGED <<issued, guesses>>

\* Rows older than every reading of the clock look alike.
ClockTicks ==
  /\ issued' = [c \in DOMAIN issued |-> IF Unexpired(c, MaxLag) THEN issued[c] - 1
                                                                 ELSE issued[c]]
  /\ UNCHANGED <<guesses, requests>>

-----------------------------------------------------------------------------
GateInit ==
  /\ issued = <<>>
  /\ guesses = [c \in Challenges |-> 0]
  /\ requests = [r \in Requests |-> Idle]

GateNext ==
  \/ \E c \in Challenges, lag \in Lags : IssueLoginChallenge(c, lag)
  \/ \E r \in Requests, c \in Challenges : Submit(r, c)
  \/ \E r \in Requests, right \in BOOLEAN, lag \in Lags : ConsumeLoginChallenge(r, right, lag)
  \/ \E r \in Requests : Finish(r)
  \/ ClockTicks

\* The wall clock goes on; nobody has to log in.
GateSpec == GateInit /\ [][GateNext]_gateVars /\ WF_gateVars(ClockTicks)

-----------------------------------------------------------------------------
\* Properties.

\* A challenge buys one guess: its answer is compared once at most, right or
\* wrong, however many requests carry it at the same time, so a password is
\* checked at most once for each picture shown.
OneGuessPerChallenge ==
  /\ \A c \in Challenges : guesses[c] <= 1
  /\ \A r \in Requests : requests[r].stage = "admitted" =>
       /\ guesses[requests[r].challenge] = 1
       /\ \A s \in Requests \ {r} :
            requests[s].stage = "admitted" => requests[s].challenge # requests[r].challenge

\* Nobody is kept out for good: when challenges are refused because too many are
\* outstanding, expiry alone makes room, also if no one ever answers them
\* (the DELETE in front of the count).
RoomReturns == Refused(0) ~> ~Refused(0)
=============================================================================
