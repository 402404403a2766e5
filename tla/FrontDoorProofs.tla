--------------------------- MODULE FrontDoorProofs ---------------------------
(***************************************************************************)
(* Proofs about the servers of one data directory and the logins they      *)
(* serve: they ask for one installation code, there is one first           *)
(* administrator, and each challenge buys one guess, for any number of     *)
(* launches, operators, requests and challenges, any limit on outstanding  *)
(* challenges, any validity and any lag of the clock readings.             *)
(***************************************************************************)
EXTENDS FrontDoor, TLAPS

-----------------------------------------------------------------------------
\* The installation code.

ServerStates == [stage : {"down", "failed", "starting", "writing", "building", "serving"},
                 code : Launches \cup {NoCode}]

InstallType ==
  /\ codeFile \in Launches \cup {NoFile, EmptyFile}
  /\ servers \in [Launches -> ServerStates]

\* The code file is written by the launch that created it, once, and a launch
\* goes on to the stores and serves with the code it wrote or read.
CodeInv ==
  /\ \A l \in Launches : servers[l].stage = "writing" =>
       /\ codeFile = EmptyFile
       /\ \A m \in Launches : servers[m].stage = "writing" => m = l
  /\ \A l \in Launches : servers[l].stage \in {"building", "serving"} /\ servers[l].code # NoCode =>
       servers[l].code = codeFile

OneOwner == \A o, p \in owners : o = p

InstallInv == InstallType /\ CodeInv /\ OneOwner

\* Every step of a server keeps the code file and the codes together.
LEMMA StartUpKeeps ==
  ASSUME InstallInv, NEW l \in Launches, StartUp(l)
  PROVE  InstallInv'
<1> USE InstallationConstants DEF InstallInv, InstallType, ServerStates
<1>1. CASE Launch(l)
  <2>1. servers'[l] \in ServerStates /\ servers'[l].stage # "writing"
        /\ (servers'[l].stage \in {"building", "serving"} => servers'[l].code = NoCode)
    BY <1>1 DEF Launch, Ended, Down, Building
  <2>2. /\ servers' \in [Launches -> ServerStates]
        /\ \A m \in Launches \ {l} : servers'[m] = servers[m]
        /\ codeFile' = codeFile /\ owners' = owners
    BY <1>1, <2>1 DEF Launch
  <2> QED
    BY <2>1, <2>2 DEF CodeInv, OneOwner
<1>2. CASE CreateCodeFile(l)
  <2>1. /\ servers' \in [Launches -> ServerStates]
        /\ servers'[l].stage = "writing"
        /\ \A m \in Launches \ {l} : servers'[m] = servers[m]
    BY <1>2 DEF CreateCodeFile
  <2>2. codeFile = NoFile /\ codeFile' = EmptyFile /\ owners' = owners
    BY <1>2 DEF CreateCodeFile
  <2> QED
    BY <2>1, <2>2 DEF CodeInv, OneOwner
<1>3. CASE WriteCode(l)
  <2>1. /\ servers' \in [Launches -> ServerStates]
        /\ servers'[l].stage = "building" /\ servers'[l].code = l
        /\ \A m \in Launches \ {l} : servers'[m] = servers[m]
    BY <1>3 DEF WriteCode, Building
  <2>2. servers[l].stage = "writing" /\ codeFile' = l /\ owners' = owners
    BY <1>3 DEF WriteCode
  <2> QED
    BY <2>1, <2>2 DEF CodeInv, OneOwner
<1>4. CASE ReadCodeFile(l)
  <2>1. /\ servers'[l] \in ServerStates /\ servers'[l].stage # "writing"
        /\ (servers'[l].stage \in {"building", "serving"} => servers'[l].code = codeFile)
    BY <1>4 DEF ReadCodeFile, StartFailed, Building
  <2>2. /\ servers' \in [Launches -> ServerStates]
        /\ \A m \in Launches \ {l} : servers'[m] = servers[m]
        /\ codeFile' = codeFile /\ owners' = owners
    BY <1>4, <2>1 DEF ReadCodeFile
  <2> QED
    BY <2>1, <2>2 DEF CodeInv, OneOwner
<1>5. CASE Bind(l)
  <2>1. /\ servers'[l] \in ServerStates /\ servers'[l].stage \notin {"writing", "building"}
        /\ (servers'[l].stage = "serving" => servers'[l].code = servers[l].code)
    BY <1>5 DEF Bind, StartFailed
  <2>2. /\ servers' \in [Launches -> ServerStates]
        /\ \A m \in Launches \ {l} : servers'[m] = servers[m]
        /\ servers[l].stage = "building" /\ codeFile' = codeFile /\ owners' = owners
    BY <1>5, <2>1 DEF Bind
  <2> QED
    BY <2>1, <2>2 DEF CodeInv, OneOwner
<1> QED
  BY <1>1, <1>2, <1>3, <1>4, <1>5 DEF StartUp

\* So does one that ends early, killed at any moment or failing at its start.
LEMMA EndKeeps ==
  ASSUME InstallInv, NEW l \in Launches, Kill(l) \/ FailStart(l)
  PROVE  InstallInv'
<1> USE DEF InstallInv, InstallType, ServerStates
<1>1. /\ servers' \in [Launches -> ServerStates]
      /\ servers'[l].stage = "down"
      /\ \A m \in Launches \ {l} : servers'[m] = servers[m]
      /\ codeFile' = codeFile /\ owners' = owners
  BY DEF Kill, FailStart, Down
<1> QED
  BY <1>1 DEF CodeInv, OneOwner

\* The count in bootstrap_administrator's transaction admits one request.
LEMMA SetupKeeps ==
  ASSUME InstallInv, NEW o \in Operators,
         Bootstrap(o) \/ \E l \in Launches : OperatorSetup(o, l)
  PROVE  InstallInv'
BY DEF InstallInv, InstallType, CodeInv, OneOwner, Bootstrap, OperatorSetup, CheckSetup

-----------------------------------------------------------------------------
\* The challenges.

RequestStates == [challenge : Challenges \cup {NoChallenge},
                  stage : {"idle", "sent", "admitted", "failed"}]

LoginType ==
  /\ DOMAIN issued \subseteq Challenges
  /\ guesses \in [Challenges -> Nat]
  /\ requests \in [Requests -> RequestStates]

\* An outstanding challenge has not been compared yet, and a request that was
\* let through has used its challenge up.
GuessInv ==
  /\ \A c \in Challenges : guesses[c] <= 1
  /\ \A c \in DOMAIN issued : guesses[c] = 0
  /\ \A r \in Requests : requests[r].stage = "admitted" =>
       requests[r].challenge \in Challenges \ DOMAIN issued

LoginInv == LoginType /\ GuessInv /\ OneGuessPerChallenge

\* Issuing takes a token nobody uses.
LEMMA IssueKeeps ==
  ASSUME LoginInv, NEW c \in Challenges, NEW lag \in Lags, IssueLoginChallenge(c, lag)
  PROVE  LoginInv'
<1> USE DEF LoginInv, LoginType
<1>1. /\ DOMAIN issued' \subseteq DOMAIN issued \cup {c} /\ requests' = requests
      /\ guesses' = [guesses EXCEPT ![c] = 0]
  BY DEF IssueLoginChallenge, OutstandingFor
<1>2. \A r \in Requests : requests[r].challenge # c
  BY DEF IssueLoginChallenge, Held
<1>3. LoginType' /\ GuessInv'
  BY <1>1, <1>2 DEF GuessInv
<1>4. OneGuessPerChallenge'
  BY <1>1, <1>2, <1>3 DEF GuessInv, OneGuessPerChallenge, RequestStates
<1> QED
  BY <1>3, <1>4

\* Answering uses the challenge up, whoever else carries it.
LEMMA ConsumeKeeps ==
  ASSUME LoginInv, NEW r \in Requests, NEW right \in BOOLEAN, NEW lag \in Lags,
         ConsumeLoginChallenge(r, right, lag)
  PROVE  LoginInv'
<1> USE DEF LoginInv, LoginType
<1> DEFINE c == requests[r].challenge
           valid == c \in DOMAIN issued /\ Unexpired(c, lag)
<1>1. /\ DOMAIN issued' = DOMAIN issued \ {c}
      /\ guesses' = IF valid THEN [guesses EXCEPT ![c] = @ + 1] ELSE guesses
      /\ requests' = [requests EXCEPT ![r].stage = IF valid /\ right THEN "admitted" ELSE "failed"]
  BY DEF ConsumeLoginChallenge, Only, Answer
<1> HIDE DEF valid
<1>2. valid => c \in DOMAIN issued /\ guesses[c] = 0
  BY DEF valid, GuessInv
<1>3. /\ requests'[r].challenge = c /\ (requests'[r].stage = "admitted" => valid)
      /\ \A s \in Requests \ {r} : requests'[s] = requests[s]
  BY <1>1 DEF RequestStates
<1>4. LoginType'
  BY <1>1, <1>2 DEF RequestStates
<1>5. \A d \in Challenges : guesses'[d] = IF valid /\ d = c THEN 1 ELSE guesses[d]
  BY <1>1, <1>2
<1>6. GuessInv'
  BY <1>1, <1>2, <1>3, <1>4, <1>5 DEF GuessInv
<1>7. OneGuessPerChallenge'
  BY <1>1, <1>2, <1>3, <1>5, <1>6 DEF GuessInv, OneGuessPerChallenge
<1> QED
  BY <1>4, <1>6, <1>7

\* The rest: requests that arrive, end or die, and time that passes.
LEMMA OthersKeep ==
  ASSUME LoginInv, DOMAIN issued' = DOMAIN issued, guesses' = guesses,
         requests' \in [Requests -> RequestStates],
         \A r \in Requests : requests'[r] # requests[r] => requests'[r].stage # "admitted"
  PROVE  LoginInv'
BY DEF LoginInv, LoginType, GuessInv, OneGuessPerChallenge

-----------------------------------------------------------------------------
\* Servers and logins together.

FrontInv == InstallInv /\ LoginInv

\* Both parts begin in their invariants,
LEMMA FrontInitEstablishes == FrontInit => FrontInv
<1> SUFFICES ASSUME FrontInit
             PROVE  FrontInv
  OBVIOUS
<1>1. InstallInv
  BY DEF FrontInit, InstallInit, Down, InstallInv, InstallType, ServerStates, CodeInv, OneOwner
<1>2. LoginInv
  BY DEF FrontInit, GateInit, Idle, LoginInv, LoginType, RequestStates, GuessInv,
     OneGuessPerChallenge
<1> QED
  BY <1>1, <1>2 DEF FrontInv

\* and the joint steps keep both.
LEMMA FrontStepPreserves == FrontInv /\ [FrontNext]_frontVars => FrontInv'
<1> SUFFICES ASSUME FrontInv, [FrontNext]_frontVars
             PROVE  FrontInv'
  OBVIOUS
<1> USE DEF FrontInv
<1>0. /\ UNCHANGED installVars => InstallInv'
      /\ UNCHANGED gateVars => LoginInv'
  BY DEF installVars, gateVars, InstallInv, InstallType, CodeInv, OneOwner, LoginInv, LoginType,
     GuessInv, OneGuessPerChallenge
<1>1. CASE ServerStep
  BY <1>0, <1>1, StartUpKeeps, EndKeeps, SetupKeeps DEF ServerStep
<1>2. ASSUME NEW l \in Launches, KillServer(l)
      PROVE  FrontInv'
  <2>1. InstallInv'
    BY <1>2, EndKeeps DEF KillServer
  <2>2. Idle \in RequestStates /\ Idle.stage # "admitted"
    BY DEF Idle, RequestStates
  <2>3. LoginInv'
    BY <1>2, <2>2, OthersKeep DEF KillServer, LoginInv, LoginType
  <2> QED
    BY <2>1, <2>3
<1>3. ASSUME NEW l \in Launches, NEW c \in Challenges, NEW lag \in Lags, Issue(l, c, lag)
      PROVE  FrontInv'
  BY <1>0, <1>3, IssueKeeps DEF Issue
<1>4. ASSUME NEW l \in Launches, NEW r \in Requests, NEW c \in Challenges, Receive(l, r, c)
      PROVE  FrontInv'
  <2>1. [challenge |-> c, stage |-> "sent"] \in RequestStates
    BY DEF RequestStates
  <2>2. LoginInv'
    BY <1>4, <2>1, OthersKeep DEF Receive, Submit, LoginInv, LoginType
  <2> QED
    BY <1>0, <1>4, <2>2 DEF Receive
<1>5. ASSUME NEW r \in Requests, LoginStep(r)
      PROVE  FrontInv'
  BY <1>0, <1>5, ConsumeKeeps DEF LoginStep
<1>6. ASSUME NEW r \in Requests, Reply(r)
      PROVE  FrontInv'
  <2>1. Idle \in RequestStates /\ Idle.stage # "admitted"
    BY DEF Idle, RequestStates
  <2>2. LoginInv'
    BY <1>6, <2>1, OthersKeep DEF Reply, Finish, LoginInv, LoginType
  <2> QED
    BY <1>0, <1>6, <2>2 DEF Reply
<1>7. CASE Passing
  BY <1>0, <1>7, OthersKeep DEF Passing, ClockTicks, LoginInv, LoginType
<1>8. CASE UNCHANGED frontVars
  BY <1>0, <1>8 DEF frontVars
<1> QED
  BY <1>1, <1>2, <1>3, <1>4, <1>5, <1>6, <1>7, <1>8 DEF FrontNext

\* The invariant holds in every reachable state.
THEOREM FrontInvariant == FrontSpec => []FrontInv
<1>1. FrontInit => FrontInv
  BY FrontInitEstablishes
<1>2. FrontInv /\ [FrontNext]_frontVars => FrontInv'
  BY FrontStepPreserves
<1> QED
  BY <1>1, <1>2, PTL DEF FrontSpec

\* A challenge of issue_login_challenge is compared with an answer once at
\* most, and lets one request through to the password at most.
THEOREM ChallengesBuyOneGuess == FrontSpec => []OneGuessPerChallenge
<1>1. FrontInv => OneGuessPerChallenge
  BY DEF FrontInv, LoginInv
<1> QED
  BY <1>1, FrontInvariant, PTL

\* All servers started on one data directory ask for the code in the file, and
\* bootstrap_administrator makes one administrator.
THEOREM OneCodeOneAdministrator == FrontSpec => []OneInstallation
<1>1. FrontInv => OneInstallation
  BY DEF FrontInv, InstallInv, CodeInv, OneOwner, OneInstallation
<1> QED
  BY <1>1, FrontInvariant, PTL
=============================================================================
