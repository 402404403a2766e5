---------------------------- MODULE Installation ----------------------------
(***************************************************************************)
(* The first start of a laboratory's server, or of several on one data     *)
(* directory: create_product_app and _installation_code (runtime.py) make  *)
(* or read the installation code, and the setup handler (api/app.py) gives *)
(* the first administrator to whoever knows it.  After the code come the   *)
(* stores that share the database, and the port (server.py).               *)
(*                                                                         *)
(* A process may be killed or fail between any two steps; an operator      *)
(* starts it again.  A code is known by the launch that made it.           *)
(***************************************************************************)
CONSTANTS Launches,       \* server processes
          Settings,       \* launch -> FORENX_PORT, as the operator may set it
          Operators,      \* requests to /setup
          NoCode,         \* a server that started with an administrator
          NoFile,         \* no code file
          EmptyFile       \* a code file created and not written

ASSUME InstallationConstants ==
  /\ NoCode \notin Launches \cup {NoFile, EmptyFile}
  /\ {NoFile, EmptyFile} \cap Launches = {} /\ NoFile # EmptyFile

VARIABLES ports,          \* launch -> the port it is configured for
          codeFile,       \* setup-code.txt
          servers,        \* launch -> its stage and setup_code
          setups,         \* request -> launches that let it pass the checks
          owners          \* requests that made the administrator account

installVars == <<ports, codeFile, servers, setups, owners>>

-----------------------------------------------------------------------------
Down == [stage |-> "down", code |-> NoCode]

\* The start found something in its way, and the process ended by itself.
StartFailed == [stage |-> "failed", code |-> NoCode]

Ended(l) == servers[l].stage \in {"down", "failed"}

\* The code is settled; the stores and the application are still to be built.
Building(code) == [stage |-> "building", code |-> code]

Serving(p) == {l \in Launches : ports[l] = p /\ servers[l].stage = "serving"}

\* users.count_users decides whether a code is needed at all.
Launch(l) ==
  /\ Ended(l)
  /\ servers' = [servers EXCEPT ![l] = IF owners = {} THEN [Down EXCEPT !.stage = "starting"]
                                                      ELSE Building(NoCode)]
  /\ UNCHANGED <<ports, codeFile, setups, owners>>

\* O_CREAT and O_EXCL
CreateCodeFile(l) ==
  /\ servers[l].stage = "starting"
  /\ codeFile = NoFile
  /\ codeFile' = EmptyFile
  /\ servers' = [servers EXCEPT ![l].stage = "writing"]
  /\ UNCHANGED <<ports, setups, owners>>

WriteCode(l) ==
  /\ servers[l].stage = "writing"
  /\ codeFile' = l
  /\ servers' = [servers EXCEPT ![l] = Building(l)]
  /\ UNCHANGED <<ports, setups, owners>>

\* Variant: a file that is there already ends the start.
ReadNothing(l) ==
  /\ servers[l].stage = "starting"
  /\ codeFile # NoFile
  /\ servers' = [servers EXCEPT ![l] = StartFailed]
  /\ UNCHANGED <<ports, codeFile, setups, owners>>

\* A file that does not hold a whole code ends the start:
\* "Installation code file is invalid; retry startup".
ReadCodeFile(l) ==
  /\ servers[l].stage = "starting"
  /\ codeFile # NoFile
  /\ servers' = [servers EXCEPT ![l] = IF codeFile = EmptyFile THEN StartFailed
                                                                ELSE Building(codeFile)]
  /\ UNCHANGED <<ports, codeFile, setups, owners>>

\* uvicorn serves if nobody holds the port, and gives up if somebody does.
Bind(l) ==
  /\ servers[l].stage = "building"
  /\ servers' = [servers EXCEPT ![l] = IF Serving(ports[l]) = {} THEN [@ EXCEPT !.stage = "serving"]
                                                                ELSE StartFailed]
  /\ UNCHANGED <<ports, codeFile, setups, owners>>

\* The disk or the database fails the start, in _installation_code or in the
\* constructor of a store: the process ends and leaves what a kill would leave,
\* a file without a code if it was writing it.
FailStart(l) ==
  /\ servers[l].stage \in {"starting", "writing", "building"}
  /\ servers' = [servers EXCEPT ![l] = Down]
  /\ UNCHANGED <<ports, codeFile, setups, owners>>

\* The requests of the process die with it.
Kill(l) ==
  /\ ~Ended(l)
  /\ servers' = [servers EXCEPT ![l] = Down]
  /\ setups' = [o \in Operators |-> setups[o] \ {l}]
  /\ UNCHANGED <<ports, codeFile, owners>>

\* The handler's checks: no account yet, and the right code.
CheckSetup(o, l, code) ==
  /\ setups[o] = {}
  /\ servers[l].stage = "serving"
  /\ owners = {}
  /\ servers[l].code = code
  /\ setups' = [setups EXCEPT ![o] = {l}]
  /\ UNCHANGED <<ports, codeFile, servers, owners>>

\* Variant: the transaction trusts the handler's count.
BootstrapUnchecked(o) ==
  /\ setups[o] # {}
  /\ owners' \in {owners, owners \cup {o}}
  /\ setups' = [setups EXCEPT ![o] = {}]
  /\ UNCHANGED <<ports, codeFile, servers>>

\* bootstrap_administrator counts again, in its transaction; it may also refuse
\* the name or the password.
Bootstrap(o) ==
  /\ setups[o] # {}
  /\ owners' \in {owners, IF owners = {} THEN {o} ELSE owners}
  /\ setups' = [setups EXCEPT ![o] = {}]
  /\ UNCHANGED <<ports, codeFile, servers>>

-----------------------------------------------------------------------------
InstallInit ==
  /\ ports \in Settings
  /\ codeFile = NoFile
  /\ servers = [l \in Launches |-> Down]
  /\ setups = [o \in Operators |-> {}]
  /\ owners = {}

StartUp(l) == Launch(l) \/ CreateCodeFile(l) \/ WriteCode(l) \/ ReadCodeFile(l)
              \/ Bind(l)

\* The operator copies the code out of the file.
OperatorSetup(o, l) == codeFile \in Launches /\ CheckSetup(o, l, codeFile)

InstallNext ==
  \/ \E l \in Launches : StartUp(l) \/ FailStart(l) \/ Kill(l)
  \/ \E o \in Operators, l \in Launches : OperatorSetup(o, l)
  \/ \E o \in Operators : Bootstrap(o)

\* A launch that ends is started again, and goes on unless it is killed or fails.
InstallSpec ==
  InstallInit /\ [][InstallNext]_installVars
  /\ \A l \in Launches : WF_installVars(StartUp(l))

-----------------------------------------------------------------------------
\* Properties.

\* All servers of one data directory ask for the code that is in the file, so
\* the operator can use it on any of them, whichever launch made it and
\* whichever were killed; and one request at most becomes the administrator.
OneInstallation ==
  /\ \A l \in Launches : servers[l].stage = "serving" /\ servers[l].code # NoCode =>
       servers[l].code = codeFile
  /\ \A o, p \in owners : o = p

\* "retry startup" is good advice while the file's writer is at work: a launch
\* that is started again and again gets to serve, or somebody else serves on its
\* port, unless processes are killed or fail on the disk for ever or the writer
\* was stopped between creating and writing the file.  A start that finds an
\* unwritten file or its port taken ends by itself and is no excuse; one that
\* fails on the disk ends as if it had been killed, and Kill covers it.
RetryServes ==
  \/ []<><<\E l \in Launches : Kill(l)>>_installVars
  \/ <>[](codeFile = EmptyFile)
  \/ \A l \in Launches : servers[l].stage = "starting" ~> Serving(ports[l]) # {}
=============================================================================
