--------------------------- MODULE CaseLifecycle ---------------------------
(***************************************************************************)
(* What the case register promises about a case, without tables, versions  *)
(* or history: a case is opened at the first of seven stages, advances one *)
(* stage at a time, may be sent back one stage (an approved case is sent   *)
(* back two, to the examiner), and never leaves the last stage.            *)
(***************************************************************************)
EXTENDS Integers

CONSTANT Cases

VARIABLE stage      \* stage[c]: 0 before the case is opened, 1 .. 7 after

First == 1
Review == 4         \* where an approved case is sent back to
Approved == 6
Last == 7

Init == stage = [c \in Cases |-> 0]

Open(c) == stage[c] = 0 /\ stage' = [stage EXCEPT ![c] = First]

Advance(c) == stage[c] \in First .. Last - 1
              /\ stage' = [stage EXCEPT ![c] = stage[c] + 1]

SendBack(c) == stage[c] \in First + 1 .. Approved
               /\ stage' = [stage EXCEPT ![c] = IF stage[c] = Approved
                                                THEN Review ELSE stage[c] - 1]

Next == \E c \in Cases : Open(c) \/ Advance(c) \/ SendBack(c)

Spec == Init /\ [][Next]_stage
=============================================================================
