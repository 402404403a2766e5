--------------------------- MODULE MCBiometricGate ---------------------------
(* Instances of BiometricGate for TLC. *)
EXTENDS BiometricGate, TLC

\* Identifiers and threads are interchangeable.
GateSymmetry ==
  Permutations(Threads) \cup Permutations(AuthIds) \cup Permutations(RunIds)

\* Two states that differ only in what nothing reads any more are the same: the
\* arguments of a request whose row is stored or whose runs are chosen, the
\* content of a preview nobody will finish, the trail once calm is over.
GateView ==
  LET Request(t) ==
        CASE job[t] = Idle           -> <<>>
          [] At(t, Ops, "stored")    -> <<job[t].id>>
          [] job[t].included # {}    -> <<[job[t] EXCEPT !.frames = {}]>>
          [] OTHER                   -> <<job[t]>>
      Preview(r) == IF r \in DOMAIN runs \cup Held THEN previews[r] ELSE "orphan"
  IN  <<clock, moves, tables, [r \in DOMAIN previews |-> Preview(r)],
        IF calm THEN <<bound>> ELSE <<>>, [t \in Threads |-> Request(t)]>>
=============================================================================
