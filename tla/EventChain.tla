----------------------------- MODULE EventChain -----------------------------
(***************************************************************************)
(* Events linked by hashes: the activity trail of a case (cases/store.py)  *)
(* and the custody ledger of a package (custody/ledger.py).                *)
(*                                                                         *)
(* A chain maps sequence numbers to events.  A hash is represented by what *)
(* it is taken of, so that two hashes are equal exactly when the payloads  *)
(* are.                                                                    *)
(***************************************************************************)
EXTENDS Integers, FiniteSets, FiniteSetsExt

\* GENESIS_HASH, the predecessor of the first event: the hash of no event.
Genesis == [sequence |-> 0]

Hash(sequence, body, previous) ==
  [sequence |-> sequence, body |-> body, previous |-> previous]

Event(sequence, body, previous) ==
  [body |-> body, previous |-> previous, hash |-> Hash(sequence, body, previous)]

Length(chain) == Cardinality(DOMAIN chain)

\* ORDER BY sequence DESC LIMIT 1
Latest(chain) == IF DOMAIN chain = {} THEN 0 ELSE Max(DOMAIN chain)

HashAt(chain, s) == IF s \in DOMAIN chain THEN chain[s].hash ELSE Genesis

\* _append_activity
Appended(chain, body) ==
  LET n == Latest(chain)
  IN  [s \in DOMAIN chain \cup {n + 1} |->
         IF s = n + 1 THEN Event(n + 1, body, HashAt(chain, n)) ELSE chain[s]]

\* Variant: the links are not compared.
VerifiedUnlinked(chain) ==
  /\ DOMAIN chain = 1 .. Length(chain)
  /\ \A s \in DOMAIN chain :
       chain[s].hash = Hash(s, chain[s].body, chain[s].previous)

\* verify_activity: numbered from one without a gap, each event naming the hash
\* of the one before it and carrying its own.
Verified(chain) ==
  /\ DOMAIN chain = 1 .. Length(chain)
  /\ \A s \in DOMAIN chain : chain[s] = Event(s, chain[s].body, HashAt(chain, s - 1))

\* A ledger to which bodies[1], bodies[2], ... have been appended in turn
\* (CustodyLedger.append).
LedgerOf(bodies) ==
  LET hash[s \in 0 .. Length(bodies)] ==
        IF s = 0 THEN Genesis ELSE Hash(s, bodies[s], hash[s - 1])
  IN  [s \in DOMAIN bodies |-> Event(s, bodies[s], hash[s - 1])]
=============================================================================
