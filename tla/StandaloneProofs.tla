-------------------------- MODULE StandaloneProofs --------------------------
(***************************************************************************)
(* What is proved about the parts of the program that stand alone: the     *)
(* exported package and its verifier, carving, the bitstream check, the    *)
(* choice of a format, the suppression of overlapping faces and the        *)
(* examination of media.  One section for each.                            *)
(***************************************************************************)
EXTENDS EvidencePackage, SignatureSearch, HikbTree, NalScan, FaceTracking, FaceSuppression,
        ProbeChoice, MediaExamination, FiniteSetTheorems, SequenceTheorems,
        WellFoundedInduction, TLAPS

-----------------------------------------------------------------------------
\* Numbers and sequences.

\* A set of natural numbers that holds one has a smallest.
LEMMA SmallestOf ==
  ASSUME NEW T \in SUBSET Nat, T # {}
  PROVE  \E n \in T : \A m \in T : n <= m
<1> DEFINE I == {1 .. n : n \in T}
           R == StrictSubsetOrdering(Nat)
<1>1. \A n \in T : 1 .. n \in FiniteSubsetsOf(Nat)
  BY FS_Interval DEF FiniteSubsetsOf
<1>2. I \subseteq FiniteSubsetsOf(Nat) /\ I # {}
  BY <1>1
<1>3. IsWellFoundedOn(R, FiniteSubsetsOf(Nat))
  BY FS_StrictSubsetOrderingWellFounded
<1> HIDE DEF R
<1>4. \E x \in I : \A y \in I : ~ (<<y, x>> \in R)
  <2> HIDE DEF I
  <2> QED
    BY <1>2, <1>3, WFMin
<1>5. PICK n \in T : \A y \in I : ~ (<<y, 1 .. n>> \in R)
  BY <1>4
<1>6. ASSUME NEW m \in T, m < n PROVE FALSE
  <2>1. 1 .. m \subseteq 1 .. n /\ 1 .. m # 1 .. n
    <3>1. n \in 1 .. n /\ n \notin 1 .. m
      BY <1>6
    <3> QED
      BY <1>6, <3>1
  <2>2. <<1 .. m, 1 .. n>> \in R
    BY <2>1 DEF R, StrictSubsetOrdering
  <2> QED
    BY <2>2, <1>5
<1> QED
  BY <1>5, <1>6

\* A finite set of natural numbers has an upper bound.
LEMMA BoundOf ==
  ASSUME NEW T \in SUBSET Nat, IsFiniteSet(T)
  PROVE  \E n \in Nat : \A m \in T : m <= n
<1> DEFINE Unbounded(U) == \A n \in Nat : \E m \in U : m > n
           R == StrictSubsetOrdering(Nat)
           W == {U \in FiniteSubsetsOf(Nat) : Unbounded(U)}
<1> SUFFICES ASSUME Unbounded(T) PROVE FALSE
  OBVIOUS
<1>1. W \subseteq FiniteSubsetsOf(Nat) /\ W # {}
  BY DEF FiniteSubsetsOf
<1>2. IsWellFoundedOn(R, FiniteSubsetsOf(Nat))
  BY FS_StrictSubsetOrderingWellFounded
<1> HIDE DEF R
<1>3. \E x \in W : \A y \in W : ~ (<<y, x>> \in R)
  <2> HIDE DEF W
  <2> QED
    BY <1>1, <1>2, WFMin
<1>4. PICK U \in W : \A y \in W : ~ (<<y, U>> \in R)
  BY <1>3
<1>5. U \in SUBSET Nat /\ IsFiniteSet(U) /\ Unbounded(U)
  BY DEF FiniteSubsetsOf
<1>6. PICK u : u \in U
  BY <1>5
<1>7. Unbounded(U \ {u})
  <2> SUFFICES ASSUME NEW n \in Nat PROVE \E m \in U \ {u} : m > n
    OBVIOUS
  <2>1. PICK k \in Nat : k >= n /\ k >= u
    BY <1>5, <1>6
  <2>2. PICK m \in U : m > k
    BY <1>5
  <2> QED
    BY <1>5, <1>6, <2>1, <2>2
<1>8. U \ {u} \in W
  BY <1>5, <1>7, FS_RemoveElement DEF FiniteSubsetsOf
<1>9. <<U \ {u}, U>> \in R
  BY <1>5, <1>6 DEF R, StrictSubsetOrdering
<1> QED
  BY <1>4, <1>8, <1>9

\* A finite set of natural numbers that holds one has a largest.
LEMMA LargestOf ==
  ASSUME NEW T \in SUBSET Nat, IsFiniteSet(T), T # {}
  PROVE  \E n \in T : \A m \in T : m <= n
<1> DEFINE B == {n \in Nat : \A m \in T : m <= n}
<1>1. B \in SUBSET Nat /\ B # {}
  BY BoundOf
<1>2. PICK n \in B : \A b \in B : n <= b
  BY <1>1, SmallestOf
<1>3. ASSUME n \notin T PROVE FALSE
  <2>1. n # 0
    <3>1. PICK m \in T : TRUE
      OBVIOUS
    <3> QED
      BY <1>2, <1>3, <3>1
  <2>2. n - 1 \in B
    BY <1>2, <1>3, <2>1
  <2> QED
    BY <1>2, <2>2
<1> QED
  BY <1>2, <1>3

\* The numbers up to one are that many.
LEMMA IntervalCount ==
  ASSUME NEW n \in Nat PROVE IsFiniteSet(1 .. n) /\ Cardinality(1 .. n) = n
<1>1. /\ IsFiniteSet(1 .. n)
      /\ Cardinality(1 .. n) = IF 1 > n THEN 0 ELSE n - 1 + 1
  BY FS_Interval
<1> QED
  BY <1>1

\* What Append leaves, whatever the elements are.
LEMMA AppendedTo ==
  ASSUME NEW S, NEW s \in Seq(S), NEW e
  PROVE  /\ Append(s, e) \in Seq(S \cup {e})
         /\ Len(s) \in Nat
         /\ Len(Append(s, e)) = Len(s) + 1
         /\ DOMAIN s = 1 .. Len(s)
         /\ DOMAIN Append(s, e) = DOMAIN s \cup {Len(s) + 1}
         /\ \A i \in DOMAIN s : Append(s, e)[i] = s[i]
         /\ Append(s, e)[Len(s) + 1] = e
<1>1. s \in Seq(S \cup {e}) /\ e \in S \cup {e}
  BY SeqMonotonic
<1>2. /\ Append(s, e) \in Seq(S \cup {e})
      /\ Len(Append(s, e)) = Len(s) + 1
      /\ \A i \in 1 .. Len(s) : Append(s, e)[i] = s[i]
      /\ Append(s, e)[Len(s) + 1] = e
  BY <1>1, AppendProperties
<1> QED
  BY <1>1, <1>2

-----------------------------------------------------------------------------
\* Packages: chains.

ChainShape(chain) == DOMAIN chain \in SUBSET (Nat \ {0}) /\ IsFiniteSet(DOMAIN chain)

\* The last sequence of a chain is in it, or 0.
LEMMA LatestOf ==
  ASSUME NEW chain, ChainShape(chain)
  PROVE  /\ Latest(chain) \in Nat
         /\ DOMAIN chain # {} => Latest(chain) \in DOMAIN chain
         /\ DOMAIN chain = {} => Latest(chain) = 0
         /\ \A s \in DOMAIN chain : s <= Latest(chain)
<1>1. CASE DOMAIN chain = {}
  BY <1>1 DEF Latest
<1>2. CASE DOMAIN chain # {}
  <2>1. \E n \in DOMAIN chain : \A m \in DOMAIN chain : n >= m
    BY <1>2, LargestOf DEF ChainShape
  <2>2. Max(DOMAIN chain) \in DOMAIN chain /\ \A m \in DOMAIN chain : Max(DOMAIN chain) >= m
    BY <2>1 DEF Max
  <2> QED
    BY <1>2, <2>2 DEF Latest, ChainShape
<1> QED
  BY <1>1, <1>2

\* No event's hash is the genesis hash.
LEMMA GenesisApart ==
  ASSUME NEW s \in Nat \ {0}, NEW body, NEW previous
  PROVE  Hash(s, body, previous) # Genesis
BY DEF Hash, Genesis

\* Hashes of different payloads differ.
LEMMA HashInjective ==
  ASSUME NEW s, NEW b, NEW p, NEW t, NEW c, NEW q, Hash(s, b, p) = Hash(t, c, q)
  PROVE  s = t /\ b = c /\ p = q
BY DEF Hash

\* What Without and Put leave of a table.
LEMMA TableParts ==
  ASSUME NEW t, NEW k, NEW v
  PROVE  /\ DOMAIN Without(t, k) = DOMAIN t \ {k}
         /\ \A j \in DOMAIN t \ {k} : Without(t, k)[j] = t[j]
         /\ DOMAIN Put(t, k, v) = DOMAIN t \cup {k}
         /\ Put(t, k, v)[k] = v
         /\ \A j \in DOMAIN t \ {k} : Put(t, k, v)[j] = t[j]
BY DEF Without, Put

-----------------------------------------------------------------------------
\* Packages: the trail on the disk.

Tampered(row) == [row EXCEPT !.body.intact = FALSE]

\* Every event ever written carries its own hash and that of an event written
\* before, or none.
PastOK(w, i) ==
  /\ w[i].row.hash.sequence \in Nat \ {0}
  /\ w[i].row = Event(w[i].row.hash.sequence, [id |-> i, intact |-> TRUE], w[i].row.previous)
  /\ w[i].after \in 0 .. i - 1
  /\ w[i].row.previous = IF w[i].after = 0 THEN Genesis ELSE w[w[i].after].row.hash

PastsOK(w) == (\E S : w \in Seq(S)) /\ \A i \in DOMAIN w : PastOK(w, i)

\* A row that was written, or one that was and has been tampered with.
RowKnown(row, w) == \E i \in DOMAIN w : row = w[i].row \/ row = Tampered(w[i].row)

\* Whatever happened to the disk, it holds such rows.
TrailKnown(t, w) == ChainShape(t) /\ \A s \in DOMAIN t : RowKnown(t[s], w)

\* A damaged row, field by field.
LEMMA TamperedParts ==
  ASSUME NEW id, NEW q, NEW h, NEW z
  PROVE  Tampered([body |-> [id |-> id, intact |-> z], previous |-> q, hash |-> h])
           = [body |-> [id |-> id, intact |-> FALSE], previous |-> q, hash |-> h]
<1> DEFINE b == [id |-> id, intact |-> z]
           c == [id |-> id, intact |-> FALSE]
           v == [body |-> b, previous |-> q, hash |-> h]
<1>1. v.body = b /\ [b EXCEPT !.intact = FALSE] = c
  <2>1. ASSUME NEW f PROVE [b EXCEPT !.intact = f] = [id |-> id, intact |-> f]
    OBVIOUS
  <2> QED
    BY <2>1, Zenon
<1>2. Tampered(v) = [v EXCEPT !.body = c]
  BY <1>1 DEF Tampered
<1> HIDE DEF b, c
<1>3. [v EXCEPT !.body = c] = [body |-> c, previous |-> q, hash |-> h]
  OBVIOUS
<1> QED
  BY <1>2, <1>3 DEF b, c

\* The parts of a row the disk holds.
RowParts(row, w) ==
  /\ row.body.id \in DOMAIN w
  /\ row.hash = w[row.body.id].row.hash
  /\ row.previous = w[row.body.id].row.previous
  /\ row.hash.sequence \in Nat \ {0}
  /\ row.hash.body.intact = TRUE
  /\ row.body.intact \in BOOLEAN
  /\ row.body.intact = TRUE => row = w[row.body.id].row

\* The parts of a known row, and the same row damaged is known.
LEMMA KnownRow ==
  ASSUME NEW w, PastsOK(w), NEW row, RowKnown(row, w)
  PROVE  RowParts(row, w) /\ RowKnown(Tampered(row), w)
<1>1. PICK i \in DOMAIN w : row = w[i].row \/ row = Tampered(w[i].row)
  BY DEF RowKnown
<1> DEFINE v == w[i].row
           q == v.previous
           h == v.hash
           b == [id |-> i, intact |-> TRUE]
<1>2. v = [body |-> b, previous |-> q, hash |-> Hash(h.sequence, b, q)]
      /\ h.sequence \in Nat \ {0}
  BY DEF PastsOK, PastOK, Event
<1>3. h.body.intact = TRUE
  BY <1>2 DEF Hash
<1> HIDE DEF v, h, q
<1>4. v = [body |-> b, previous |-> q, hash |-> h]
  BY <1>2 DEF h
<1>5. Tampered(v) = [body |-> [id |-> i, intact |-> FALSE], previous |-> q, hash |-> h]
  BY <1>4, TamperedParts
<1>6. Tampered(Tampered(v)) = Tampered(v)
  BY <1>5, TamperedParts
<1>7. row = v \/ row = Tampered(v)
  BY <1>1 DEF v
<1>8. RowKnown(Tampered(row), w)
  <2>1. Tampered(row) = Tampered(v)
    BY <1>6, <1>7
  <2> QED
    BY <2>1 DEF RowKnown, v
<1>9. row.body.id = i /\ row.hash = h /\ row.previous = q
      /\ (row.body.intact = TRUE \/ row.body.intact = FALSE)
      /\ (row.body.intact = TRUE => row = v)
  BY <1>4, <1>5, <1>7
<1> QED
  BY <1>2, <1>3, <1>8, <1>9 DEF v, h, q, RowParts

\* Events of the past stay as they are when one is added.
LEMMA PastGrows ==
  ASSUME NEW w, PastsOK(w), NEW e, NEW x, x = Append(w, e), PastOK(x, Len(w) + 1)
  PROVE  /\ PastsOK(x)
         /\ DOMAIN x = DOMAIN w \cup {Len(w) + 1}
         /\ \A i \in DOMAIN w : x[i] = w[i]
         /\ \A row : RowKnown(row, w) => RowKnown(row, x)
<1> DEFINE n == Len(w) + 1
<1>1. PICK S : w \in Seq(S)
  BY DEF PastsOK
<1>2. /\ x \in Seq(S \cup {e}) /\ Len(w) \in Nat
      /\ DOMAIN w = 1 .. Len(w)
      /\ DOMAIN x = DOMAIN w \cup {n}
      /\ \A i \in DOMAIN w : x[i] = w[i]
      /\ x[n] = e
  BY <1>1, AppendedTo
<1>3. ASSUME NEW i \in DOMAIN w PROVE PastOK(x, i)
  <2>1. PastOK(w, i)
    BY DEF PastsOK
  <2>2. w[i].after # 0 => w[i].after \in DOMAIN w
    BY <1>2, <2>1 DEF PastOK
  <2> QED
    BY <1>2, <2>1, <2>2 DEF PastOK
<1>4. PastsOK(x)
  BY <1>2, <1>3 DEF PastsOK
<1>5. \A row : RowKnown(row, w) => RowKnown(row, x)
  BY <1>2 DEF RowKnown
<1> QED
  BY <1>2, <1>4, <1>5

\* What Appended adds to a chain, and keeps.
LEMMA AppendedParts ==
  ASSUME NEW t, ChainShape(t), NEW body
  PROVE  /\ Latest(t) \in Nat /\ Latest(t) + 1 \notin DOMAIN t
         /\ ChainShape(Appended(t, body))
         /\ DOMAIN Appended(t, body) = DOMAIN t \cup {Latest(t) + 1}
         /\ Appended(t, body)[Latest(t) + 1] = Event(Latest(t) + 1, body, HashAt(t, Latest(t)))
         /\ \A s \in DOMAIN t : Appended(t, body)[s] = t[s]
<1>1. Latest(t) \in Nat /\ Latest(t) + 1 \notin DOMAIN t
  BY LatestOf DEF ChainShape
<1>2. /\ DOMAIN Appended(t, body) = DOMAIN t \cup {Latest(t) + 1}
      /\ Appended(t, body)[Latest(t) + 1] = Event(Latest(t) + 1, body, HashAt(t, Latest(t)))
      /\ \A s \in DOMAIN t : Appended(t, body)[s] = t[s]
  BY <1>1 DEF Appended
<1>3. ChainShape(Appended(t, body))
  <2>1. IsFiniteSet(DOMAIN t \cup {Latest(t) + 1})
    BY FS_AddElement DEF ChainShape
  <2> QED
    BY <1>1, <1>2, <2>1 DEF ChainShape
<1> QED
  BY <1>1, <1>2, <1>3

\* An event that is recorded is written and known.
LEMMA RecordKeepsTrail ==
  ASSUME PastsOK(written), TrailKnown(trail, written), RecordActivity
  PROVE  /\ PastsOK(written') /\ TrailKnown(trail', written')
         /\ DOMAIN written \subseteq DOMAIN written'
         /\ \A i \in DOMAIN written : written'[i] = written[i]
<1> DEFINE n == Latest(trail)
           added == Event(n + 1, NewBody, HashAt(trail, n))
           after == IF DOMAIN trail = {} THEN 0 ELSE trail[n].body.id
           k == Len(written) + 1
           past == [row |-> added, after |-> after]
           x == Append(written, past)
<1>1. /\ n \in Nat /\ n + 1 \notin DOMAIN trail
      /\ DOMAIN trail # {} => n \in DOMAIN trail
      /\ DOMAIN trail = {} => n \notin DOMAIN trail
  BY LatestOf, AppendedParts DEF TrailKnown
<1>2. /\ ChainShape(trail')
      /\ DOMAIN trail' = DOMAIN trail \cup {n + 1}
      /\ trail'[n + 1] = added
      /\ \A s \in DOMAIN trail : trail'[s] = trail[s]
  BY AppendedParts DEF RecordActivity, TrailKnown
<1>3. written' = x
  BY <1>2 DEF RecordActivity
<1>4. PICK S : written \in Seq(S)
  BY DEF PastsOK
<1>5. /\ Len(written) \in Nat /\ DOMAIN written = 1 .. Len(written)
      /\ DOMAIN x = DOMAIN written \cup {k} /\ x[k] = past
      /\ \A i \in DOMAIN written : x[i] = written[i]
  BY <1>4, AppendedTo
<1>6. /\ added.hash.sequence = n + 1 /\ added.previous = HashAt(trail, n)
      /\ added = Event(n + 1, [id |-> k, intact |-> TRUE], added.previous)
  BY DEF Event, Hash, NewBody
<1>7. /\ after \in 0 .. k - 1
      /\ HashAt(trail, n) = IF after = 0 THEN Genesis ELSE written[after].row.hash
  <2>1. CASE DOMAIN trail = {}
    BY <1>1, <1>5, <2>1 DEF HashAt
  <2>2. CASE DOMAIN trail # {}
    <3> HIDE DEF n
    <3>1. after \in DOMAIN written /\ trail[n].hash = written[after].row.hash
      <4>1. RowKnown(trail[n], written) /\ after = trail[n].body.id
        BY <1>1, <2>2 DEF TrailKnown
      <4> HIDE DEF after
      <4>2. /\ trail[n].body.id \in DOMAIN written
            /\ trail[n].hash = written[trail[n].body.id].row.hash
        <5>1. RowKnown(trail[n], written)
          BY <4>1
        <5>2. RowParts(trail[n], written)
          BY <5>1, KnownRow
        <5> QED
          BY <5>2 DEF RowParts
      <4> QED
        BY <4>1, <4>2
    <3> QED
      BY <1>1, <1>5, <2>2, <3>1 DEF HashAt
  <2> QED
    BY <2>1, <2>2
<1>8. PastOK(x, k)
  <2>1. x[k].row = added /\ x[k].after = after
    BY <1>5
  <2>2. after # 0 => after \in DOMAIN written
    BY <1>5, <1>7
  <2> HIDE DEF added, after, x
  <2> QED
    BY <1>1, <1>5, <1>6, <1>7, <2>1, <2>2 DEF PastOK
<1> HIDE DEF x, past, added
<1>9. PastsOK(x) /\ \A r : RowKnown(r, written) => RowKnown(r, x)
  BY <1>8, PastGrows DEF x
<1>10. RowKnown(added, x)
  BY <1>5 DEF RowKnown, past
<1>11. TrailKnown(trail', x)
  BY <1>2, <1>9, <1>10 DEF TrailKnown
<1> QED
  BY <1>3, <1>5, <1>9, <1>11

\* A row taken out of such a table, or a known one put in, leaves such a table.
LEMMA TablesKnown ==
  ASSUME NEW t, NEW w, TrailKnown(t, w), NEW k
  PROVE  /\ TrailKnown(Without(t, k), w)
         /\ \A row : k \in Nat \ {0} /\ RowKnown(row, w) => TrailKnown(Put(t, k, row), w)
<1>1. TrailKnown(Without(t, k), w)
  <2>1. IsFiniteSet(DOMAIN t \ {k})
    BY FS_RemoveElement DEF TrailKnown, ChainShape
  <2>2. /\ DOMAIN Without(t, k) = DOMAIN t \ {k}
        /\ \A j \in DOMAIN t \ {k} : Without(t, k)[j] = t[j]
    BY TableParts
  <2> QED
    BY <2>1, <2>2 DEF TrailKnown, ChainShape
<1>2. ASSUME NEW row, k \in Nat \ {0}, RowKnown(row, w)
      PROVE  TrailKnown(Put(t, k, row), w)
  <2>1. IsFiniteSet(DOMAIN t \cup {k})
    BY FS_AddElement DEF TrailKnown, ChainShape
  <2>2. /\ DOMAIN Put(t, k, row) = DOMAIN t \cup {k}
        /\ Put(t, k, row)[k] = row
        /\ \A j \in DOMAIN t \ {k} : Put(t, k, row)[j] = t[j]
    BY DEF Put
  <2> QED
    BY <1>2, <2>1, <2>2 DEF TrailKnown, ChainShape
<1> QED
  BY <1>1, <1>2

\* A damaged disk still holds nothing else.
LEMMA DamageKeepsTrail ==
  ASSUME PackageConstants, PastsOK(written), TrailKnown(trail, written), Disk
  PROVE  TrailKnown(trail', written) /\ written' = written
<1>1. ASSUME NEW s \in DOMAIN trail, LoseEvent(s) PROVE TrailKnown(trail', written)
  BY <1>1, TablesKnown DEF LoseEvent, DamageTrail
<1>2. ASSUME NEW s \in DOMAIN trail, AlterEvent(s) PROVE TrailKnown(trail', written)
  <2>1. trail' = [trail EXCEPT ![s] = Tampered(@)]
    BY <1>2 DEF AlterEvent, DamageTrail, Tampered
  <2>2. RowKnown(Tampered(trail[s]), written)
    BY KnownRow DEF TrailKnown
  <2>3. /\ DOMAIN trail' = DOMAIN trail
        /\ \A j \in DOMAIN trail : trail'[j] = IF j = s THEN Tampered(trail[s]) ELSE trail[j]
    BY <2>1
  <2> QED
    BY <2>2, <2>3 DEF TrailKnown, ChainShape
<1>3. ASSUME NEW s \in DOMAIN trail, NEW to \in 1 .. MaxEvents, RenumberEvent(s, to)
      PROVE  TrailKnown(trail', written)
  <2>1. to \in Nat \ {0} /\ RowKnown(trail[s], written)
    BY DEF PackageConstants, TrailKnown
  <2>2. TrailKnown(Without(trail, s), written)
    BY TablesKnown
  <2>3. trail' = Put(Without(trail, s), to, trail[s])
    BY <1>3 DEF RenumberEvent, DamageTrail
  <2> QED
    BY <2>1, <2>2, <2>3, TablesKnown
<1>4. ASSUME NEW i \in DOMAIN written, RestoreEvent(i) PROVE TrailKnown(trail', written)
  <2>1. written[i].row.hash.sequence \in Nat \ {0}
    BY DEF PastsOK, PastOK
  <2>2. RowKnown(written[i].row, written)
    BY DEF RowKnown
  <2>3. trail' = Put(trail, written[i].row.hash.sequence, written[i].row)
    BY <1>4 DEF RestoreEvent, DamageTrail
  <2> QED
    BY <2>1, <2>2, <2>3, TablesKnown
<1>5. written' = written
  BY DEF Disk, LoseEvent, AlterEvent, RenumberEvent, RestoreEvent, DamageTrail
<1> QED
  BY <1>1, <1>2, <1>3, <1>4, <1>5 DEF Disk

\* A trail that verifies is the trail written, as far as it goes.
LEMMA TrailAsWritten ==
  ASSUME PastsOK(written), TrailKnown(trail, written)
  PROVE  AcceptedTrailAsWritten
<1> SUFFICES ASSUME Verified(trail), NEW s \in DOMAIN trail
             PROVE  LET past == written[trail[s].body.id]
                    IN  /\ trail[s] = past.row
                        /\ past.after = IF s = 1 THEN 0 ELSE trail[s - 1].body.id
  BY DEF AcceptedTrailAsWritten
<1> DEFINE id == trail[s].body.id
           past == written[id]
<1>1. /\ s \in Nat \ {0} /\ RowKnown(trail[s], written)
      /\ s # 1 => s - 1 \in DOMAIN trail
  <2>1. Length(trail) \in Nat
    BY FS_CardinalityType DEF Length, TrailKnown, ChainShape
  <2> QED
    BY <2>1 DEF TrailKnown, ChainShape, Verified
<1>2. trail[s] = Event(s, trail[s].body, HashAt(trail, s - 1))
  BY DEF Verified
<1>3. /\ trail[s].hash.body = trail[s].body
      /\ trail[s].previous = HashAt(trail, s - 1)
  BY <1>2 DEF Event, Hash
<1>4. /\ id \in DOMAIN written /\ trail[s] = past.row
      /\ trail[s].previous = past.row.previous
  <2> DEFINE row == trail[s]
  <2>1. RowKnown(row, written) /\ row.hash.body = row.body
    BY <1>1, <1>3
  <2> HIDE DEF row
  <2>2. /\ row.body.id \in DOMAIN written
        /\ row.hash.body.intact = TRUE
        /\ row.previous = written[row.body.id].row.previous
        /\ row.body.intact = TRUE => row = written[row.body.id].row
    <3>1. RowParts(row, written)
      BY <2>1, KnownRow
    <3> QED
      BY <3>1 DEF RowParts
  <2> QED
    BY <2>1, <2>2 DEF row
<1>5. /\ past.after \in 0 .. id - 1
      /\ HashAt(trail, s - 1) = IF past.after = 0 THEN Genesis ELSE written[past.after].row.hash
  BY <1>3, <1>4 DEF PastsOK, PastOK
<1>6. past.after # 0 =>
        /\ past.after \in DOMAIN written
        /\ written[past.after].row.hash.sequence \in Nat \ {0}
        /\ written[past.after].row.hash.body.id = past.after
  <2>1. PICK S : written \in Seq(S)
    BY DEF PastsOK
  <2>2. DOMAIN written = 1 .. Len(written) /\ Len(written) \in Nat
    BY <2>1
  <2>3. past.after # 0 => past.after \in DOMAIN written
    BY <1>4, <1>5, <2>2
  <2>4. ASSUME NEW i \in DOMAIN written
        PROVE  written[i].row.hash.body.id = i /\ written[i].row.hash.sequence \in Nat \ {0}
    <3> DEFINE v == written[i].row
    <3>1. /\ v.hash.sequence \in Nat \ {0}
          /\ v = Event(v.hash.sequence, [id |-> i, intact |-> TRUE], v.previous)
      BY DEF PastsOK, PastOK
    <3> HIDE DEF v
    <3>2. v.hash.body.id = i
      BY <3>1 DEF Event, Hash
    <3> QED
      BY <3>1, <3>2 DEF v
  <2> QED
    BY <2>3, <2>4
<1>7. CASE s = 1
  <2>1. 0 \notin DOMAIN trail
    BY DEF TrailKnown, ChainShape
  <2>2. HashAt(trail, s - 1) = Genesis
    BY <1>7, <2>1 DEF HashAt
  <2>3. Genesis.sequence = 0
    BY DEF Genesis
  <2> QED
    BY <1>4, <1>5, <1>6, <1>7, <2>2, <2>3
<1>8. CASE s # 1
  <2>1. /\ s - 1 \in DOMAIN trail /\ RowKnown(trail[s - 1], written)
        /\ HashAt(trail, s - 1) = trail[s - 1].hash
    BY <1>1, <1>8 DEF HashAt, TrailKnown
  <2> DEFINE j == trail[s - 1].body.id
  <2>2. trail[s - 1].hash.body.id = j /\ trail[s - 1].hash.sequence \in Nat \ {0}
    BY <2>1, KnownRow DEF Verified, Event, Hash
  <2>3. Genesis.sequence = 0
    BY DEF Genesis
  <2>4. past.after # 0
    BY <1>5, <2>1, <2>2, <2>3
  <2>5. past.after = j
    BY <1>5, <1>6, <2>1, <2>2, <2>4
  <2> QED
    BY <1>4, <1>8, <2>5
<1> QED
  BY <1>7, <1>8
-----------------------------------------------------------------------------
\* Packages: what was signed.

\* A manifest that is or was signed: its reports are those of one package and
\* its custody events are written in the trail.
MadeOK(m, w) ==
  /\ m = [manifest |-> m.manifest, key |-> m.key]
  /\ m.manifest # Absent
  /\ \E q \in PackageIds : m.manifest.reports = [r \in Reports |-> q]
  /\ \A s \in DOMAIN m.manifest.custody :
       LET source == m.manifest.custody[s].body
       IN  source.event.id \in DOMAIN w /\ w[source.event.id].row.hash = source.source
  /\ CustodyMatches(m.manifest)

FolderShape(f) == f = [manifest |-> f.manifest, envelope |-> f.envelope, files |-> f.files]

SignedOK ==
  /\ \A m \in built : MadeOK(m, written)
  /\ \A p \in DOMAIN signing : p \in DOMAIN folders /\ MadeOK(signing[p], written)
  /\ \A p \in DOMAIN folders :
       /\ FolderShape(folders[p])
       /\ folders[p].envelope # Absent => folders[p].envelope.signature \in built

\* A finished package nobody touched, and one whose envelope is to be written.
Finished(f, m) ==
  f = [manifest |-> m.manifest, files |-> m.manifest.reports,
       envelope |-> [digest |-> m.manifest, key |-> m.key, signature |-> m]]

Unfinished(f, m) ==
  f = [manifest |-> m.manifest, files |-> m.manifest.reports, envelope |-> Absent]

UndamagedOK ==
  damage = 0 =>
    /\ Verified(trail)
    /\ \A p \in DOMAIN folders :
         /\ folders[p].envelope # Absent => \E m \in built : Finished(folders[p], m)
         /\ p \in DOMAIN signing => Unfinished(folders[p], signing[p])

PackageInv ==
  /\ damage \in Nat
  /\ PastsOK(written) /\ TrailKnown(trail, written)
  /\ SignedOK /\ UndamagedOK

\* A manifest made stays made as the trail grows.
LEMMA MadeStays ==
  ASSUME NEW m, NEW w, NEW x, MadeOK(m, w), DOMAIN w \subseteq DOMAIN x,
         \A i \in DOMAIN w : x[i] = w[i]
  PROVE  MadeOK(m, x)
BY DEF MadeOK

\* Recording an event leaves a verified trail verified.
LEMMA AppendVerified ==
  ASSUME NEW t, ChainShape(t), Verified(t), NEW body
  PROVE  Verified(Appended(t, body))
<1> DEFINE n == Length(t)
           u == Appended(t, body)
<1>1. n \in Nat /\ DOMAIN t = 1 .. n
  BY FS_CardinalityType DEF Length, ChainShape, Verified
<1>2. Latest(t) = n
  BY <1>1, LatestOf
<1>3. /\ DOMAIN u = DOMAIN t \cup {n + 1}
      /\ u[n + 1] = Event(n + 1, body, HashAt(t, n))
      /\ \A s \in DOMAIN t : u[s] = t[s]
  BY <1>2, AppendedParts
<1>4. DOMAIN u = 1 .. n + 1
  BY <1>1, <1>3
<1>5. Length(u) = n + 1
  BY <1>1, <1>4, FS_Interval DEF Length
<1> HIDE DEF n, u
<1>6. \A s \in DOMAIN u : HashAt(u, s - 1) = HashAt(t, s - 1)
  BY <1>1, <1>3, <1>4 DEF HashAt
<1>7. u[n + 1] = Event(n + 1, u[n + 1].body, HashAt(t, n))
  BY <1>3 DEF Event
<1>8. \A s \in DOMAIN t : u[s] = Event(s, u[s].body, HashAt(t, s - 1))
  BY <1>3 DEF Verified
<1>9. \A s \in DOMAIN u : u[s] = Event(s, u[s].body, HashAt(u, s - 1))
  BY <1>1, <1>3, <1>6, <1>7, <1>8
<1> QED
  BY <1>4, <1>5, <1>9 DEF Verified, u

\* An activity recorded changes no package.
LEMMA PackageInvRecord ==
  ASSUME PackageInv, RecordActivity PROVE PackageInv'
<1>1. /\ PastsOK(written') /\ TrailKnown(trail', written')
      /\ DOMAIN written \subseteq DOMAIN written'
      /\ \A i \in DOMAIN written : written'[i] = written[i]
  BY RecordKeepsTrail DEF PackageInv
<1>2. UNCHANGED <<folders, signing, built, damage>>
  BY DEF RecordActivity
<1>3. \A m : MadeOK(m, written) => MadeOK(m, written')
  BY <1>1, MadeStays
<1>4. SignedOK'
  BY <1>2, <1>3 DEF PackageInv, SignedOK
<1>5. Verified(trail) => Verified(trail')
  BY AppendVerified DEF PackageInv, TrailKnown, RecordActivity
<1>6. UndamagedOK'
  BY <1>2, <1>5 DEF PackageInv, UndamagedOK
<1> QED
  BY <1>1, <1>2, <1>4, <1>6 DEF PackageInv

\* The ledger of an export names the trail's hashes.
LEMMA ExportNames ==
  ASSUME NEW t, NEW w, PastsOK(w), TrailKnown(t, w)
  PROVE  \A s \in DOMAIN ExportCustody(t) :
           LET source == ExportCustody(t)[s].body
           IN  source.event.id \in DOMAIN w /\ w[source.event.id].row.hash = source.source
<1> DEFINE bodies == [s \in DOMAIN t |-> [event |-> t[s].body, source |-> t[s].hash]]
<1>1. \A b : /\ DOMAIN LedgerOf(b) = DOMAIN b
             /\ \A s \in DOMAIN b : LedgerOf(b)[s].body = b[s]
  BY DEF LedgerOf, Event
<1>2. /\ DOMAIN ExportCustody(t) = DOMAIN t
      /\ \A s \in DOMAIN t :
           ExportCustody(t)[s].body = [event |-> t[s].body, source |-> t[s].hash]
  BY <1>1 DEF ExportCustody
<1> HIDE DEF bodies
<1> SUFFICES ASSUME NEW s \in DOMAIN t
             PROVE  t[s].body.id \in DOMAIN w /\ w[t[s].body.id].row.hash = t[s].hash
  <2> SUFFICES ASSUME NEW s \in DOMAIN ExportCustody(t)
               PROVE  LET source == ExportCustody(t)[s].body
                      IN  /\ source.event.id \in DOMAIN w
                          /\ w[source.event.id].row.hash = source.source
    OBVIOUS
  <2> DEFINE source == ExportCustody(t)[s].body
  <2>1. source.event = t[s].body /\ source.source = t[s].hash /\ s \in DOMAIN t
    <3>1. s \in DOMAIN t /\ source = [event |-> t[s].body, source |-> t[s].hash]
      BY <1>2
    <3> HIDE DEF source
    <3> QED
      BY <3>1
  <2> HIDE DEF source
  <2>2. source.event.id \in DOMAIN w /\ w[source.event.id].row.hash = source.source
    BY <2>1
  <2> QED
    BY <2>2 DEF source
<1>3. RowKnown(t[s], w)
  BY DEF TrailKnown
<1>4. RowParts(t[s], w)
  BY <1>3, KnownRow
<1> QED
  BY <1>4 DEF RowParts

\* A manifest is built of reports as they are.
LEMMA PackageInvManifest ==
  ASSUME PackageInv, NEW p \in PackageIds, NEW k \in Keys, WriteManifest(p, k)
  PROVE  PackageInv'
<1> DEFINE custody == ExportCustody(trail)
           files == [r \in Reports |-> p]
           manifest == Manifest(custody, files)
           made == [manifest |-> manifest, key |-> k]
           folder == [manifest |-> manifest, envelope |-> Absent, files |-> files]
<1>1. /\ p \notin DOMAIN folders /\ LedgerValid(custody)
      /\ folders' = Put(folders, p, folder)
      /\ signing' = Put(signing, p, made)
      /\ UNCHANGED <<trail, written, built, damage>>
  BY DEF WriteManifest, Missing
<1>2. /\ manifest.custody = custody /\ manifest.reports = files
      /\ manifest.head = HashAt(custody, Length(custody))
  BY DEF Manifest, Inventory
<1>3. manifest # Absent
  <2>1. "custody" \in DOMAIN manifest /\ "custody" \notin DOMAIN Absent
    BY DEF Manifest, Absent
  <2> QED
    BY <2>1
<1>4. CustodyMatches(manifest)
  BY <1>1, <1>2 DEF CustodyMatches, LedgerValid
<1>5. \A s \in DOMAIN custody :
        LET source == custody[s].body
        IN  source.event.id \in DOMAIN written /\ written[source.event.id].row.hash = source.source
  BY ExportNames DEF PackageInv
<1> HIDE DEF custody, manifest
<1>6. MadeOK(made, written)
  BY <1>2, <1>3, <1>4, <1>5 DEF MadeOK
<1>7. /\ FolderShape(folder) /\ folder.envelope = Absent
      /\ Unfinished(folder, made)
  BY <1>2 DEF FolderShape, Unfinished
<1> HIDE DEF made, folder
<1>8. /\ DOMAIN folders' = DOMAIN folders \cup {p} /\ folders'[p] = folder
      /\ \A q \in DOMAIN folders \ {p} : folders'[q] = folders[q]
  BY <1>1 DEF Put
<1>9. /\ DOMAIN signing' = DOMAIN signing \cup {p} /\ signing'[p] = made
      /\ \A q \in DOMAIN signing \ {p} : signing'[q] = signing[q]
  BY <1>1 DEF Put
<1>10. SignedOK'
  BY <1>1, <1>6, <1>7, <1>8, <1>9 DEF PackageInv, SignedOK
<1>11. UndamagedOK'
  BY <1>1, <1>7, <1>8, <1>9 DEF PackageInv, UndamagedOK
<1> QED
  BY <1>1, <1>10, <1>11 DEF PackageInv

\* A signature is of the manifest just written.
LEMMA PackageInvEnvelope ==
  ASSUME PackageInv, NEW p \in PackageIds, WriteEnvelope(p) PROVE PackageInv'
<1> DEFINE made == signing[p]
           envelope == [digest |-> made.manifest, key |-> made.key, signature |-> made]
           folder == [folders[p] EXCEPT !.envelope = envelope]
<1>1. /\ p \in DOMAIN signing /\ p \in DOMAIN folders /\ MadeOK(made, written)
      /\ FolderShape(folders[p])
      /\ signing' = Without(signing, p) /\ built' = built \cup {made}
      /\ UNCHANGED <<trail, written, damage>>
  BY DEF WriteEnvelope, PackageInv, SignedOK
<1>2. /\ DOMAIN folders' = DOMAIN folders /\ folders'[p] = folder
      /\ \A q \in DOMAIN folders \ {p} : folders'[q] = folders[q]
  BY <1>1 DEF WriteEnvelope
<1>3. /\ DOMAIN signing' = DOMAIN signing \ {p}
      /\ \A q \in DOMAIN signing \ {p} : signing'[q] = signing[q]
  BY <1>1 DEF Without
<1> HIDE DEF made, envelope
<1>4. /\ folder = [manifest |-> folders[p].manifest, envelope |-> envelope,
                   files |-> folders[p].files]
      /\ envelope.signature = made
  BY <1>1 DEF FolderShape, envelope
<1>5. Unfinished(folders[p], made) => Finished(folder, made)
  BY <1>4 DEF Unfinished, Finished, envelope
<1>6. FolderShape(folder) /\ folder.envelope.signature = made
  BY <1>4 DEF FolderShape
<1> HIDE DEF folder
<1>7. SignedOK'
  BY <1>1, <1>2, <1>3, <1>6 DEF PackageInv, SignedOK
<1>8. UndamagedOK'
  BY <1>1, <1>2, <1>3, <1>5 DEF PackageInv, UndamagedOK, made
<1> QED
  BY <1>1, <1>7, <1>8 DEF PackageInv

\* An envelope that fails takes its manifest with it.
LEMMA PackageInvFail ==
  ASSUME PackageInv, NEW p \in PackageIds, FailEnvelope(p) PROVE PackageInv'
<1> DEFINE folder == [folders[p] EXCEPT !.manifest = Absent]
<1>1. /\ p \in DOMAIN signing /\ p \in DOMAIN folders
      /\ FolderShape(folders[p])
      /\ signing' = Without(signing, p)
      /\ UNCHANGED <<trail, written, built, damage>>
  BY DEF FailEnvelope, PackageInv, SignedOK
<1>2. /\ DOMAIN folders' = DOMAIN folders /\ folders'[p] = folder
      /\ \A q \in DOMAIN folders \ {p} : folders'[q] = folders[q]
  BY <1>1 DEF FailEnvelope
<1>3. /\ DOMAIN signing' = DOMAIN signing \ {p}
      /\ \A q \in DOMAIN signing \ {p} : signing'[q] = signing[q]
  BY <1>1 DEF Without
<1>4. folder = [manifest |-> Absent, envelope |-> folders[p].envelope,
                files |-> folders[p].files]
  BY <1>1 DEF FolderShape
<1>5. FolderShape(folder) /\ folder.envelope = folders[p].envelope
  BY <1>4 DEF FolderShape
<1>6. Unfinished(folders[p], signing[p]) => folder.envelope = Absent
  BY <1>5 DEF Unfinished
<1> HIDE DEF folder
<1>7. SignedOK'
  BY <1>1, <1>2, <1>3, <1>5 DEF PackageInv, SignedOK
<1>8. UndamagedOK'
  BY <1>1, <1>2, <1>3, <1>6 DEF PackageInv, UndamagedOK
<1> QED
  BY <1>1, <1>7, <1>8 DEF PackageInv

\* A killed process forgets what it was signing.
LEMMA PackageInvCrash ==
  ASSUME PackageInv, Crash PROVE PackageInv'
<1>1. /\ DOMAIN signing' = {}
      /\ UNCHANGED <<trail, written, folders, built, damage>>
  BY DEF Crash
<1>2. SignedOK'
  BY <1>1 DEF PackageInv, SignedOK
<1>3. UndamagedOK'
  BY <1>1 DEF PackageInv, UndamagedOK
<1> QED
  BY <1>1, <1>2, <1>3 DEF PackageInv

\* Damage: nothing is promised of the files, but signatures are not made.
LEMMA PackageInvDisk ==
  ASSUME PackageConstants, PackageInv, Disk PROVE PackageInv'
<1>1. TrailKnown(trail', written) /\ written' = written
  BY DamageKeepsTrail DEF PackageInv
<1>2. damage' = damage + 1 /\ UNCHANGED <<folders, signing, built>>
  BY DEF Disk, LoseEvent, AlterEvent, RenumberEvent, RestoreEvent, DamageTrail, Damage
<1>3. SignedOK'
  BY <1>1, <1>2 DEF PackageInv, SignedOK
<1>4. damage' \in Nat /\ damage' # 0
  BY <1>2 DEF PackageInv
<1> QED
  BY <1>1, <1>3, <1>4 DEF PackageInv, UndamagedOK

\* A folder that is damaged keeps its parts, and an envelope that was signed.
LEMMA FolderDamaged ==
  ASSUME PackageInv, NEW p \in DOMAIN folders, NEW folder, DamageFolder(p, folder),
         FolderShape(folder),
         folder.envelope # Absent => folder.envelope.signature \in built
  PROVE  PackageInv'
<1>1. /\ DOMAIN folders' = DOMAIN folders /\ folders'[p] = folder
      /\ \A q \in DOMAIN folders \ {p} : folders'[q] = folders[q]
      /\ damage' = damage + 1
      /\ UNCHANGED <<trail, written, signing, built>>
  BY DEF DamageFolder, Damage
<1>2. SignedOK'
  BY <1>1 DEF PackageInv, SignedOK
<1>3. damage' \in Nat /\ damage' # 0
  BY <1>1 DEF PackageInv
<1> QED
  BY <1>1, <1>2, <1>3 DEF PackageInv, UndamagedOK

\* Damage in transit makes no signature.
LEMMA PackageInvCarriage ==
  ASSUME PackageInv, Carriage PROVE PackageInv'
<1>1. \A p \in DOMAIN folders :
        /\ FolderShape(folders[p])
        /\ folders[p].envelope # Absent => folders[p].envelope.signature \in built
  BY DEF PackageInv, SignedOK
<1>2. ASSUME NEW p \in DOMAIN folders, NEW r \in Reports, NEW c \in Contents,
             ChangeReport(p, r, c)
      PROVE  PackageInv'
  <2> DEFINE folder == [folders[p] EXCEPT !.files = [@ EXCEPT ![r] = c]]
  <2>1. DamageFolder(p, folder)
    BY <1>2 DEF ChangeReport
  <2>2. FolderShape(folder) /\ folder.envelope = folders[p].envelope
    BY <1>1 DEF FolderShape
  <2> QED
    BY <1>1, <2>1, <2>2, FolderDamaged
<1>3. ASSUME NEW p \in DOMAIN folders, ShortenManifest(p)
      PROVE  PackageInv'
  <2> PICK folder : /\ DamageFolder(p, folder)
                    /\ folder = [folders[p] EXCEPT !.manifest.custody = Without(@, Length(@))]
    BY <1>3 DEF ShortenManifest
  <2>2. FolderShape(folder) /\ folder.envelope = folders[p].envelope
    BY <1>1 DEF FolderShape
  <2> QED
    BY <1>1, <2>2, FolderDamaged
<1>4. ASSUME NEW p \in DOMAIN folders, NEW q \in DOMAIN folders, TakeManifestOf(p, q)
      PROVE  PackageInv'
  <2> DEFINE folder == [folders[p] EXCEPT !.manifest = folders[q].manifest]
  <2>1. DamageFolder(p, folder)
    BY <1>4 DEF TakeManifestOf
  <2>2. FolderShape(folder) /\ folder.envelope = folders[p].envelope
    BY <1>1 DEF FolderShape
  <2> QED
    BY <1>1, <2>1, <2>2, FolderDamaged
<1>5. ASSUME NEW p \in DOMAIN folders, NEW q \in DOMAIN folders, TakeEnvelopeOf(p, q)
      PROVE  PackageInv'
  <2> DEFINE folder == [folders[p] EXCEPT !.envelope = folders[q].envelope]
  <2>1. DamageFolder(p, folder)
    BY <1>5 DEF TakeEnvelopeOf
  <2>2. FolderShape(folder) /\ folder.envelope = folders[q].envelope
    BY <1>1 DEF FolderShape
  <2> QED
    BY <1>1, <2>1, <2>2, FolderDamaged
<1> QED
  BY <1>2, <1>3, <1>4, <1>5 DEF Carriage

\* PackageInv holds of every package, built, damaged or mixed up.
THEOREM PackageInvHolds == Spec => []PackageInv
<1>1. Init => PackageInv
  <2> SUFFICES ASSUME Init PROVE PackageInv
    OBVIOUS
  <2>1. PastsOK(written)
    <3>1. written \in Seq({}) /\ DOMAIN written = {}
      BY DEF Init
    <3> QED
      BY <3>1 DEF PastsOK
  <2>2. TrailKnown(trail, written)
    <3>1. DOMAIN trail = {}
      BY DEF Init
    <3> QED
      BY <3>1, FS_EmptySet DEF TrailKnown, ChainShape
  <2>3. Verified(trail)
    <3>1. DOMAIN trail = {}
      BY DEF Init
    <3>2. Length(trail) = 0
      BY <3>1, FS_EmptySet DEF Length
    <3> QED
      BY <3>1, <3>2 DEF Verified
  <2>4. DOMAIN folders = {} /\ DOMAIN signing = {} /\ built = {} /\ damage = 0
    BY DEF Init
  <2> QED
    BY <2>1, <2>2, <2>3, <2>4 DEF PackageInv, SignedOK, UndamagedOK
<1>2. PackageInv /\ [Next]_vars => PackageInv'
  <2> SUFFICES ASSUME PackageInv, [Next]_vars PROVE PackageInv'
    OBVIOUS
  <2>1. CASE Program
    BY <2>1, PackageInvRecord, PackageInvManifest, PackageInvEnvelope, PackageInvFail,
       PackageInvCrash DEF Program
  <2>2. CASE Disk
    BY <2>2, PackageInvDisk, PackageConstants
  <2>3. CASE Carriage
    BY <2>3, PackageInvCarriage
  <2>4. CASE UNCHANGED vars
    BY <2>4 DEF PackageInv, SignedOK, UndamagedOK, vars
  <2> QED
    BY <2>1, <2>2, <2>3, <2>4 DEF Next
<1> QED
  BY <1>1, <1>2, PTL DEF Spec

\* A verifier who accepts a trail reads the rows that were written, from the
\* first one on, whatever the disk and the carrier did to rows and numbers.
THEOREM AcceptedTrail == Spec => []AcceptedTrailAsWritten
<1>1. PackageInv => AcceptedTrailAsWritten
  BY TrailAsWritten DEF PackageInv
<1> QED
  BY <1>1, PackageInvHolds, PTL

\* What AcceptedPackageAsBuilt says of one package.
AsBuilt(p) ==
  /\ [manifest |-> folders[p].manifest, key |-> Trusted] \in built
  /\ \E q \in PackageIds : \A r \in Reports :
       folders[p].files[r] = q /\ folders[p].manifest.reports[r] = q
  /\ \A s \in DOMAIN folders[p].manifest.custody :
       LET source == folders[p].manifest.custody[s].body
       IN  written[source.event.id].row.hash = source.source

\* A package accepted under a trusted key is one that was built: its reports are
\* of one export and its custody entries name the rows they were taken from.
THEOREM AcceptedPackage == Spec => []AcceptedPackageAsBuilt
<1>1. ASSUME PackageInv, NEW p \in DOMAIN folders, Accepted(folders[p], Trusted)
      PROVE  AsBuilt(p)
  <2> DEFINE m == [manifest |-> folders[p].manifest, key |-> Trusted]
  <2>1. m \in built
    BY <1>1 DEF PackageInv, SignedOK, Accepted, SignatureValid
  <2>2. MadeOK(m, written) /\ m.manifest = folders[p].manifest
    BY <1>1, <2>1 DEF PackageInv, SignedOK
  <2> HIDE DEF m
  <2>3. PICK q \in PackageIds : folders[p].manifest.reports = [r \in Reports |-> q]
    <3>1. \E q \in PackageIds : m.manifest.reports = [r \in Reports |-> q]
      BY <2>2 DEF MadeOK
    <3> QED
      BY <2>2, <3>1
  <2>4. \A r \in Reports : folders[p].files[r] = q /\ folders[p].manifest.reports[r] = q
    BY <1>1, <2>3 DEF Accepted, ReportsMatch
  <2>5. \A s \in DOMAIN folders[p].manifest.custody :
          LET source == folders[p].manifest.custody[s].body
          IN  written[source.event.id].row.hash = source.source
    <3>1. \A s \in DOMAIN m.manifest.custody :
            LET source == m.manifest.custody[s].body
            IN  written[source.event.id].row.hash = source.source
      BY <2>2, Zenon DEF MadeOK
    <3> QED
      BY <2>2, <3>1
  <2>6. [manifest |-> folders[p].manifest, key |-> Trusted] \in built
    BY <2>1 DEF m
  <2> QED
    BY <2>4, <2>5, <2>6, Zenon DEF AsBuilt
<1>2. PackageInv => AcceptedPackageAsBuilt
  BY <1>1, Zenon DEF AcceptedPackageAsBuilt, AsBuilt
<1> QED
  BY <1>2, PackageInvHolds, PTL

\* As long as nothing was damaged, although exports fail, crash and overlap, a
\* package whose envelope was written is accepted exactly when it keeps the
\* verifier's limits on custody events and on the size of its manifest.
THEOREM UndamagedIsAccepted == Spec => []UndamagedAccepted
<1>1. ASSUME PackageInv PROVE UndamagedAccepted
  <2> SUFFICES ASSUME damage = 0, NEW p \in DOMAIN folders, folders[p].envelope # Absent
               PROVE  Accepted(folders[p], folders[p].envelope.key)
                        <=> WithinLimits(folders[p].manifest)
    BY <1>1 DEF UndamagedAccepted, PackageInv, UndamagedOK
  <2>1. PICK m \in built : Finished(folders[p], m)
    BY <1>1 DEF PackageInv, UndamagedOK
  <2>2. MadeOK(m, written)
    BY <1>1 DEF PackageInv, SignedOK
  <2> DEFINE f == folders[p]
  <2>3. /\ f.manifest = m.manifest /\ f.files = m.manifest.reports
        /\ f.envelope.digest = m.manifest /\ f.envelope.key = m.key
        /\ f.envelope.signature = m
    BY <2>1 DEF Finished
  <2> HIDE DEF f
  <2>4. SignatureValid(f)
    BY <2>2, <2>3 DEF SignatureValid, MadeOK
  <2>5. ReportsMatch(f) /\ CustodyMatches(f.manifest) /\ f.manifest # Absent
    BY <2>2, <2>3 DEF ReportsMatch, MadeOK
  <2> QED
    BY <2>4, <2>5 DEF Accepted, f
<1> QED
  BY <1>1, PackageInvHolds, PTL

-----------------------------------------------------------------------------
\* Carving: SignatureSearch.

\* The searching loop has left no signature behind it: none begins before the
\* kept bytes, and at least Size - 1 bytes are kept once so many were read.
LoopInv ==
  /\ image \in Seq(Bytes) /\ scanLimit \in Nat /\ chunkSize \in Nat
  /\ chunkSize >= Size
  /\ position \in Nat /\ kept \in Nat /\ match \in Int
  /\ position <= ScanLength
  /\ kept = Lesser(Size - 1, position)
  /\ outcome \in {"searching", "found", "absent"}
  /\ outcome # "found" => \A p \in 0 .. position - Size : ~SignatureAt(p)
  /\ outcome = "absent" => position = ScanLength
  /\ outcome = "found" =>
       /\ match \in Nat /\ SignatureAt(match) /\ match + Size <= ScanLength
       /\ \A p \in 0 .. match - 1 : ~SignatureAt(p)

\* A signature has at least two bytes.
LEMMA SizeIsNat == Size \in Nat /\ Size > 1
BY SearchConstants DEF Size

\* The loop starts with nothing read.
LEMMA LoopInvInit == SearchInit => LoopInv
<1> SUFFICES ASSUME SearchInit PROVE LoopInv
  OBVIOUS
<1>1. image \in Seq(Bytes) /\ scanLimit \in Nat /\ chunkSize \in Nat /\ chunkSize >= Size
  BY SearchConstants DEF SearchInit, Size
<1>2. Len(image) \in Nat
  BY <1>1
<1> QED
  BY <1>1, <1>2, SizeIsNat DEF SearchInit, LoopInv, ScanLength, Lesser

\* A window read leaves what came before it searched.
LEMMA LoopInvNext == LoopInv /\ [SearchNext]_searchVars => LoopInv'
<1> SUFFICES ASSUME LoopInv, [SearchNext]_searchVars PROVE LoopInv'
  OBVIOUS
<1>s. Size \in Nat /\ Size > 1 /\ Len(image) \in Nat /\ ScanLength \in Nat
  BY SizeIsNat DEF LoopInv, ScanLength, Lesser
<1>r. position < ScanLength => /\ ReadLength \in Nat /\ ReadLength > 0
                               /\ position + ReadLength <= ScanLength
  BY <1>s DEF LoopInv, ReadLength, Lesser
<1>1. CASE FindInWindow
  <2>1. image' = image /\ Size' = Size /\ ScanLength' = ScanLength
    BY <1>1 DEF FindInWindow, arguments, ScanLength, Size
  <2>2. \A p : SignatureAt(p)' <=> SignatureAt(p)
    BY <1>1 DEF FindInWindow, arguments, SignatureAt, Size
  <2>3. PICK m \in Hits : match' = m /\ \A q \in Hits : m <= q
    BY <1>1 DEF FindInWindow
  <2>4. m \in Nat /\ SignatureAt(m) /\ m + Size <= ScanLength
    BY <1>1, <1>s, <1>r DEF FindInWindow, Hits, LoopInv, Lesser
  <2>5. ASSUME NEW p \in 0 .. m - 1 PROVE ~SignatureAt(p)
    <3>1. CASE p <= position - Size
      BY <3>1, <1>1, <1>s, <2>4 DEF LoopInv, FindInWindow
    <3>2. CASE p > position - Size
      <4>1. p >= position - kept
        BY <3>2, <1>s, <2>4 DEF LoopInv, Lesser
      <4>2. p <= position + ReadLength - Size
        BY <2>4, <1>1, <1>s, <1>r DEF FindInWindow, Hits, LoopInv
      <4>3. SignatureAt(p) => p \in Hits
        BY <4>1, <4>2, <1>1, <1>s, <1>r, <2>4 DEF Hits, LoopInv, FindInWindow
      <4>4. p \notin Hits
        BY <2>3, <2>4
      <4> QED
        BY <4>3, <4>4
    <3> QED
      BY <3>1, <3>2, <1>s, <2>4 DEF LoopInv
  <2> QED
    BY <1>1, <2>1, <2>2, <2>3, <2>4, <2>5, <1>s DEF FindInWindow, LoopInv, arguments
<1>2. CASE NextWindow
  <2>1. image' = image /\ Size' = Size /\ ScanLength' = ScanLength
    BY <1>2 DEF NextWindow, arguments, ScanLength, Size
  <2>2. \A p : SignatureAt(p)' <=> SignatureAt(p)
    BY <1>2 DEF NextWindow, arguments, SignatureAt, Size
  <2>3. /\ position' = position + ReadLength /\ position' \in Nat
        /\ position' <= ScanLength
        /\ kept' = Lesser(Size - 1, position')
        /\ kept' \in Nat
    BY <1>2, <1>s, <1>r DEF NextWindow, LoopInv, Lesser
  <2>4. ASSUME NEW p, p \in 0 .. position' - Size PROVE ~SignatureAt(p)
    <3>1. CASE p <= position - Size
      BY <3>1, <1>2, <1>s, <2>3, <2>4 DEF LoopInv, NextWindow
    <3>2. CASE p > position - Size
      <4>1. p >= position - kept
        BY <3>2, <1>s, <2>3, <2>4 DEF LoopInv, Lesser
      <4>2. SignatureAt(p) => p \in Hits
        BY <4>1, <1>2, <1>s, <1>r, <2>3, <2>4 DEF Hits, LoopInv, NextWindow
      <4> QED
        BY <4>2, <1>2 DEF NextWindow
    <3> QED
      BY <3>1, <3>2, <1>s, <2>3, <2>4 DEF LoopInv
  <2> QED
    BY <1>2, <2>1, <2>2, <2>3, <2>4, <1>s DEF NextWindow, LoopInv, arguments, Lesser
<1>3. CASE GiveUp
  <2>1. image' = image /\ Size' = Size /\ ScanLength' = ScanLength
    BY <1>3 DEF GiveUp, arguments, ScanLength, Size
  <2>2. \A p : SignatureAt(p)' <=> SignatureAt(p)
    BY <1>3 DEF GiveUp, arguments, SignatureAt, Size
  <2> QED
    BY <1>3, <2>1, <2>2, <1>s DEF GiveUp, LoopInv, arguments, Lesser
<1>4. CASE UNCHANGED searchVars
  <2>1. image' = image /\ Size' = Size /\ ScanLength' = ScanLength
    BY <1>4 DEF searchVars, ScanLength, Size
  <2>2. \A p : SignatureAt(p)' <=> SignatureAt(p)
    BY <1>4 DEF searchVars, SignatureAt, Size
  <2> QED
    BY <1>4, <2>1, <2>2, <1>s DEF searchVars, LoopInv, Lesser
<1> QED
  BY <1>1, <1>2, <1>3, <1>4 DEF SearchNext

\* The loop invariant at its end says what _find_signature returns.
LEMMA LoopInvSuffices == LoopInv => FirstSignatureFound
<1> SUFFICES ASSUME LoopInv PROVE FirstSignatureFound
  OBVIOUS
<1>1. ScanLength \in Nat /\ Size \in Nat
  BY SizeIsNat DEF LoopInv, ScanLength, Lesser
<1> QED
  BY <1>1 DEF LoopInv, FirstSignatureFound

\* _find_signature returns the first signature within the limit, or None only
\* when there is none, for every image, window size and limit.
THEOREM SearchCorrect == SearchSpec => []FirstSignatureFound
<1>1. SearchSpec => []LoopInv
  BY LoopInvInit, LoopInvNext, PTL DEF SearchSpec
<1> QED
  BY <1>1, LoopInvSuffices, PTL

-----------------------------------------------------------------------------
\* The directory of a disk: HikbTree.

\* A set of numbers with a largest one: which one Score and EntriesOf choose.
LEMMA ChosenLargest ==
  ASSUME NEW T \in SUBSET Nat, IsFiniteSet(T), T # {}
  PROVE  LET n == CHOOSE k \in T : \A m \in T : m <= k
         IN  n \in T /\ \A m \in T : m <= n
<1>1. \E n \in T : \A m \in T : m <= n
  BY LargestOf
<1> QED
  BY <1>1

\* The numbers of slots in a row with an entry: a finite set that holds 0.
LEMMA RowsInARow ==
  ASSUME NEW cells, Len(cells) \in Nat, NEW layout, NEW kinds
  PROVE  /\ InARow(cells, layout, kinds) \in SUBSET Nat
         /\ IsFiniteSet(InARow(cells, layout, kinds))
         /\ 0 \in InARow(cells, layout, kinds)
<1>1. InARow(cells, layout, kinds) \subseteq 0 .. Len(cells)
  BY DEF InARow
<1>2. IsFiniteSet(0 .. Len(cells))
  BY FS_Interval
<1>3. IsFiniteSet(InARow(cells, layout, kinds))
  BY <1>1, <1>2, FS_Subset
<1>4. 0 \in InARow(cells, layout, kinds)
  BY DEF InARow
<1> QED
  BY <1>1, <1>3, <1>4

\* A score is the largest of them.
LEMMA ScoreLargest ==
  ASSUME NEW cells, Len(cells) \in Nat, NEW layout
  PROVE  /\ Score(cells, layout) \in InARow(cells, layout, Recognized)
         /\ \A m \in InARow(cells, layout, Recognized) : m <= Score(cells, layout)
<1> DEFINE T == InARow(cells, layout, Recognized)
<1>1. T \in SUBSET Nat /\ IsFiniteSet(T) /\ T # {}
  BY RowsInARow
<1>2. Score(cells, layout) = CHOOSE k \in T : \A m \in T : m <= k
  BY DEF Score
<1> HIDE DEF T
<1>3. Score(cells, layout) \in T /\ \A m \in T : m <= Score(cells, layout)
  BY <1>1, <1>2, ChosenLargest
<1> QED
  BY <1>3 DEF T

\* In the layout it was written in, a page has the entries written and then none.
LEMMA RowsAsLaid ==
  ASSUME NEW cells \in Seq(Kinds \cup {"data"}), NEW kinds \in Seq(Kinds), NEW layout \in Layouts,
         LaidOut(cells, kinds, layout)
  PROVE  /\ \A i \in 0 .. Len(kinds) - 1 : /\ SlotFits(cells, Slot(layout, i))
                                           /\ CellAt(cells, Slot(layout, i)) = kinds[i + 1]
         /\ \A i \in Nat : /\ i >= Len(kinds) => ~SlotFits(cells, Slot(layout, i))
                                              \/ CellAt(cells, Slot(layout, i)) = "data"
<1>1. /\ Len(cells) \in Nat /\ Len(kinds) \in Nat /\ DOMAIN kinds = 1 .. Len(kinds)
      /\ layout \in Nat
  BY DEF Layouts
<1>2. ASSUME NEW i \in 0 .. Len(kinds) - 1
      PROVE  SlotFits(cells, Slot(layout, i)) /\ CellAt(cells, Slot(layout, i)) = kinds[i + 1]
  <2>1. i + 1 \in DOMAIN kinds /\ (i + 1) - 1 = i
    BY <1>1
  <2> DEFINE j == i + 1
  <2> HIDE DEF j
  <2>2. SlotFits(cells, Slot(layout, j - 1)) /\ CellAt(cells, Slot(layout, j - 1)) = kinds[j]
    BY <2>1 DEF LaidOut, j
  <2> QED
    BY <2>1, <2>2 DEF j
<1>3. ASSUME NEW i \in Nat, i >= Len(kinds), SlotFits(cells, Slot(layout, i))
      PROVE  CellAt(cells, Slot(layout, i)) = "data"
  <2>1. Slot(layout, i) \in Slot(layout, Len(kinds)) .. Len(cells) - 1
    BY <1>1, <1>3 DEF SlotFits, Slot, SlotCells
  <2> QED
    BY <2>1 DEF LaidOut
<1> QED
  BY <1>2, <1>3

\* What is recognized of it in the other layout are the marks of empty entries.
LEMMA OtherLayout ==
  ASSUME NEW cells \in Seq(Kinds \cup {"data"}), NEW kinds \in Seq(Kinds), NEW layout \in Layouts,
         LaidOut(cells, kinds, layout), NEW other \in Layouts, other # layout, NEW i \in Nat,
         SlotFits(cells, Slot(other, i)), CellAt(cells, Slot(other, i)) # "data",
         \A j \in 0 .. i : CellAt(cells, Slot(other, j)) # "data"
  PROVE  i < Len(kinds) /\ kinds[i + 1] = "empty"
<1>1. /\ Len(cells) \in Nat /\ Len(kinds) \in Nat /\ DOMAIN kinds = 1 .. Len(kinds)
  OBVIOUS
<1>2. CASE layout = 1
  <2>1. other = 2
    BY <1>2 DEF Layouts
  <2>2. i < Len(kinds)
    <3>1. ASSUME i >= Len(kinds) PROVE FALSE
      <4>1. Slot(other, i) \in Slot(layout, Len(kinds)) .. Len(cells) - 1
        BY <1>1, <1>2, <2>1, <3>1 DEF SlotFits, Slot, SlotCells
      <4> QED
        BY <4>1 DEF LaidOut
    <3> QED
      BY <1>1, <3>1
  <2> DEFINE k == i + 1
             start == Slot(layout, k - 1)
  <2>3. k \in DOMAIN kinds /\ Slot(other, i) \in start + 1 .. start + SlotCells - 1
    BY <1>1, <1>2, <2>1, <2>2 DEF Slot, SlotCells
  <2> HIDE DEF k
  <2>4. CellAt(cells, Slot(other, i)) \in {"data"} \cup ({kinds[k]} \cap {"empty"})
    BY <2>3 DEF LaidOut
  <2>5. kinds[k] = "empty"
    BY <2>4
  <2> QED
    BY <2>2, <2>5 DEF k
<1>3. CASE layout = 2
  <2>1. other = 1 /\ Slot(other, 0) = 1
    BY <1>3 DEF Layouts, Slot, SlotCells
  <2>2. 1 \in 0 .. layout - 1 /\ 1 < Len(cells)
    BY <1>1, <1>3, <2>1 DEF SlotFits, Slot, SlotCells
  <2>3. CellAt(cells, 1) = "data"
    BY <2>2 DEF LaidOut
  <2> QED
    BY <2>1, <2>3
<1> QED
  BY <1>2, <1>3 DEF Layouts

\* So a page is read in the layout it was written in, if it is read.
LEMMA LayoutAsWritten ==
  ASSUME NEW cells \in Seq(Kinds \cup {"data"}), NEW kinds \in Seq(Kinds), NEW layout \in Layouts,
         LaidOut(cells, kinds, layout), NEW chosen \in PageLayouts(cells)
  PROVE  chosen = layout
<1> SUFFICES ASSUME chosen # layout PROVE FALSE
  OBVIOUS
<1>1. /\ Len(cells) \in Nat /\ Len(kinds) \in Nat /\ chosen \in Layouts
      /\ Score(cells, layout) < Score(cells, chosen)
  BY DEF PageLayouts
<1> DEFINE n == Score(cells, chosen)
<1>2. n \in InARow(cells, chosen, Recognized)
  BY <1>1, ScoreLargest
<1>3. /\ n \in 0 .. Len(cells)
      /\ \A i \in 0 .. n - 1 : /\ SlotFits(cells, Slot(chosen, i))
                               /\ CellAt(cells, Slot(chosen, i)) \in Recognized
  BY <1>2 DEF InARow
<1> HIDE DEF n
<1>4. ASSUME NEW i \in 0 .. n - 1
      PROVE  SlotFits(cells, Slot(layout, i)) /\ CellAt(cells, Slot(layout, i)) \in Recognized
  <2>1. i \in Nat /\ \A j \in 0 .. i : j \in 0 .. n - 1
    BY <1>1, <1>3
  <2>2. \A j \in 0 .. i : CellAt(cells, Slot(chosen, j)) # "data"
    BY <1>3, <2>1 DEF Recognized
  <2>3. i < Len(kinds) /\ kinds[i + 1] = "empty"
    BY <1>1, <1>3, <2>1, <2>2, OtherLayout DEF Recognized
  <2>4. i \in 0 .. Len(kinds) - 1
    BY <1>1, <2>1, <2>3
  <2> QED
    BY <2>3, <2>4, RowsAsLaid DEF Recognized
<1>5. n \in InARow(cells, layout, Recognized)
  BY <1>3, <1>4 DEF InARow
<1>6. n <= Score(cells, layout) /\ Score(cells, layout) \in Nat
  BY <1>1, <1>5, ScoreLargest, RowsInARow
<1>7. Score(cells, layout) < n /\ n \in Nat
  BY <1>1, <1>3 DEF n
<1> QED
  BY <1>6, <1>7

\* What is read of a page is entries in a row, one slot after another.
LEMMA EntriesInARow ==
  ASSUME NEW page, NEW layout \in Layouts, NEW n \in Nat, PageLength \in Nat,
         n \in InARow(PageCells(page), layout, Kinds),
         \A m \in InARow(PageCells(page), layout, Kinds) : m <= n
  PROVE  EntriesOf(page, layout) =
           [i \in 1 .. n |-> [page |-> page, at |-> page + Slot(layout, i - 1),
                              kind |-> CellAt(PageCells(page), Slot(layout, i - 1))]]
<1> DEFINE cells == PageCells(page)
           T == InARow(cells, layout, Kinds)
           count == CHOOSE k \in T : \A m \in T : m <= k
<1>1. EntriesOf(page, layout) =
        [i \in 1 .. count |-> [page |-> page, at |-> page + Slot(layout, i - 1),
                               kind |-> CellAt(cells, Slot(layout, i - 1))]]
  BY DEF EntriesOf
<1>2. T \in SUBSET Nat
  BY DEF InARow
<1>3. n \in T /\ \A m \in T : m <= n
  OBVIOUS
<1> HIDE DEF cells, T
<1>4. count \in T /\ \A m \in T : m <= count
  BY <1>3
<1>5. count = n
  <2> HIDE DEF count
  <2>1. n <= count /\ count <= n /\ count \in Nat
    BY <1>2, <1>3, <1>4
  <2> QED
    BY <2>1
<1> HIDE DEF count
<1> QED
  BY <1>1, <1>5 DEF cells

\* In the layout it was written in, the entries of a page are those written.
LEMMA EntriesAsWritten ==
  ASSUME NEW page, NEW layout \in Layouts, NEW kinds \in Seq(Kinds), PageLength \in Nat,
         PageCells(page) \in Seq(Kinds \cup {"data"}), LaidOut(PageCells(page), kinds, layout)
  PROVE  EntriesOf(page, layout) =
           [i \in 1 .. Len(kinds) |-> [page |-> page, at |-> page + Slot(layout, i - 1),
                                       kind |-> kinds[i]]]
<1> DEFINE cells == PageCells(page)
           T == InARow(cells, layout, Kinds)
           n == Len(kinds)
<1>1. cells \in Seq(Kinds \cup {"data"}) /\ Len(cells) \in Nat /\ n \in Nat /\ LaidOut(cells, kinds, layout)
  OBVIOUS
<1> HIDE DEF cells
<1>3. /\ \A i \in 0 .. n - 1 : /\ SlotFits(cells, Slot(layout, i))
                               /\ CellAt(cells, Slot(layout, i)) = kinds[i + 1]
      /\ \A i \in Nat : i >= n => ~SlotFits(cells, Slot(layout, i))
                                  \/ CellAt(cells, Slot(layout, i)) = "data"
  BY <1>1, RowsAsLaid
<1>4. n \in T
  <2>1. n \in 0 .. Len(cells)
    <3>1. CASE n = 0
      BY <1>1, <3>1
    <3>2. CASE n > 0
      <4>1. n - 1 \in 0 .. n - 1
        BY <1>1, <3>2
      <4>2. SlotFits(cells, Slot(layout, n - 1))
        BY <1>3, <4>1
      <4> QED
        BY <1>1, <3>2, <4>2 DEF SlotFits, Slot, SlotCells, Layouts
    <3> QED
      BY <1>1, <3>1, <3>2
  <2>2. ASSUME NEW i \in 0 .. n - 1 PROVE kinds[i + 1] \in Kinds
    <3>1. i + 1 \in 1 .. n
      BY <1>1
    <3> QED
      BY <3>1, ElementOfSeq
  <2> QED
    BY <1>3, <2>1, <2>2 DEF InARow
<1>5. ASSUME NEW m \in T PROVE m <= n
  <2>1. m \in 0 .. Len(cells) /\ \A i \in 0 .. m - 1 : /\ SlotFits(cells, Slot(layout, i))
                                                       /\ CellAt(cells, Slot(layout, i)) \in Kinds
    BY <1>5 DEF InARow
  <2>2. ASSUME n < m PROVE FALSE
    <3>1. n \in 0 .. m - 1
      BY <1>1, <2>1, <2>2
    <3>2. SlotFits(cells, Slot(layout, n)) /\ CellAt(cells, Slot(layout, n)) \in Kinds
      BY <2>1, <3>1
    <3>3. CellAt(cells, Slot(layout, n)) = "data"
      BY <1>1, <1>3, <3>2
    <3> QED
      BY <3>2, <3>3 DEF Kinds
  <2> QED
    BY <1>1, <2>1, <2>2
<1>6. EntriesOf(page, layout) =
        [i \in 1 .. n |-> [page |-> page, at |-> page + Slot(layout, i - 1),
                           kind |-> CellAt(cells, Slot(layout, i - 1))]]
  BY <1>1, <1>4, <1>5, EntriesInARow DEF cells
<1> HIDE DEF T
<1>8. \A i \in 1 .. n : CellAt(cells, Slot(layout, i - 1)) = kinds[i]
  <2> SUFFICES ASSUME NEW i \in 1 .. n PROVE CellAt(cells, Slot(layout, i - 1)) = kinds[i]
    OBVIOUS
  <2>1. i - 1 \in 0 .. n - 1 /\ (i - 1) + 1 = i
    BY <1>1
  <2> QED
    BY <1>3, <2>1
<1> QED
  BY <1>6, <1>8

-----------------------------------------------------------------------------
EntryRows == [page : Pages, at : Nat, kind : Kinds]

\* An entry lies inside the page it was read of.
InItsPage(entry) == entry.page <= entry.at /\ entry.at < entry.page + PageLength

\* A page that a recorder wrote was read as written, or skipped.
ReadOff(page) ==
  page \in tree.formatted =>
    ReadAs(page, IF page \in skipped THEN <<>> ELSE tree.written[page])

\* What has been read of the pages listed, in their order.
TreeInv ==
  /\ tree \in Trees
  /\ listed \in Seq(Pages) /\ \A i, j \in DOMAIN listed : listed[i] = listed[j] => i = j
  /\ entries \in Seq(EntryRows) /\ read \in 0 .. Len(listed)
  /\ stage = "header" => listed = <<>>
  /\ stage \in {"header", "list"} => read = 0 /\ entries = <<>> /\ skipped = {}
  /\ stage = "parsed" => read = Len(listed)
  /\ \A page \in skipped : \E k \in 1 .. read : listed[k] = page
  /\ \A i \in DOMAIN entries : \E k \in 1 .. read : listed[k] = entries[i].page
  /\ \A k \in 1 .. read : ReadOff(listed[k])
  /\ \A i \in DOMAIN entries : InItsPage(entries[i])
  /\ \A i, j \in DOMAIN entries :
       entries[i].page = entries[j].page /\ entries[i].at = entries[j].at => i = j

\* A page is laid out as it was written.
LEMMA PageTypes ==
  ASSUME tree \in Trees, NEW page \in Pages
  PROVE  /\ PageCells(page) \in Seq(Kinds \cup {"data"}) /\ Len(PageCells(page)) = PageLength
         /\ tree.written[page] \in Seq(Kinds) /\ page \in Nat /\ PageLength \in Nat
         /\ page \in tree.formatted =>
              \E layout \in Layouts : LaidOut(PageCells(page), tree.written[page], layout)
<1>1. /\ tree \in TreeRows /\ page \in Nat /\ PageLength \in Nat
      /\ page + PageLength <= Len(tree.image)
  BY TreeConstants
<1>2. tree.image \in Seq(Kinds \cup {"data"}) /\ tree.written \in [Pages -> Seq(Kinds)]
  BY <1>1 DEF TreeRows
<1>3. \A i \in 1 .. PageLength : tree.image[page + i] \in Kinds \cup {"data"}
  <2> SUFFICES ASSUME NEW i \in 1 .. PageLength PROVE tree.image[page + i] \in Kinds \cup {"data"}
    OBVIOUS
  <2>1. page + i \in 1 .. Len(tree.image)
    BY <1>1, <1>2
  <2> QED
    BY <1>2, <2>1, ElementOfSeq
<1>4. PageCells(page) \in Seq(Kinds \cup {"data"}) /\ Len(PageCells(page)) = PageLength
  BY <1>1, <1>3 DEF PageCells, CellsOf
<1> QED
  BY <1>1, <1>2, <1>4, TreeConstants DEF PageCells

\* What is read of a page are entries inside it, in different places.
LEMMA EntriesTyped ==
  ASSUME tree \in Trees, NEW page \in Pages, NEW layout \in Layouts
  PROVE  \E kinds \in Seq(Kinds) :
           /\ EntriesOf(page, layout) =
                [i \in 1 .. Len(kinds) |-> [page |-> page, at |-> page + Slot(layout, i - 1),
                                            kind |-> kinds[i]]]
           /\ \A i \in 1 .. Len(kinds) : Slot(layout, i - 1) \in 0 .. PageLength - 1
<1> DEFINE cells == PageCells(page)
           T == InARow(cells, layout, Kinds)
<1>1. Len(cells) = PageLength /\ PageLength \in Nat
  BY PageTypes
<1> HIDE DEF cells
<1>2. T \in SUBSET Nat /\ IsFiniteSet(T) /\ T # {}
  BY <1>1, RowsInARow
<1>3. PICK n \in T : \A m \in T : m <= n
  <2> HIDE DEF T
  <2> QED
    BY <1>2, LargestOf
<1>4. n \in Nat
  BY <1>2, <1>3
<1>5. \A i \in 0 .. n - 1 : SlotFits(cells, Slot(layout, i)) /\ CellAt(cells, Slot(layout, i)) \in Kinds
  BY <1>3 DEF InARow
<1>6. EntriesOf(page, layout) =
        [i \in 1 .. n |-> [page |-> page, at |-> page + Slot(layout, i - 1),
                           kind |-> CellAt(cells, Slot(layout, i - 1))]]
  BY <1>1, <1>3, <1>4, EntriesInARow DEF cells
<1> DEFINE kinds == [i \in 1 .. n |-> CellAt(cells, Slot(layout, i - 1))]
<1>7. \A i \in 1 .. n : /\ CellAt(cells, Slot(layout, i - 1)) \in Kinds
                        /\ Slot(layout, i - 1) \in 0 .. PageLength - 1
  <2> SUFFICES ASSUME NEW i \in 1 .. n
               PROVE  /\ CellAt(cells, Slot(layout, i - 1)) \in Kinds
                      /\ Slot(layout, i - 1) \in 0 .. PageLength - 1
    OBVIOUS
  <2>1. i - 1 \in 0 .. n - 1 /\ i - 1 \in Nat
    BY <1>4
  <2>2. SlotFits(cells, Slot(layout, i - 1)) /\ CellAt(cells, Slot(layout, i - 1)) \in Kinds
    BY <1>5, <2>1
  <2> QED
    BY <1>1, <2>1, <2>2 DEF SlotFits, Slot, SlotCells, Layouts
<1>8. kinds \in Seq(Kinds) /\ Len(kinds) = n
  BY <1>4, <1>7
<1>9. EntriesOf(page, layout) =
        [i \in 1 .. n |-> [page |-> page, at |-> page + Slot(layout, i - 1), kind |-> kinds[i]]]
  BY <1>6
<1> QED
  BY <1>7, <1>8, <1>9

\* What was read of a page stays so when the entries of others follow.
LEMMA ReadStays ==
  ASSUME entries \in Seq(EntryRows), NEW added \in Seq(EntryRows), entries' = entries \o added,
         NEW page, NEW kinds, Len(kinds) \in Nat, DOMAIN kinds = 1 .. Len(kinds),
         \A i \in DOMAIN added : added[i].page # page, ReadAs(page, kinds)
  PROVE  ReadAs(page, kinds)'
<1> DEFINE n == Len(entries)
           m == Len(added)
           a == Len(kinds)
<1>1. /\ n \in Nat /\ m \in Nat /\ DOMAIN entries = 1 .. n /\ DOMAIN added = 1 .. m
      /\ DOMAIN entries' = 1 .. n + m /\ Len(entries') = n + m
      /\ \A i \in 1 .. n + m : entries'[i] = IF i <= n THEN entries[i] ELSE added[i - n]
  BY ConcatProperties
<1>2. PICK before \in 0 .. n :
        /\ \A i \in DOMAIN entries : entries[i].page = page <=> i \in before + 1 .. before + a
        /\ \A k \in DOMAIN kinds : before + k \in DOMAIN entries /\ entries[before + k].kind = kinds[k]
  BY DEF ReadAs
<1> HIDE DEF n, m, a
<1>3. a \in Nat /\ DOMAIN kinds = 1 .. a
  BY DEF a
<1>4. ASSUME NEW i \in 1 .. n + m, ~(i <= n)
      PROVE  i - n \in DOMAIN added /\ entries'[i] = added[i - n]
  BY <1>1, <1>4
<1>5. before + a <= n
  <2>1. CASE a = 0
    BY <1>1, <2>1
  <2>2. CASE a # 0
    <3>1. a \in DOMAIN kinds
      BY <1>3, <2>2
    <3>2. before + a \in DOMAIN entries
      BY <1>2, <3>1
    <3> QED
      BY <1>1, <3>2
  <2> QED
    BY <2>1, <2>2
<1>6. ASSUME NEW i \in 1 .. n + m
      PROVE  entries'[i].page = page <=> i \in before + 1 .. before + a
  <2>1. CASE i <= n
    <3>1. i \in DOMAIN entries /\ entries'[i] = entries[i]
      BY <1>1, <2>1
    <3> QED
      BY <1>2, <3>1
  <2>2. CASE ~(i <= n)
    <3>1. entries'[i].page # page
      BY <1>4, <2>2
    <3>2. i \notin before + 1 .. before + a
      BY <1>1, <1>3, <1>5, <2>2
    <3> QED
      BY <3>1, <3>2
  <2> QED
    BY <2>1, <2>2
<1>7. ASSUME NEW k \in DOMAIN kinds
      PROVE  before + k \in 1 .. n + m /\ entries'[before + k].kind = kinds[k]
  <2>1. before + k \in 1 .. n /\ entries[before + k].kind = kinds[k]
    BY <1>1, <1>2
  <2> DEFINE at == before + k
  <2> HIDE DEF at
  <2>2. at \in 1 .. n /\ entries[at].kind = kinds[k]
    BY <2>1 DEF at
  <2>3. at \in 1 .. n + m /\ entries'[at] = entries[at]
    BY <1>1, <2>2
  <2> QED
    BY <2>2, <2>3 DEF at
<1>8. before \in 0 .. Len(entries')
  BY <1>1
<1> QED
  BY <1>1, <1>6, <1>7, <1>8 DEF ReadAs, a

\* Different slots begin at different cells.
LEMMA SlotsApart ==
  ASSUME NEW layout \in Int, NEW x \in Int, NEW y \in Int,
         Slot(layout, x - 1) = Slot(layout, y - 1)
  PROVE  x = y
BY DEF Slot, SlotCells

\* A page parsed adds its entries behind those of the pages before it.
LEMMA ParseKeepsInv ==
  ASSUME TreeInv, NEW layout \in PageLayouts(PageCells(NextPage)), ParsePage(layout)
  PROVE  TreeInv'
<1>1. /\ stage = "pages" /\ read < Len(listed)
      /\ tree' = tree /\ listed' = listed /\ skipped' = skipped
  BY DEF ParsePage
<1>2. CASE OverLimit(NextPage, layout)
  <2>1. stage' = "refused" /\ entries' = entries /\ read' = read
    BY <1>2 DEF ParsePage
  <2>2. \A page, kinds : ReadAs(page, kinds)' <=> ReadAs(page, kinds)
    BY <2>1 DEF ReadAs
  <2>3. \A page : ReadOff(page)' <=> ReadOff(page)
    BY <1>1, <2>2 DEF ReadOff
  <2> QED
    BY <1>1, <2>1, <2>3 DEF TreeInv
<1>3. CASE ~OverLimit(NextPage, layout)
  <2>0. PICK here, page : here = read + 1 /\ page = NextPage
    OBVIOUS
  <2>2. /\ read \in Nat /\ Len(listed) \in Nat /\ here \in 1 .. Len(listed) /\ here \in DOMAIN listed
        /\ here \in 0 .. Len(listed) /\ here \notin 1 .. read
        /\ \A k \in 1 .. here : k = here \/ k \in 1 .. read
        /\ \A k \in 1 .. read : k \in DOMAIN listed /\ k \in 1 .. here
        /\ page = listed[here]
    BY <1>1, <2>0 DEF TreeInv, NextPage
  <2>3. page \in Pages
    BY <2>2, ElementOfSeq DEF TreeInv
  <2>4. layout \in Layouts
    BY DEF PageLayouts
  <2> DEFINE added == EntriesOf(page, layout)
             n == Len(entries)
  <2>1. entries' = entries \o added /\ read' = here /\ stage' = stage
    BY <1>3, <2>0 DEF ParsePage
  <2>5. PICK kinds \in Seq(Kinds) :
          /\ added = [i \in 1 .. Len(kinds) |-> [page |-> page, at |-> page + Slot(layout, i - 1),
                                                 kind |-> kinds[i]]]
          /\ \A i \in 1 .. Len(kinds) : Slot(layout, i - 1) \in 0 .. PageLength - 1
    BY <2>3, <2>4, EntriesTyped DEF TreeInv
  <2>a. page \in tree.formatted => kinds = tree.written[page]
    <3> SUFFICES ASSUME page \in tree.formatted PROVE kinds = tree.written[page]
      OBVIOUS
    <3>1. /\ PageCells(page) \in Seq(Kinds \cup {"data"}) /\ tree.written[page] \in Seq(Kinds)
          /\ layout \in PageLayouts(PageCells(page)) /\ PageLength \in Nat
      BY <2>0, <2>3, PageTypes DEF TreeInv
    <3>2. PICK l \in Layouts : LaidOut(PageCells(page), tree.written[page], l)
      BY <2>3, PageTypes DEF TreeInv
    <3>3. LaidOut(PageCells(page), tree.written[page], layout)
      BY <3>1, <3>2, LayoutAsWritten
    <3> DEFINE rows == tree.written[page]
    <3> HIDE DEF rows, added
    <3>4. added = [i \in 1 .. Len(rows) |-> [page |-> page, at |-> page + Slot(layout, i - 1),
                                             kind |-> rows[i]]]
      BY <2>4, <3>1, <3>3, EntriesAsWritten DEF rows, added
    <3>5. /\ rows \in Seq(Kinds) /\ Len(rows) \in Nat /\ DOMAIN rows = 1 .. Len(rows)
          /\ Len(kinds) \in Nat /\ DOMAIN kinds = 1 .. Len(kinds)
      BY <3>1 DEF rows
    <3>6. 1 .. Len(rows) = 1 .. Len(kinds)
      BY <2>5, <3>4
    <3>7. \A i \in 1 .. Len(kinds) : kinds[i] = added[i].kind /\ rows[i] = added[i].kind
      BY <2>5, <3>4, <3>6
    <3>8. Len(rows) = Len(kinds)
      <4>1. \A x, y \in Nat : 1 .. x = 1 .. y => x <= y
        <5> SUFFICES ASSUME NEW x \in Nat, NEW y \in Nat, 1 .. x = 1 .. y, ~(x <= y)
                     PROVE  FALSE
          OBVIOUS
        <5>1. x \in 1 .. x /\ x \notin 1 .. y
          OBVIOUS
        <5> QED
          BY <5>1
      <4>2. PICK x \in Nat, y \in Nat : x = Len(rows) /\ y = Len(kinds)
        BY <3>5, Zenon
      <4>3. 1 .. x = 1 .. y
        BY <3>6, <4>2, Zenon
      <4>4. x <= y /\ y <= x
        BY <4>1, <4>3
      <4> QED
        BY <4>2, <4>4
    <3> QED
      BY <3>5, <3>7, <3>8, SeqEqual DEF rows
  <2> DEFINE a == Len(kinds)
  <2> HIDE DEF added
  <2>6. /\ a \in Nat /\ DOMAIN kinds = 1 .. a /\ \A i \in 1 .. a : kinds[i] \in Kinds
    BY ElementOfSeq
  <2>7. /\ added \in Seq(EntryRows) /\ Len(added) = a /\ DOMAIN added = 1 .. a
        /\ \A i \in 1 .. a : /\ added[i].page = page /\ added[i].kind = kinds[i]
                             /\ added[i].at = page + Slot(layout, i - 1)
                             /\ InItsPage(added[i])
    <3>1. page \in Nat /\ PageLength \in Nat
      BY <2>3, PageTypes DEF TreeInv
    <3>2. \A i \in 1 .. a : page + Slot(layout, i - 1) \in Nat
      BY <2>5, <3>1
    <3>3. /\ added \in Seq(EntryRows) /\ Len(added) = a /\ DOMAIN added = 1 .. a
          /\ \A i \in 1 .. a : /\ added[i].page = page /\ added[i].kind = kinds[i]
                               /\ added[i].at = page + Slot(layout, i - 1)
      BY <2>3, <2>5, <2>6, <3>2 DEF EntryRows
    <3>4. ASSUME NEW i \in 1 .. a PROVE InItsPage(added[i])
      <4>1. PICK x : x = Slot(layout, i - 1)
        OBVIOUS
      <4>2. x \in 0 .. PageLength - 1 /\ added[i].page = page /\ added[i].at = page + x
        BY <2>5, <3>3, <4>1
      <4> QED
        BY <3>1, <4>2 DEF InItsPage
    <3> QED
      BY <3>3, <3>4
  <2> HIDE DEF a
  <2>8. /\ n \in Nat /\ DOMAIN entries = 1 .. n
        /\ entries' \in Seq(EntryRows) /\ DOMAIN entries' = 1 .. n + a /\ Len(entries') = n + a
        /\ \A i \in 1 .. n + a : entries'[i] = IF i <= n THEN entries[i] ELSE added[i - n]
    <3>1. entries \in Seq(EntryRows) /\ entries' = entries \o added
      BY <2>1 DEF TreeInv
    <3>2. /\ entries' \in Seq(EntryRows) /\ Len(entries') = n + Len(added)
          /\ \A i \in 1 .. n + Len(added) : entries'[i] = IF i <= n THEN entries[i] ELSE added[i - n]
      BY <2>7, <3>1, ConcatProperties
    <3> QED
      BY <2>7, <3>1, <3>2
  <2> HIDE DEF n
  <2>9. /\ \A i \in DOMAIN entries : i \in DOMAIN entries' /\ entries'[i] = entries[i]
        /\ \A i \in DOMAIN entries' : i \notin DOMAIN entries =>
             i - n \in 1 .. a /\ entries'[i] = added[i - n]
    BY <2>6, <2>8
  <2>10. \A i \in DOMAIN entries : entries[i].page # page
    <3>1. \A k \in 1 .. read : listed[k] # page
      BY <2>2 DEF TreeInv
    <3> QED
      BY <3>1 DEF TreeInv
  <2>11. page \notin skipped
    <3>1. \A k \in 1 .. read : listed[k] # page
      BY <2>2 DEF TreeInv
    <3> QED
      BY <3>1 DEF TreeInv
  <2>12. \A i \in DOMAIN entries' : \E k \in 1 .. here : listed[k] = entries'[i].page
    <3> SUFFICES ASSUME NEW i \in DOMAIN entries' PROVE \E k \in 1 .. here : listed[k] = entries'[i].page
      OBVIOUS
    <3>1. CASE i \in DOMAIN entries
      BY <2>2, <2>9, <3>1 DEF TreeInv
    <3>2. CASE i \notin DOMAIN entries
      <4>1. entries'[i].page = page
        BY <2>7, <2>9, <3>2
      <4>2. here \in 1 .. here
        BY <2>2
      <4> QED
        BY <2>2, <4>1, <4>2
    <3> QED
      BY <3>1, <3>2
  <2>13. ReadAs(page, kinds)'
    <3>1. ASSUME NEW i \in 1 .. n + a PROVE entries'[i].page = page <=> i \in n + 1 .. n + a
      <4>1. CASE i <= n
        <5>1. i \in DOMAIN entries /\ i \notin n + 1 .. n + a
          BY <2>8, <4>1
        <5> QED
          BY <2>9, <2>10, <5>1
      <4>2. CASE ~(i <= n)
        <5>1. i \notin DOMAIN entries /\ i \in DOMAIN entries' /\ i \in n + 1 .. n + a
          BY <2>6, <2>8, <4>2
        <5> QED
          BY <2>7, <2>9, <5>1
      <4> QED
        BY <4>1, <4>2
    <3>2. ASSUME NEW k \in 1 .. a
          PROVE  n + k \in 1 .. n + a /\ entries'[n + k].kind = kinds[k]
      <4>1. n + k \in 1 .. n + a /\ ~(n + k <= n) /\ (n + k) - n = k
        BY <2>6, <2>8
      <4>2. entries'[n + k] = added[k]
        BY <2>8, <4>1
      <4> QED
        BY <2>7, <4>1, <4>2
    <3>3. n \in 0 .. n + a
      BY <2>6, <2>8
    <3>4. /\ \A i \in DOMAIN entries' : entries'[i].page = page <=> i \in n + 1 .. n + Len(kinds)
          /\ \A k \in DOMAIN kinds : n + k \in DOMAIN entries' /\ entries'[n + k].kind = kinds[k]
          /\ n \in 0 .. Len(entries')
      BY <2>6, <2>8, <3>1, <3>2, <3>3 DEF a
    <3> QED
      BY <3>4 DEF ReadAs
  <2>14. ASSUME NEW k \in 1 .. read PROVE ReadOff(listed[k])'
    <3>1. PICK other, rows : other = listed[k]
                             /\ rows = IF other \in skipped THEN <<>> ELSE tree.written[other]
      OBVIOUS
    <3> SUFFICES ASSUME other \in tree.formatted PROVE ReadAs(other, rows)'
      BY <1>1, <3>1 DEF ReadOff
    <3>2. k \in DOMAIN listed /\ other \in Pages /\ other # page
      <4>1. k \in DOMAIN listed /\ other # page
        BY <2>2, <3>1 DEF TreeInv
      <4> QED
        BY <3>1, <4>1, ElementOfSeq DEF TreeInv
    <3>3. rows \in Seq(Kinds)
      BY <3>1, <3>2, PageTypes DEF TreeInv
    <3>4. Len(rows) \in Nat /\ DOMAIN rows = 1 .. Len(rows)
      BY <3>3
    <3>5. ReadAs(other, rows)
      BY <3>1 DEF TreeInv, ReadOff
    <3>6. \A i \in DOMAIN added : added[i].page # other
      BY <2>7, <3>2
    <3>7. entries \in Seq(EntryRows) /\ added \in Seq(EntryRows)
      BY <2>7 DEF TreeInv
    <3> QED
      BY <2>1, <3>4, <3>5, <3>6, <3>7, ReadStays
  <2>15. ReadOff(page)'
    BY <1>1, <2>a, <2>11, <2>13 DEF ReadOff
  <2>16. (\A k \in 1 .. read : ReadOff(listed[k]))'
    <3> SUFFICES ASSUME NEW k \in 1 .. here PROVE ReadOff(listed[k])'
      BY <2>1
    <3>1. CASE k \in 1 .. read
      BY <2>14, <3>1
    <3>2. CASE k = here
      <4>1. listed'[k] = page
        BY <1>1, <2>2, <3>2
      <4> QED
        BY <2>15, <4>1 DEF ReadOff
    <3> QED
      BY <2>2, <3>1, <3>2
  <2>b. \A i \in DOMAIN entries' : InItsPage(entries'[i])
    BY <2>7, <2>9 DEF TreeInv
  <2>17. \A i, j \in DOMAIN entries' :
           entries'[i].page = entries'[j].page /\ entries'[i].at = entries'[j].at => i = j
    <3> SUFFICES ASSUME NEW i \in DOMAIN entries', NEW j \in DOMAIN entries',
                        entries'[i].page = entries'[j].page, entries'[i].at = entries'[j].at
                 PROVE  i = j
      OBVIOUS
    <3>1. CASE i \in DOMAIN entries /\ j \in DOMAIN entries
      BY <2>9, <3>1 DEF TreeInv
    <3>2. CASE i \notin DOMAIN entries /\ j \notin DOMAIN entries
      <4>1. /\ i - n \in 1 .. a /\ j - n \in 1 .. a
            /\ Slot(layout, i - n - 1) = Slot(layout, j - n - 1)
        <5>1. /\ i - n \in 1 .. a /\ j - n \in 1 .. a
              /\ page + Slot(layout, i - n - 1) = page + Slot(layout, j - n - 1)
          BY <2>7, <2>9, <3>2
        <5>2. PICK x, y : x = i - n /\ y = j - n
          OBVIOUS
        <5>3. /\ Slot(layout, x - 1) \in 0 .. PageLength - 1
              /\ Slot(layout, y - 1) \in 0 .. PageLength - 1
          BY <2>5, <5>1, <5>2 DEF a
        <5>4. page \in Nat /\ PageLength \in Nat
          BY <2>3, PageTypes DEF TreeInv
        <5>5. ASSUME NEW u \in 0 .. PageLength - 1, NEW v \in 0 .. PageLength - 1,
                     page + u = page + v
              PROVE  u = v
          BY <5>4, <5>5
        <5> QED
          BY <5>1, <5>2, <5>3, <5>5
      <4>2. i \in Int /\ j \in Int /\ n \in Int /\ layout \in Int
        BY <2>4, <2>8 DEF Layouts
      <4>3. i - n = j - n
        BY <4>1, <4>2, SlotsApart
      <4> QED
        BY <4>2, <4>3
    <3>3. ASSUME NEW p \in DOMAIN entries, NEW q \in DOMAIN entries', q \notin DOMAIN entries,
                 entries'[p].page = entries'[q].page
          PROVE  FALSE
      <4>1. entries'[q].page = page
        BY <2>7, <2>9, <3>3
      <4>2. entries'[p].page # page
        BY <2>9, <2>10
      <4> QED
        BY <3>3, <4>1, <4>2
    <3> QED
      BY <3>1, <3>2, <3>3
  <2>18. \A p \in skipped : \E k \in 1 .. here : listed[k] = p
    BY <2>2 DEF TreeInv
  <2> HIDE DEF added
  <2> QED
    BY <1>1, <2>1, <2>2, <2>8, <2>12, <2>16, <2>17, <2>18, <2>b DEF TreeInv, InItsPage
<1> QED
  BY <1>2, <1>3

\* A page skipped adds none.
LEMMA SkipKeepsInv == ASSUME TreeInv, SkipPage PROVE TreeInv'
<1>1. /\ stage = "pages" /\ read < Len(listed) /\ UNCHANGED <<tree, slot, listed, entries, stage>>
      /\ skipped' = skipped \cup {NextPage} /\ read' = read + 1
  BY DEF SkipPage
<1>2. PICK here, page : here = read + 1 /\ page = listed[here]
  OBVIOUS
<1>3. /\ here \in 0 .. Len(listed) /\ here \in 1 .. here /\ here \in DOMAIN listed
      /\ \A k \in 1 .. here : k = here \/ k \in 1 .. read
      /\ \A k \in 1 .. read : k \in DOMAIN listed /\ k \in 1 .. here /\ k # here
      /\ skipped' = skipped \cup {page} /\ read' = here
  BY <1>1, <1>2 DEF TreeInv, NextPage
<1>4. \A k \in 1 .. read : listed[k] # page
  BY <1>2, <1>3 DEF TreeInv
<1>5. \A i \in DOMAIN entries : entries[i].page # page
  BY <1>4 DEF TreeInv
<1>6. ReadAs(page, <<>>)
  <2>1. Len(entries) \in Nat /\ DOMAIN entries = 1 .. Len(entries)
    BY DEF TreeInv
  <2>2. 0 \in 0 .. Len(entries) /\ Len(<<>>) = 0 /\ 0 + 1 .. 0 + 0 = {} /\ DOMAIN <<>> = {}
    BY <2>1
  <2>3. \A i \in DOMAIN entries : entries[i].page = page <=> i \in 0 + 1 .. 0 + Len(<<>>)
    BY <1>5, <2>2
  <2> QED
    BY <2>2, <2>3 DEF ReadAs
<1>7. \A p, kinds : ReadAs(p, kinds)' <=> ReadAs(p, kinds)
  BY <1>1 DEF ReadAs
<1>8. ASSUME NEW k \in 1 .. here
      PROVE  ReadOff(listed[k])'
  <2>1. CASE k = here
    BY <1>1, <1>2, <1>3, <1>6, <1>7, <2>1 DEF ReadOff
  <2>2. CASE k \in 1 .. read
    <3>1. listed[k] \in skipped' <=> listed[k] \in skipped
      BY <1>3, <1>4, <2>2
    <3>2. ReadOff(listed[k])
      BY <2>2 DEF TreeInv
    <3> QED
      BY <1>1, <1>7, <3>1, <3>2 DEF ReadOff
  <2> QED
    BY <1>3, <2>1, <2>2
<1>9. (\A k \in 1 .. read : ReadOff(listed[k]))'
  BY <1>3, <1>8
<1>10. \A p \in skipped' : \E k \in 1 .. here : listed[k] = p
  BY <1>2, <1>3 DEF TreeInv
<1>11. \A i \in DOMAIN entries : \E k \in 1 .. here : listed[k] = entries[i].page
  BY <1>3 DEF TreeInv
<1> QED
  BY <1>1, <1>3, <1>9, <1>10, <1>11 DEF TreeInv, InItsPage

\* A pointer listed is listed for the first time.
LEMMA ListKeepsInv == ASSUME TreeInv, NEW layout, ReadSlot(layout) PROVE TreeInv'
<1>1. /\ stage = "list" /\ UNCHANGED <<tree, read, entries, skipped, stage>>
      /\ read = 0 /\ entries = <<>> /\ skipped = {}
  BY DEF ReadSlot, TreeInv
<1>2. \/ listed' = listed
      \/ \E page \in Pages : /\ \A i \in DOMAIN listed : listed[i] # page
                             /\ listed' = Append(listed, page)
  BY DEF ReadSlot
<1>3. /\ listed' \in Seq(Pages) /\ Len(listed') \in Nat
      /\ \A i, j \in DOMAIN listed' : listed'[i] = listed'[j] => i = j
  <2>1. CASE listed' = listed
    BY <2>1 DEF TreeInv
  <2>2. ASSUME NEW page \in Pages, \A i \in DOMAIN listed : listed[i] # page,
               listed' = Append(listed, page)
        PROVE  /\ listed' \in Seq(Pages)
               /\ \A i, j \in DOMAIN listed' : listed'[i] = listed'[j] => i = j
    <3> DEFINE end == Len(listed) + 1
    <3>1. /\ listed' \in Seq(Pages) /\ DOMAIN listed = 1 .. Len(listed) /\ Len(listed) \in Nat
          /\ DOMAIN listed' = 1 .. end /\ listed'[end] = page
          /\ \A i \in DOMAIN listed : listed'[i] = listed[i]
      BY <2>2, AppendProperties DEF TreeInv
    <3>2. \A i \in DOMAIN listed' : i = end \/ i \in DOMAIN listed
      BY <3>1
    <3>3. \A i, j \in DOMAIN listed : listed[i] = listed[j] => i = j
      BY DEF TreeInv
    <3> HIDE DEF end
    <3>4. \A i, j \in DOMAIN listed' : listed'[i] = listed'[j] => i = j
      BY <2>2, <3>1, <3>2, <3>3
    <3> QED
      BY <3>1, <3>4
  <2>3. listed' \in Seq(Pages) /\ \A i, j \in DOMAIN listed' : listed'[i] = listed'[j] => i = j
    BY <1>2, <2>1, <2>2
  <2> QED
    BY <2>3
<1>4. read' = 0 /\ entries' = <<>> /\ skipped' = {} /\ 1 .. read' = {} /\ DOMAIN entries' = {}
  BY <1>1
<1>5. entries' \in Seq(EntryRows) /\ stage' # "parsed"
  BY <1>1, <1>4
<1> QED
  BY <1>1, <1>3, <1>4, <1>5 DEF TreeInv

\* The other steps only move on.
LEMMA StageKeepsInv ==
  ASSUME TreeInv, UNCHANGED <<tree, found>>, stage' = "header" => stage = "header",
         stage' = "list" => stage \in {"header", "list"},
         stage' = "parsed" => read = Len(listed)
  PROVE  TreeInv'
<1>1. /\ tree' = tree /\ listed' = listed /\ read' = read /\ entries' = entries /\ skipped' = skipped
  BY DEF found
<1>2. \A page, kinds : ReadAs(page, kinds)' <=> ReadAs(page, kinds)
  BY <1>1 DEF ReadAs
<1>3. (\A k \in 1 .. read : ReadOff(listed[k]))'
  BY <1>1, <1>2 DEF TreeInv, ReadOff
<1> QED
  BY <1>1, <1>2, <1>3 DEF TreeInv, InItsPage

\* Whatever the image and the pointers into it, each page listed that a recorder
\* wrote is read as it was written or skipped, and no entry is found twice unless
\* pointers that differ lie less than a page apart.
THEOREM DirectoryIsRead == TreeSpec => []DirectoryRead
<1>1. TreeInit => TreeInv
  <2> SUFFICES ASSUME TreeInit PROVE TreeInv
    OBVIOUS
  <2>1. tree \in Trees /\ listed = <<>> /\ read = 0 /\ entries = <<>> /\ skipped = {} /\ stage = "header"
    BY DEF TreeInit
  <2>2. /\ DOMAIN listed = {} /\ listed \in Seq(Pages) /\ DOMAIN entries = {}
        /\ entries \in Seq(EntryRows) /\ 1 .. read = {} /\ read \in 0 .. Len(listed)
    BY <2>1
  <2> QED
    BY <2>1, <2>2 DEF TreeInv
<1>2. TreeInv /\ [TreeNext]_treeVars => TreeInv'
  <2>1. ASSUME TreeInv, UNCHANGED treeVars PROVE TreeInv'
    <3>1. UNCHANGED <<tree, found>> /\ stage' = stage
      BY <2>1 DEF treeVars, found
    <3> QED
      BY <2>1, <3>1, StageKeepsInv DEF TreeInv
  <2>2. ASSUME TreeInv, ReadHeader PROVE TreeInv'
    <3>1. /\ UNCHANGED <<tree, found>> /\ stage = "header"
          /\ stage' \in {"refused", "parsed", "list"}
      BY <2>2 DEF ReadHeader
    <3>2. stage' = "parsed" => read = Len(listed)
      <4>1. listed = <<>>
        BY <2>2, <3>1 DEF TreeInv
      <4> QED
        BY <2>2, <3>1, <4>1 DEF TreeInv
    <3> QED
      BY <2>2, <3>1, <3>2, StageKeepsInv
  <2>3. ASSUME TreeInv, NEW layout, EndOfList(layout) PROVE TreeInv'
    <3>1. UNCHANGED <<tree, found>> /\ stage' = "pages"
      BY <2>3 DEF EndOfList
    <3> QED
      BY <2>3, <3>1, StageKeepsInv
  <2>4. ASSUME TreeInv, EndOfPages PROVE TreeInv'
    <3>1. UNCHANGED <<tree, found>> /\ stage' = "parsed" /\ read = Len(listed)
      BY <2>4 DEF EndOfPages
    <3> QED
      BY <2>4, <3>1, StageKeepsInv
  <2> QED
    BY <2>1, <2>2, <2>3, <2>4, ListKeepsInv, ParseKeepsInv, SkipKeepsInv DEF TreeNext
<1>3. TreeInv => DirectoryRead
  <2> SUFFICES ASSUME TreeInv PROVE DirectoryRead
    OBVIOUS
  <2>1. ASSUME stage = "parsed", NEW i \in DOMAIN listed PROVE i \in 1 .. read
    BY <2>1 DEF TreeInv
  <2>2. DirectoryAsWritten
    BY <2>1 DEF TreeInv, ReadOff, DirectoryAsWritten
  <2>3. RecordingsListedOnce
    <3> SUFFICES ASSUME NEW i \in DOMAIN entries, NEW j \in DOMAIN entries, i # j,
                        entries[i].at = entries[j].at
                 PROVE  /\ entries[i].page # entries[j].page
                        /\ PagesOverlap(entries[i].page, entries[j].page)
      BY DEF RecordingsListedOnce
    <3>1. /\ entries[i].page \in Nat /\ entries[j].page \in Nat /\ entries[i].at \in Nat
          /\ PageLength \in Nat
      <4>1. entries[i] \in EntryRows /\ entries[j] \in EntryRows
        <5>1. entries \in Seq(EntryRows) /\ i \in 1 .. Len(entries) /\ j \in 1 .. Len(entries)
          BY DEF TreeInv
        <5> QED
          BY <5>1, ElementOfSeq
      <4> QED
        BY <4>1, TreeConstants DEF EntryRows
    <3>2. InItsPage(entries[i]) /\ InItsPage(entries[j])
      BY DEF TreeInv
    <3>3. PagesOverlap(entries[i].page, entries[j].page)
      BY <3>1, <3>2 DEF InItsPage, PagesOverlap
    <3> QED
      BY <3>3 DEF TreeInv
  <2> QED
    BY <2>2, <2>3 DEF DirectoryRead
<1> QED
  BY <1>1, <1>2, <1>3, PTL DEF TreeSpec

-----------------------------------------------------------------------------
\* Bitstream validation: NalScan.

\* Every unit before the place of the scan is observed or lies over an observed
\* header; once the scan is over the answer is what the headers say.
NalInv ==
  /\ data \in Seq(0 .. 255) /\ place \in Nat
  /\ headers \subseteq Units
  /\ \A u \in Units : codec # "scanning" \/ u - 3 < place =>
       u \in headers \/ \E h \in headers : u - 3 <= h /\ h < u
  /\ codec # "scanning" => codec = Decision

\* A unit lies inside the block, behind its start code.
LEMMA UnitsInside ==
  ASSUME data \in Seq(0 .. 255), NEW u \in Units
  PROVE  /\ Len(data) \in Nat /\ u \in Nat /\ u >= 3 /\ u < Len(data) /\ ShortCodeAt(u - 3)
         /\ ByteAt(u) \in 0 .. 255
<1>1. Len(data) \in Nat /\ u \in Nat /\ u >= 3 /\ u < Len(data) /\ ShortCodeAt(u - 3)
  BY DEF Units
<1>2. u + 1 \in 1 .. Len(data)
  BY <1>1
<1>3. \A i \in 1 .. Len(data) : data[i] \in 0 .. 255
  BY ElementOfSeq
<1> QED
  BY <1>1, <1>2, <1>3 DEF ByteAt

\* A place without a start code has no unit.
LEMMA NalInvSkip == ASSUME NalInv, NoCodeHere PROVE NalInv'
<1>1. /\ UNCHANGED <<data, headers, codec>> /\ place' = place + 1 /\ place \in Nat
      /\ Units' = Units /\ codec = "scanning"
  BY DEF NoCodeHere, NalInv, Units, ShortCodeAt, ByteAt, Scanning
<1>2. ~ShortCodeAt(place)
  BY DEF NoCodeHere, StartCodeLength
<1>3. ASSUME NEW u \in Units, u - 3 < place'
      PROVE  u \in headers \/ \E h \in headers : u - 3 <= h /\ h < u
  <2>1. u \in Nat /\ ShortCodeAt(u - 3)
    BY UnitsInside DEF NalInv
  <2>2. u - 3 # place
    BY <1>2, <2>1
  <2>3. u - 3 < place
    BY <1>1, <1>3, <2>1, <2>2
  <2> QED
    BY <2>3 DEF NalInv
<1> QED
  BY <1>1, <1>3 DEF NalInv

\* Within a start code and its header byte no other start code begins, unless it
\* begins with the header.
LEMMA CodeApart ==
  ASSUME NalInv, Scanning, StartCodeLength > 0, NEW u \in Units,
         u - 3 >= place, u - 3 < place + StartCodeLength
  PROVE  u = place + StartCodeLength
<1>1. u \in Nat /\ place \in Nat /\ ShortCodeAt(u - 3) /\ Len(data) \in Nat
  BY UnitsInside DEF NalInv
<1>2. CASE LongCodeAt(place)
  <2>1. /\ StartCodeLength = 4 /\ ByteAt(place) = 0 /\ ByteAt(place + 1) = 0
        /\ ByteAt((place + 1) + 1) = 0 /\ ByteAt((place + 1) + 2) = 1
    BY <1>2 DEF StartCodeLength, LongCodeAt, ShortCodeAt
  <2>2. ByteAt(place + 2) = 0 /\ ByteAt(place + 3) = 1
    <3>1. (place + 1) + 1 = place + 2 /\ (place + 1) + 2 = place + 3
      BY <1>1
    <3> QED
      BY <2>1, <3>1
  <2>3. u - 3 \in {place, place + 1, place + 2, place + 3}
    BY <1>1, <2>1
  <2>4. ByteAt(u - 3) = 0 /\ ByteAt((u - 3) + 1) = 0 /\ ByteAt((u - 3) + 2) = 1
    BY <1>1 DEF ShortCodeAt
  <2>5. u - 3 # place /\ u - 3 # place + 2 /\ u - 3 # place + 3
    <3>1. (place + 2) + 1 = place + 3
      BY <1>1
    <3> QED
      BY <2>1, <2>2, <2>4, <3>1
  <2> QED
    BY <1>1, <2>1, <2>3, <2>5
<1>3. CASE ~LongCodeAt(place)
  <2>1. /\ StartCodeLength = 3 /\ ByteAt(place) = 0 /\ ByteAt(place + 1) = 0
        /\ ByteAt(place + 2) = 1
    BY <1>3 DEF StartCodeLength, ShortCodeAt
  <2>3. u - 3 \in {place, place + 1, place + 2}
    BY <1>1, <2>1
  <2>4. ByteAt(u - 3) = 0 /\ ByteAt((u - 3) + 1) = 0 /\ ByteAt((u - 3) + 2) = 1
    BY <1>1 DEF ShortCodeAt
  <2>5. u - 3 # place + 1 /\ u - 3 # place + 2
    <3>1. (place + 1) + 1 = place + 2
      BY <1>1
    <3> QED
      BY <2>1, <2>4, <3>1
  <2> QED
    BY <1>1, <2>1, <2>3, <2>5
<1> QED
  BY <1>2, <1>3

\* A unit observed skips only what lies over its header.
LEMMA NalInvObserve == ASSUME NalInv, ObserveUnit PROVE NalInv'
<1> DEFINE h == place + StartCodeLength
<1>1. /\ UNCHANGED <<data, codec>> /\ headers' = headers \cup {h} /\ place' = h + 1
      /\ Units' = Units /\ codec = "scanning" /\ place \in Nat /\ Len(data) \in Nat
      /\ Scanning /\ StartCodeLength > 0 /\ h < Len(data)
  BY DEF ObserveUnit, NalInv, Units, ShortCodeAt, ByteAt, Scanning
<1>2. StartCodeLength \in {3, 4}
  BY <1>1 DEF StartCodeLength
<1>3. h \in Units
  <2>1. h - 3 \in 0 .. Len(data) - 4 /\ (h - 3) + 3 = h
    BY <1>1, <1>2
  <2>2. ShortCodeAt(h - 3)
    BY <1>1, <1>2 DEF StartCodeLength, LongCodeAt
  <2> HIDE DEF h
  <2> QED
    BY <2>1, <2>2 DEF Units
<1>4. ASSUME NEW u \in Units, u - 3 < place'
      PROVE  u \in headers' \/ \E g \in headers' : u - 3 <= g /\ g < u
  <2>1. u \in Nat
    BY UnitsInside DEF NalInv
  <2>2. CASE u - 3 < place
    BY <1>1, <2>2 DEF NalInv
  <2>3. CASE u - 3 >= place /\ u - 3 < h
    BY <1>1, <2>3, CodeApart
  <2>4. CASE u - 3 >= h
    <3>1. u - 3 <= h /\ h < u
      BY <1>1, <1>2, <1>4, <2>1, <2>4
    <3> QED
      BY <1>1, <3>1
  <2> HIDE DEF h
  <2> QED
    BY <1>1, <2>1, <2>2, <2>3, <2>4, <1>2 DEF h
<1>5. place' \in Nat
  BY <1>1, <1>2
<1>6. headers' \subseteq Units
  BY <1>1, <1>3 DEF NalInv
<1> HIDE DEF h
<1> QED
  BY <1>1, <1>4, <1>5, <1>6 DEF NalInv

\* The answer is what the headers say.
LEMMA NalInvDecide == ASSUME NalInv, Decide PROVE NalInv'
<1>1. /\ UNCHANGED <<data, headers, place>> /\ codec' = Decision /\ codec = "scanning"
      /\ Units' = Units /\ Decision' = Decision /\ place \in Nat
  BY DEF Decide, NalInv, Units, ShortCodeAt, ByteAt, Decision, H264Types, H265Types
<1>2. ASSUME NEW u \in Units PROVE u - 3 < place
  <2>1. /\ Len(data) \in Nat /\ u \in Nat /\ u >= 3 /\ u < Len(data) /\ ShortCodeAt(u - 3)
    BY UnitsInside DEF NalInv
  <2>2. CASE place + 3 >= Len(data)
    BY <1>1, <2>1, <2>2
  <2>3. CASE place + 3 < Len(data)
    <3>1. StartCodeLength > 0 /\ place + StartCodeLength >= Len(data)
      BY <2>3 DEF Decide
    <3>2. LongCodeAt(place) /\ place + 4 >= Len(data)
      BY <1>1, <2>1, <2>3, <3>1 DEF StartCodeLength
    <3>3. ByteAt(place + 2) = 0
      <4>1. ByteAt((place + 1) + 1) = 0 /\ (place + 1) + 1 = place + 2
        BY <1>1, <3>2 DEF LongCodeAt, ShortCodeAt
      <4> QED
        BY <4>1
    <3>4. ~ShortCodeAt(place)
      BY <3>3 DEF ShortCodeAt
    <3>5. u - 3 # place
      BY <2>1, <3>4
    <3> QED
      BY <1>1, <2>1, <3>2, <3>5
  <2> QED
    BY <1>1, <2>1, <2>2, <2>3
<1> QED
  BY <1>1, <1>2 DEF NalInv

\* The types of one header byte under either codec.
LEMMA HeaderTypes ==
  ASSUME NEW b \in 0 .. 255
  PROVE  /\ b < 128 /\ H265Type(b) = 33 => H264Type(b) \in {2, 3}
         /\ b % 2 = 0 => H264Type(b) # 7
         /\ b < 128 /\ b % 2 = 0 => \A n \in {32, 33, 34} : H265Type(b) = n <=> b = 2 * n
<1>1. ASSUME b < 128, H265Type(b) = 33 PROVE H264Type(b) \in {2, 3}
  BY <1>1 DEF H264Type, H265Type
<1>2. ASSUME b % 2 = 0 PROVE H264Type(b) # 7
  BY <1>2 DEF H264Type
<1>3. ASSUME b < 128, b % 2 = 0, NEW n \in {32, 33, 34} PROVE H265Type(b) = n <=> b = 2 * n
  BY <1>3 DEF H265Type
<1> QED
  BY <1>1, <1>2, <1>3

\* What the headers say is right, whatever lies over a header.
LEMMA DecisionRight ==
  ASSUME data \in Seq(0 .. 255), headers = Units
  PROVE  /\ OnlyH264 => Decision = IF \A n \in {7, 8} : \E u \in Units : ByteAt(u) % 32 = n
                                   THEN "h264" ELSE "none"
         /\ OnlyH265 => Decision = IF \A n \in {64, 66, 68} : \E u \in Units : ByteAt(u) = n
                                   THEN "h265" ELSE "none"
<1> DEFINE h264 == {7, 8} \subseteq H264Types
           h265 == {32, 33, 34} \subseteq H265Types
<1>1. \A u \in Units : ByteAt(u) \in 0 .. 255
  BY UnitsInside
<1>2. Decision = IF h264 THEN IF h265 THEN "conflict" ELSE "h264"
                 ELSE IF h265 THEN "h265" ELSE "none"
  BY DEF Decision
<1>3. h264 <=> \A n \in {7, 8} : \E u \in Units : H264Type(ByteAt(u)) = n
  BY DEF H264Types
<1>4. h265 <=> \A n \in {32, 33, 34} : \E u \in Units : H265Type(ByteAt(u)) = n
  BY DEF H265Types
<1> HIDE DEF h264, h265
<1>5. ASSUME OnlyH264
      PROVE  Decision = IF \A n \in {7, 8} : \E u \in Units : ByteAt(u) % 32 = n
                        THEN "h264" ELSE "none"
  <2>1. \A u \in Units : H265Type(ByteAt(u)) # 33
    BY <1>1, <1>5, HeaderTypes DEF OnlyH264
  <2>2. ~h265
    BY <1>4, <2>1
  <2> QED
    BY <1>2, <1>3, <2>2 DEF H264Type
<1>6. ASSUME OnlyH265
      PROVE  Decision = IF \A n \in {64, 66, 68} : \E u \in Units : ByteAt(u) = n
                        THEN "h265" ELSE "none"
  <2>1. \A u \in Units : H264Type(ByteAt(u)) # 7
    BY <1>1, <1>6, HeaderTypes DEF OnlyH265
  <2>2. ~h264
    BY <1>3, <2>1
  <2>3. \A u \in Units : \A n \in {32, 33, 34} : H265Type(ByteAt(u)) = n <=> ByteAt(u) = 2 * n
    BY <1>1, <1>6, HeaderTypes DEF OnlyH265
  <2>4. h265 <=> \A n \in {64, 66, 68} : \E u \in Units : ByteAt(u) = n
    BY <1>4, <2>3
  <2> QED
    BY <1>2, <2>2, <2>4
<1> QED
  BY <1>5, <1>6

\* For every block of bytes: each start code is observed, at either end too, and
\* a stream of one codec is not taken for the other.
THEOREM BlockRecognized == NalSpec => []UnitsRecognized
<1>1. NalInit => NalInv
  <2> SUFFICES ASSUME NalInit PROVE NalInv
    OBVIOUS
  <2>1. data \in Seq(0 .. 255) /\ headers = {} /\ place = 0 /\ codec = "scanning"
    BY StreamConstants DEF NalInit
  <2>2. \A u \in Units : ~(u - 3 < place)
    BY <2>1, UnitsInside
  <2> QED
    BY <2>1, <2>2 DEF NalInv
<1>2. NalInv /\ [NalNext]_nalVars => NalInv'
  <2> SUFFICES ASSUME NalInv, [NalNext]_nalVars PROVE NalInv'
    OBVIOUS
  <2>1. CASE UNCHANGED nalVars
    <3>1. Units' = Units /\ Decision' = Decision
      BY <2>1 DEF nalVars, Units, ShortCodeAt, ByteAt, Decision, H264Types, H265Types
    <3> QED
      BY <2>1, <3>1 DEF nalVars, NalInv
  <2> QED
    BY <2>1, NalInvSkip, NalInvObserve, NalInvDecide DEF NalNext
<1>3. NalInv => UnitsRecognized
  <2> SUFFICES ASSUME NalInv PROVE UnitsRecognized
    OBVIOUS
  <2>1. EveryUnitObserved
    BY DEF NalInv, EveryUnitObserved
  <2>2. CodecNotMistaken
    BY DecisionRight DEF NalInv, CodecNotMistaken
  <2> QED
    BY <2>1, <2>2 DEF UnitsRecognized
<1> QED
  BY <1>1, <1>2, <1>3, PTL DEF NalSpec

-----------------------------------------------------------------------------
\* Faces linked to tracks: FaceTracking.

\* The faces of the frames, as observations.
Seen == {o \in Nat \X Nat : o[1] \in DOMAIN clip /\ o[2] \in DOMAIN clip[o[1]].faces}

\* A pair of a track and a face, passed over, that is still to be decided.
StillOpen(line, face) == line \notin linkedLines /\ face \notin linkedFaces

TypesInv ==
  /\ clip \in Clips /\ frame \in 1 .. Len(clip) + 1
  /\ lines \in Seq(Seq(Seen)) /\ linkedLines \subseteq DOMAIN lines

\* The tracks as they are built.
TracksInv ==
  /\ \A line \in DOMAIN lines :
       /\ Len(lines[line]) > 0
       /\ \A i \in DOMAIN lines[line] : lines[line][i][1] <= frame
       /\ \A i \in 2 .. Len(lines[line]) : Follows(lines[line][i - 1], lines[line][i])
  /\ \A line \in DOMAIN lines \ linkedLines : \A i \in DOMAIN lines[line] : lines[line][i][1] < frame

\* Each face seen is in one track; those of this frame are the ones linked.
FacesInv ==
  /\ \A line, other \in DOMAIN lines : \A o \in Observations(lines[line]) :
       o \in Observations(lines[other]) => line = other
  /\ \A f \in 1 .. frame - 1 : \A face \in DOMAIN clip[f].faces :
       \E line \in DOMAIN lines : <<f, face>> \in Observations(lines[line])
  /\ \A line \in DOMAIN lines : \A face :
       <<frame, face>> \in Observations(lines[line]) => face \in linkedFaces
  /\ \A face \in linkedFaces :
       \E line \in DOMAIN lines : <<frame, face>> \in Observations(lines[line])

\* In this frame a link passed over is still open, or there is one as good.
LinksInv ==
  frame \in DOMAIN clip =>
    \A face \in DOMAIN clip[frame].faces : \A line \in DOMAIN lines :
      <<frame, face>> \notin Observations(lines[line]) =>
        \A stood \in Stood(lines[line], frame) :
          MayLink(stood, frame, face) =>
            StillOpen(line, face) \/ LinkedAsWell(line, stood, <<frame, face>>)

TrackInv == TypesInv /\ TracksInv /\ FacesInv /\ NoBetterLinkLeft /\ LinksInv

\* A track with one observation more.
LEMMA LongerTrack ==
  ASSUME NEW R, NEW track \in Seq(R), NEW o \in R
  PROVE  /\ Append(track, o) \in Seq(R)
         /\ Len(Append(track, o)) = Len(track) + 1
         /\ DOMAIN track = 1 .. Len(track) /\ DOMAIN Append(track, o) = 1 .. Len(track) + 1
         /\ Append(track, o)[Len(track) + 1] = o
         /\ \A i \in DOMAIN track : Append(track, o)[i] = track[i]
         /\ Observations(Append(track, o)) = Observations(track) \cup {o}
<1> DEFINE new == Append(track, o)
           end == Len(track) + 1
<1>1. /\ new \in Seq(R) /\ Len(new) = end
      /\ DOMAIN track = 1 .. Len(track) /\ DOMAIN new = 1 .. end
      /\ new[end] = o /\ \A i \in DOMAIN track : new[i] = track[i]
      /\ Len(track) \in Nat
  BY AppendProperties
<1>2. \A i \in DOMAIN new : i = end \/ i \in DOMAIN track
  BY <1>1
<1>3. end \in DOMAIN new /\ DOMAIN track \subseteq DOMAIN new
  BY <1>1
<1> HIDE DEF new
<1>4. Observations(new) = Observations(track) \cup {o}
  BY <1>1, <1>2, <1>3 DEF Observations
<1> QED
  BY <1>1, <1>4 DEF new

\* It stood before an earlier frame where it did.
LEMMA StoodStays ==
  ASSUME NEW R, R \subseteq Nat \X Nat, NEW track \in Seq(R), NEW o \in R, NEW f \in Nat, f <= o[1]
  PROVE  Stood(Append(track, o), f) = Stood(track, f)
<1> DEFINE new == Append(track, o)
           end == Len(track) + 1
<1>1. /\ DOMAIN track = 1 .. Len(track) /\ DOMAIN new = 1 .. end /\ Len(track) \in Nat
      /\ new[end] = o /\ \A i \in DOMAIN track : new[i] = track[i]
  BY LongerTrack
<1>2. /\ \A i \in DOMAIN new : i = end \/ i \in DOMAIN track
      /\ end \in DOMAIN new /\ DOMAIN track \subseteq DOMAIN new
  BY <1>1
<1>3. o[1] \in Nat /\ ~(o[1] < f)
  OBVIOUS
<1> HIDE DEF new, end
<1> DEFINE at(s, i) == s[i][1] < f /\ \A k \in DOMAIN s : i < k => f <= s[k][1]
<1>4. \A i \in DOMAIN track : at(new, i) <=> at(track, i)
  BY <1>1, <1>2, <1>3
<1>5. ~at(new, end)
  BY <1>1, <1>3
<1>6. Stood(new, f) = {new[i] : i \in {j \in DOMAIN new : at(new, j)}}
  BY DEF Stood
<1>7. Stood(track, f) = {track[i] : i \in {j \in DOMAIN track : at(track, j)}}
  BY DEF Stood
<1>8. {j \in DOMAIN new : at(new, j)} = {j \in DOMAIN track : at(track, j)}
  <2> HIDE DEF at
  <2> QED
    BY <1>2, <1>4, <1>5
<1> HIDE DEF at
<1>9. Stood(new, f) = Stood(track, f)
  BY <1>1, <1>6, <1>7, <1>8
<1> QED
  BY <1>9 DEF new

\* A track of earlier frames only stands at its last observation.
LEMMA StoodLast ==
  ASSUME NEW R, R \subseteq Nat \X Nat, NEW track \in Seq(R), Len(track) > 0, NEW f \in Nat,
         \A i \in DOMAIN track : track[i][1] < f
  PROVE  Stood(track, f) = {track[Len(track)]}
<1> DEFINE last == Len(track)
           at(i) == track[i][1] < f /\ \A k \in DOMAIN track : i < k => f <= track[k][1]
<1>1. last \in Nat /\ DOMAIN track = 1 .. last /\ last \in DOMAIN track
  OBVIOUS
<1>2. \A i \in DOMAIN track : track[i][1] \in Nat
  <2>1. \A i \in DOMAIN track : track[i] \in R
    BY ElementOfSeq
  <2> QED
    BY <2>1
<1> HIDE DEF last
<1>3. at(last)
  <2>1. \A k \in DOMAIN track : ~(last < k)
    BY <1>1
  <2> QED
    BY <1>1, <2>1
<1>4. ASSUME NEW i \in DOMAIN track, at(i) PROVE i = last
  <2>1. ~(i < last)
    <3>1. ~(f <= track[last][1])
      <4>1. track[last][1] \in Nat /\ track[last][1] < f
        BY <1>1, <1>2
      <4> DEFINE when == track[last][1]
      <4> HIDE DEF when
      <4>2. when \in Nat /\ when < f
        BY <4>1 DEF when
      <4>3. ~(f <= when)
        BY <4>2
      <4> QED
        BY <4>3 DEF when
    <3> QED
      BY <1>1, <1>4, <3>1
  <2> QED
    BY <1>1, <2>1
<1>5. Stood(track, f) = {track[i] : i \in {j \in DOMAIN track : at(j)}}
  BY DEF Stood
<1>6. {j \in DOMAIN track : at(j)} = {last}
  <2> HIDE DEF at
  <2> QED
    BY <1>1, <1>3, <1>4
<1> HIDE DEF at
<1>7. Stood(track, f) = {track[last]}
  BY <1>5, <1>6
<1> QED
  BY <1>7 DEF last

\* An observation of this frame or a later one is where nobody stood.
LEMMA NobodyStood ==
  ASSUME NEW o, NEW f \in Nat, o[1] \in Nat, f <= o[1]
  PROVE  Stood(<<o>>, f) = {}
<1>1. \A i \in DOMAIN <<o>> : <<o>>[i] = o
  OBVIOUS
<1>2. ~(o[1] < f)
  OBVIOUS
<1> QED
  BY <1>1, <1>2 DEF Stood

\* What every step does to the tracks of earlier frames.
LinesGrow ==
  /\ clip' = clip
  /\ DOMAIN lines \subseteq DOMAIN lines'
  /\ \A line \in DOMAIN lines :
       /\ Observations(lines[line]) \subseteq Observations(lines'[line])
       /\ \A o \in Observations(lines'[line]) : o \in Observations(lines[line]) \/ o[1] = frame
       /\ \A f \in 1 .. frame : Stood(lines'[line], f) = Stood(lines[line], f)
  /\ \A line \in DOMAIN lines' : line \notin DOMAIN lines =>
       /\ \A f \in 1 .. frame : Stood(lines'[line], f) = {}
       /\ \A o \in Observations(lines'[line]) : o[1] = frame

\* A link that was as good stays as good.
LEMMA LinksStay ==
  ASSUME LinesGrow, NEW line \in DOMAIN lines, NEW stood, NEW wanted, wanted[1] \in 1 .. frame,
         LinkedAsWell(line, stood, wanted)
  PROVE  LinkedAsWell(line, stood, wanted)'
<1>1. \A there, later : NoWorse(there, later, stood, wanted)' <=> NoWorse(there, later, stood, wanted)
  BY DEF LinesGrow, NoWorse, FaceOf
<1>2. CASE \E got \in Observations(lines[line]) : got[1] = wanted[1] /\ NoWorse(stood, got, stood, wanted)
  <2>1. PICK got \in Observations(lines[line]) : got[1] = wanted[1] /\ NoWorse(stood, got, stood, wanted)
    BY <1>2
  <2>2. got \in Observations(lines'[line])
    BY DEF LinesGrow
  <2>3. got \in Observations(lines[line])'
    BY <2>2 DEF Observations
  <2> QED
    BY <1>1, <2>1, <2>3 DEF LinkedAsWell
<1>3. CASE \E other \in DOMAIN lines \ {line} :
             /\ wanted \in Observations(lines[other])
             /\ \E there \in Stood(lines[other], wanted[1]) : NoWorse(there, wanted, stood, wanted)
  <2>1. PICK other \in DOMAIN lines \ {line} :
             /\ wanted \in Observations(lines[other])
             /\ \E there \in Stood(lines[other], wanted[1]) : NoWorse(there, wanted, stood, wanted)
    BY <1>3
  <2>2. PICK there \in Stood(lines[other], wanted[1]) : NoWorse(there, wanted, stood, wanted)
    BY <2>1
  <2>3. /\ wanted \in Observations(lines'[other])
        /\ there \in Stood(lines'[other], wanted[1])
        /\ other \in DOMAIN lines' \ {line}
    BY <2>1, <2>2 DEF LinesGrow
  <2>4. wanted \in Observations(lines[other])' /\ there \in Stood(lines[other], wanted[1])'
    BY <2>3 DEF Observations, Stood
  <2> QED
    BY <1>1, <2>2, <2>3, <2>4 DEF LinkedAsWell
<1> QED
  BY <1>2, <1>3 DEF LinkedAsWell

\* No better link was passed over in this frame.
Justified(f) ==
  \A face \in DOMAIN clip[f].faces : \A line \in DOMAIN lines :
    <<f, face>> \notin Observations(lines[line]) =>
      \A stood \in Stood(lines[line], f) :
        MayLink(stood, f, face) => LinkedAsWell(line, stood, <<f, face>>)

\* Frames done stay justified.
LEMMA JustifiedStays ==
  ASSUME LinesGrow, NEW f \in 1 .. frame, Justified(f)
  PROVE  Justified(f)'
<1> SUFFICES ASSUME NEW face \in DOMAIN clip[f].faces, NEW line \in DOMAIN lines',
                    <<f, face>> \notin Observations(lines'[line]),
                    NEW stood \in Stood(lines'[line], f), MayLink(stood, f, face)
             PROVE  LinkedAsWell(line, stood, <<f, face>>)'
  <2>1. \A face, stood : MayLink(stood, f, face)' <=> MayLink(stood, f, face)
    BY DEF MayLink, FaceOf, LinesGrow
  <2>2. \A line : /\ Observations(lines[line])' = Observations(lines'[line])
                  /\ Stood(lines[line], f)' = Stood(lines'[line], f)
    BY DEF Observations, Stood
  <2>3. clip' = clip
    BY DEF LinesGrow
  <2> QED
    BY <2>1, <2>2, <2>3 DEF Justified
<1>1. line \in DOMAIN lines
  BY DEF LinesGrow
<1>2. <<f, face>> \notin Observations(lines[line]) /\ stood \in Stood(lines[line], f)
  BY <1>1 DEF LinesGrow
<1>3. LinkedAsWell(line, stood, <<f, face>>)
  BY <1>1, <1>2 DEF Justified
<1>4. <<f, face>>[1] = f
  OBVIOUS
<1> DEFINE wanted == <<f, face>>
<1> HIDE DEF wanted
<1>5. wanted[1] \in 1 .. frame /\ LinkedAsWell(line, stood, wanted)
  BY <1>3, <1>4 DEF wanted
<1>6. LinkedAsWell(line, stood, wanted)'
  BY <1>1, <1>5, LinksStay
<1> QED
  BY <1>6 DEF wanted

\* Of two overlaps only one is larger.
LEMMA LargerOneWay ==
  ASSUME NEW o, NEW r, o.inter \in Int, o.union \in Int, r.inter \in Int, r.union \in Int,
         Larger(o, r)
  PROVE  ~Larger(r, o)
<1> DEFINE x == o.inter * r.union
           y == r.inter * o.union
<1>1. x \in Int /\ y \in Int
  OBVIOUS
<1>2. (Larger(o, r) <=> x > y) /\ (Larger(r, o) <=> y > x)
  BY DEF Larger
<1> HIDE DEF x, y
<1> QED
  BY <1>1, <1>2

\* An overlap is a fraction of integers.
LEMMA OverlapType ==
  ASSUME NEW a \in BoxRows, NEW b \in BoxRows
  PROVE  Overlap(a, b).inter \in Int /\ Overlap(a, b).union \in Int
<1>1. a.left \in Nat /\ a.width \in Nat /\ b.left \in Nat /\ b.width \in Nat
  BY DEF BoxRows
<1> DEFINE inter == Greatest(0, Least(a.left + a.width, b.left + b.width)
                                  - Greatest(a.left, b.left))
<1>2. inter \in Int
  BY <1>1 DEF Least, Greatest
<1>3. Overlap(a, b) = [inter |-> inter, union |-> a.width + b.width - inter]
  BY DEF Overlap
<1> HIDE DEF inter
<1> QED
  BY <1>1, <1>2, <1>3

\* An observation is of a box.
LEMMA FaceType == ASSUME TypesInv, NEW o \in Seen PROVE FaceOf(o) \in BoxRows
<1>1. clip \in Seq(FrameRows) /\ o[1] \in DOMAIN clip /\ o[2] \in DOMAIN clip[o[1]].faces
  BY TrackConstants DEF TypesInv, Seen
<1>2. clip[o[1]] \in FrameRows
  BY <1>1, ElementOfSeq
<1>3. clip[o[1]].faces \in Seq(BoxRows)
  BY <1>2 DEF FrameRows
<1> DEFINE faces == clip[o[1]].faces
           n == o[2]
<1> HIDE DEF faces, n
<1>4. faces \in Seq(BoxRows) /\ n \in DOMAIN faces
  BY <1>1, <1>3 DEF faces, n
<1>5. faces[n] \in BoxRows
  BY <1>4, ElementOfSeq
<1> QED
  BY <1>5 DEF FaceOf, faces, n

\* What is still open may be linked now.
LEMMA OpenIsCandidate ==
  ASSUME TrackInv, frame \in DOMAIN clip, NEW line \in DOMAIN lines,
         NEW face \in DOMAIN clip[frame].faces, StillOpen(line, face),
         NEW stood \in Stood(lines[line], frame), MayLink(stood, frame, face)
  PROVE  <<line, face>> \in OpenPairs /\ stood = LastOf(line)
<1>1. lines[line] \in Seq(Seen) /\ Seen \subseteq Nat \X Nat /\ frame \in Nat
  BY ElementOfSeq, TrackConstants DEF TrackInv, TypesInv, Seen
<1>2. Len(lines[line]) > 0 /\ \A i \in DOMAIN lines[line] : lines[line][i][1] < frame
  BY DEF TrackInv, TracksInv, StillOpen
<1>3. stood = LastOf(line)
  BY <1>1, <1>2, StoodLast DEF LastOf
<1>4. line \in DOMAIN lines \ linkedLines /\ face \notin linkedFaces
  BY DEF StillOpen
<1> DEFINE pair == <<line, face>>
<1>5. pair[1] = line /\ pair[2] = face
  OBVIOUS
<1>6. pair \in (DOMAIN lines \ linkedLines) \X DOMAIN clip[frame].faces
  BY <1>4
<1> HIDE DEF pair
<1>7. pair \in OpenPairs
  BY <1>3, <1>4, <1>5, <1>6 DEF OpenPairs, Candidates, MayLink, OverlapOf
<1> QED
  BY <1>3, <1>7 DEF pair

\* The faces of a frame are boxes.
LEMMA FacesOfFrame ==
  ASSUME clip \in Seq(FrameRows), NEW f \in DOMAIN clip
  PROVE  clip[f].faces \in Seq(BoxRows)
<1>1. clip[f] \in FrameRows
  BY ElementOfSeq
<1> QED
  BY <1>1 DEF FrameRows

\* What makes a link as good after a step.
LEMMA LinkedNow ==
  ASSUME clip' = clip, NEW line, NEW stood, NEW wanted,
         \/ \E got \in Observations(lines'[line]) :
              got[1] = wanted[1] /\ NoWorse(stood, got, stood, wanted)
         \/ \E other \in DOMAIN lines' \ {line} :
              /\ wanted \in Observations(lines'[other])
              /\ \E there \in Stood(lines'[other], wanted[1]) : NoWorse(there, wanted, stood, wanted)
  PROVE  LinkedAsWell(line, stood, wanted)'
<1>1. \A there, later : NoWorse(there, later, stood, wanted)' <=> NoWorse(there, later, stood, wanted)
  BY DEF NoWorse, FaceOf
<1>2. \A n : /\ Observations(lines[n])' = Observations(lines'[n])
             /\ Stood(lines[n], wanted[1])' = Stood(lines'[n], wanted[1])
  BY DEF Observations, Stood
<1> QED
  BY <1>1, <1>2 DEF LinkedAsWell

\* The best open pair linked: every pair it closes has a link as good.
LEMMA LinkKeepsInv == ASSUME TrackInv, LinkBest PROVE TrackInv'
<1>1. PICK pair \in BestPairs(OpenPairs) :
        /\ lines' = [lines EXCEPT ![pair[1]] = Append(@, <<frame, pair[2]>>)]
        /\ linkedLines' = linkedLines \cup {pair[1]}
        /\ linkedFaces' = linkedFaces \cup {pair[2]}
  BY DEF LinkBest
<1>21. PICK now : now = frame
  OBVIOUS
<1> DEFINE l == pair[1]
           a == pair[2]
           o == <<now, pair[2]>>
           longer == Append(lines[l], o)
<1>2. /\ frame \in DOMAIN clip /\ clip' = clip /\ frame' = now /\ frame = now
      /\ clip \in Seq(FrameRows) /\ now \in Nat
  BY <1>21, TrackConstants DEF LinkBest, TrackInv, TypesInv
<1>3. /\ l \in DOMAIN lines /\ l \notin linkedLines
      /\ a \in DOMAIN clip[frame].faces /\ a \notin linkedFaces
      /\ clip[frame].time - clip[LastOf(l)[1]].time <= MaxGap
      /\ AtLeast(OverlapOf(l, a), ThresholdNum, ThresholdDen)
  BY <1>1 DEF BestPairs, OpenPairs, Candidates
<1>4. pair \in OpenPairs /\ \A q \in OpenPairs \ {pair} : Before(pair, q)
  BY <1>1 DEF BestPairs
<1>5. pair = <<l, a>> /\ o[1] = now /\ o[2] = a
  BY <1>4 DEF OpenPairs, Candidates
<1>6. o \in Seen
  <2>1. clip[frame].faces \in Seq(BoxRows)
    BY <1>2, FacesOfFrame
  <2>2. a \in Nat
    <3> DEFINE faces == clip[frame].faces
    <3> HIDE DEF faces, a
    <3>1. faces \in Seq(BoxRows) /\ a \in DOMAIN faces
      BY <1>3, <2>1 DEF faces
    <3> QED
      BY <3>1
  <2> QED
    BY <1>2, <1>3, <1>5, <2>2 DEF Seen
<1>7. Seen \subseteq Nat \X Nat /\ Seen' = Seen
  BY <1>2 DEF Seen
<1>8. lines \in Seq(Seq(Seen)) /\ lines[l] \in Seq(Seen)
  BY <1>3, ElementOfSeq DEF TrackInv, TypesInv
<1> HIDE DEF l, a, o
<1>9. /\ longer \in Seq(Seen) /\ Len(longer) = Len(lines[l]) + 1
      /\ DOMAIN lines[l] = 1 .. Len(lines[l]) /\ DOMAIN longer = 1 .. Len(lines[l]) + 1
      /\ longer[Len(lines[l]) + 1] = o
      /\ \A i \in DOMAIN lines[l] : longer[i] = lines[l][i]
      /\ Observations(longer) = Observations(lines[l]) \cup {o}
      /\ Len(lines[l]) \in Nat
  BY <1>6, <1>8, LongerTrack
<1>10. lines' = [lines EXCEPT ![l] = longer]
  BY <1>1, <1>2 DEF l, o
<1> HIDE DEF longer
<1>11. /\ lines' \in Seq(Seq(Seen)) /\ DOMAIN lines' = DOMAIN lines
       /\ lines'[l] = longer /\ \A m \in DOMAIN lines : m # l => lines'[m] = lines[m]
  <2>1. l \in 1 .. Len(lines)
    BY <1>3, <1>8
  <2>2. lines' \in Seq(Seq(Seen))
    BY <1>8, <1>9, <1>10, <2>1, ExceptSeq
  <2> QED
    BY <1>3, <1>8, <1>10, <2>2
<1>12. \A f \in 1 .. frame : Stood(longer, f) = Stood(lines[l], f)
  <2> SUFFICES ASSUME NEW f \in 1 .. frame PROVE Stood(longer, f) = Stood(lines[l], f)
    OBVIOUS
  <2>1. f \in Nat /\ f <= o[1]
    BY <1>2, <1>5
  <2>2. Stood(Append(lines[l], o), f) = Stood(lines[l], f)
    BY <1>6, <1>7, <1>8, <2>1, StoodStays
  <2> QED
    BY <2>2 DEF longer
<1>13. LinesGrow
  <2>1. ASSUME NEW m \in DOMAIN lines
        PROVE  /\ Observations(lines[m]) \subseteq Observations(lines'[m])
               /\ \A x \in Observations(lines'[m]) : x \in Observations(lines[m]) \/ x[1] = frame
               /\ \A f \in 1 .. frame : Stood(lines'[m], f) = Stood(lines[m], f)
    <3>1. CASE m = l
      BY <1>2, <1>5, <1>9, <1>11, <1>12, <3>1
    <3>2. CASE m # l
      BY <1>11, <3>2
    <3> QED
      BY <3>1, <3>2
  <2> QED
    BY <1>2, <1>11, <2>1 DEF LinesGrow
<1>14. TypesInv'
  BY <1>1, <1>2, <1>3, <1>7, <1>11 DEF TrackInv, TypesInv, l
<1>15. TracksInv'
  <2>1. \A x, y : Follows(x, y)' <=> Follows(x, y)
    BY <1>2 DEF Follows, FaceOf
  <2>2. /\ Len(longer) > 0
        /\ \A i \in DOMAIN longer : longer[i][1] <= frame
    <3>1. \A i \in DOMAIN longer : i = Len(lines[l]) + 1 \/ i \in DOMAIN lines[l]
      BY <1>9
    <3>2. \A i \in DOMAIN lines[l] : longer[i][1] <= frame
      BY <1>3, <1>9 DEF TrackInv, TracksInv
    <3>3. longer[Len(lines[l]) + 1][1] <= frame
      BY <1>2, <1>5, <1>9
    <3> QED
      BY <1>9, <3>1, <3>2, <3>3
  <2>3. ASSUME NEW i \in 2 .. Len(longer) PROVE Follows(longer[i - 1], longer[i])
    <3>1. CASE i = Len(longer)
      <4>1. i - 1 = Len(lines[l]) /\ i - 1 \in DOMAIN lines[l]
        BY <1>9, <2>3, <3>1
      <4>2. longer[i - 1] = LastOf(l) /\ longer[i] = o
        BY <1>9, <3>1, <4>1 DEF LastOf
      <4>3. LastOf(l)[1] < frame
        BY <1>3, <4>1 DEF TrackInv, TracksInv, LastOf
      <4> QED
        BY <1>2, <1>3, <1>5, <4>2, <4>3 DEF Follows, OverlapOf, o, a
    <3>2. CASE i # Len(longer)
      <4>1. i \in 2 .. Len(lines[l]) /\ i \in DOMAIN lines[l] /\ i - 1 \in DOMAIN lines[l]
        BY <1>9, <2>3, <3>2
      <4>2. Follows(lines[l][i - 1], lines[l][i])
        BY <1>3, <4>1 DEF TrackInv, TracksInv
      <4> QED
        BY <1>9, <4>1, <4>2
    <3> QED
      BY <3>1, <3>2
  <2>4. ASSUME NEW m \in DOMAIN lines'
        PROVE  /\ Len(lines'[m]) > 0
               /\ \A i \in DOMAIN lines'[m] : lines'[m][i][1] <= frame
               /\ \A i \in 2 .. Len(lines'[m]) : Follows(lines'[m][i - 1], lines'[m][i])
    <3>1. CASE m = l
      BY <1>11, <2>2, <2>3, <3>1
    <3>2. CASE m # l
      BY <1>11, <2>4, <3>2 DEF TrackInv, TracksInv
    <3> QED
      BY <3>1, <3>2
  <2>5. ASSUME NEW m \in DOMAIN lines' \ linkedLines', NEW i \in DOMAIN lines'[m]
        PROVE  lines'[m][i][1] < frame
    <3>1. m # l /\ m \in DOMAIN lines \ linkedLines
      BY <1>1, <1>11 DEF l
    <3> QED
      BY <1>11, <2>5, <3>1 DEF TrackInv, TracksInv
  <2> QED
    BY <1>2, <2>1, <2>4, <2>5 DEF TracksInv
<1>16. FacesInv'
  <2>1. \A m : Observations(lines[m])' = Observations(lines'[m])
    BY DEF Observations
  <2>2. ASSUME NEW m \in DOMAIN lines PROVE o \notin Observations(lines[m])
    BY <1>2, <1>3, <2>2 DEF TrackInv, FacesInv, o, a
  <2>3. ASSUME NEW m \in DOMAIN lines'
        PROVE  Observations(lines'[m]) = IF m = l THEN Observations(lines[l]) \cup {o}
                                                  ELSE Observations(lines[m])
    BY <1>9, <1>11
  <2>4. \A m, n \in DOMAIN lines' : \A x \in Observations(lines'[m]) :
          x \in Observations(lines'[n]) => m = n
    <3> SUFFICES ASSUME NEW m \in DOMAIN lines', NEW n \in DOMAIN lines',
                        NEW x, x \in Observations(lines'[m]), x \in Observations(lines'[n])
                 PROVE  m = n
      OBVIOUS
    <3>1. m \in DOMAIN lines /\ n \in DOMAIN lines
      BY <1>11
    <3>2. CASE x = o
      <4>1. m = l /\ n = l
        BY <2>2, <2>3, <3>1, <3>2
      <4> QED
        BY <4>1
    <3>3. CASE x # o
      <4>1. x \in Observations(lines[m]) /\ x \in Observations(lines[n])
        BY <2>3, <3>1, <3>3
      <4> QED
        BY <3>1, <4>1 DEF TrackInv, FacesInv
    <3> QED
      BY <3>2, <3>3
  <2>5. ASSUME NEW f \in 1 .. frame - 1, NEW face \in DOMAIN clip[f].faces
        PROVE  \E m \in DOMAIN lines' : <<f, face>> \in Observations(lines'[m])
    <3>1. PICK m \in DOMAIN lines : <<f, face>> \in Observations(lines[m])
      BY DEF TrackInv, FacesInv
    <3> QED
      BY <1>11, <1>13, <3>1 DEF LinesGrow
  <2>6. ASSUME NEW m \in DOMAIN lines', NEW face, <<frame, face>> \in Observations(lines'[m])
        PROVE  face \in linkedFaces'
    <3>1. CASE <<frame, face>> = o
      BY <1>1, <1>2, <1>5, <3>1 DEF a, o
    <3>2. CASE <<frame, face>> # o
      <4>1. m \in DOMAIN lines /\ <<frame, face>> \in Observations(lines[m])
        BY <1>3, <1>11, <2>3, <2>6, <3>2
      <4>2. face \in linkedFaces
        BY <4>1 DEF TrackInv, FacesInv
      <4> QED
        BY <1>1, <4>2
    <3> QED
      BY <3>1, <3>2
  <2>7. ASSUME NEW face \in linkedFaces'
        PROVE  \E m \in DOMAIN lines' : <<frame, face>> \in Observations(lines'[m])
    <3>1. CASE face = a
      <4>1. <<frame, face>> \in Observations(lines'[l])
        BY <1>2, <1>3, <1>11, <2>3, <3>1 DEF o, a
      <4> QED
        BY <1>3, <1>11, <4>1
    <3>2. CASE face \in linkedFaces
      <4>1. PICK m \in DOMAIN lines : <<frame, face>> \in Observations(lines[m])
        BY <3>2 DEF TrackInv, FacesInv
      <4> QED
        BY <1>11, <1>13, <4>1 DEF LinesGrow
    <3> QED
      BY <1>1, <2>7, <3>1, <3>2 DEF a
  <2> QED
    BY <1>2, <2>1, <2>4, <2>5, <2>6, <2>7 DEF FacesInv
<1>17. NoBetterLinkLeft'
  <2>1. ASSUME NEW f \in 1 .. frame - 1 PROVE Justified(f)'
    <3>1. f \in 1 .. frame /\ Justified(f)
      BY <1>2 DEF TrackInv, NoBetterLinkLeft, Justified
    <3> QED
      BY <1>13, <3>1, JustifiedStays
  <2> QED
    BY <1>2, <2>1 DEF NoBetterLinkLeft, Justified
<1>18. ASSUME NEW q \in OpenPairs, q # pair PROVE ~Larger(OverlapOf(q[1], q[2]), OverlapOf(l, a))
  <2>1. Before(pair, q)
    BY <1>4, <1>18
  <2>2. Larger(OverlapOf(l, a), OverlapOf(q[1], q[2])) \/ ~Larger(OverlapOf(q[1], q[2]), OverlapOf(l, a))
    BY <2>1 DEF Before, l, a
  <2>3. ASSUME NEW p \in OpenPairs
        PROVE  OverlapOf(p[1], p[2]).inter \in Int /\ OverlapOf(p[1], p[2]).union \in Int
    <3>1. /\ p[1] \in DOMAIN lines /\ p[1] \notin linkedLines
          /\ p[2] \in DOMAIN clip[frame].faces
      BY DEF OpenPairs, Candidates
    <3>2. LastOf(p[1]) \in Seen
      <4>1. lines[p[1]] \in Seq(Seen)
        BY <1>8, <3>1, ElementOfSeq
      <4>2. Len(lines[p[1]]) > 0
        BY <3>1 DEF TrackInv, TracksInv
      <4> DEFINE track == lines[p[1]]
      <4> HIDE DEF track
      <4>3. track \in Seq(Seen) /\ Len(track) > 0
        BY <4>1, <4>2 DEF track
      <4>4. Len(track) \in 1 .. Len(track)
        BY <4>3
      <4>5. track[Len(track)] \in Seen
        BY <4>3, <4>4, ElementOfSeq
      <4> QED
        BY <4>5 DEF LastOf, track
    <3>3. FaceOf(LastOf(p[1])) \in BoxRows
      BY <3>2, FaceType DEF TrackInv
    <3>4. FaceOf(<<frame, p[2]>>) \in BoxRows
      <4>1. clip[frame].faces \in Seq(BoxRows)
        BY <1>2, FacesOfFrame
      <4> DEFINE faces == clip[frame].faces
                 n == p[2]
      <4> HIDE DEF faces, n
      <4>2. faces \in Seq(BoxRows) /\ n \in DOMAIN faces
        BY <3>1, <4>1 DEF faces, n
      <4>3. faces[n] \in BoxRows
        BY <4>2, ElementOfSeq
      <4> QED
        BY <4>3 DEF FaceOf, faces, n
    <3> QED
      BY <3>3, <3>4, OverlapType DEF OverlapOf
  <2> DEFINE x == OverlapOf(l, a)
             y == OverlapOf(q[1], q[2])
  <2>4. x.inter \in Int /\ x.union \in Int /\ y.inter \in Int /\ y.union \in Int
    BY <1>4, <2>3 DEF l, a
  <2> HIDE DEF x, y
  <2>5. Larger(x, y) => ~Larger(y, x)
    BY <2>4, LargerOneWay
  <2> QED
    BY <2>2, <2>5 DEF x, y
<1>19. ASSUME NEW b \in DOMAIN clip[now].faces, NEW m \in DOMAIN lines,
              <<now, b>> \notin Observations(lines'[m]),
              NEW stood \in Stood(lines'[m], now), MayLink(stood, now, b)
       PROVE  StillOpen(m, b)' \/ LinkedAsWell(m, stood, <<now, b>>)'
  <2> DEFINE wanted == <<now, b>>
  <2>1. <<now, b>> \notin Observations(lines[m]) /\ stood \in Stood(lines[m], now)
    <3>1. now \in 1 .. frame
      BY <1>2 DEF TrackInv, TypesInv
    <3> QED
      BY <1>13, <1>19, <3>1 DEF LinesGrow
  <2>2. StillOpen(m, b) \/ LinkedAsWell(m, stood, <<now, b>>)
    BY <1>2, <1>19, <2>1 DEF TrackInv, LinksInv
  <2>3. wanted[1] = now /\ wanted[2] = b /\ now \in 1 .. frame
    BY <1>2 DEF TrackInv, TypesInv
  <2>4. CASE LinkedAsWell(m, stood, <<now, b>>)
    <3> HIDE DEF wanted
    <3>1. LinkedAsWell(m, stood, wanted)'
      BY <1>13, <2>3, <2>4, LinksStay DEF wanted
    <3> QED
      BY <3>1 DEF wanted
  <2>5. CASE StillOpen(m, b)
    <3>1. <<m, b>> \in OpenPairs /\ stood = LastOf(m)
      BY <1>2, <1>19, <2>1, <2>5, OpenIsCandidate
    <3>2. <<m, b>> # pair => ~Larger(OverlapOf(m, b), OverlapOf(l, a))
      <4> DEFINE q == <<m, b>>
      <4>1. q[1] = m /\ q[2] = b
        OBVIOUS
      <4> HIDE DEF q
      <4>2. q # pair => ~Larger(OverlapOf(m, b), OverlapOf(l, a))
        BY <1>18, <3>1, <4>1 DEF q
      <4> QED
        BY <4>2 DEF q
    <3>5. CASE m = l
      <4>1. o \in Observations(lines'[m]) /\ b # a
        BY <1>9, <1>11, <1>19, <3>5 DEF o, a
      <4>2. NoWorse(stood, o, stood, wanted)
        BY <1>2, <1>5, <3>1, <3>2, <3>5, <4>1 DEF NoWorse, OverlapOf, o, a
      <4>4. o[1] = wanted[1]
        BY <1>5, <2>3
      <4> HIDE DEF wanted
      <4>5. LinkedAsWell(m, stood, wanted)'
        BY <1>2, <4>1, <4>2, <4>4, LinkedNow
      <4> QED
        BY <4>5 DEF wanted
    <3>6. CASE m # l /\ b = a
      <4>1. Stood(lines[l], now) = {LastOf(l)}
        <5>1. Len(lines[l]) > 0 /\ \A i \in DOMAIN lines[l] : lines[l][i][1] < now
          BY <1>2, <1>3 DEF TrackInv, TracksInv
        <5> QED
          BY <1>2, <1>7, <1>8, <5>1, StoodLast DEF LastOf
      <4>2. LastOf(l) \in Stood(lines'[l], wanted[1]) /\ wanted \in Observations(lines'[l])
        <5>1. wanted = o
          BY <3>6 DEF o, a
        <5> QED
          BY <1>9, <1>11, <1>12, <2>3, <4>1, <5>1
      <4>3. <<m, b>> # pair
        BY <1>5, <3>6 DEF l
      <4>4. NoWorse(LastOf(l), wanted, stood, wanted)
        BY <1>2, <3>1, <3>2, <3>6, <4>3 DEF NoWorse, OverlapOf
      <4>6. l \in DOMAIN lines' \ {m}
        BY <1>3, <1>11, <3>6
      <4>8. PICK last : last = LastOf(l)
        OBVIOUS
      <4> HIDE DEF wanted
      <4>7. LinkedAsWell(m, stood, wanted)'
        BY <1>2, <4>2, <4>4, <4>6, <4>8, LinkedNow
      <4> QED
        BY <4>7 DEF wanted
    <3>7. CASE m # l /\ b # a
      BY <1>1, <2>5, <3>7 DEF StillOpen, l, a
    <3> QED
      BY <3>5, <3>6, <3>7
  <2> QED
    BY <2>2, <2>4, <2>5
<1>20. LinksInv'
  <2>1. \A b, stood : MayLink(stood, now, b)' <=> MayLink(stood, now, b)
    BY <1>2 DEF MayLink, FaceOf
  <2>2. \A n : /\ Observations(lines[n])' = Observations(lines'[n])
               /\ Stood(lines[n], now)' = Stood(lines'[n], now)
    BY DEF Observations, Stood
  <2> SUFFICES (\A face \in DOMAIN clip[now].faces : \A line \in DOMAIN lines :
                  <<now, face>> \notin Observations(lines[line]) =>
                    \A stood \in Stood(lines[line], now) :
                      MayLink(stood, now, face) =>
                        StillOpen(line, face) \/ LinkedAsWell(line, stood, <<now, face>>))'
    BY <1>2 DEF LinksInv
  <2> QED
    BY <1>2, <1>11, <1>19, <2>1, <2>2
<1> QED
  BY <1>14, <1>15, <1>16, <1>17, <1>20 DEF TrackInv

\* The faces left over, in their order, are all of them, each once.
LEMMA OrderOfAll ==
  ASSUME NEW faces, IsFiniteSet(faces), faces \subseteq Nat, NEW order \in InOrder(faces)
  PROVE  /\ Cardinality(faces) \in Nat /\ order \in [1 .. Cardinality(faces) -> faces]
         /\ \A i, j \in DOMAIN order : order[i] = order[j] => i = j
         /\ \A face \in faces : \E i \in DOMAIN order : order[i] = face
<1> DEFINE n == Cardinality(faces)
<1>1. /\ n \in Nat /\ order \in [1 .. n -> faces]
      /\ \A i, j \in DOMAIN order : i < j => order[i] < order[j]
  BY FS_CardinalityType DEF InOrder
<1> HIDE DEF n
<1>2. ASSUME NEW i \in DOMAIN order, NEW j \in DOMAIN order, order[i] = order[j] PROVE i = j
  <2>3. i \in 1 .. n /\ j \in 1 .. n /\ order[i] \in faces /\ order[j] \in faces
    BY <1>1
  <2>1. i \in Int /\ j \in Int /\ order[i] \in Nat /\ order[j] \in Nat
    <3>1. \A k \in 1 .. n : k \in Int
      BY <1>1
    <3>2. \A face \in faces : face \in Nat
      BY Zenon
    <3> QED
      BY <2>3, <3>1, <3>2, Zenon
  <2>2. ~(i < j) /\ ~(j < i)
    BY <1>1, <1>2, <2>1
  <2> QED
    BY <2>1, <2>2
<1>3. IsFiniteSet(1 .. n) /\ Cardinality(1 .. n) = n
  BY <1>1, IntervalCount
<1>4. order \in Injection(1 .. n, faces)
  BY <1>1, <1>2 DEF Injection, IsInjective
<1>5. n = Cardinality(faces)
  BY DEF n
<1>6. order \in Surjection(1 .. n, faces)
  BY <1>3, <1>4, <1>5, FS_Injection
<1> QED
  BY <1>1, <1>2, <1>6 DEF n, Surjection

\* The faces left over open tracks of their own, and the frame is done.
LEMMA OpenKeepsInv == ASSUME TrackInv, OpenLines PROVE TrackInv'
<1>1. PICK now : now = frame
  OBVIOUS
<1>2. /\ frame = now /\ now \in Nat /\ now \in DOMAIN clip /\ clip' = clip /\ frame' = now + 1
      /\ clip \in Seq(FrameRows) /\ linkedLines' = {} /\ linkedFaces' = {} /\ OpenPairs = {}
      /\ now > 0 /\ frame' \in 1 .. Len(clip) + 1
  BY <1>1, TrackConstants DEF OpenLines, TrackInv, TypesInv
<1>3. PICK order \in InOrder(Unlinked) :
        lines' = lines \o [k \in DOMAIN order |-> <<<<frame, order[k]>>>>]
  BY DEF OpenLines
<1> DEFINE left == Unlinked
           new == [k \in DOMAIN order |-> <<<<now, order[k]>>>>]
           old == Len(lines)
<1>4. /\ left \subseteq DOMAIN clip[now].faces /\ IsFiniteSet(left) /\ left \subseteq Nat
      /\ \A face \in DOMAIN clip[now].faces : face \in left \/ face \in linkedFaces
      /\ \A face \in left : face \notin linkedFaces
  <2>1. clip[now].faces \in Seq(BoxRows)
    BY <1>2, FacesOfFrame
  <2> DEFINE faces == clip[now].faces
  <2> HIDE DEF faces
  <2>2. faces \in Seq(BoxRows)
    BY <2>1 DEF faces
  <2>3. DOMAIN faces = 1 .. Len(faces) /\ Len(faces) \in Nat
    BY <2>2
  <2>4. IsFiniteSet(DOMAIN faces) /\ DOMAIN faces \subseteq Nat
    BY <2>3, FS_Interval
  <2>5. left = DOMAIN faces \ linkedFaces
    BY <1>2 DEF Unlinked, faces
  <2>6. IsFiniteSet(left)
    BY <2>4, <2>5, FS_Subset
  <2> QED
    BY <2>4, <2>5, <2>6 DEF faces
<1> HIDE DEF left
<1>5. PICK n \in Nat :
        /\ order \in [1 .. n -> left]
        /\ \A i, j \in DOMAIN order : order[i] = order[j] => i = j
        /\ \A face \in left : \E i \in DOMAIN order : order[i] = face
  <2>1. order \in InOrder(left)
    BY <1>3 DEF left
  <2> QED
    BY <1>4, <2>1, OrderOfAll
<1>6. Seen \subseteq Nat \X Nat /\ Seen' = Seen /\ \A face \in left : <<now, face>> \in Seen
  BY <1>2, <1>4 DEF Seen
<1>7. \A k \in 1 .. n : new[k] = <<<<now, order[k]>>>> /\ new[k] \in Seq(Seen)
  BY <1>5, <1>6
<1>8. new \in Seq(Seq(Seen)) /\ Len(new) = n /\ lines \in Seq(Seq(Seen)) /\ old \in Nat
      /\ DOMAIN lines = 1 .. old
  <2>1. DOMAIN new = 1 .. n
    BY <1>5
  <2>2. \A k \in 1 .. n : new[k] \in Seq(Seen)
    BY <1>7
  <2>3. new = [k \in 1 .. n |-> new[k]]
    BY <2>1
  <2> HIDE DEF new
  <2>4. new \in [1 .. n -> Seq(Seen)]
    BY <2>1, <2>2, <2>3
  <2>5. new \in Seq(Seq(Seen)) /\ Len(new) = n
    BY <2>4
  <2> QED
    BY <2>5 DEF TrackInv, TypesInv
<1>9. lines' = lines \o new
  BY <1>2, <1>3
<1> HIDE DEF new
<1>10. /\ lines' \in Seq(Seq(Seen)) /\ DOMAIN lines' = 1 .. old + n
       /\ \A m \in 1 .. old + n : lines'[m] = IF m <= old THEN lines[m] ELSE new[m - old]
  BY <1>8, <1>9, ConcatProperties
<1> HIDE DEF old
<1>11. /\ DOMAIN lines \subseteq DOMAIN lines' /\ \A m \in DOMAIN lines : lines'[m] = lines[m]
       /\ \A m \in DOMAIN lines' : m \notin DOMAIN lines =>
            m - old \in 1 .. n /\ lines'[m] = <<<<now, order[m - old]>>>> /\ order[m - old] \in left
       /\ \A k \in 1 .. n : /\ old + k \in DOMAIN lines' /\ old + k \notin DOMAIN lines
                            /\ lines'[old + k] = <<<<now, order[k]>>>>
  <2>1. ASSUME NEW m \in DOMAIN lines', m \notin DOMAIN lines
        PROVE  m - old \in 1 .. n /\ lines'[m] = new[m - old]
    BY <1>8, <1>10, <2>1
  <2>2. ASSUME NEW k \in 1 .. n
        PROVE  old + k \in DOMAIN lines' /\ old + k \notin DOMAIN lines /\ lines'[old + k] = new[k]
    <3>1. old + k \in 1 .. old + n /\ ~(old + k <= old) /\ (old + k) - old = k
      BY <1>8
    <3> QED
      BY <1>8, <1>10, <3>1
  <2>3. DOMAIN lines \subseteq DOMAIN lines' /\ \A m \in DOMAIN lines : lines'[m] = lines[m]
    BY <1>8, <1>10
  <2> QED
    BY <1>5, <1>7, <2>1, <2>2, <2>3
<1>12. /\ \A o : Observations(<<o>>) = {o}
       /\ \A m \in DOMAIN lines' : m \notin DOMAIN lines =>
            Observations(lines'[m]) = {<<now, order[m - old]>>}
  <2>1. \A o : Observations(<<o>>) = {o}
    BY DEF Observations
  <2> QED
    BY <1>11, <2>1
<1>13. LinesGrow
  <2>1. ASSUME NEW m \in DOMAIN lines', m \notin DOMAIN lines
        PROVE  /\ \A f \in 1 .. frame : Stood(lines'[m], f) = {}
               /\ \A o \in Observations(lines'[m]) : o[1] = frame
    <3> DEFINE o == <<now, order[m - old]>>
    <3>1. o[1] = now
      OBVIOUS
    <3> HIDE DEF o
    <3>2. lines'[m] = <<o>> /\ Observations(lines'[m]) = {o}
      BY <1>11, <1>12, <2>1 DEF o
    <3>3. ASSUME NEW f \in 1 .. frame PROVE Stood(<<o>>, f) = {}
      <4>1. f \in Nat /\ o[1] \in Nat /\ f <= o[1]
        BY <1>2, <3>1
      <4> QED
        BY <4>1, NobodyStood
    <3> QED
      BY <1>2, <3>1, <3>2, <3>3
  <2> QED
    BY <1>2, <1>11, <2>1 DEF LinesGrow
<1>14. TypesInv'
  BY <1>2, <1>6, <1>10 DEF TrackInv, TypesInv
<1>15. \A m \in DOMAIN lines' : \A i \in DOMAIN lines'[m] : lines'[m][i][1] <= now
  <2> SUFFICES ASSUME NEW m \in DOMAIN lines', NEW i \in DOMAIN lines'[m] PROVE lines'[m][i][1] <= now
    OBVIOUS
  <2>1. CASE m \in DOMAIN lines
    BY <1>2, <1>11, <2>1 DEF TrackInv, TracksInv
  <2>2. CASE m \notin DOMAIN lines
    <3>1. lines'[m][i] \in Observations(lines'[m])
      BY DEF Observations
    <3>2. lines'[m][i] = <<now, order[m - old]>>
      BY <1>12, <2>2, <3>1
    <3> QED
      BY <1>2, <3>2
  <2> QED
    BY <2>1, <2>2
<1>16. TracksInv'
  <2>1. \A x, y : Follows(x, y)' <=> Follows(x, y)
    BY <1>2 DEF Follows, FaceOf
  <2>2. ASSUME NEW m \in DOMAIN lines'
        PROVE  /\ Len(lines'[m]) > 0
               /\ \A i \in 2 .. Len(lines'[m]) : Follows(lines'[m][i - 1], lines'[m][i])
    <3>1. CASE m \in DOMAIN lines
      BY <1>11, <3>1 DEF TrackInv, TracksInv
    <3>2. CASE m \notin DOMAIN lines
      <4>1. Len(lines'[m]) = 1
        BY <1>11, <3>2
      <4> QED
        BY <4>1
    <3> QED
      BY <3>1, <3>2
  <2>3. ASSUME NEW m \in DOMAIN lines', NEW i \in DOMAIN lines'[m]
        PROVE  lines'[m][i][1] <= now + 1 /\ lines'[m][i][1] < now + 1
    <3>1. lines'[m] \in Seq(Seen)
      <4>1. \A tracks \in Seq(Seq(Seen)) : \A k \in DOMAIN tracks : tracks[k] \in Seq(Seen)
        BY ElementOfSeq
      <4> QED
        BY <1>10, <4>1
    <3> DEFINE track == lines'[m]
    <3> HIDE DEF track
    <3>2. track \in Seq(Seen) /\ i \in DOMAIN track
      BY <2>3, <3>1 DEF track
    <3>3. track[i] \in Seen
      BY <3>2, ElementOfSeq
    <3>4. track[i][1] \in Nat
      BY <1>6, <3>3
    <3>5. track[i][1] <= now
      BY <1>15, <2>3 DEF track
    <3> DEFINE when == track[i][1]
    <3> HIDE DEF when
    <3>6. when \in Nat /\ when <= now
      BY <3>4, <3>5 DEF when
    <3>7. when <= now + 1 /\ when < now + 1
      BY <1>2, <3>6
    <3> QED
      BY <3>7 DEF when, track
  <2> QED
    BY <1>2, <2>1, <2>2, <2>3 DEF TracksInv
<1>17. FacesInv'
  <2>1. \A m : Observations(lines[m])' = Observations(lines'[m])
    BY DEF Observations
  <2>2. ASSUME NEW m \in DOMAIN lines', NEW k \in DOMAIN lines', NEW x,
               x \in Observations(lines'[m]), x \in Observations(lines'[k])
        PROVE  m = k
    <3>1. CASE m \in DOMAIN lines /\ k \in DOMAIN lines
      BY <1>11, <2>2, <3>1 DEF TrackInv, FacesInv
    <3>2. ASSUME NEW p \in DOMAIN lines, NEW q \in DOMAIN lines', q \notin DOMAIN lines,
                 x \in Observations(lines'[p]), x \in Observations(lines'[q])
          PROVE  FALSE
      <4>1. x = <<now, order[q - old]>> /\ order[q - old] \notin linkedFaces
        BY <1>4, <1>11, <1>12, <3>2
      <4>2. <<frame, order[q - old]>> \in Observations(lines[p])
        BY <1>2, <1>11, <3>2, <4>1
      <4> QED
        BY <3>2, <4>1, <4>2 DEF TrackInv, FacesInv
    <3>3. CASE m \notin DOMAIN lines /\ k \notin DOMAIN lines
      <4>1. x = <<now, order[m - old]>> /\ x = <<now, order[k - old]>>
        BY <1>12, <2>2, <3>3
      <4>2. order[m - old] = order[k - old]
        BY <4>1
      <4>3. m - old = k - old /\ m - old \in 1 .. n /\ k - old \in 1 .. n
        BY <1>5, <1>11, <2>2, <3>3, <4>2
      <4>4. m \in Int /\ k \in Int /\ old \in Int
        BY <1>8, <1>10, <2>2
      <4> QED
        BY <4>3, <4>4
    <3> QED
      BY <2>2, <3>1, <3>2, <3>3
  <2>3. ASSUME NEW f \in 1 .. now, NEW face \in DOMAIN clip[f].faces
        PROVE  \E m \in DOMAIN lines' : <<f, face>> \in Observations(lines'[m])
    <3>1. CASE f # now \/ face \notin left
      <4>1. \E m \in DOMAIN lines : <<f, face>> \in Observations(lines[m])
        <5>1. CASE f # now
          <6>1. f \in 1 .. frame - 1
            BY <1>2, <5>1
          <6> QED
            BY <6>1 DEF TrackInv, FacesInv
        <5>2. CASE f = now /\ face \notin left
          BY <1>2, <1>4, <5>2 DEF TrackInv, FacesInv
        <5> QED
          BY <3>1, <5>1, <5>2
      <4> QED
        BY <1>11, <4>1
    <3>2. CASE f = now /\ face \in left
      <4>1. PICK k \in 1 .. n : order[k] = face
        BY <1>5, <3>2
      <4>2. old + k \in DOMAIN lines' /\ Observations(lines'[old + k]) = {<<now, face>>}
        BY <1>11, <1>12, <4>1
      <4> QED
        BY <3>2, <4>2
    <3> QED
      BY <3>1, <3>2
  <2>4. ASSUME NEW m \in DOMAIN lines', NEW face, <<now + 1, face>> \in Observations(lines'[m])
        PROVE  FALSE
    <3>1. PICK i \in DOMAIN lines'[m] : lines'[m][i] = <<now + 1, face>>
      BY <2>4 DEF Observations
    <3>2. <<now + 1, face>>[1] <= now
      BY <1>15, <3>1
    <3>3. now + 1 <= now
      BY <3>2
    <3> QED
      BY <1>2, <3>3
  <2>5. 1 .. frame' - 1 = 1 .. now
    BY <1>2
  <2> QED
    BY <1>2, <2>1, <2>2, <2>3, <2>4, <2>5 DEF FacesInv
<1>18. Justified(now)
  <2> SUFFICES ASSUME NEW face \in DOMAIN clip[now].faces, NEW line \in DOMAIN lines,
                      <<now, face>> \notin Observations(lines[line]),
                      NEW stood \in Stood(lines[line], now), MayLink(stood, now, face)
               PROVE  LinkedAsWell(line, stood, <<now, face>>)
    BY DEF Justified
  <2>1. StillOpen(line, face) \/ LinkedAsWell(line, stood, <<now, face>>)
    BY <1>2 DEF TrackInv, LinksInv
  <2>2. ~StillOpen(line, face)
    BY <1>2, OpenIsCandidate
  <2> QED
    BY <2>1, <2>2
<1>19. NoBetterLinkLeft'
  <2>1. ASSUME NEW f \in 1 .. now PROVE Justified(f)'
    <3>1. Justified(f)
      <4>1. CASE f = now
        BY <1>18, <4>1
      <4>2. CASE f # now
        <5>1. f \in 1 .. frame - 1
          BY <1>2, <4>2
        <5> QED
          BY <5>1 DEF TrackInv, NoBetterLinkLeft, Justified
      <4> QED
        BY <4>1, <4>2
    <3>2. f \in 1 .. frame
      BY <1>2
    <3> QED
      BY <1>13, <3>1, <3>2, JustifiedStays
  <2>2. 1 .. frame' - 1 = 1 .. now
    BY <1>2
  <2> QED
    BY <1>2, <2>1, <2>2 DEF NoBetterLinkLeft, Justified
<1>20. LinksInv'
  BY <1>2 DEF LinksInv, StillOpen
<1> QED
  BY <1>14, <1>16, <1>17, <1>19, <1>20 DEF TrackInv

\* The invariant is what tracking promises.
LEMMA TracksSplit == ASSUME TrackInv PROVE TracksAssociated
<1>1. ASSUME NEW f \in 1 .. frame - 1, NEW face \in DOMAIN clip[f].faces
      PROVE  Cardinality({line \in DOMAIN lines : <<f, face>> \in Observations(lines[line])}) = 1
  <2>1. PICK line \in DOMAIN lines : <<f, face>> \in Observations(lines[line])
    BY DEF TrackInv, FacesInv
  <2>2. {other \in DOMAIN lines : <<f, face>> \in Observations(lines[other])} = {line}
    BY <2>1 DEF TrackInv, FacesInv
  <2> QED
    BY <2>2, FS_Singleton
<1>2. ASSUME NEW line \in DOMAIN lines, NEW i \in 2 .. Len(lines[line])
      PROVE  Follows(lines[line][i - 1], lines[line][i])
  BY DEF TrackInv, TracksInv
<1> QED
  BY <1>1, <1>2 DEF TracksAssociated, FacesSplitIntoTracks, TrackInv

\* Whatever faces the frames show, tracking splits them into tracks and passes
\* over no link for a worse one.
THEOREM TracksAreAssociated == TrackSpec => []TracksAssociated
<1>1. TrackInit => TrackInv
  <2> SUFFICES ASSUME TrackInit PROVE TrackInv
    OBVIOUS
  <2>1. /\ clip \in Clips /\ frame = 1 /\ lines = <<>> /\ linkedLines = {} /\ linkedFaces = {}
        /\ clip \in Seq(FrameRows)
    BY TrackConstants DEF TrackInit
  <2>2. DOMAIN lines = {} /\ lines \in Seq(Seq(Seen)) /\ 1 .. frame - 1 = {}
    BY <2>1
  <2>3. frame \in 1 .. Len(clip) + 1
    BY <2>1
  <2> QED
    BY <2>1, <2>2, <2>3 DEF TrackInv, TypesInv, TracksInv, FacesInv, NoBetterLinkLeft, LinksInv
<1>2. TrackInv /\ [TrackNext]_trackVars => TrackInv'
  <2>1. ASSUME TrackInv, UNCHANGED trackVars PROVE TrackInv'
    <3>1. /\ clip' = clip /\ frame' = frame /\ lines' = lines
          /\ linkedLines' = linkedLines /\ linkedFaces' = linkedFaces
      BY <2>1 DEF trackVars
    <3>2. TypesInv' /\ TracksInv' /\ FacesInv'
      BY <2>1, <3>1 DEF TrackInv, TypesInv, Seen, TracksInv, Follows, FaceOf, FacesInv, Observations
    <3>3. NoBetterLinkLeft' /\ LinksInv'
      BY <2>1, <3>1 DEF TrackInv, NoBetterLinkLeft, LinksInv, StillOpen, LinkedAsWell, MayLink,
                        NoWorse, Stood, FaceOf, Observations
    <3> QED
      BY <3>2, <3>3 DEF TrackInv
  <2> QED
    BY <2>1, LinkKeepsInv, OpenKeepsInv DEF TrackNext
<1>3. TrackInv => TracksAssociated
  BY TracksSplit
<1> QED
  BY <1>1, <1>2, <1>3, PTL DEF TrackSpec

-----------------------------------------------------------------------------
\* One box for each face: FaceSuppression.

ScoredBoxes == [left : Nat, width : Nat \ {0}, score : Nat]

\* A box is waiting, selected, beyond the limit, or the same face as a more
\* certain one selected; those waiting come after those selected and are other
\* faces.
SuppressInv ==
  /\ crowd \in Seq(ScoredBoxes)
  /\ waiting \subseteq DOMAIN crowd /\ picked \in Seq(DOMAIN crowd) /\ Len(picked) <= MaxFaces
  /\ \A m, n \in DOMAIN picked : m # n => picked[m] # picked[n] /\ ~Same(picked[m], picked[n])
  /\ \A n \in DOMAIN picked : \A j \in waiting :
       picked[n] # j /\ ~Same(picked[n], j) /\ MoreCertain(picked[n], j)
  /\ \A i \in DOMAIN crowd :
       \/ i \in waiting
       \/ \E n \in DOMAIN picked : picked[n] = i
       \/ \E n \in DOMAIN picked : Same(picked[n], i) /\ MoreCertain(picked[n], i)
       \/ Rank(i) >= MaxCandidates

\* Two boxes overlap each other equally.
LEMMA OverlapSymmetric ==
  ASSUME NEW a, NEW b, a.left \in Nat, a.width \in Nat, b.left \in Nat, b.width \in Nat
  PROVE  Overlap(a, b) = Overlap(b, a)
<1> DEFINE e(x, y) == Least(x.left + x.width, y.left + y.width)
           g(x, y) == Greatest(x.left, y.left)
<1>1. e(a, b) = e(b, a) /\ g(a, b) = g(b, a)
  BY DEF Least, Greatest
<1>2. /\ e(a, b) \in Int /\ g(a, b) \in Int
  BY DEF Least, Greatest
<1> HIDE DEF e, g
<1> DEFINE inter(x, y) == Greatest(0, e(x, y) - g(x, y))
           union(x, y) == x.width + y.width - inter(x, y)
<1>3. inter(a, b) \in Int /\ inter(a, b) = inter(b, a)
  BY <1>1, <1>2 DEF Greatest
<1>4. /\ Overlap(a, b) = [inter |-> inter(a, b), union |-> union(a, b)]
      /\ Overlap(b, a) = [inter |-> inter(b, a), union |-> union(b, a)]
  BY DEF Overlap, e, g
<1>5. union(a, b) = union(b, a)
  <2> HIDE DEF inter
  <2> QED
    BY <1>3
<1> HIDE DEF inter, union
<1> QED
  BY <1>3, <1>4, <1>5

\* Two boxes are the same face, or not, either way around.
LEMMA SameSymmetric ==
  ASSUME crowd \in Seq(ScoredBoxes), NEW i \in DOMAIN crowd, NEW j \in DOMAIN crowd, Same(i, j)
  PROVE  Same(j, i)
<1>1. crowd[i] \in ScoredBoxes /\ crowd[j] \in ScoredBoxes
  BY ElementOfSeq
<1>2. /\ crowd[i].left \in Nat /\ crowd[i].width \in Nat
      /\ crowd[j].left \in Nat /\ crowd[j].width \in Nat
  BY <1>1 DEF ScoredBoxes
<1>3. Overlap(crowd[i], crowd[j]) = Overlap(crowd[j], crowd[i])
  BY <1>2, OverlapSymmetric
<1> QED
  BY <1>3 DEF Same

\* A rank is a number.
LEMMA RankIsNatural ==
  ASSUME crowd \in Seq(ScoredBoxes), NEW i
  PROVE  Rank(i) \in Nat
<1> DEFINE D == DOMAIN crowd
           better == {j \in D : MoreCertain(j, i)}
<1>1. D = 1 .. Len(crowd) /\ Len(crowd) \in Nat
  OBVIOUS
<1>2. IsFiniteSet(D)
  BY <1>1, FS_Interval
<1>3. better \subseteq D
  OBVIOUS
<1>4. Rank(i) = Cardinality(better)
  BY DEF Rank
<1> HIDE DEF D, better
<1>5. IsFiniteSet(better)
  BY <1>2, <1>3, FS_Subset
<1> QED
  BY <1>4, <1>5, FS_CardinalityType

\* The most certain box waiting is selected, and those of the same face dropped.
LEMMA PickKeepsInv == ASSUME SuppressInv, PickFace PROVE SuppressInv'
<1>1. PICK i \in waiting : /\ \A j \in waiting \ {i} : MoreCertain(i, j)
                           /\ picked' = Append(picked, i)
                           /\ waiting' = {j \in waiting \ {i} : ~Same(i, j)}
  BY DEF PickFace
<1>2. crowd' = crowd /\ Len(picked) < MaxFaces
  BY DEF PickFace
<1>3. /\ \A m, n : Same(m, n)' <=> Same(m, n)
      /\ \A m, n : MoreCertain(m, n)' <=> MoreCertain(m, n)
      /\ \A m : Rank(m)' = Rank(m)
  <2>1. \A m, n : MoreCertain(m, n)' <=> MoreCertain(m, n)
    BY <1>2 DEF MoreCertain
  <2>2. \A m, n : Same(m, n)' <=> Same(m, n)
    BY <1>2 DEF Same
  <2>3. \A m : Rank(m)' = Rank(m)
    BY <1>2, <2>1 DEF Rank
  <2> QED
    BY <2>1, <2>2, <2>3
<1> DEFINE end == Len(picked) + 1
           D == DOMAIN crowd
<1>4. i \in D /\ waiting \subseteq D /\ picked \in Seq(D) /\ Len(picked) \in Nat
  BY DEF SuppressInv
<1> HIDE DEF D
<1>5. /\ picked' \in Seq(D) /\ Len(picked') = end
      /\ DOMAIN picked = 1 .. Len(picked) /\ DOMAIN picked' = 1 .. end
      /\ picked'[end] = i /\ \A n \in DOMAIN picked : picked'[n] = picked[n]
  BY <1>1, <1>4, AppendProperties
<1>6. /\ \A n \in DOMAIN picked' : n = end \/ n \in DOMAIN picked
      /\ DOMAIN picked \subseteq DOMAIN picked' /\ end \in DOMAIN picked' /\ end \notin DOMAIN picked
  BY <1>4, <1>5
<1>7. Len(picked') <= MaxFaces
  BY <1>2, <1>4, <1>5, SuppressionConstants
<1> HIDE DEF end
<1>8. ASSUME NEW m \in DOMAIN picked', NEW n \in DOMAIN picked', m # n
      PROVE  picked'[m] # picked'[n] /\ ~Same(picked'[m], picked'[n])
  <2>1. CASE m \in DOMAIN picked /\ n \in DOMAIN picked
    BY <1>5, <1>8, <2>1 DEF SuppressInv
  <2>2. CASE m \in DOMAIN picked /\ n = end
    BY <1>5, <2>2 DEF SuppressInv
  <2>3. CASE m = end /\ n \in DOMAIN picked
    <3>1. picked[n] # i /\ ~Same(picked[n], i) /\ picked[n] \in D
      BY <1>4, <2>3 DEF SuppressInv
    <3>2. ~Same(i, picked[n])
      BY <1>4, <3>1, SameSymmetric DEF SuppressInv, D
    <3> QED
      BY <1>5, <2>3, <3>1, <3>2
  <2> QED
    BY <1>6, <1>8, <2>1, <2>2, <2>3
<1>9. ASSUME NEW n \in DOMAIN picked', NEW j \in waiting'
      PROVE  picked'[n] # j /\ ~Same(picked'[n], j) /\ MoreCertain(picked'[n], j)
  <2>1. j \in waiting /\ j # i /\ ~Same(i, j) /\ MoreCertain(i, j)
    BY <1>1, <1>9
  <2>2. CASE n = end
    BY <1>5, <2>1, <2>2
  <2>3. CASE n \in DOMAIN picked
    BY <1>5, <2>1, <2>3 DEF SuppressInv
  <2> QED
    BY <1>6, <2>2, <2>3
<1>10. ASSUME NEW k \in D
       PROVE  \/ k \in waiting'
              \/ \E n \in DOMAIN picked' : picked'[n] = k
              \/ \E n \in DOMAIN picked' : Same(picked'[n], k) /\ MoreCertain(picked'[n], k)
              \/ Rank(k) >= MaxCandidates
  <2>1. CASE k \in waiting
    <3>1. k = i \/ k \in waiting' \/ (Same(i, k) /\ MoreCertain(i, k))
      BY <1>1, <2>1
    <3> QED
      BY <1>5, <1>6, <3>1
  <2>2. CASE k \notin waiting
    <3>1. \/ \E n \in DOMAIN picked : picked[n] = k
          \/ \E n \in DOMAIN picked : Same(picked[n], k) /\ MoreCertain(picked[n], k)
          \/ Rank(k) >= MaxCandidates
      BY <1>10, <2>2 DEF SuppressInv, D
    <3>2. ASSUME NEW n \in DOMAIN picked, picked[n] = k
          PROVE  \E m \in DOMAIN picked' : picked'[m] = k
      BY <1>5, <1>6, <3>2
    <3>3. ASSUME NEW n \in DOMAIN picked, Same(picked[n], k) /\ MoreCertain(picked[n], k)
          PROVE  \E m \in DOMAIN picked' : Same(picked'[m], k) /\ MoreCertain(picked'[m], k)
      <4>1. picked'[n] = picked[n] /\ n \in DOMAIN picked'
        BY <1>5, <1>6
      <4> QED
        BY <3>3, <4>1
    <3> QED
      BY <3>1, <3>2, <3>3
  <2> QED
    BY <2>1, <2>2
<1>11. waiting' \subseteq D
  BY <1>1, <1>4
<1>12. D' = D /\ crowd' \in Seq(ScoredBoxes)
  BY <1>2 DEF D, SuppressInv
<1>13. (\A m, n \in DOMAIN picked : m # n => picked[m] # picked[n] /\ ~Same(picked[m], picked[n]))'
  BY <1>3, <1>8
<1>14. (\A n \in DOMAIN picked : \A j \in waiting :
          picked[n] # j /\ ~Same(picked[n], j) /\ MoreCertain(picked[n], j))'
  BY <1>3, <1>9
<1>15. (\A k \in D :
          \/ k \in waiting
          \/ \E n \in DOMAIN picked : picked[n] = k
          \/ \E n \in DOMAIN picked : Same(picked[n], k) /\ MoreCertain(picked[n], k)
          \/ Rank(k) >= MaxCandidates)'
  BY <1>3, <1>10, <1>12
<1> QED
  BY <1>5, <1>7, <1>11, <1>12, <1>13, <1>14, <1>15 DEF SuppressInv, D

\* The invariant is what suppression promises.
LEMMA InvGivesOneBox == ASSUME SuppressInv PROVE OneBoxForEachFace
<1> SUFFICES ASSUME Suppressed
             PROVE  LET selected == {picked[n] : n \in DOMAIN picked}
                    IN  /\ Cardinality(selected) = Len(picked)
                        /\ \A i, j \in selected : i # j => ~Same(i, j)
                        /\ \A i \in DOMAIN crowd \ selected :
                             \/ \E j \in selected : Same(j, i) /\ MoreCertain(j, i)
                             \/ Rank(i) >= MaxCandidates
                             \/ Len(picked) = MaxFaces /\ \A j \in selected : MoreCertain(j, i)
  BY DEF OneBoxForEachFace
<1> DEFINE selected == {picked[n] : n \in DOMAIN picked}
<1>1. \A j \in selected : \E n \in DOMAIN picked : picked[n] = j
  OBVIOUS
<1>2. \A n \in DOMAIN picked : picked[n] \in selected
  OBVIOUS
<1>3. Cardinality(selected) = Len(picked)
  <2>1. Len(picked) \in Nat /\ DOMAIN picked = 1 .. Len(picked)
    BY DEF SuppressInv
  <2>2. picked \in [1 .. Len(picked) -> selected]
    BY <2>1 DEF SuppressInv
  <2>3. IsFiniteSet(1 .. Len(picked)) /\ Cardinality(1 .. Len(picked)) = Len(picked)
    BY <2>1, IntervalCount
  <2>4. \A m, n \in DOMAIN picked : m # n => picked[m] # picked[n]
    BY DEF SuppressInv
  <2> HIDE DEF selected
  <2>5. picked \in Surjection(1 .. Len(picked), selected)
    BY <1>1, <2>1, <2>2 DEF Surjection
  <2>6. picked \in Injection(1 .. Len(picked), selected)
    BY <2>1, <2>2, <2>4 DEF Injection, IsInjective
  <2> QED
    BY <2>3, <2>5, <2>6, FS_Surjection
<1> HIDE DEF selected
<1>4. \A i, j \in selected : i # j => ~Same(i, j)
  <2> SUFFICES ASSUME NEW i \in selected, NEW j \in selected, i # j PROVE ~Same(i, j)
    OBVIOUS
  <2>1. PICK m \in DOMAIN picked : picked[m] = i
    BY <1>1
  <2>2. PICK n \in DOMAIN picked : picked[n] = j
    BY <1>1
  <2> QED
    BY <2>1, <2>2 DEF SuppressInv
<1>5. ASSUME NEW i \in DOMAIN crowd \ selected
      PROVE  \/ \E j \in selected : Same(j, i) /\ MoreCertain(j, i)
             \/ Rank(i) >= MaxCandidates
             \/ Len(picked) = MaxFaces /\ \A j \in selected : MoreCertain(j, i)
  <2>1. CASE i \in waiting
    <3>1. Len(picked) = MaxFaces
      BY <2>1 DEF Suppressed
    <3>2. \A j \in selected : MoreCertain(j, i)
      BY <1>1, <2>1 DEF SuppressInv
    <3> QED
      BY <3>1, <3>2
  <2>2. CASE \E n \in DOMAIN picked : Same(picked[n], i) /\ MoreCertain(picked[n], i)
    BY <1>2, <2>2
  <2> QED
    BY <1>2, <1>5, <2>1, <2>2 DEF SuppressInv
<1> QED
  BY <1>3, <1>4, <1>5 DEF selected

\* Whatever boxes the detector decodes, each face it finds is reported once.
THEOREM FacesReportedOnce == SuppressSpec => []OneBoxForEachFace
<1>1. SuppressInit => SuppressInv
  <2> SUFFICES ASSUME SuppressInit PROVE SuppressInv
    OBVIOUS
  <2>1. crowd \in Seq(ScoredBoxes) /\ waiting = Ranked /\ picked = <<>>
    BY SuppressionConstants DEF SuppressInit, ScoredBoxes
  <2>2. MaxFaces \in Nat /\ MaxCandidates \in Nat
    BY SuppressionConstants
  <2>3. \A i \in DOMAIN crowd : Rank(i) < MaxCandidates \/ Rank(i) >= MaxCandidates
    BY <2>1, <2>2, RankIsNatural
  <2>4. Ranked \subseteq DOMAIN crowd
    BY DEF Ranked
  <2>5. \A i \in DOMAIN crowd : i \in waiting \/ Rank(i) >= MaxCandidates
    BY <2>1, <2>3 DEF Ranked
  <2>6. picked \in Seq(DOMAIN crowd) /\ Len(picked) <= MaxFaces /\ DOMAIN picked = {}
    BY <2>1, <2>2
  <2> QED
    BY <2>1, <2>4, <2>5, <2>6 DEF SuppressInv
<1>2. SuppressInv /\ [SuppressNext]_suppressVars => SuppressInv'
  <2>1. ASSUME SuppressInv, UNCHANGED suppressVars PROVE SuppressInv'
    BY <2>1 DEF suppressVars, SuppressInv, Same, MoreCertain, Rank
  <2> QED
    BY <2>1, PickKeepsInv DEF SuppressNext
<1>3. SuppressInv => OneBoxForEachFace
  BY InvGivesOneBox
<1> QED
  BY <1>1, <1>2, <1>3, PTL DEF SuppressSpec

-----------------------------------------------------------------------------
\* The choice of a format: ProbeChoice.

ResultRows == [adapter : Adapters, confidence : Confidences]

\* Each adapter is still to be asked, has failed, or has one result.
AskInv ==
  /\ unasked \in Seq(Adapters) /\ results \in Seq(ResultRows)
  /\ \A i, j \in DOMAIN unasked : unasked[i] = unasked[j] => i = j
  /\ \A i, j \in DOMAIN results : results[i].adapter = results[j].adapter => i = j
  /\ \A i \in DOMAIN results : \A j \in DOMAIN unasked : results[i].adapter # unasked[j]
  /\ \A i \in DOMAIN results : answers[results[i].adapter] = results[i].confidence
  /\ failed \subseteq {a \in Adapters : answers[a] = Failed}
  /\ \A a \in Adapters :
       \/ \E j \in DOMAIN unasked : unasked[j] = a
       \/ a \in failed
       \/ \E i \in DOMAIN results : results[i].adapter = a

ProbeInv ==
  /\ answers \in [Adapters -> Confidences \cup {Failed}]
  /\ verdict = "asking" => AskInv
  /\ verdict # "asking" => unasked = <<>> /\ ChoiceOfTheLeader

\* Every adapter is registered, in whatever order.
LEMMA AllRegistered == ASSUME NEW order \in Orders PROVE \A a \in Adapters : \E i \in DOMAIN order : order[i] = a
<1> DEFINE n == Cardinality(Adapters)
<1>1. IsFiniteSet(Adapters) /\ n \in Nat
  BY ProbeConstants, FS_CardinalityType
<1>2. IsFiniteSet(1 .. n) /\ Cardinality(1 .. n) = n
  BY <1>1, FS_Interval
<1>3. order \in Injection(1 .. n, Adapters)
  BY DEF Orders, Injection, IsInjective
<1>4. order \in Surjection(1 .. n, Adapters)
  <2> HIDE DEF n
  <2>1. n = Cardinality(Adapters)
    BY DEF n
  <2> QED
    BY <1>1, <1>2, <1>3, <2>1, FS_Injection
<1> QED
  BY <1>4 DEF Surjection, Orders

\* An adapter asked has failed or has a result.
LEMMA AskKeepsInv == ASSUME ProbeInv, Ask PROVE ProbeInv'
<1> DEFINE a == Head(unasked)
<1>1. unasked # <<>> /\ UNCHANGED <<answers, verdict>> /\ unasked' = Tail(unasked)
  BY DEF Ask
<1>2. verdict = "asking" /\ AskInv
  BY <1>1 DEF ProbeInv
<1>3. /\ a \in Adapters /\ unasked' \in Seq(Adapters) /\ Len(unasked) \in Nat \ {0}
      /\ DOMAIN unasked = 1 .. Len(unasked) /\ DOMAIN unasked' = 1 .. Len(unasked) - 1
      /\ \A i \in DOMAIN unasked' : unasked'[i] = unasked[i + 1]
      /\ a = unasked[1] /\ 1 \in DOMAIN unasked
  BY <1>1, <1>2, HeadTailProperties DEF AskInv
<1>4. /\ \A i \in DOMAIN unasked' : i + 1 \in DOMAIN unasked /\ i + 1 # 1
      /\ \A i \in DOMAIN unasked : i # 1 => i - 1 \in DOMAIN unasked' /\ (i - 1) + 1 = i
  BY <1>3
<1>5. /\ \A i, j \in DOMAIN unasked' : unasked'[i] = unasked'[j] => i = j
      /\ \A i \in DOMAIN unasked' : unasked'[i] # a
      /\ \A b \in Adapters : (\E i \in DOMAIN unasked : unasked[i] = b) =>
           b = a \/ \E i \in DOMAIN unasked' : unasked'[i] = b
  <2>1. ASSUME NEW i \in DOMAIN unasked', NEW j \in DOMAIN unasked', unasked'[i] = unasked'[j]
        PROVE  i = j
    <3>1. i + 1 = j + 1
      BY <1>2, <1>3, <1>4, <2>1 DEF AskInv
    <3>2. i \in Nat /\ j \in Nat
      BY <1>3
    <3> QED
      BY <3>1, <3>2
  <2>2. ASSUME NEW i \in DOMAIN unasked', unasked'[i] = a PROVE FALSE
    <3>1. unasked[i + 1] = unasked[1] /\ i + 1 \in DOMAIN unasked /\ 1 \in DOMAIN unasked
      BY <1>3, <1>4, <2>2
    <3>2. i + 1 = 1
      BY <1>2, <3>1 DEF AskInv
    <3> QED
      BY <1>4, <3>2
  <2>3. ASSUME NEW b \in Adapters, NEW i \in DOMAIN unasked, unasked[i] = b
        PROVE  b = a \/ \E j \in DOMAIN unasked' : unasked'[j] = b
    BY <1>3, <1>4, <2>3
  <2> QED
    BY <2>1, <2>2, <2>3
<1>6. \A i \in DOMAIN results : /\ results[i].adapter # a
                                /\ \A j \in DOMAIN unasked' : results[i].adapter # unasked'[j]
  BY <1>2, <1>3, <1>4 DEF AskInv
<1>7. CASE answers[a] = Failed
  <2>1. failed' = failed \cup {a} /\ UNCHANGED results
    BY <1>7 DEF Ask
  <2> HIDE DEF a
  <2>2. failed' \subseteq {b \in Adapters : answers[b] = Failed}
    BY <1>2, <1>3, <1>7, <2>1 DEF AskInv
  <2>3. \A b \in Adapters :
          \/ \E j \in DOMAIN unasked' : unasked'[j] = b
          \/ b \in failed'
          \/ \E i \in DOMAIN results : results[i].adapter = b
    BY <1>2, <1>5, <2>1 DEF AskInv
  <2>4. AskInv'
    BY <1>1, <1>2, <1>3, <1>5, <1>6, <2>1, <2>2, <2>3 DEF AskInv
  <2> QED
    BY <1>1, <1>2, <2>4 DEF ProbeInv
<1>8. CASE answers[a] # Failed
  <2> DEFINE new == [adapter |-> a, confidence |-> answers[a]]
             end == Len(results) + 1
  <2>1. results' = Append(results, new) /\ UNCHANGED failed
    BY <1>8 DEF Ask
  <2>2. new \in ResultRows /\ new.adapter = a /\ new.confidence = answers[a]
    BY <1>3, <1>8 DEF ProbeInv, ResultRows
  <2> HIDE DEF a, new
  <2>3. /\ results' \in Seq(ResultRows) /\ Len(results) \in Nat
        /\ DOMAIN results = 1 .. Len(results) /\ DOMAIN results' = 1 .. end
        /\ results'[end] = new /\ \A i \in DOMAIN results : results'[i] = results[i]
    BY <1>2, <2>1, <2>2, AppendProperties DEF AskInv
  <2>4. \A i \in DOMAIN results' : i = end \/ i \in DOMAIN results
    BY <2>3
  <2>5. end \in DOMAIN results' /\ DOMAIN results \subseteq DOMAIN results'
    BY <2>3
  <2>6. \A i, j \in DOMAIN results' : results'[i].adapter = results'[j].adapter => i = j
    BY <1>2, <1>6, <2>2, <2>3, <2>4 DEF AskInv
  <2>7. \A i \in DOMAIN results' : /\ \A j \in DOMAIN unasked' : results'[i].adapter # unasked'[j]
                                   /\ answers[results'[i].adapter] = results'[i].confidence
    BY <1>2, <1>5, <1>6, <2>2, <2>3, <2>4 DEF AskInv
  <2>8. \A b \in Adapters :
          \/ \E j \in DOMAIN unasked' : unasked'[j] = b
          \/ b \in failed
          \/ \E i \in DOMAIN results' : results'[i].adapter = b
    BY <1>2, <1>5, <2>2, <2>3, <2>5 DEF AskInv
  <2> HIDE DEF end
  <2>9. AskInv'
    BY <1>1, <1>2, <1>3, <1>5, <2>1, <2>3, <2>6, <2>7, <2>8 DEF AskInv
  <2> QED
    BY <1>1, <1>2, <2>9 DEF ProbeInv
<1> QED
  BY <1>7, <1>8

\* What the sorted results say of the answers.
ResultsAnswered(r) ==
  /\ \E n \in Nat : DOMAIN r = 1 .. n
  /\ \A i \in DOMAIN r : /\ r[i].adapter \in Adapters /\ r[i].confidence \in 0 .. 100
                          /\ answers[r[i].adapter] = r[i].confidence
                          /\ answers[r[i].adapter] # Failed
  /\ \A i, j \in DOMAIN r : i < j => /\ r[i].confidence >= r[j].confidence
                                      /\ r[i].adapter # r[j].adapter
  /\ \A a \in Adapters : answers[a] # Failed => \E i \in DOMAIN r : r[i].adapter = a
  /\ failed = {a \in Adapters : answers[a] = Failed}

\* Confidences are numbers.
LEMMA HundredthsAreIntegers == \A c \in 0 .. 100 : c \in Int
OBVIOUS

\* Of two results in order, the first has no less confidence and is another adapter's.
LEMMA FirmerOrders ==
  ASSUME NEW c \in Int, NEW d \in Int, NEW a \in Nat, NEW b \in Nat,
         a = b => c = d, c > d \/ (c = d /\ a < b)
  PROVE  c >= d /\ a # b
OBVIOUS

\* Sorted, the results are still all of the answers.
LEMMA SortedResults ==
  ASSUME AskInv, unasked = <<>>, answers \in [Adapters -> Confidences \cup {Failed}],
         NEW r \in [DOMAIN results -> {results[i] : i \in DOMAIN results}], Sorted(r)
  PROVE  ResultsAnswered(r)
<1> DEFINE S == {results[i] : i \in DOMAIN results}
           D == DOMAIN results
<1>1. /\ D = 1 .. Len(results) /\ Len(results) \in Nat /\ DOMAIN r = D
      /\ \A i \in D : results[i] \in ResultRows
  BY ElementOfSeq DEF AskInv
<1>2. \A row \in S : /\ row.adapter \in Adapters /\ row.confidence \in 0 .. 100
                     /\ answers[row.adapter] = row.confidence /\ answers[row.adapter] # Failed
  <2>1. ASSUME NEW i \in D
        PROVE  /\ results[i].adapter \in Adapters /\ results[i].confidence \in Confidences
               /\ answers[results[i].adapter] = results[i].confidence
    BY <1>1 DEF AskInv, ResultRows
  <2>2. \A c \in Confidences : c \in 0 .. 100 /\ c # Failed
    BY ProbeConstants
  <2>3. ASSUME NEW i \in D
        PROVE  /\ results[i].adapter \in Adapters /\ results[i].confidence \in 0 .. 100
               /\ answers[results[i].adapter] = results[i].confidence
               /\ answers[results[i].adapter] # Failed
    BY <2>1, <2>2
  <2> QED
    BY <2>3
<1>3. \A i \in D : r[i] \in S
  OBVIOUS
<1>4. \A i, j \in D : i < j => /\ r[i].confidence >= r[j].confidence
                               /\ r[i].adapter # r[j].adapter
  <2>1. ASSUME NEW i \in D, NEW j \in D, i < j
        PROVE  /\ r[i].confidence >= r[j].confidence
               /\ r[i].adapter # r[j].adapter
    <3>1. Firmer(r[i], r[j])
      BY <1>1, <2>1 DEF Sorted
    <3>2. /\ r[i].confidence \in 0 .. 100 /\ r[j].confidence \in 0 .. 100
          /\ r[i].adapter \in Adapters /\ r[j].adapter \in Adapters
          /\ answers[r[i].adapter] = r[i].confidence /\ answers[r[j].adapter] = r[j].confidence
      <4>1. r[i] \in S /\ r[j] \in S
        BY <1>3
      <4> HIDE DEF S
      <4> QED
        BY <1>2, <4>1
    <3>3. r[i].adapter = r[j].adapter => r[i].confidence = r[j].confidence
      BY <3>2
    <3>4. r[i].adapter \in Nat /\ r[j].adapter \in Nat
      BY <3>2, ProbeConstants
    <3>5. r[i].confidence \in Int /\ r[j].confidence \in Int
      BY <3>2, HundredthsAreIntegers, Zenon
    <3>6. \/ r[i].confidence > r[j].confidence
          \/ r[i].confidence = r[j].confidence /\ r[i].adapter < r[j].adapter
      BY <3>1 DEF Firmer
    <3> QED
      BY <3>3, <3>4, <3>5, <3>6, FirmerOrders
  <2> QED
    BY <2>1
<1>5. ASSUME NEW i \in D, NEW j \in D, r[i] = r[j] PROVE i = j
  <2>1. i \in Int /\ j \in Int
    BY <1>1
  <2>2. ~(i < j) /\ ~(j < i)
    BY <1>4, <1>5
  <2> QED
    BY <2>1, <2>2
<1>6. S \subseteq {r[i] : i \in D}
  <2>1. IsFiniteSet(D) /\ Cardinality(D) = Len(results)
    <3>1. /\ IsFiniteSet(1 .. Len(results))
          /\ Cardinality(1 .. Len(results)) = IF 1 > Len(results) THEN 0 ELSE Len(results) - 1 + 1
      BY <1>1, FS_Interval
    <3> HIDE DEF D
    <3> QED
      BY <1>1, <3>1
  <2>2. results \in [D -> S] /\ r \in [D -> S]
    BY <1>1 DEF AskInv
  <2>6. results \in Surjection(D, S)
    BY <2>2 DEF Surjection
  <2>7. \A i, j \in D : results[i] = results[j] => i = j
    BY DEF AskInv
  <2>3. results \in Surjection(D, S) /\ results \in Injection(D, S) /\ r \in Injection(D, S)
    <3> HIDE DEF S, D
    <3> QED
      BY <1>5, <2>2, <2>6, <2>7 DEF Injection, IsInjective
  <2> HIDE DEF S, D
  <2>4. IsFiniteSet(S) /\ Cardinality(S) = Cardinality(D)
    BY <2>1, <2>3, FS_Surjection
  <2>5. r \in Surjection(D, S)
    BY <2>3, <2>4, FS_Injection
  <2> QED
    BY <2>5 DEF Surjection
<1>7. \A a \in Adapters : a \in failed \/ \E i \in D : results[i].adapter = a
  <2>1. DOMAIN unasked = {}
    OBVIOUS
  <2> QED
    BY <2>1 DEF AskInv
<1>8. failed = {a \in Adapters : answers[a] = Failed}
  <2>1. \A i \in D : answers[results[i].adapter] # Failed
    BY <1>2
  <2> QED
    BY <1>7, <2>1 DEF AskInv
<1>9. \A a \in Adapters : answers[a] # Failed => \E i \in D : r[i].adapter = a
  <2> SUFFICES ASSUME NEW a \in Adapters, answers[a] # Failed PROVE \E i \in D : r[i].adapter = a
    OBVIOUS
  <2>1. PICK i \in D : results[i].adapter = a
    BY <1>7, <1>8
  <2>2. results[i] \in S
    OBVIOUS
  <2> QED
    BY <1>6, <2>1, <2>2
<1>10. \A i \in D : /\ r[i].adapter \in Adapters /\ r[i].confidence \in 0 .. 100
                    /\ answers[r[i].adapter] = r[i].confidence /\ answers[r[i].adapter] # Failed
  <2> HIDE DEF S, D
  <2> QED
    BY <1>2, <1>3
<1>11. \E n \in Nat : DOMAIN r = 1 .. n
  <2>1. DOMAIN r = 1 .. Len(results) /\ Len(results) \in Nat
    BY <1>1
  <2> QED
    BY <2>1
<1>12. DOMAIN r = D
  BY <1>1
<1> HIDE DEF S, D
<1> QED
  BY <1>4, <1>8, <1>9, <1>10, <1>11, <1>12 DEF ResultsAnswered

\* The verdict is that of the answers.
LEMMA ChooseKeepsInv == ASSUME ProbeInv, Choose PROVE ProbeInv'
<1> DEFINE r == results'
           candidates == {i \in DOMAIN r : r[i].confidence >= Minimum}
<1>1. /\ UNCHANGED <<answers, unasked, failed>> /\ unasked = <<>> /\ AskInv
      /\ answers \in [Adapters -> Confidences \cup {Failed}]
      /\ r \in [DOMAIN results -> {results[i] : i \in DOMAIN results}] /\ Sorted(r)
      /\ verdict' \in BestMatch(r) /\ Minimum \in Int /\ Margin \in Nat
  BY ProbeConstants DEF Choose, ProbeInv
<1>2. PICK n \in Nat : DOMAIN r = 1 .. n
  BY <1>1, SortedResults DEF ResultsAnswered
<1>3. /\ \A i \in DOMAIN r : /\ r[i].adapter \in Adapters /\ r[i].confidence \in 0 .. 100
                             /\ answers[r[i].adapter] = r[i].confidence
                             /\ answers[r[i].adapter] # Failed
      /\ \A i, j \in DOMAIN r : i < j => /\ r[i].confidence >= r[j].confidence
                                         /\ r[i].adapter # r[j].adapter
      /\ \A a \in Adapters : answers[a] # Failed => \E i \in DOMAIN r : r[i].adapter = a
      /\ failed = {a \in Adapters : answers[a] = Failed}
  BY <1>1, SortedResults DEF ResultsAnswered
<1>4. Sure' = Sure /\ \A a, lead : Leads(a, lead)' <=> Leads(a, lead)
  BY <1>1 DEF Sure, Leads
<1> HIDE DEF r
<1>5. \A a : a \in Sure <=> \E i \in candidates : r[i].adapter = a
  BY <1>3 DEF Sure
<1>6. \A i \in candidates : \A j \in DOMAIN r : j < i => j \in candidates
  <2> SUFFICES ASSUME NEW i \in candidates, NEW j \in DOMAIN r, j < i PROVE j \in candidates
    OBVIOUS
  <2>1. r[j].confidence >= r[i].confidence /\ r[i].confidence >= Minimum
    BY <1>3
  <2>2. r[j].confidence \in Int /\ r[i].confidence \in Int
    BY <1>3
  <2> QED
    BY <1>1, <2>1, <2>2
<1>7. candidates \subseteq 1 .. n
  BY <1>2
<1>8. /\ candidates = {} => verdict' = "unsupported"
      /\ candidates = {1} => verdict' = "chosen"
      /\ candidates # {} /\ candidates # {1} =>
           /\ verdict' \in {"chosen", "ambiguous"}
           /\ verdict' = "chosen" => r[1].confidence - r[2].confidence >= Margin
           /\ verdict' = "ambiguous" => r[1].confidence - r[2].confidence <= Margin
  BY <1>1 DEF BestMatch
<1>9. candidates # {} => 1 \in candidates
  <2> SUFFICES ASSUME NEW i \in candidates PROVE 1 \in candidates
    OBVIOUS
  <2>1. 1 \in DOMAIN r /\ i \in Nat /\ (i = 1 \/ 1 < i)
    BY <1>2, <1>7
  <2> QED
    BY <1>6, <2>1
<1>10. candidates # {} /\ candidates # {1} => 2 \in candidates
  <2> SUFFICES ASSUME candidates # {}, candidates # {1} PROVE 2 \in candidates
    OBVIOUS
  <2>1. PICK i \in candidates : i # 1
    BY <1>9
  <2>2. 2 \in DOMAIN r /\ i \in Nat /\ (i = 2 \/ 2 < i)
    BY <1>2, <1>7, <2>1
  <2> QED
    BY <1>6, <2>2
<1> HIDE DEF candidates
<1>11. verdict' = "unsupported" <=> Sure = {}
  BY <1>5, <1>8
<1>12. \A i \in candidates : /\ r[i].adapter \in Sure
                             /\ answers[r[i].adapter] = r[i].confidence
                             /\ r[i].confidence \in Int
  BY <1>3, <1>5 DEF candidates
<1>13. \A i, j \in candidates : i < j => /\ r[i].confidence >= r[j].confidence
                                         /\ r[i].adapter # r[j].adapter
  BY <1>3 DEF candidates
<1>19. verdict' = "chosen" => 1 \in candidates
  BY <1>8, <1>9
<1>14. ASSUME verdict' = "chosen", NEW b \in Sure \ {r[1].adapter}
       PROVE  answers[r[1].adapter] >= answers[b] + Margin
  <2>1. PICK i \in candidates : r[i].adapter = b
    BY <1>5
  <2>2. i # 1 /\ 1 \in candidates /\ 2 \in candidates
    BY <1>9, <1>10, <2>1
  <2>3. r[1].confidence - r[2].confidence >= Margin
    BY <1>8, <1>14, <2>1, <2>2
  <2>4. i \in Nat /\ (i = 2 \/ 2 < i)
    BY <1>7, <2>2
  <2>5. r[2].confidence >= r[i].confidence
    BY <1>12, <1>13, <2>2, <2>4
  <2>6. r[1].confidence >= r[i].confidence + Margin
    <3>1. r[1].confidence \in Int /\ r[2].confidence \in Int /\ r[i].confidence \in Int
      BY <1>12, <2>2
    <3> QED
      BY <1>1, <2>3, <2>5, <3>1
  <2> QED
    BY <1>12, <2>1, <2>2, <2>6
<1>15. ASSUME verdict' = "ambiguous" PROVE Sure # {} /\ \A a \in Adapters : ~Leads(a, Margin + 1)
  <2>1. /\ 1 \in candidates /\ 2 \in candidates
        /\ r[1].confidence - r[2].confidence <= Margin
    BY <1>8, <1>9, <1>10, <1>15
  <2>2. /\ r[1].confidence \in Int /\ r[2].confidence \in Int
        /\ r[1].adapter \in Sure /\ r[2].adapter \in Sure /\ r[1].adapter # r[2].adapter
    BY <1>12, <1>13, <2>1
  <2>3. ASSUME NEW a \in Adapters, Leads(a, Margin + 1) PROVE FALSE
    <3>1. PICK i \in candidates : r[i].adapter = a
      BY <1>5, <2>3 DEF Leads
    <3>2. CASE i = 1
      <4>1. answers[r[1].adapter] >= answers[r[2].adapter] + (Margin + 1)
        BY <2>2, <2>3, <3>1, <3>2 DEF Leads
      <4>2. r[1].confidence >= r[2].confidence + (Margin + 1)
        BY <1>12, <2>1, <4>1
      <4> QED
        BY <1>1, <2>1, <2>2, <4>2
    <3>3. CASE i # 1
      <4>1. 1 < i
        BY <1>7, <3>3
      <4>2. r[1].confidence >= r[i].confidence /\ r[1].adapter # r[i].adapter
        BY <1>13, <2>1, <4>1
      <4>3. answers[r[i].adapter] >= answers[r[1].adapter] + (Margin + 1)
        BY <2>2, <2>3, <3>1, <4>2 DEF Leads
      <4>4. r[i].confidence >= r[1].confidence + (Margin + 1) /\ r[i].confidence \in Int
        BY <1>12, <2>1, <4>3
      <4> QED
        BY <1>1, <2>2, <4>2, <4>4
    <3> QED
      BY <3>2, <3>3
  <2> QED
    BY <2>2, <2>3
<1>20. verdict' = "chosen" => Leads(r[1].adapter, Margin)
  BY <1>12, <1>14, <1>19 DEF Leads
<1>16. verdict' # "asking"
  BY <1>8
<1>17. Chosen' = r[1].adapter
  BY DEF Chosen, r
<1>18. ChoiceOfTheLeader'
  BY <1>1, <1>3, <1>4, <1>11, <1>15, <1>17, <1>20 DEF ChoiceOfTheLeader
<1> QED
  BY <1>1, <1>16, <1>18 DEF ProbeInv

\* Whatever adapters there are, in whatever order they are asked, whatever each
\* answers and whichever fail, the verdict is right.
THEOREM ChoiceIsOfTheLeader == ProbeSpec => []ChoiceOfTheLeader
<1>1. ProbeInit => ProbeInv
  <2> SUFFICES ASSUME ProbeInit PROVE ProbeInv
    OBVIOUS
  <2>1. /\ answers \in [Adapters -> Confidences \cup {Failed}] /\ unasked \in Orders
        /\ results = <<>> /\ failed = {} /\ verdict = "asking"
    BY DEF ProbeInit
  <2>2. Cardinality(Adapters) \in Nat
    BY ProbeConstants, FS_CardinalityType
  <2>3. unasked \in Seq(Adapters) /\ \A i, j \in DOMAIN unasked : unasked[i] = unasked[j] => i = j
    BY <2>1, <2>2 DEF Orders
  <2>4. \A a \in Adapters : \E i \in DOMAIN unasked : unasked[i] = a
    BY <2>1, AllRegistered
  <2>5. results \in Seq(ResultRows) /\ DOMAIN results = {}
    BY <2>1
  <2> QED
    BY <2>1, <2>3, <2>4, <2>5 DEF ProbeInv, AskInv
<1>2. ProbeInv /\ [ProbeNext]_probeVars => ProbeInv'
  <2>1. ASSUME ProbeInv, UNCHANGED probeVars PROVE ProbeInv'
    BY <2>1 DEF probeVars, ProbeInv, AskInv, ChoiceOfTheLeader, Sure, Leads, Chosen
  <2> QED
    BY <2>1, AskKeepsInv, ChooseKeepsInv DEF ProbeNext
<1>3. ProbeInv => ChoiceOfTheLeader
  BY DEF ProbeInv, ChoiceOfTheLeader
<1> QED
  BY <1>1, <1>2, <1>3, PTL DEF ProbeSpec

-----------------------------------------------------------------------------
\* The examination of media: MediaExamination.

InspectionRows == [at : Nat, duration : Durations \cup {Unknown}]

EventNames == {"MEDIA_INSPECTED", "MEDIA_INSPECTION_FAILED", "MEDIA_BOOKMARK_CREATED"}
EventRows == EventNames \X Nat

MediaTyped ==
  /\ mediaClock \in Nat
  /\ DOMAIN inspections \subseteq RowIds /\ inspections \in [DOMAIN inspections -> InspectionRows]
  /\ DOMAIN bookmarks \subseteq RowIds
  /\ mediaEvents \in Seq(EventRows)
  /\ examiner \in [Examiners -> ExaminerRows \cup {Resting}]
  /\ mediaCalm \in BOOLEAN

\* Some inspection found the media to last that long.
Covered(timestamp) ==
  \E i \in DOMAIN inspections :
    inspections[i].duration = Unknown \/ timestamp <= inspections[i].duration

\* What is answered and recorded is there.
NamesStored ==
  /\ \A t \in Examiners :
       /\ AtStep(t, "bookmark", "allowed") => Covered(examiner[t].timestamp)
       /\ AtStep(t, "inspect", "stored") => examiner[t].id \in DOMAIN inspections
       /\ AtStep(t, "bookmark", "stored") => examiner[t].id \in DOMAIN bookmarks
  /\ \A n \in DOMAIN mediaEvents :
       /\ mediaEvents[n][1] = "MEDIA_INSPECTED" => mediaEvents[n][2] \in DOMAIN inspections
       /\ mediaEvents[n][1] = "MEDIA_BOOKMARK_CREATED" => mediaEvents[n][2] \in DOMAIN bookmarks

\* The latest inspection is told of, unless another is about to be read back.
LatestTold ==
  \/ \E t \in Examiners : AtStep(t, "inspect", "saved")
  \/ \A id \in LatestInspection :
       EventsNaming("MEDIA_INSPECTED", id) # {} \/ AboutToRecord("inspect", id)

OneTeller ==
  \A s, t \in Examiners :
    /\ AtStep(s, "bookmark", "stored") /\ AtStep(t, "bookmark", "stored")
    /\ examiner[s].id = examiner[t].id
    => s = t

BookmarksTold ==
  \A id \in DOMAIN bookmarks :
    /\ AboutToRecord("bookmark", id) => EventsNaming("MEDIA_BOOKMARK_CREATED", id) = {}
    /\ ~AboutToRecord("bookmark", id) => \E n : EventsNaming("MEDIA_BOOKMARK_CREATED", id) = {n}

MediaInv ==
  /\ MediaTyped /\ NamesStored /\ BookmarksInsideMedia
  /\ mediaCalm => LatestTold /\ OneTeller /\ BookmarksTold

\* There is one latest inspection.
LEMMA OneLatest ==
  ASSUME MediaTyped, NEW i \in LatestInspection, NEW j \in LatestInspection
  PROVE  i = j
<1>1. /\ inspections[i].at \in Nat /\ inspections[j].at \in Nat /\ i \in Nat /\ j \in Nat
      /\ i \in DOMAIN inspections /\ j \in DOMAIN inspections
  BY MediaConstants DEF MediaTyped, InspectionRows, LatestInspection
<1>2. i # j => Newer(i, j) /\ Newer(j, i)
  BY <1>1 DEF LatestInspection
<1> QED
  BY <1>1, <1>2 DEF Newer

\* One thread goes from one row to another; the others stay.
Moves(t, row) ==
  /\ examiner' \in [Examiners -> ExaminerRows \cup {Resting}]
  /\ examiner'[t] = row
  /\ \A s \in Examiners \ {t} : examiner'[s] = examiner[s]

\* A thread that moves leaves the others where they are.
LEMMA ThreadMoves ==
  ASSUME MediaTyped, NEW t \in Examiners, NEW row \in ExaminerRows \cup {Resting},
         examiner' = [examiner EXCEPT ![t] = row]
  PROVE  Moves(t, row)
BY DEF MediaTyped, Moves

\* A thread steps on without storing or recording.
Quiet == UNCHANGED <<inspections, bookmarks, mediaEvents, mediaCalm>>

\* Where the step of one thread does not matter to the trail.
TellersStay ==
  \A s \in Examiners :
    /\ AtStep(s, "bookmark", "stored")' <=> AtStep(s, "bookmark", "stored")
    /\ AtStep(s, "bookmark", "stored") => examiner'[s].id = examiner[s].id

\* A step that neither stores a bookmark nor tells of one.
LEMMA BookmarksStayTold ==
  ASSUME TellersStay, bookmarks' = bookmarks,
         \A id : EventsNaming("MEDIA_BOOKMARK_CREATED", id)'
                   = EventsNaming("MEDIA_BOOKMARK_CREATED", id)
  PROVE  OneTeller /\ BookmarksTold => OneTeller' /\ BookmarksTold'
<1>1. OneTeller => OneTeller'
  BY DEF OneTeller, TellersStay
<1>2. ASSUME BookmarksTold, NEW id \in DOMAIN bookmarks
      PROVE  /\ AboutToRecord("bookmark", id)' =>
                  EventsNaming("MEDIA_BOOKMARK_CREATED", id)' = {}
             /\ ~AboutToRecord("bookmark", id)' =>
                  \E n : EventsNaming("MEDIA_BOOKMARK_CREATED", id)' = {n}
  <2>1. AboutToRecord("bookmark", id)' <=> AboutToRecord("bookmark", id)
    BY DEF AboutToRecord, TellersStay
  <2> QED
    BY <1>2, <2>1 DEF BookmarksTold
<1>3. BookmarksTold => BookmarksTold'
  BY <1>2 DEF BookmarksTold
<1> QED
  BY <1>1, <1>3

\* A step that stores nothing and records nothing.
LEMMA QuietStep ==
  ASSUME MediaInv, Quiet, mediaClock' = mediaClock, NEW t \in Examiners,
         NEW row \in ExaminerRows \cup {Resting}, Moves(t, row),
         ~AtStep(t, "inspect", "saved"), ~AtStep(t, "inspect", "stored"),
         ~AtStep(t, "bookmark", "stored"),
         row = Resting \/ row.step # "stored",
         row # Resting /\ row.op = "bookmark" /\ row.step = "allowed" => Covered(row.timestamp)
  PROVE  MediaInv'
<1>1. MediaTyped'
  BY DEF MediaInv, MediaTyped, Moves, Quiet
<1>2. \A s \in Examiners :
        /\ AtStep(s, "inspect", "saved") => AtStep(s, "inspect", "saved")'
        /\ AtStep(s, "inspect", "stored")' <=> AtStep(s, "inspect", "stored")
        /\ AtStep(s, "bookmark", "stored")' <=> AtStep(s, "bookmark", "stored")
        /\ AtStep(s, "inspect", "stored") \/ AtStep(s, "bookmark", "stored") =>
             examiner'[s].id = examiner[s].id
        /\ AtStep(s, "bookmark", "allowed")' => Covered(examiner'[s].timestamp)
  BY DEF MediaInv, NamesStored, Moves, AtStep
<1>3. \A ts : Covered(ts)' <=> Covered(ts)
  BY DEF Quiet, Covered
<1>4. NamesStored'
  BY <1>2, <1>3 DEF MediaInv, NamesStored, Quiet, Covered
<1>5. BookmarksInsideMedia'
  BY DEF MediaInv, BookmarksInsideMedia, Quiet
<1>6. /\ LatestInspection' = LatestInspection
      /\ \A action, id : EventsNaming(action, id)' = EventsNaming(action, id)
  BY DEF Quiet, LatestInspection, Newer, EventsNaming
<1>7. \A id : /\ AboutToRecord("inspect", id)' <=> AboutToRecord("inspect", id)
              /\ AboutToRecord("bookmark", id)' <=> AboutToRecord("bookmark", id)
  BY <1>2 DEF AboutToRecord
<1>8. LatestTold => LatestTold'
  BY <1>2, <1>6, <1>7 DEF LatestTold
<1>9. OneTeller /\ BookmarksTold => OneTeller' /\ BookmarksTold'
  <2>1. TellersStay
    BY <1>2 DEF TellersStay
  <2> QED
    BY <1>6, <2>1, BookmarksStayTold DEF Quiet
<1> QED
  BY <1>1, <1>4, <1>5, <1>8, <1>9 DEF MediaInv, Quiet

\* A request is taken.
LEMMA TakeStep ==
  ASSUME MediaInv, NEW t \in Examiners, NEW op \in {"inspect", "bookmark"}, NEW ts \in Nat,
         Take(t, Requested(op, ts))
  PROVE  MediaInv'
<1>1. Requested(op, ts) \in ExaminerRows
  BY DEF Requested, ExaminerRows
<1>2. Moves(t, Requested(op, ts))
  BY <1>1, ThreadMoves DEF Take, MediaInv
<1>3. Quiet /\ mediaClock' = mediaClock /\ examiner[t] = Resting
  BY DEF Take, Quiet
<1>4. Requested(op, ts).step = "begun"
  BY DEF Requested
<1> QED
  BY <1>1, <1>2, <1>3, <1>4, QuietStep DEF AtStep

\* The decoder answers.
LEMMA DecodeStep ==
  ASSUME MediaInv, NEW t \in Examiners, Decode(t)
  PROVE  MediaInv'
<1>1. PICK duration \in Durations \cup {Unknown} :
        examiner' = [examiner EXCEPT ![t].step = "decoded", ![t].at = mediaClock,
                                     ![t].duration = duration]
  BY DEF Decode
<1> DEFINE row == [examiner[t] EXCEPT !.step = "decoded", !.at = mediaClock,
                                      !.duration = duration]
<1>2. examiner[t] \in ExaminerRows /\ mediaClock \in Nat
  BY DEF Decode, AtStep, MediaInv, MediaTyped
<1>3. row \in ExaminerRows /\ row.step = "decoded"
  BY <1>2 DEF ExaminerRows
<1>4. examiner' = [examiner EXCEPT ![t] = row]
  BY <1>1
<1>5. Moves(t, row)
  BY <1>3, <1>4, ThreadMoves DEF MediaInv
<1>6. Quiet /\ mediaClock' = mediaClock /\ examiner[t].step = "begun"
  BY DEF Decode, Quiet, AtStep
<1> HIDE DEF row
<1> QED
  BY <1>3, <1>5, <1>6, QuietStep DEF AtStep

\* The bookmark is checked.
LEMMA CheckStep ==
  ASSUME MediaInv, NEW t \in Examiners, CheckBookmark(t)
  PROVE  MediaInv'
<1>1. /\ Quiet /\ mediaClock' = mediaClock /\ examiner[t].step = "begun"
      /\ examiner[t] \in ExaminerRows
  BY DEF CheckBookmark, Quiet, AtStep, MediaInv, MediaTyped
<1>2. CASE InsideMedia(examiner[t].timestamp)
  <2> DEFINE row == [examiner[t] EXCEPT !.step = "allowed"]
  <2>1. /\ row \in ExaminerRows /\ row.step = "allowed"
        /\ row.timestamp = examiner[t].timestamp
    BY <1>1 DEF ExaminerRows
  <2>2. Moves(t, row)
    BY <1>2, <2>1, ThreadMoves DEF CheckBookmark, Forward, MediaInv
  <2>3. Covered(row.timestamp)
    BY <1>2, <2>1 DEF InsideMedia, Covered, LatestInspection
  <2> HIDE DEF row
  <2> QED
    BY <1>1, <2>1, <2>2, <2>3, QuietStep DEF AtStep
<1>3. CASE ~InsideMedia(examiner[t].timestamp)
  <2>1. Moves(t, Resting)
    BY <1>3, ThreadMoves DEF CheckBookmark, Answered, MediaInv
  <2> QED
    BY <1>1, <2>1, QuietStep DEF AtStep
<1> QED
  BY <1>2, <1>3

\* An event is added to the trail.
LEMMA EventAdded ==
  ASSUME MediaTyped, NEW name \in EventNames, NEW k \in Nat,
         mediaEvents' = Append(mediaEvents, <<name, k>>)
  PROVE  /\ mediaEvents' \in Seq(EventRows)
         /\ \A n \in DOMAIN mediaEvents' :
              IF n = Len(mediaEvents) + 1 THEN mediaEvents'[n] = <<name, k>>
              ELSE n \in DOMAIN mediaEvents /\ mediaEvents'[n] = mediaEvents[n]
         /\ \A action, id :
              EventsNaming(action, id)' =
                EventsNaming(action, id) \cup (IF action = name /\ id = k
                                                 THEN {Len(mediaEvents) + 1} ELSE {})
<1> DEFINE e == <<name, k>>
           S == EventRows
<1>1. mediaEvents \in Seq(S) /\ e \in S
  BY DEF MediaTyped, EventRows
<1>2. mediaEvents' = Append(mediaEvents, e)
  OBVIOUS
<1> HIDE DEF e, S
<1>3. /\ Len(mediaEvents) \in Nat /\ DOMAIN mediaEvents = 1 .. Len(mediaEvents)
      /\ mediaEvents' \in Seq(S) /\ DOMAIN mediaEvents' = 1 .. Len(mediaEvents) + 1
      /\ mediaEvents'[Len(mediaEvents) + 1] = e
      /\ \A n \in 1 .. Len(mediaEvents) : mediaEvents'[n] = mediaEvents[n]
  BY <1>1, <1>2, AppendProperties
<1>4. \A n \in DOMAIN mediaEvents' :
        IF n = Len(mediaEvents) + 1 THEN mediaEvents'[n] = e
        ELSE n \in DOMAIN mediaEvents /\ mediaEvents'[n] = mediaEvents[n]
  BY <1>3
<1>5. ASSUME NEW action, NEW id
      PROVE  EventsNaming(action, id)' =
               EventsNaming(action, id) \cup (IF action = name /\ id = k
                                                THEN {Len(mediaEvents) + 1} ELSE {})
  <2> DEFINE v == <<action, id>>
  <2>1. v = e <=> action = name /\ id = k
    BY DEF e
  <2> HIDE DEF v
  <2>2. {n \in DOMAIN mediaEvents' : mediaEvents'[n] = v} =
          {n \in DOMAIN mediaEvents : mediaEvents[n] = v}
            \cup (IF v = e THEN {Len(mediaEvents) + 1} ELSE {})
    BY <1>3, <1>4
  <2> QED
    BY <2>1, <2>2 DEF EventsNaming, v
<1> QED
  BY <1>3, <1>4, <1>5 DEF e, S

\* A failed inspection is recorded.
LEMMA FailStep ==
  ASSUME MediaInv, NEW t \in Examiners, FailInspection(t)
  PROVE  MediaInv'
<1>1. /\ UNCHANGED <<inspections, bookmarks, mediaClock, mediaCalm>>
      /\ mediaEvents' = Append(mediaEvents, <<"MEDIA_INSPECTION_FAILED", 0>>)
      /\ Moves(t, Resting)
  BY ThreadMoves DEF FailInspection, Answered, MediaInv
<1>2. /\ mediaEvents' \in Seq(EventRows)
      /\ \A n \in DOMAIN mediaEvents' :
           \/ mediaEvents'[n] = <<"MEDIA_INSPECTION_FAILED", 0>>
           \/ n \in DOMAIN mediaEvents /\ mediaEvents'[n] = mediaEvents[n]
      /\ \A action, id : action # "MEDIA_INSPECTION_FAILED" =>
                           EventsNaming(action, id)' = EventsNaming(action, id)
  <2> DEFINE name == "MEDIA_INSPECTION_FAILED"
  <2>1. mediaEvents' = Append(mediaEvents, <<name, 0>>) /\ name \in EventNames /\ MediaTyped
    BY <1>1 DEF MediaInv, EventNames
  <2> HIDE DEF name
  <2>2. /\ mediaEvents' \in Seq(EventRows)
        /\ \A n \in DOMAIN mediaEvents' :
              IF n = Len(mediaEvents) + 1 THEN mediaEvents'[n] = <<name, 0>>
              ELSE n \in DOMAIN mediaEvents /\ mediaEvents'[n] = mediaEvents[n]
        /\ \A action, id : EventsNaming(action, id)' =
              EventsNaming(action, id) \cup (IF action = name /\ id = 0
                                                THEN {Len(mediaEvents) + 1} ELSE {})
    BY <2>1, EventAdded
  <2> QED
    BY <2>2 DEF name
<1>3. MediaTyped'
  BY <1>1, <1>2 DEF MediaInv, MediaTyped, Moves
<1>4. \A s \in Examiners :
        /\ AtStep(s, "inspect", "saved") => AtStep(s, "inspect", "saved")'
        /\ AtStep(s, "inspect", "stored")' <=> AtStep(s, "inspect", "stored")
        /\ AtStep(s, "bookmark", "stored")' <=> AtStep(s, "bookmark", "stored")
        /\ AtStep(s, "bookmark", "allowed")' => AtStep(s, "bookmark", "allowed")
        /\ s # t => examiner'[s] = examiner[s]
        /\ s = t => ~AtStep(s, "inspect", "stored") /\ ~AtStep(s, "bookmark", "stored")
                    /\ ~AtStep(s, "bookmark", "allowed")
  BY <1>1 DEF FailInspection, Moves, AtStep
<1>5. NamesStored'
  BY <1>1, <1>2, <1>4 DEF MediaInv, NamesStored, Covered
<1>6. BookmarksInsideMedia'
  BY <1>1 DEF MediaInv, BookmarksInsideMedia
<1>7. /\ LatestInspection' = LatestInspection
      /\ \A id : /\ AboutToRecord("inspect", id)' <=> AboutToRecord("inspect", id)
                 /\ AboutToRecord("bookmark", id)' <=> AboutToRecord("bookmark", id)
  BY <1>1, <1>4 DEF LatestInspection, Newer, AboutToRecord
<1>8. LatestTold => LatestTold'
  BY <1>2, <1>4, <1>7 DEF LatestTold
<1>9. OneTeller /\ BookmarksTold => OneTeller' /\ BookmarksTold'
  <2>1. TellersStay
    BY <1>4 DEF TellersStay
  <2> QED
    BY <1>1, <1>2, <2>1, BookmarksStayTold
<1> QED
  BY <1>1, <1>3, <1>5, <1>6, <1>8, <1>9 DEF MediaInv

\* An inspection is stored.
LEMMA SaveStep ==
  ASSUME MediaInv, NEW t \in Examiners, SaveInspection(t)
  PROVE  MediaInv'
<1>1. PICK k \in Unused :
        inspections' = With(inspections, k, [at |-> examiner[t].at,
                                             duration |-> examiner[t].duration])
  BY DEF SaveInspection
<1>2. /\ UNCHANGED <<bookmarks, mediaEvents, mediaClock, mediaCalm>>
      /\ examiner[t] \in ExaminerRows /\ examiner[t].step = "decoded" /\ examiner[t].op = "inspect"
      /\ examiner' = [examiner EXCEPT ![t].step = "saved"]
  BY DEF SaveInspection, AtStep, MediaInv, MediaTyped, Forward
<1> DEFINE row == [examiner[t] EXCEPT !.step = "saved"]
           new == [at |-> examiner[t].at, duration |-> examiner[t].duration]
<1>3. row \in ExaminerRows /\ row.step = "saved" /\ row.op = "inspect"
  BY <1>2 DEF ExaminerRows
<1>4. Moves(t, row)
  BY <1>2, <1>3, ThreadMoves DEF MediaInv
<1>5. new \in InspectionRows
  BY <1>2 DEF ExaminerRows, InspectionRows
<1>6. /\ k \in RowIds /\ k \notin DOMAIN inspections
      /\ DOMAIN inspections' = DOMAIN inspections \cup {k}
      /\ inspections'[k] = new
      /\ \A i \in DOMAIN inspections : inspections'[i] = inspections[i]
      /\ inspections' \in [DOMAIN inspections' -> InspectionRows]
  BY <1>1, <1>5 DEF Unused, With, MediaInv, MediaTyped
<1> HIDE DEF row, new
<1>7. MediaTyped'
  BY <1>2, <1>4, <1>6 DEF MediaInv, MediaTyped, Moves
<1>8. /\ AtStep(t, "inspect", "saved")'
      /\ ~AtStep(t, "bookmark", "stored") /\ ~AtStep(t, "bookmark", "stored")'
      /\ ~AtStep(t, "inspect", "stored")' /\ ~AtStep(t, "bookmark", "allowed")'
  BY <1>2, <1>3, <1>4, MediaNulls DEF AtStep, Moves
<1>9. \A s \in Examiners \ {t} : examiner'[s] = examiner[s]
  BY <1>4 DEF Moves
<1>10. \A ts : Covered(ts) => Covered(ts)'
  BY <1>6 DEF Covered
<1>11. NamesStored'
  <2>1. \A s \in Examiners :
          /\ AtStep(s, "bookmark", "allowed")' => Covered(examiner[s].timestamp)' /\ s # t
          /\ AtStep(s, "inspect", "stored")' => examiner[s].id \in DOMAIN inspections'
          /\ AtStep(s, "bookmark", "stored")' => examiner[s].id \in DOMAIN bookmarks
    BY <1>6, <1>8, <1>9, <1>10 DEF MediaInv, NamesStored, AtStep
  <2> QED
    BY <1>2, <1>6, <1>8, <1>9, <1>10, <2>1 DEF MediaInv, NamesStored, AtStep, Covered
<1>12. BookmarksInsideMedia'
  BY <1>2, <1>6 DEF MediaInv, BookmarksInsideMedia
<1>13. LatestTold'
  BY <1>8 DEF LatestTold
<1>14. \A s \in Examiners :
         /\ AtStep(s, "bookmark", "stored")' <=> AtStep(s, "bookmark", "stored")
         /\ AtStep(s, "bookmark", "stored") => examiner'[s].id = examiner[s].id
  BY <1>8, <1>9 DEF AtStep
<1>15. OneTeller /\ BookmarksTold => OneTeller' /\ BookmarksTold'
  <2>1. TellersStay
    BY <1>14 DEF TellersStay
  <2>2. \A id : EventsNaming("MEDIA_BOOKMARK_CREATED", id)'
                  = EventsNaming("MEDIA_BOOKMARK_CREATED", id)
    BY <1>2 DEF EventsNaming
  <2> QED
    BY <1>2, <2>1, <2>2, BookmarksStayTold
<1> QED
  BY <1>2, <1>7, <1>11, <1>12, <1>13, <1>15 DEF MediaInv

\* A step that changes no row and no event but may change what threads do.
LEMMA NamesStay ==
  ASSUME MediaInv, UNCHANGED <<inspections, bookmarks>>, NEW t \in Examiners,
         NEW row \in ExaminerRows \cup {Resting}, Moves(t, row),
         row # Resting => /\ row.op = "inspect" /\ row.step = "stored"
                          /\ row.id \in DOMAIN inspections,
         \A n \in DOMAIN mediaEvents' :
           \/ n \in DOMAIN mediaEvents /\ mediaEvents'[n] = mediaEvents[n]
           \/ mediaEvents'[n][1] = "MEDIA_INSPECTED" /\ mediaEvents'[n][2] \in DOMAIN inspections
           \/ mediaEvents'[n][1] = "MEDIA_BOOKMARK_CREATED" /\ mediaEvents'[n][2] \in DOMAIN bookmarks
  PROVE  NamesStored'
<1>1. \A s \in Examiners \ {t} : examiner'[s] = examiner[s]
  BY DEF Moves
<1>3. \A s \in Examiners :
        /\ AtStep(s, "bookmark", "allowed")' => Covered(examiner'[s].timestamp)
        /\ AtStep(s, "inspect", "stored")' => examiner'[s].id \in DOMAIN inspections
        /\ AtStep(s, "bookmark", "stored")' => examiner'[s].id \in DOMAIN bookmarks
  BY <1>1 DEF MediaInv, NamesStored, AtStep, Moves
<1> QED
  BY <1>3 DEF MediaInv, NamesStored, Covered

\* The latest inspection is read.
LEMMA ReadStep ==
  ASSUME MediaInv, NEW t \in Examiners, ReadBack(t)
  PROVE  MediaInv'
<1>1. PICK k \in LatestInspection :
        examiner' = [examiner EXCEPT ![t].step = "stored", ![t].id = k]
  BY DEF ReadBack
<1> DEFINE row == [examiner[t] EXCEPT !.step = "stored", !.id = k]
<1>2. /\ UNCHANGED <<inspections, bookmarks, mediaEvents, mediaClock, mediaCalm>>
      /\ examiner[t] \in ExaminerRows /\ examiner[t].step = "saved" /\ examiner[t].op = "inspect"
      /\ examiner' = [examiner EXCEPT ![t] = row]
      /\ k \in DOMAIN inspections /\ k \in Nat
  BY <1>1, MediaConstants DEF ReadBack, AtStep, MediaInv, MediaTyped, LatestInspection
<1>3. row \in ExaminerRows /\ row.step = "stored" /\ row.op = "inspect" /\ row.id = k
  BY <1>2 DEF ExaminerRows
<1>4. Moves(t, row)
  BY <1>2, <1>3, ThreadMoves DEF MediaInv
<1> HIDE DEF row
<1>5. MediaTyped'
  BY <1>2, <1>4 DEF MediaInv, MediaTyped, Moves
<1>6. NamesStored'
  BY <1>2, <1>3, <1>4, NamesStay
<1>7. BookmarksInsideMedia'
  BY <1>2 DEF MediaInv, BookmarksInsideMedia
<1>8. AtStep(t, "inspect", "stored")' /\ examiner'[t].id = k
  BY <1>3, <1>4, MediaNulls DEF AtStep, Moves
<1>9. LatestTold'
  <2>1. LatestInspection' = LatestInspection
    BY <1>2 DEF LatestInspection, Newer
  <2>2. \A i \in LatestInspection : i = k
    BY OneLatest DEF MediaInv
  <2>3. AboutToRecord("inspect", k)'
    BY <1>8 DEF AboutToRecord
  <2>4. \A i \in LatestInspection' : AboutToRecord("inspect", i)'
    BY <2>1, <2>2, <2>3
  <2> QED
    BY <2>4 DEF LatestTold
<1>10. TellersStay
  BY <1>2, <1>3, <1>4 DEF TellersStay, AtStep, Moves
<1>11. OneTeller /\ BookmarksTold => OneTeller' /\ BookmarksTold'
  <2>1. \A id : EventsNaming("MEDIA_BOOKMARK_CREATED", id)'
                  = EventsNaming("MEDIA_BOOKMARK_CREATED", id)
    BY <1>2 DEF EventsNaming
  <2> QED
    BY <1>2, <1>10, <2>1, BookmarksStayTold
<1> QED
  BY <1>2, <1>5, <1>6, <1>7, <1>9, <1>11 DEF MediaInv

\* A bookmark is stored, inside the media it was checked against.
LEMMA AddStep ==
  ASSUME MediaInv, NEW t \in Examiners, AddBookmark(t)
  PROVE  MediaInv'
<1>1. PICK k \in Unused :
        /\ bookmarks' = With(bookmarks, k, examiner[t].timestamp)
        /\ examiner' = [examiner EXCEPT ![t].step = "stored", ![t].id = k]
  BY DEF AddBookmark
<1> DEFINE row == [examiner[t] EXCEPT !.step = "stored", !.id = k]
<1>2. /\ UNCHANGED <<inspections, mediaEvents, mediaClock, mediaCalm>>
      /\ AtStep(t, "bookmark", "allowed")
      /\ examiner[t] \in ExaminerRows /\ examiner[t].step = "allowed" /\ examiner[t].op = "bookmark"
      /\ examiner' = [examiner EXCEPT ![t] = row]
      /\ k \in RowIds /\ k \in Nat /\ k \notin DOMAIN bookmarks
  BY <1>1, MediaConstants DEF AddBookmark, AtStep, MediaInv, MediaTyped, Unused
<1>3. row \in ExaminerRows /\ row.step = "stored" /\ row.op = "bookmark" /\ row.id = k
  BY <1>2 DEF ExaminerRows
<1>4. Moves(t, row)
  BY <1>2, <1>3, ThreadMoves DEF MediaInv
<1>5. /\ DOMAIN bookmarks' = DOMAIN bookmarks \cup {k}
      /\ bookmarks'[k] = examiner[t].timestamp
      /\ \A b \in DOMAIN bookmarks : bookmarks'[b] = bookmarks[b]
  BY <1>1, <1>2 DEF With
<1> HIDE DEF row
<1>6. MediaTyped'
  BY <1>2, <1>4, <1>5 DEF MediaInv, MediaTyped, Moves
<1>7. \A s \in Examiners \ {t} : examiner'[s] = examiner[s]
  BY <1>4 DEF Moves
<1>8. /\ AtStep(t, "bookmark", "stored")' /\ examiner'[t].id = k
      /\ ~AtStep(t, "bookmark", "allowed")' /\ ~AtStep(t, "inspect", "stored")'
  BY <1>3, <1>4, MediaNulls DEF AtStep, Moves
<1>9. NamesStored'
  <2>2. \A s \in Examiners :
          /\ AtStep(s, "bookmark", "allowed")' => Covered(examiner'[s].timestamp)
          /\ AtStep(s, "inspect", "stored")' => examiner'[s].id \in DOMAIN inspections
          /\ AtStep(s, "bookmark", "stored")' => examiner'[s].id \in DOMAIN bookmarks'
    BY <1>5, <1>7, <1>8 DEF MediaInv, NamesStored, AtStep
  <2>3. \A n \in DOMAIN mediaEvents' :
          /\ mediaEvents'[n][1] = "MEDIA_INSPECTED" => mediaEvents'[n][2] \in DOMAIN inspections'
          /\ mediaEvents'[n][1] = "MEDIA_BOOKMARK_CREATED" =>
               mediaEvents'[n][2] \in DOMAIN bookmarks'
    BY <1>2, <1>5 DEF MediaInv, NamesStored
  <2> QED
    BY <1>2, <2>2, <2>3 DEF NamesStored, Covered
<1>10. BookmarksInsideMedia'
  <2>1. Covered(examiner[t].timestamp)
    BY <1>2 DEF MediaInv, NamesStored
  <2> QED
    BY <1>2, <1>5, <2>1 DEF MediaInv, BookmarksInsideMedia, Covered
<1>11. LatestTold => LatestTold'
  <2>1. /\ LatestInspection' = LatestInspection
        /\ \A id : EventsNaming("MEDIA_INSPECTED", id)' = EventsNaming("MEDIA_INSPECTED", id)
    BY <1>2 DEF LatestInspection, Newer, EventsNaming
  <2>2. \A s \in Examiners :
          /\ AtStep(s, "inspect", "saved") => AtStep(s, "inspect", "saved")'
          /\ AtStep(s, "inspect", "stored") =>
               AtStep(s, "inspect", "stored")' /\ examiner'[s].id = examiner[s].id
    BY <1>2, <1>7 DEF AtStep
  <2>3. \A id : AboutToRecord("inspect", id) => AboutToRecord("inspect", id)'
    BY <2>2 DEF AboutToRecord
  <2> QED
    BY <2>1, <2>2, <2>3 DEF LatestTold
<1>12. \A s \in Examiners : AtStep(s, "bookmark", "stored") => examiner[s].id # k /\ s # t
  BY <1>2 DEF MediaInv, NamesStored, AtStep
<1>13. OneTeller => OneTeller'
  <2>1. \A s \in Examiners :
          AtStep(s, "bookmark", "stored")' => s = t \/ examiner'[s].id # k
    BY <1>7, <1>12 DEF AtStep
  <2>2. \A s \in Examiners \ {t} :
          AtStep(s, "bookmark", "stored")' =>
            AtStep(s, "bookmark", "stored") /\ examiner'[s].id = examiner[s].id
    BY <1>7 DEF AtStep
  <2> QED
    BY <1>8, <2>1, <2>2 DEF OneTeller
<1>14. ASSUME BookmarksTold PROVE BookmarksTold'
  <2>1. \A id : EventsNaming("MEDIA_BOOKMARK_CREATED", id)'
                  = EventsNaming("MEDIA_BOOKMARK_CREATED", id)
    BY <1>2 DEF EventsNaming
  <2>2. EventsNaming("MEDIA_BOOKMARK_CREATED", k) = {}
    BY <1>2 DEF EventsNaming, MediaInv, NamesStored
  <2>3. AboutToRecord("bookmark", k)'
    BY <1>8 DEF AboutToRecord
  <2>4. ASSUME NEW id \in DOMAIN bookmarks
        PROVE  /\ AboutToRecord("bookmark", id)' =>
                    EventsNaming("MEDIA_BOOKMARK_CREATED", id)' = {}
               /\ ~AboutToRecord("bookmark", id)' =>
                    \E n : EventsNaming("MEDIA_BOOKMARK_CREATED", id)' = {n}
    <3>1. AboutToRecord("bookmark", id)' <=> AboutToRecord("bookmark", id)
      BY <1>2, <1>7, <1>8 DEF AboutToRecord, AtStep
    <3> QED
      BY <1>14, <2>1, <3>1 DEF BookmarksTold
  <2> QED
    BY <1>5, <2>1, <2>2, <2>3, <2>4 DEF BookmarksTold
<1> QED
  BY <1>2, <1>6, <1>9, <1>10, <1>11, <1>13, <1>14 DEF MediaInv

\* What was stored is recorded.
LEMMA RecordStep ==
  ASSUME MediaInv, NEW t \in Examiners, RecordEvent(t)
  PROVE  MediaInv'
<1>1. PICK op \in {"inspect", "bookmark"} :
        /\ AtStep(t, op, "stored")
        /\ mediaEvents' = Append(mediaEvents,
             <<IF op = "inspect" THEN "MEDIA_INSPECTED" ELSE "MEDIA_BOOKMARK_CREATED",
               examiner[t].id>>)
  BY DEF RecordEvent
<1> DEFINE name == IF op = "inspect" THEN "MEDIA_INSPECTED" ELSE "MEDIA_BOOKMARK_CREATED"
           k == examiner[t].id
           end == Len(mediaEvents) + 1
<1>2. /\ UNCHANGED <<inspections, bookmarks, mediaClock, mediaCalm>>
      /\ examiner[t] \in ExaminerRows /\ examiner[t].op = op /\ examiner[t].step = "stored"
      /\ k \in Nat /\ name \in EventNames
      /\ op = "inspect" => name = "MEDIA_INSPECTED" /\ k \in DOMAIN inspections
      /\ op = "bookmark" => name = "MEDIA_BOOKMARK_CREATED" /\ k \in DOMAIN bookmarks
  BY <1>1 DEF RecordEvent, AtStep, MediaInv, MediaTyped, NamesStored, ExaminerRows, EventNames
<1>3. Moves(t, Resting)
  BY ThreadMoves DEF RecordEvent, Answered, MediaInv
<1>4. mediaEvents' = Append(mediaEvents, <<name, k>>)
  BY <1>1
<1> HIDE DEF name
<1>5. /\ mediaEvents' \in Seq(EventRows)
      /\ \A n \in DOMAIN mediaEvents' :
            IF n = end THEN mediaEvents'[n] = <<name, k>>
            ELSE n \in DOMAIN mediaEvents /\ mediaEvents'[n] = mediaEvents[n]
      /\ \A action, id : EventsNaming(action, id)' =
            EventsNaming(action, id) \cup (IF action = name /\ id = k THEN {end} ELSE {})
  BY <1>2, <1>4, EventAdded DEF MediaInv
<1> HIDE DEF k
<1>6. MediaTyped'
  BY <1>2, <1>3, <1>5 DEF MediaInv, MediaTyped, Moves
<1>7. NamesStored'
  <2>1. \A n \in DOMAIN mediaEvents' :
          \/ n \in DOMAIN mediaEvents /\ mediaEvents'[n] = mediaEvents[n]
          \/ mediaEvents'[n][1] = "MEDIA_INSPECTED" /\ mediaEvents'[n][2] \in DOMAIN inspections
          \/ mediaEvents'[n][1] = "MEDIA_BOOKMARK_CREATED" /\ mediaEvents'[n][2] \in DOMAIN bookmarks
    BY <1>2, <1>5
  <2> QED
    BY <1>2, <1>3, <2>1, NamesStay
<1>8. BookmarksInsideMedia'
  BY <1>2 DEF MediaInv, BookmarksInsideMedia
<1>9. \A s \in Examiners \ {t} : examiner'[s] = examiner[s]
  BY <1>3 DEF Moves
<1>10. \A any : ~AtStep(t, "inspect", any)' /\ ~AtStep(t, "bookmark", any)'
  BY <1>3 DEF Moves, AtStep
<1>11. LatestTold => LatestTold'
  <2>1. LatestInspection' = LatestInspection
    BY <1>2 DEF LatestInspection, Newer
  <2>2. \A s \in Examiners : AtStep(s, "inspect", "saved") => AtStep(s, "inspect", "saved")'
    BY <1>2, <1>9 DEF AtStep
  <2>3. ASSUME NEW id, AboutToRecord("inspect", id)
        PROVE  AboutToRecord("inspect", id)' \/ EventsNaming("MEDIA_INSPECTED", id)' # {}
    <3>1. PICK s \in Examiners : AtStep(s, "inspect", "stored") /\ examiner[s].id = id
      BY <2>3 DEF AboutToRecord
    <3>2. CASE s = t
      BY <1>2, <1>5, <3>1, <3>2 DEF AtStep, k
    <3>3. CASE s # t
      BY <1>9, <3>1, <3>3 DEF AboutToRecord, AtStep
    <3> QED
      BY <3>2, <3>3
  <2>4. \A id : EventsNaming("MEDIA_INSPECTED", id) # {} => EventsNaming("MEDIA_INSPECTED", id)' # {}
    BY <1>5
  <2> QED
    BY <2>1, <2>2, <2>3, <2>4 DEF LatestTold
<1>12. CASE op = "inspect"
  <2>1. TellersStay
    BY <1>2, <1>9, <1>10, <1>12 DEF TellersStay, AtStep
  <2>2. \A id : EventsNaming("MEDIA_BOOKMARK_CREATED", id)'
                  = EventsNaming("MEDIA_BOOKMARK_CREATED", id)
    BY <1>2, <1>5, <1>12
  <2> QED
    BY <1>2, <1>6, <1>7, <1>8, <1>11, <2>1, <2>2, BookmarksStayTold DEF MediaInv
<1>13. CASE op = "bookmark"
  <2>1. OneTeller => OneTeller'
    BY <1>9, <1>10 DEF OneTeller, AtStep
  <2>2. ASSUME OneTeller, BookmarksTold, NEW id \in DOMAIN bookmarks
        PROVE  /\ AboutToRecord("bookmark", id)' =>
                    EventsNaming("MEDIA_BOOKMARK_CREATED", id)' = {}
               /\ ~AboutToRecord("bookmark", id)' =>
                    \E n : EventsNaming("MEDIA_BOOKMARK_CREATED", id)' = {n}
    <3>1. CASE id = k
      <4>1. AboutToRecord("bookmark", id)
        BY <1>1, <1>13, <3>1 DEF AboutToRecord, k
      <4>2. EventsNaming("MEDIA_BOOKMARK_CREATED", id) = {}
        BY <2>2, <4>1 DEF BookmarksTold
      <4>3. EventsNaming("MEDIA_BOOKMARK_CREATED", id)' = {end}
        BY <1>2, <1>5, <1>13, <3>1, <4>2
      <4>4. ~AboutToRecord("bookmark", id)'
        <5>1. \A s \in Examiners \ {t} :
                ~(AtStep(s, "bookmark", "stored") /\ examiner[s].id = id)
          BY <1>1, <1>13, <2>2, <3>1 DEF OneTeller, k
        <5> QED
          BY <1>9, <1>10, <5>1 DEF AboutToRecord, AtStep
      <4> QED
        BY <4>3, <4>4
    <3>2. CASE id # k
      <4>1. AboutToRecord("bookmark", id)' <=> AboutToRecord("bookmark", id)
        BY <1>9, <1>10, <3>2 DEF AboutToRecord, AtStep, k
      <4>2. EventsNaming("MEDIA_BOOKMARK_CREATED", id)'
              = EventsNaming("MEDIA_BOOKMARK_CREATED", id)
        BY <1>5, <3>2
      <4> QED
        BY <2>2, <4>1, <4>2 DEF BookmarksTold
    <3> QED
      BY <3>1, <3>2
  <2>3. OneTeller /\ BookmarksTold => BookmarksTold'
    BY <1>2, <2>2 DEF BookmarksTold
  <2> QED
    BY <1>2, <1>6, <1>7, <1>8, <1>11, <2>1, <2>3 DEF MediaInv
<1> QED
  BY <1>12, <1>13

\* A call fails: a request that has stored its row ends the calm.
LEMMA FailCallStep == ASSUME MediaInv, NEW t \in Examiners, FailCall(t) PROVE MediaInv'
<1>1. /\ UNCHANGED <<mediaClock, inspections, bookmarks, mediaEvents>>
      /\ examiner[t] \in ExaminerRows
      /\ mediaCalm' = (mediaCalm /\ examiner[t].step \notin {"saved", "stored"})
      /\ Moves(t, Resting)
  BY ThreadMoves DEF FailCall, Answered, MediaInv, MediaTyped
<1>2. CASE mediaCalm' = mediaCalm /\ examiner[t].step \notin {"saved", "stored"}
  BY <1>1, <1>2, QuietStep DEF Quiet, AtStep
<1>3. CASE mediaCalm' = FALSE
  <2>1. MediaTyped'
    BY <1>1, <1>3 DEF MediaInv, MediaTyped, Moves
  <2>2. \A s \in Examiners : \A op, step :
          AtStep(s, op, step)' => AtStep(s, op, step) /\ examiner'[s] = examiner[s]
    BY <1>1 DEF AtStep, Moves
  <2>3. NamesStored'
    BY <1>1, <2>2 DEF MediaInv, NamesStored, Covered
  <2>4. BookmarksInsideMedia'
    BY <1>1 DEF MediaInv, BookmarksInsideMedia
  <2> QED
    BY <1>3, <2>1, <2>3, <2>4 DEF MediaInv
<1> QED
  BY <1>1, <1>2, <1>3 DEF MediaInv, MediaTyped

\* After a crash nothing is promised of the trail.
LEMMA KillStep == ASSUME MediaInv, KillExaminers PROVE MediaInv'
<1>1. /\ UNCHANGED <<mediaClock, inspections, bookmarks, mediaEvents>> /\ mediaCalm' = FALSE
      /\ examiner' = [t \in Examiners |-> Resting]
  BY DEF KillExaminers
<1>2. MediaTyped'
  BY <1>1 DEF MediaInv, MediaTyped
<1>3. NamesStored'
  BY <1>1 DEF MediaInv, NamesStored, AtStep
<1>4. BookmarksInsideMedia'
  BY <1>1 DEF MediaInv, BookmarksInsideMedia
<1> QED
  BY <1>1, <1>2, <1>3, <1>4 DEF MediaInv

\* Time passes, or nothing happens.
LEMMA StandingStep ==
  ASSUME MediaInv, UNCHANGED <<inspections, bookmarks, mediaEvents, examiner, mediaCalm>>,
         mediaClock' \in Nat
  PROVE  MediaInv'
<1>1. MediaTyped'
  BY DEF MediaInv, MediaTyped
<1>2. NamesStored'
  BY DEF MediaInv, NamesStored, AtStep, Covered
<1>3. BookmarksInsideMedia'
  BY DEF MediaInv, BookmarksInsideMedia
<1>4. LatestTold => LatestTold'
  BY DEF LatestTold, LatestInspection, Newer, AtStep, AboutToRecord, EventsNaming
<1>5. OneTeller /\ BookmarksTold => OneTeller' /\ BookmarksTold'
  BY DEF OneTeller, BookmarksTold, AtStep, AboutToRecord, EventsNaming
<1> QED
  BY <1>1, <1>2, <1>3, <1>4, <1>5 DEF MediaInv

\* MediaInv holds of any number of threads that inspect and bookmark one video.
THEOREM MediaInvHolds == MediaSpec => []MediaInv
<1>1. MediaInit => MediaInv
  <2> SUFFICES ASSUME MediaInit PROVE MediaInv
    OBVIOUS
  <2>1. MediaTyped
    BY DEF MediaInit, MediaTyped
  <2>2. \A t \in Examiners : \A op, step : ~AtStep(t, op, step)
    BY DEF MediaInit, AtStep
  <2>3. NamesStored /\ BookmarksInsideMedia /\ LatestTold /\ OneTeller /\ BookmarksTold
    BY <2>2 DEF MediaInit, NamesStored, BookmarksInsideMedia, LatestTold, LatestInspection,
                OneTeller, BookmarksTold
  <2> QED
    BY <2>1, <2>3 DEF MediaInv
<1>2. MediaInv /\ [MediaNext]_mediaVars => MediaInv'
  <2> SUFFICES ASSUME MediaInv, [MediaNext]_mediaVars PROVE MediaInv'
    OBVIOUS
  <2>1. ASSUME NEW t \in Examiners, Examine(t) PROVE MediaInv'
    <3>1. \A ts \in Timestamps : ts \in Nat
      BY MediaConstants
    <3> QED
      BY <2>1, <3>1, TakeStep, DecodeStep, FailStep, SaveStep, ReadStep, CheckStep, AddStep,
         RecordStep, FailCallStep DEF Examine
  <2>2. CASE KillExaminers
    BY <2>2, KillStep
  <2>3. CASE MediaTick
    BY <2>3, StandingStep DEF MediaTick, MediaInv, MediaTyped
  <2>4. CASE UNCHANGED mediaVars
    BY <2>4, StandingStep DEF mediaVars, MediaInv, MediaTyped
  <2> QED
    BY <2>1, <2>2, <2>3, <2>4 DEF MediaNext
<1> QED
  BY <1>1, <1>2, PTL DEF MediaSpec

\* Unless a process dies or a call fails between a row and its event, the trail
\* tells of the latest inspection and, once, of every bookmark; always, what it
\* names is there and every bookmark lies inside what some inspection found.
THEOREM MediaIsAccounted == MediaSpec => []MediaAccounted
<1>1. ASSUME MediaInv PROVE MediaAccounted
  <2>1. BookmarksInsideMedia
    BY <1>1 DEF MediaInv
  <2>2. ASSUME mediaCalm, NEW id \in DOMAIN bookmarks
        PROVE  Cardinality(EventsNaming("MEDIA_BOOKMARK_CREATED", id))
                 = IF AboutToRecord("bookmark", id) THEN 0 ELSE 1
    BY <1>1, <2>2, FS_EmptySet, FS_Singleton DEF MediaInv, BookmarksTold
  <2>3. mediaCalm /\ (\A t \in Examiners : ~AtStep(t, "inspect", "saved")) =>
          \A id \in LatestInspection :
            EventsNaming("MEDIA_INSPECTED", id) # {} \/ AboutToRecord("inspect", id)
    BY <1>1 DEF MediaInv, LatestTold
  <2>4. \A n \in DOMAIN mediaEvents :
          /\ mediaEvents[n][1] = "MEDIA_INSPECTED" => mediaEvents[n][2] \in DOMAIN inspections
          /\ mediaEvents[n][1] = "MEDIA_BOOKMARK_CREATED" =>
               mediaEvents[n][2] \in DOMAIN bookmarks
    BY <1>1 DEF MediaInv, NamesStored
  <2> QED
    BY <2>1, <2>2, <2>3, <2>4 DEF MediaAccounted, TrailTellsMedia
<1> QED
  BY <1>1, MediaInvHolds, PTL
=============================================================================
