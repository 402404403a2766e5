----------------------------- MODULE ProbeChoice -----------------------------
(***************************************************************************)
(* Which DVR format is it?  AdapterRegistry.probe_all asks every adapter,  *)
(* in the order they are registered, and an adapter that fails is noted    *)
(* and passed over; MultiVendorProbeReport.best_match then names one or    *)
(* refuses.  Confidences are in hundredths; the code subtracts binary      *)
(* fractions, so a lead of exactly the margin may be rounded either way.   *)
(***************************************************************************)
EXTENDS Integers, Sequences, FiniteSets

CONSTANTS Adapters,       \* identifiers, numbers for their order
          Confidences,    \* what an adapter may answer
          Failed,         \* the probe raises, or answers for another adapter
          Minimum,        \* minimum_confidence
          Margin          \* ambiguity_margin

ASSUME ProbeConstants ==
  /\ Adapters \subseteq Nat /\ IsFiniteSet(Adapters)
  /\ Confidences \subseteq 0 .. 100 /\ Failed \notin Confidences
  /\ Minimum \in 0 .. 100 /\ Margin \in 0 .. 100

VARIABLES answers,        \* adapter -> what its probe does
          unasked,        \* registrations still to ask, in order
          results,        \* results
          failed,         \* adapters in failures
          verdict         \* "asking", "unsupported", "ambiguous" or "chosen"

probeVars == <<answers, unasked, results, failed, verdict>>

-----------------------------------------------------------------------------
Orders == {order \in [1 .. Cardinality(Adapters) -> Adapters] :
             \A i, j \in DOMAIN order : order[i] = order[j] => i = j}

ProbeInit ==
  /\ answers \in [Adapters -> Confidences \cup {Failed}]
  /\ unasked \in Orders
  /\ results = <<>> /\ failed = {} /\ verdict = "asking"

\* Variant: one failing adapter ends the loop.
AskStopping ==
  /\ unasked # <<>>
  /\ LET adapter == Head(unasked)
     IN  IF answers[adapter] = Failed
           THEN failed' = failed \cup {adapter} /\ unasked' = <<>> /\ UNCHANGED results
           ELSE /\ results' = Append(results, [adapter |-> adapter,
                                               confidence |-> answers[adapter]])
                /\ unasked' = Tail(unasked)
                /\ UNCHANGED failed
  /\ UNCHANGED <<answers, verdict>>

\* The loop of probe_all.
Ask ==
  /\ unasked # <<>>
  /\ LET adapter == Head(unasked)
     IN  IF answers[adapter] = Failed
           THEN failed' = failed \cup {adapter} /\ UNCHANGED results
           ELSE /\ results' = Append(results, [adapter |-> adapter,
                                               confidence |-> answers[adapter]])
                /\ UNCHANGED failed
  /\ unasked' = Tail(unasked)
  /\ UNCHANGED <<answers, verdict>>

\* The order of results.sort, and results in that order.
Firmer(r, s) ==
  \/ r.confidence > s.confidence
  \/ r.confidence = s.confidence /\ r.adapter < s.adapter

Sorted(s) == \A i, j \in DOMAIN s : i < j => Firmer(s[i], s[j])

\* Of sorted results, the candidates are the first ones.
BestMatch(sorted) ==
  LET candidates == {i \in DOMAIN sorted : sorted[i].confidence >= Minimum}
      lead == sorted[1].confidence - sorted[2].confidence
  IN  IF candidates = {} THEN {"unsupported"}
      ELSE IF candidates = {1} THEN {"chosen"}
      ELSE {v \in {"chosen", "ambiguous"} :
              IF v = "chosen" THEN lead >= Margin ELSE lead <= Margin}

Choose ==
  /\ unasked = <<>> /\ verdict = "asking"
  /\ results' \in [DOMAIN results -> {results[i] : i \in DOMAIN results}]
  /\ Sorted(results')
  /\ verdict' \in BestMatch(results')
  /\ UNCHANGED <<answers, unasked, failed>>

ProbeNext == Ask \/ Choose

ProbeSpec == ProbeInit /\ [][ProbeNext]_probeVars

-----------------------------------------------------------------------------
\* Properties.

Sure == {a \in Adapters : answers[a] # Failed /\ answers[a] >= Minimum}

Leads(a, lead) == a \in Sure /\ \A b \in Sure \ {a} : answers[a] >= answers[b] + lead

Chosen == results[1].adapter

\* In whatever order adapters are registered and whichever of them fail, the
\* one chosen is the one that leads all others by the margin; with no leader by
\* more than the margin none need be, and whether there was no candidate or too
\* many is told apart.
ChoiceOfTheLeader ==
  verdict # "asking" =>
    /\ verdict = "unsupported" <=> Sure = {}
    /\ verdict = "ambiguous" => Sure # {} /\ \A a \in Adapters : ~Leads(a, Margin + 1)
    /\ verdict = "chosen" => Leads(Chosen, Margin)
    /\ failed = {a \in Adapters : answers[a] = Failed}
=============================================================================
