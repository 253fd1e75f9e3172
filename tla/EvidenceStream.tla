---- MODULE EvidenceStream ----
(***************************************************************************)
(* The accumulator of evidence beside a simulation (analytics_evidence.rs):*)
(* every event at which the price stands off its anchor opens a point, and *)
(* the point is measured again, once for each horizon, by the first event  *)
(* at or after the horizon.                                                *)
(*                                                                         *)
(* One symbol: the symbols share only the sums, which are additive.  Book  *)
(* and mark events bring a price or an index; Prices and Indexes are small *)
(* sets of ticks, Anchors the closes that may be configured.  Times are    *)
(* those of the events, which may come out of order.                       *)
(***************************************************************************)
EXTENDS Integers, Sequences, FiniteSets, FiniteSetsExt

CONSTANTS
  Prices, Indexes, \* the mid prices and the index prices of events
  Anchors,         \* records [at, price] of the anchors in force
  Horizons,        \* EvidenceConfig::horizons_ms
  MinResidual,     \* min_abs_residual_bps
  MaxPending,      \* max_pending_points_per_symbol
  MaxTime, MaxEvents \* bounds of the model

ASSUME EvidenceAssumption ==
  /\ Prices \cup Indexes \subseteq Nat \ {0} /\ Horizons \subseteq Nat \ {0}
  /\ Anchors \subseteq [at : Nat, price : Nat \ {0}]
  /\ MinResidual \in Nat /\ MaxPending \in Nat \ {0}
  /\ MaxTime \in Nat /\ MaxEvents \in Nat

VARIABLES
  quote,        \* QuoteState: the last price and the last index, 0 for none
  lastAnchor,   \* last_anchors
  pending,      \* the queue of points
  observations, eligible, violations, \* the counters
  sums,         \* stats: samples, improved and the sum of the improvements
  dropped       \* history: the points that left a full queue

evidenceVars == <<quote, lastAnchor, pending, observations, eligible, violations, sums, dropped>>

NoAnchor == [at |-> 0, price |-> 0]
NoSums == [h \in Horizons |-> [samples |-> 0, improved |-> 0, total |-> 0]]

EvidenceInit ==
  /\ quote = [price |-> 0, index |-> 0]
  /\ lastAnchor = NoAnchor
  /\ pending = <<>>
  /\ observations = 0 /\ eligible = 0 /\ violations = 0
  /\ sums = NoSums
  /\ dropped = <<>>

\* i128 division truncates toward zero.
Truncated(a, b) == IF a < 0 THEN -((-a) \div b) ELSE a \div b
BasisBps(value, reference) ==
  IF reference <= 0 THEN 0 ELSE Truncated((value - reference) * 10000, reference)
Sign(x) == IF x > 0 THEN 1 ELSE IF x < 0 THEN -1 ELSE 0
Magnitude(x) == Sign(x) * x

Due(p, now) == {h \in Horizons \ p.done : now >= p.at + h}
Improvement(p, price) == (-Sign(p.residual)) * (BasisBps(price, p.anchor) - p.residual)

\* The bug: a point leaves the queue with its first measurement.
BugFinished(p) == p.done # {}

Finished(p) == p.done = Horizons

\* Finished points leave from the front of the queue only.
Trimmed(queue) ==
  LET rest == {i \in DOMAIN queue : ~Finished(queue[i])}
      first == CHOOSE i \in rest : \A j \in rest : i <= j
  IN IF rest = {} THEN <<>> ELSE SubSeq(queue, first, Len(queue))

\* flush_due: every point is measured at every horizon that is over.
FlushDue(queue, now, price) ==
  LET Hits(h) == {i \in DOMAIN queue : h \in Due(queue[i], now)}
      Gain(i) == Improvement(queue[i], price)
      Samples(h) == Cardinality(Hits(h))
      Improved(h) == Cardinality({i \in Hits(h) : Gain(i) > 0})
      Total(h) == MapThenSumSet(Gain, Hits(h))
  IN /\ pending' = Trimmed([i \in DOMAIN queue |->
                      [queue[i] EXCEPT !.done = @ \cup Due(queue[i], now)]])
     /\ sums' = [h \in Horizons |-> [samples |-> sums[h].samples + Samples(h),
                                     improved |-> sums[h].improved + Improved(h),
                                     total |-> sums[h].total + Total(h)]]

\* A changed close under an unchanged time of the anchor.
Rewritten(anchor) == lastAnchor.at = anchor.at /\ lastAnchor.price # anchor.price
                     /\ lastAnchor # NoAnchor

Point(now, anchor, q) ==
  [at |-> now, anchor |-> anchor.price, residual |-> BasisBps(q.price, anchor.price),
   done |-> {}]

\* observe(): anchor is NoAnchor when none is configured for the symbol.
Observe(q, now, anchor) ==
  LET point == Point(now, anchor, q)
      joined == Append(pending, point)
      full == Len(joined) > MaxPending
  IN /\ observations < MaxEvents
     /\ quote' = q
     /\ observations' = observations + 1
     /\ lastAnchor' = IF anchor = NoAnchor THEN lastAnchor ELSE anchor
     /\ violations' = IF anchor # NoAnchor /\ Rewritten(anchor) THEN violations + 1 ELSE violations
     /\ IF anchor = NoAnchor \/ q.price = 0 \/ q.index = 0
        THEN UNCHANGED <<pending, eligible, sums, dropped>>
        ELSE IF Magnitude(point.residual) < MinResidual
        THEN FlushDue(pending, now, q.price) /\ UNCHANGED <<eligible, dropped>>
        ELSE /\ eligible' = eligible + 1
             /\ dropped' = IF full THEN Append(dropped, Head(joined)) ELSE dropped
             /\ FlushDue(IF full THEN Tail(joined) ELSE joined, now, q.price)

BookTicker ==
  \E price \in Prices, now \in 0..MaxTime, anchor \in Anchors \cup {NoAnchor} :
    Observe([quote EXCEPT !.price = price], now, anchor)

MarkPrice ==
  \E index \in Indexes, now \in 0..MaxTime, anchor \in Anchors \cup {NoAnchor} :
    Observe([quote EXCEPT !.index = index], now, anchor)

EvidenceNext == BookTicker \/ MarkPrice
EvidenceSpec == EvidenceInit /\ [][EvidenceNext]_evidenceVars

EvidenceState ==
  IF observations = 0 THEN "X0NoData" ELSE IF eligible = 0 THEN "X1Observed" ELSE "X2Eligible"

\* summary(): nothing above observational is ever claimed, and nothing without the
\* authority of the anchor.
Status(authority) ==
  IF ~authority THEN "invalid_reference"
  ELSE IF eligible = 0 THEN "insufficient_data" ELSE "observational"

----
Waiting(queue, h) == Cardinality({i \in DOMAIN queue : h \notin queue[i].done})

\* Every point is measured once for each horizon or still waits for it, unless a
\* full queue dropped it unmeasured; no horizon is counted without a shorter one,
\* whatever the order of the events and whichever points finish first.
EveryPointIsMeasured ==
  \A h \in Horizons :
    /\ sums[h].samples + Waiting(pending, h) + Waiting(dropped, h) = eligible
    /\ sums[h].improved <= sums[h].samples
    /\ \A g \in Horizons : g <= h => sums[g].samples >= sums[h].samples
====
