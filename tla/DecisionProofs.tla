--------------------------- MODULE DecisionProofs ---------------------------
(***************************************************************************)
(* What is measured, and what is decided from it, for every value of the   *)
(* constants and for every input: a calibration rests on orders that were  *)
(* placed and ended, every point of evidence is measured once at every     *)
(* horizon; a quote is passive and pays what is required of it, the gates  *)
(* keep the limit, a position is carried into a funding only if it pays,   *)
(* an entry leaves the time to flatten it, sessions stay apart, and the    *)
(* fair value stays anchored while its anchor lasts.                       *)
(***************************************************************************)
EXTENDS Calibration, EvidenceStream, SignalPolicy, TradingCalendar,
        FiniteSetTheorems, SequenceTheorems, TLAPS

\* Of StrategyControls; what is assumed of them is said where it is needed.
CONSTANTS PicoBpsScale, BasisPoints, SafetyMargin, NearFunding, Whole, TotalWeight, RiskScore

Gates == INSTANCE RiskGates
Controls == INSTANCE StrategyControls

-----------------------------------------------------------------------------
(* Numbers below a bound.                                                  *)

\* Induction over the numbers, of a set.
LEMMA Induction ==
    ASSUME NEW S, 0 \in S, \A n \in Nat : n \in S => n + 1 \in S
    PROVE  Nat \subseteq S
<1> SUFFICES ASSUME NEW n \in Nat, n \notin S PROVE FALSE
  OBVIOUS
<1> DEFINE U == {m \in 0 .. n : m \notin S}
           V == U \ {n}
           f == [m \in U |-> m - 1]
<1>1. IsFiniteSet(U) /\ IsFiniteSet(V) /\ Cardinality(V) < Cardinality(U)
  <2>1. IsFiniteSet(0 .. n)
    BY FS_Interval
  <2>2. IsFiniteSet(U)
    BY <2>1, FS_Subset
  <2>3. n \in U
    OBVIOUS
  <2> HIDE DEF U
  <2>4. IsFiniteSet(V) /\ Cardinality(V) = Cardinality(U) - 1 /\ Cardinality(U) \in Nat
    BY <2>2, <2>3, FS_RemoveElement, FS_CardinalityType
  <2> QED
    BY <2>2, <2>4
<1>2. \A m \in U : m - 1 \in V
  <2> SUFFICES ASSUME NEW m \in U PROVE m - 1 \in V
    OBVIOUS
  <2>1. m # 0 /\ m - 1 \in Nat
    OBVIOUS
  <2>2. m - 1 \notin S
    BY <2>1
  <2> QED
    BY <2>1, <2>2
<1>3. f \in [U -> V]
  BY <1>2
<1>4. \A x, y \in U : x # y => f[x] # f[y]
  OBVIOUS
<1> HIDE DEF U, V, f
<1> QED
  BY <1>1, <1>3, <1>4, FS_PigeonHole

\* Of the numbers in a set there is a least one.
LEMMA LeastOne ==
    ASSUME NEW T, NEW n \in Nat, n \in T
    PROVE  \E k \in Nat : k \in T /\ k <= n /\ \A j \in Nat : j < k => j \notin T
<1> SUFFICES ASSUME \A k \in Nat : ~(k \in T /\ k <= n /\ \A j \in Nat : j < k => j \notin T)
             PROVE  FALSE
    OBVIOUS
<1> DEFINE S == {m \in Nat : \A j \in Nat : j <= m => j \notin T}
<1>1. 0 \in S
    <2>1. 0 \notin T OBVIOUS
    <2>. QED BY <2>1
<1>2. ASSUME NEW m \in Nat, m \in S PROVE m + 1 \in S
    <2>1. \A j \in Nat : j < m + 1 => j \notin T
        BY <1>2
    <2>2. m < n
        BY <1>2
    <2>3. m + 1 \notin T
        BY <2>1, <2>2
    <2>. QED BY <2>1, <2>3
<1> HIDE DEF S
<1>3. Nat \subseteq S
    BY <1>1, <1>2, Induction
<1>4. n \in S
    BY <1>3
<1>. QED BY <1>4 DEF S

-----------------------------------------------------------------------------
(* The calibration of one symbol.                                          *)

-----------------------------------------------------------------------------
(* The arithmetic of the windows.                                          *)

LEMMA RootIs ==
    ASSUME NEW n \in Nat
    PROVE  Root(n) \in Nat
<1> DEFINE T == {k \in Nat : (k + 1) * (k + 1) > n}
<1>1. n \in T
    <2>1. (n + 1) * (n + 1) = n * n + 2 * n + 1 /\ n * n \in Nat
        OBVIOUS
    <2>2. (n + 1) * (n + 1) > n
        BY <2>1
    <2>. QED BY <2>2
<1>2. PICK k \in Nat : k \in T /\ k <= n /\ \A j \in Nat : j < k => j \notin T
    BY <1>1, LeastOne
<1>3. k * k <= n
    <2>1. CASE k = 0
        BY <2>1
    <2>2. CASE k # 0
        <3>1. k - 1 \in Nat /\ k - 1 < k /\ (k - 1) + 1 = k
            BY <2>2
        <3>2. ~(((k - 1) + 1) * ((k - 1) + 1) > n)
            BY <1>2, <3>1
        <3>3. k * k \in Nat
            OBVIOUS
        <3>. QED BY <3>1, <3>2, <3>3
    <2>. QED BY <2>1, <2>2
<1>4. k \in 0 .. n /\ k * k <= n /\ (k + 1) * (k + 1) > n
    BY <1>2, <1>3
<1> HIDE DEF T
<1>5. \E r \in 0 .. n : r * r <= n /\ (r + 1) * (r + 1) > n
    BY <1>4
<1>6. Root(n) \in 0 .. n
    BY <1>5 DEF Root
<1>. QED BY <1>6

LEMMA QuotientAtMost ==
    ASSUME NEW a \in Int, NEW b \in Nat \ {0}, NEW c \in Nat, a <= c * b
    PROVE  a \div b <= c
<1> DEFINE q == a \div b
<1>1. q \in Int /\ q * b <= a
    OBVIOUS
<1> HIDE DEF q
<1>2. ~(q >= c + 1)
    <2> SUFFICES ASSUME q >= c + 1 PROVE FALSE
        OBVIOUS
    <2>1. (c + 1) * b <= q * b
        BY <1>1
    <2>2. (c + 1) * b = c * b + b /\ c * b \in Int
        OBVIOUS
    <2>. QED BY <1>1, <2>1, <2>2
<1>3. q <= c
    BY <1>1, <1>2
<1>. QED BY <1>3 DEF q

\* No bound of a probability lies above one.
LEMMA WilsonAtMostOne ==
    ASSUME NEW trials \in Nat, NEW successes \in 0 .. trials
    PROVE  WilsonLower(successes, trials) <= 10000
<1>1. CASE trials = 0
    BY <1>1 DEF WilsonLower
<1>2. CASE trials # 0
    <2> DEFINE product == 153700 * successes * (trials - successes)
               y == 147600 + product \div trials
               x == (200 * successes + 384 - Root(y)) * 10000
               b == 200 * trials + 768
    <2>1. product \in Nat
        <3>1. 153700 * successes \in Nat /\ trials - successes \in Nat
            OBVIOUS
        <3>. QED BY <3>1
    <2> HIDE DEF product
    <2>2. product \div trials \in Nat
        BY <1>2, <2>1
    <2>3. y \in Nat
        BY <2>2
    <2> HIDE DEF y
    <2>4. Root(y) \in Nat
        BY <2>3, RootIs
    <2>5. x \in Int /\ b \in Nat \ {0} /\ x <= 10000 * b
        BY <2>4
    <2>6. WilsonLower(successes, trials) = x \div b
        BY <1>2 DEF WilsonLower, y, product
    <2> HIDE DEF x, b
    <2>. QED BY <2>5, <2>6, QuotientAtMost
<1>. QED BY <1>1, <1>2

LEMMA CountedTo == \A n \in Nat : IsFiniteSet(1 .. n) /\ Cardinality(1 .. n) = n
<1> TAKE n \in Nat
<1>1. IsFiniteSet(1 .. n) /\ Cardinality(1 .. n) = IF 1 > n THEN 0 ELSE n - 1 + 1
    BY FS_Interval
<1>. QED BY <1>1

\* The median of a window is in the window.
LEMMA MedianIs ==
    ASSUME NEW top \in Nat, NEW window \in Seq(0 .. top), Len(window) > 0
    PROVE  Median(window) \in 0 .. top
<1> DEFINE middle == (Len(window) - 1) \div 2
           Low(v) == {i \in DOMAIN window : window[i] < v}
           Reached(v) == {i \in DOMAIN window : window[i] <= v}
           T == {v \in Nat : middle < Cardinality(Reached(v))}
<1>1. /\ Len(window) \in Nat \ {0} /\ DOMAIN window = 1 .. Len(window)
      /\ \A i \in DOMAIN window : window[i] \in 0 .. top
      /\ middle \in Nat /\ middle < Len(window)
    OBVIOUS
<1>2. IsFiniteSet(1 .. Len(window)) /\ Cardinality(1 .. Len(window)) = Len(window)
    BY <1>1, CountedTo
<1> HIDE DEF middle
<1>3. Reached(top) = 1 .. Len(window)
    BY <1>1
<1>4. top \in T
    BY <1>1, <1>2, <1>3
<1>5. PICK v \in Nat : v \in T /\ v <= top /\ \A j \in Nat : j < v => j \notin T
    <2> HIDE DEF T
    <2>. QED BY <1>4, LeastOne
<1>6. \A u \in Nat : Cardinality(Reached(u)) \in Nat
    BY <1>1, <1>2, FS_Subset, FS_CardinalityType
<1>7. Cardinality(Low(v)) <= middle
    <2>1. CASE v = 0
        <3>1. Low(v) = {}
            BY <1>1, <2>1
        <3>2. Cardinality(Low(v)) = 0
            BY <3>1, FS_EmptySet
        <3>. QED BY <1>1, <3>2
    <2>2. CASE v # 0
        <3>1. v - 1 \in Nat /\ v - 1 < v
            BY <2>2
        <3>2. Low(v) = Reached(v - 1)
            BY <1>1, <3>1
        <3>3. ~(middle < Cardinality(Reached(v - 1)))
            BY <1>5, <3>1
        <3>4. Cardinality(Reached(v - 1)) \in Nat
            BY <1>6, <3>1
        <3> HIDE DEF Reached, Low
        <3>. QED BY <1>1, <3>2, <3>3, <3>4
    <2>. QED BY <2>1, <2>2
<1>8. middle < Cardinality(Reached(v))
    BY <1>5
<1>9. v \in ToSet(window)
    <2>1. Low(v) # Reached(v)
        <3> HIDE DEF Low, Reached
        <3>. QED BY <1>1, <1>6, <1>7, <1>8
    <2>2. PICK i \in DOMAIN window : window[i] = v
        BY <1>1, <1>5, <2>1
    <2>. QED BY <2>2 DEF ToSet
<1>10. Median(window) \in ToSet(window)
    BY <1>7, <1>8, <1>9 DEF Median, middle
<1>. QED BY <1>1, <1>10 DEF ToSet

-----------------------------------------------------------------------------
Samples ==
    [trials : Seq(Nat), fills : Seq(Nat), waits : Seq([of : Nat, time : Nat]),
     participations : Nat, markouts : Seq(Int), market : Nat, reversions : Seq(Int),
     reverted : Nat, last : [size : Int, frame : Nat]]

CalibrationTypes ==
    /\ samples \in Samples /\ frames \in Nat
    /\ resting = NoResting \/ resting \in [id : Nat \ {0}, left : Nat, since : Nat, reduces : BOOLEAN]
    /\ outcome \in Seq({"filled", "cancelled", "part"})

\* The waits are of different orders that ended without being filled, and in the past.
WaitsInv ==
    LET waits == samples.waits
    IN  /\ \A i, j \in DOMAIN waits : i # j => waits[i].of # waits[j].of
        /\ \A i \in DOMAIN waits :
              /\ waits[i].of \in DOMAIN outcome /\ outcome[waits[i].of] # "filled"
              /\ waits[i].time <= frames

\* The order that rests is the next to end, and every order was a trial at most once.
TrialsInv ==
    /\ resting # NoResting => resting.id = Len(outcome) + 1 /\ resting.since <= frames
    /\ Len(samples.trials) <= Len(outcome) + (IF resting = NoResting THEN 0 ELSE 1)
    /\ frozen => samples = NoSamples

CalibrationInv == CalibrationTypes /\ WaitsInv /\ TrialsInv

\* What a window holds after a push: what it held, one place further to the front if it
\* was full, and the new sample.
Shifted(window, x, pushed) ==
    \E k \in {0, 1} :
        /\ Len(pushed) = Len(window) + 1 - k
        /\ \A i \in 1 .. Len(pushed) :
              pushed[i] = IF i + k <= Len(window) THEN window[i + k] ELSE x

LEMMA Pushes ==
    ASSUME NEW S, NEW window \in Seq(S), NEW x \in S
    PROVE  /\ Push(window, x) \in Seq(S) /\ Len(Push(window, x)) <= Len(window) + 1
           /\ Shifted(window, x, Push(window, x))
<1> DEFINE longer == Append(window, x)
<1>1. /\ longer \in Seq(S) /\ Len(longer) = Len(window) + 1 /\ Len(window) \in Nat
      /\ \A i \in 1 .. Len(longer) : longer[i] = IF i <= Len(window) THEN window[i] ELSE x
    OBVIOUS
<1> HIDE DEF longer
<1>2. CASE Len(longer) > Window
    <2>1. Push(window, x) = Tail(longer)
        BY <1>2 DEF Push, longer
    <2>2. /\ Tail(longer) \in Seq(S) /\ Len(Tail(longer)) = Len(longer) - 1
          /\ \A i \in 1 .. Len(longer) - 1 : Tail(longer)[i] = longer[i + 1]
        BY <1>1
    <2>. QED BY <1>1, <2>1, <2>2 DEF Shifted
<1>3. CASE ~(Len(longer) > Window)
    <2>1. Push(window, x) = longer
        BY <1>3 DEF Push, longer
    <2>. QED BY <1>1, <2>1 DEF Shifted
<1>. QED BY <1>2, <1>3

LEMMA Counts == \A n \in Nat : Count(n) \in Nat
BY DEF Count

\* A step that pushes no wait and no trial, and leaves the orders alone.
LEMMA LearnsOther ==
    ASSUME CalibrationInv, NEW new \in Samples, Learns(new),
           new.waits = samples.waits, new.trials = samples.trials
    PROVE  /\ samples' \in Samples /\ samples'.waits = samples.waits
           /\ samples'.trials = samples.trials /\ (frozen => samples' = samples)
BY DEF CalibrationInv, CalibrationTypes, Learns

LEMMA OthersKeep ==
    ASSUME CalibrationInv, NEW new \in Samples, Learns(new),
           new.waits = samples.waits, new.trials = samples.trials,
           UNCHANGED <<frozen, resting, outcome>>, frames' \in Nat, frames <= frames'
    PROVE  CalibrationInv'
<1>1. /\ samples' \in Samples /\ samples'.waits = samples.waits
      /\ samples'.trials = samples.trials /\ (frozen => samples' = samples)
    BY LearnsOther
<1>2. CalibrationTypes'
    BY <1>1 DEF CalibrationInv, CalibrationTypes
<1>3. WaitsInv'
    <2>1. \A i \in DOMAIN samples.waits : samples.waits[i].time \in Nat
        <3> DEFINE Wait == [of : Nat, time : Nat]
        <3>1. samples.waits \in Seq(Wait)
            BY DEF CalibrationInv, CalibrationTypes, Samples
        <3> HIDE DEF Wait
        <3>2. \A i \in DOMAIN samples.waits : samples.waits[i] \in Wait
            BY <3>1
        <3>. QED BY <3>2 DEF Wait
    <2>. QED BY <1>1, <2>1 DEF CalibrationInv, WaitsInv, CalibrationTypes
<1>4. TrialsInv'
    BY <1>1 DEF CalibrationInv, TrialsInv, CalibrationTypes
<1>. QED BY <1>2, <1>3, <1>4 DEF CalibrationInv

LEMMA CalibrationStarts == CalibrationInit => CalibrationInv
<1> SUFFICES ASSUME CalibrationInit PROVE CalibrationInv
    OBVIOUS
<1>1. NoSamples \in Samples /\ NoSamples.waits = <<>> /\ NoSamples.trials = <<>>
    BY DEF NoSamples, Samples
<1>2. CalibrationTypes
    BY <1>1 DEF CalibrationInit, CalibrationTypes
<1>3. WaitsInv
    BY <1>1 DEF CalibrationInit, WaitsInv
<1>4. TrialsInv
    BY <1>1 DEF CalibrationInit, TrialsInv
<1>. QED BY <1>2, <1>3, <1>4 DEF CalibrationInv

LEMMA PlaceKeeps == CalibrationInv /\ Place => CalibrationInv'
<1> SUFFICES ASSUME CalibrationInv, Place PROVE CalibrationInv'
    OBVIOUS
<1> DEFINE id == Len(outcome) + 1
           new == ObserveOrderPlaced(samples, id)
<1>1. /\ resting = NoResting /\ UNCHANGED <<frozen, frames, outcome>> /\ Learns(new)
      /\ \E reduces \in BOOLEAN :
            resting' = [id |-> id, left |-> OrderSize, since |-> frames, reduces |-> reduces]
    BY DEF Place
<1>2. samples \in Samples /\ Len(outcome) \in Nat /\ frames \in Nat /\ id \in Nat \ {0}
    BY DEF CalibrationInv, CalibrationTypes
<1>3. /\ resting' \in [id : Nat \ {0}, left : Nat, since : Nat, reduces : BOOLEAN]
      /\ resting'.id = id /\ resting'.since = frames /\ resting' # NoResting
    BY <1>1, <1>2, CalibrationAssumption DEF NoResting
<1>4. samples.trials \in Seq(Nat)
    BY <1>2 DEF Samples
<1>5. Push(samples.trials, id) \in Seq(Nat) /\ Len(Push(samples.trials, id)) <= Len(samples.trials) + 1
    BY <1>2, <1>4, Pushes
<1>6. /\ new \in Samples /\ new.waits = samples.waits /\ new.trials = Push(samples.trials, id)
    BY <1>2, <1>5 DEF ObserveOrderPlaced, Samples
<1> HIDE DEF new, id
<1>7. /\ samples' \in Samples /\ samples'.waits = samples.waits /\ (frozen => samples' = samples)
      /\ Len(samples'.trials) <= Len(samples.trials) + 1
    <2>1. Len(samples.trials) \in Nat
        BY <1>4
    <2>. QED BY <1>1, <1>2, <1>5, <1>6, <2>1 DEF Learns
<1>8. CalibrationTypes'
    BY <1>1, <1>3, <1>7 DEF CalibrationInv, CalibrationTypes
<1>9. WaitsInv'
    BY <1>1, <1>7 DEF CalibrationInv, WaitsInv
<1>10. TrialsInv'
    <2>1. Len(samples.trials) \in Nat /\ Len(samples'.trials) \in Nat
        BY <1>4, <1>7 DEF Samples
    <2>2. Len(samples.trials) <= Len(outcome)
        BY <1>1, <1>2 DEF CalibrationInv, TrialsInv
    <2>3. Len(samples'.trials) <= Len(outcome') + 1
        BY <1>1, <1>2, <1>7, <2>1, <2>2
    <2>. QED BY <1>1, <1>2, <1>3, <1>7, <2>3 DEF CalibrationInv, TrialsInv, id
<1>. QED BY <1>8, <1>9, <1>10 DEF CalibrationInv

\* A further outcome leaves what was said of the earlier ones.
LEMMA OutcomeGrows ==
    ASSUME CalibrationInv, NEW how \in {"filled", "cancelled", "part"},
           outcome' = Append(outcome, how)
    PROVE  /\ outcome' \in Seq({"filled", "cancelled", "part"}) /\ Len(outcome') = Len(outcome) + 1
           /\ DOMAIN outcome = 1 .. Len(outcome) /\ DOMAIN outcome' = 1 .. Len(outcome) + 1
           /\ Len(outcome) \in Nat /\ outcome'[Len(outcome) + 1] = how
           /\ \A i \in DOMAIN outcome : outcome'[i] = outcome[i]
BY DEF CalibrationInv, CalibrationTypes

LEMMA FillKeeps == CalibrationInv /\ Fill => CalibrationInv'
<1> SUFFICES ASSUME CalibrationInv, Fill PROVE CalibrationInv'
    OBVIOUS
<1>1. PICK deep \in BOOLEAN : Learns(ObserveFill(samples, resting, deep, frames))
    BY DEF Fill
<1> DEFINE new == ObserveFill(samples, resting, deep, frames)
<1>2. /\ resting \in [id : Nat \ {0}, left : Nat, since : Nat, reduces : BOOLEAN]
      /\ resting # NoResting /\ samples \in Samples /\ frames \in Nat
      /\ UNCHANGED <<frozen, frames>>
    BY DEF Fill, CalibrationInv, CalibrationTypes
<1>3. new \in Samples /\ new.waits = samples.waits /\ new.trials = samples.trials
    <2>1. samples.fills \in Seq(Nat) /\ resting.id \in Nat /\ samples.participations \in Nat
        BY <1>2 DEF Samples
    <2>2. Push(samples.fills, resting.id) \in Seq(Nat) /\ Count(samples.participations) \in Nat
        BY <2>1, Pushes, Counts
    <2>. QED BY <1>2, <2>2 DEF ObserveFill, Samples
<1> HIDE DEF new
<1>4. /\ samples' \in Samples /\ samples'.waits = samples.waits
      /\ samples'.trials = samples.trials /\ (frozen => samples' = samples)
    BY <1>1, <1>3, LearnsOther DEF new
<1>5. PICK quantity \in 1 .. resting.left :
        /\ resting' = IF quantity = resting.left THEN NoResting ELSE [resting EXCEPT !.left = @ - quantity]
        /\ outcome' = IF quantity = resting.left THEN Append(outcome, "filled") ELSE outcome
    BY DEF Fill
<1>6. CASE quantity = resting.left
    <2>1. outcome' = Append(outcome, "filled") /\ resting' = NoResting
        BY <1>5, <1>6
    <2>2. CalibrationTypes'
        BY <1>2, <1>4, <2>1, OutcomeGrows DEF CalibrationTypes
    <2>3. WaitsInv'
        BY <1>2, <1>4, <2>1, OutcomeGrows DEF CalibrationInv, WaitsInv
    <2>4. TrialsInv'
        BY <1>2, <1>4, <2>1, OutcomeGrows DEF CalibrationInv, TrialsInv
    <2>. QED BY <2>2, <2>3, <2>4 DEF CalibrationInv
<1>7. CASE quantity # resting.left
    <2>1. outcome' = outcome /\ resting' = [resting EXCEPT !.left = @ - quantity]
        BY <1>5, <1>7
    <2>2. /\ resting' \in [id : Nat \ {0}, left : Nat, since : Nat, reduces : BOOLEAN]
          /\ resting'.id = resting.id /\ resting'.since = resting.since /\ resting' # NoResting
        BY <1>2, <1>5, <2>1 DEF NoResting
    <2>3. CalibrationTypes'
        BY <1>2, <1>4, <2>1, <2>2 DEF CalibrationInv, CalibrationTypes
    <2>4. WaitsInv'
        BY <1>2, <1>4, <2>1 DEF CalibrationInv, WaitsInv
    <2>5. TrialsInv'
        BY <1>2, <1>4, <2>1, <2>2 DEF CalibrationInv, TrialsInv
    <2>. QED BY <2>3, <2>4, <2>5 DEF CalibrationInv
<1>. QED BY <1>6, <1>7

LEMMA CancelEndsWait == CalibrationInv /\ Cancel => CalibrationInv'
<1> SUFFICES ASSUME CalibrationInv, Cancel PROVE CalibrationInv'
    OBVIOUS
<1> DEFINE wait == [of |-> resting.id, time |-> frames - resting.since]
           new == ObserveOrderTerminal(samples, resting, frames)
<1>1. /\ resting # NoResting /\ resting' = NoResting /\ Learns(new)
      /\ UNCHANGED <<frozen, frames>>
      /\ \E how \in {"cancelled", "part"} : outcome' = Append(outcome, how)
    BY DEF Cancel
<1>2. /\ resting \in [id : Nat \ {0}, left : Nat, since : Nat, reduces : BOOLEAN]
      /\ samples \in Samples /\ frames \in Nat /\ Len(outcome) \in Nat
      /\ resting.id = Len(outcome) + 1 /\ resting.since <= frames
    BY <1>1 DEF CalibrationInv, CalibrationTypes, TrialsInv
<1>3. PICK how \in {"cancelled", "part"} : outcome' = Append(outcome, how)
    BY <1>1
<1>4. /\ outcome' \in Seq({"filled", "cancelled", "part"}) /\ Len(outcome') = Len(outcome) + 1
      /\ DOMAIN outcome = 1 .. Len(outcome) /\ DOMAIN outcome' = 1 .. Len(outcome) + 1
      /\ outcome'[Len(outcome) + 1] = how /\ \A i \in DOMAIN outcome : outcome'[i] = outcome[i]
    BY <1>3, OutcomeGrows
<1>5. wait \in [of : Nat, time : Nat] /\ wait.of = Len(outcome) + 1 /\ wait.time <= frames
    BY <1>2
<1>6. samples.waits \in Seq([of : Nat, time : Nat])
    BY <1>2 DEF Samples
<1> HIDE DEF wait
<1> DEFINE Wait == [of : Nat, time : Nat]
           pushed == Push(samples.waits, wait)
<1>7. pushed \in Seq(Wait) /\ Shifted(samples.waits, wait, pushed)
    <2>1. samples.waits \in Seq(Wait) /\ wait \in Wait
        BY <1>5, <1>6
    <2> HIDE DEF Wait
    <2>. QED BY <2>1, Pushes
<1>8. new \in Samples /\ new.waits = pushed /\ new.trials = samples.trials
    BY <1>2, <1>7 DEF ObserveOrderTerminal, Samples, wait
<1> HIDE DEF new
<1>9. \/ samples' = new /\ ~frozen
      \/ samples' = samples /\ frozen
    BY <1>1 DEF Learns
<1>10. CalibrationTypes'
    BY <1>1, <1>2, <1>4, <1>8, <1>9 DEF CalibrationTypes
<1>11. TrialsInv'
    BY <1>1, <1>2, <1>4, <1>8, <1>9 DEF CalibrationInv, TrialsInv
<1>12. WaitsInv'
    <2>1. CASE samples' = samples
        BY <1>1, <1>4, <2>1 DEF CalibrationInv, WaitsInv
    <2>2. CASE samples' = new
        <3>1. /\ samples'.waits = pushed /\ DOMAIN pushed = 1 .. Len(pushed)
              /\ DOMAIN samples.waits = 1 .. Len(samples.waits) /\ Len(samples.waits) \in Nat
            BY <1>6, <1>7, <1>8, <2>2
        <3>2. \A i \in DOMAIN samples.waits :
                /\ samples.waits[i].of \in 1 .. Len(outcome) /\ samples.waits[i].time <= frames
                /\ outcome[samples.waits[i].of] # "filled"
            BY <1>4 DEF CalibrationInv, WaitsInv
        <3> HIDE DEF pushed
        <3>10. PICK k \in {0, 1} :
                /\ Len(pushed) = Len(samples.waits) + 1 - k
                /\ \A i \in 1 .. Len(pushed) :
                      pushed[i] = IF i + k <= Len(samples.waits) THEN samples.waits[i + k] ELSE wait
            BY <1>7 DEF Shifted
        <3>3. ASSUME NEW i \in 1 .. Len(pushed)
              PROVE  \/ /\ i + k \in DOMAIN samples.waits /\ pushed[i] = samples.waits[i + k]
                        /\ i + k <= Len(samples.waits)
                     \/ pushed[i] = wait /\ i = Len(pushed)
            <4>1. CASE i + k <= Len(samples.waits)
                <5>1. i + k \in 1 .. Len(samples.waits)
                    BY <4>1
                <5>. QED BY <3>1, <3>10, <4>1, <5>1
            <4>2. CASE ~(i + k <= Len(samples.waits))
                <5>1. i = Len(samples.waits) + 1 - k
                    BY <3>1, <3>10, <4>2
                <5>. QED BY <3>10, <4>2, <5>1
            <4>. QED BY <4>1, <4>2
        <3>4. ASSUME NEW i \in 1 .. Len(pushed)
              PROVE  /\ pushed[i].of \in DOMAIN outcome' /\ outcome'[pushed[i].of] # "filled"
                     /\ pushed[i].time <= frames
            <4>1. CASE i + k \in DOMAIN samples.waits /\ pushed[i] = samples.waits[i + k]
                BY <1>2, <1>4, <3>2, <4>1
            <4>2. CASE pushed[i] = wait
                <5>1. Len(outcome) + 1 \in DOMAIN outcome'
                    BY <1>2, <1>4
                <5>. QED BY <1>3, <1>4, <1>5, <4>2, <5>1
            <4>. QED BY <3>3, <4>1, <4>2
        <3>5. ASSUME NEW i \in 1 .. Len(pushed), NEW j \in 1 .. Len(pushed), i # j
              PROVE  pushed[i].of # pushed[j].of
            <4>1. CASE /\ i + k \in DOMAIN samples.waits /\ pushed[i] = samples.waits[i + k]
                       /\ j + k \in DOMAIN samples.waits /\ pushed[j] = samples.waits[j + k]
                <5>1. i + k # j + k
                    BY <3>5
                <5>. QED BY <4>1, <5>1 DEF CalibrationInv, WaitsInv
            <4>2. CASE /\ i + k \in DOMAIN samples.waits /\ pushed[i] = samples.waits[i + k]
                       /\ pushed[j] = wait
                BY <1>2, <1>5, <3>2, <4>2
            <4>3. CASE /\ j + k \in DOMAIN samples.waits /\ pushed[j] = samples.waits[j + k]
                       /\ pushed[i] = wait
                BY <1>2, <1>5, <3>2, <4>3
            <4>4. ~(i = Len(pushed) /\ j = Len(pushed))
                BY <3>5
            <4>. QED BY <3>3, <4>1, <4>2, <4>3, <4>4
        <3>. QED BY <1>1, <3>1, <3>4, <3>5 DEF WaitsInv
    <2>. QED BY <1>9, <2>1, <2>2
<1>. QED BY <1>10, <1>11, <1>12 DEF CalibrationInv

LEMMA MarkoutKeeps == CalibrationInv /\ Markout => CalibrationInv'
<1> SUFFICES ASSUME CalibrationInv, Markout PROVE CalibrationInv'
    OBVIOUS
<1>1. PICK markout \in {-1, 1} : Learns(ObserveMarkout(samples, markout))
    BY DEF Markout
<1> DEFINE new == ObserveMarkout(samples, markout)
<1>2. UNCHANGED <<frozen, resting, frames, outcome>> /\ samples \in Samples /\ frames \in Nat
    BY DEF Markout, CalibrationInv, CalibrationTypes
<1>3. new \in Samples /\ new.waits = samples.waits /\ new.trials = samples.trials
    <2>1. samples.markouts \in Seq(Int) /\ (IF markout > 0 THEN markout ELSE 0) \in Int
        BY <1>2 DEF Samples
    <2>2. Push(samples.markouts, IF markout > 0 THEN markout ELSE 0) \in Seq(Int)
        BY <2>1, Pushes
    <2>. QED BY <1>2, <2>2 DEF ObserveMarkout, Samples
<1> HIDE DEF new
<1>. QED BY <1>1, <1>2, <1>3, OthersKeep DEF new

LEMMA ObservesHalf ==
    ASSUME NEW s, NEW residual, NEW now
    PROVE  LET halved == s.last.size >= 0 /\ now > s.last.frame /\ Extent(residual) * 2 <= s.last.size
           IN  ObserveMarket(s, residual, now) =
                   [s EXCEPT !.market = Count(s.market),
                             !.last = [size |-> Extent(residual), frame |-> now],
                             !.reversions = IF halved THEN Push(s.reversions, now - s.last.frame)
                                            ELSE s.reversions,
                             !.reverted = IF halved THEN s.reverted + 1 ELSE s.reverted]
BY DEF ObserveMarket

LEMMA MarketSamples ==
    ASSUME NEW s \in Samples, NEW residual \in Int, NEW now \in Nat
    PROVE  LET new == ObserveMarket(s, residual, now)
           IN  new \in Samples /\ new.waits = s.waits /\ new.trials = s.trials
<1> DEFINE halved == s.last.size >= 0 /\ now > s.last.frame /\ Extent(residual) * 2 <= s.last.size
           m == Count(s.market)
           l == [size |-> Extent(residual), frame |-> now]
           r == IF halved THEN Push(s.reversions, now - s.last.frame) ELSE s.reversions
           n == IF halved THEN s.reverted + 1 ELSE s.reverted
           new == ObserveMarket(s, residual, now)
<1>1. new = [s EXCEPT !.market = m, !.last = l, !.reversions = r, !.reverted = n]
    BY ObservesHalf
<1>2. /\ s.reversions \in Seq(Int) /\ now - s.last.frame \in Int
      /\ s.market \in Nat /\ s.reverted \in Nat
    BY DEF Samples
<1>3. m \in Nat
    BY <1>2, Counts
<1>4. l \in [size : Int, frame : Nat]
    BY DEF Extent
<1>5. r \in Seq(Int)
    BY <1>2, Pushes
<1>6. n \in Nat
    BY <1>2
<1> HIDE DEF new, m, l, r, n
<1>7. new \in Samples /\ new.waits = s.waits /\ new.trials = s.trials
    BY <1>1, <1>3, <1>4, <1>5, <1>6 DEF Samples
<1>. QED BY <1>7 DEF new

LEMMA MarketKeeps == CalibrationInv /\ Market => CalibrationInv'
<1> SUFFICES ASSUME CalibrationInv, Market PROVE CalibrationInv'
    OBVIOUS
<1>1. PICK residual \in Residuals : Learns(ObserveMarket(samples, residual, frames + 1))
    BY DEF Market
<1> DEFINE new == ObserveMarket(samples, residual, frames + 1)
<1>2. /\ UNCHANGED <<frozen, resting, outcome>> /\ samples \in Samples /\ frames \in Nat
      /\ frames' = frames + 1
    BY DEF Market, CalibrationInv, CalibrationTypes
<1>3. new \in Samples /\ new.waits = samples.waits /\ new.trials = samples.trials
    <2>1. residual \in Int /\ frames + 1 \in Nat
        BY <1>2, CalibrationAssumption
    <2>. QED BY <1>2, <2>1, MarketSamples
<1>4. frames' \in Nat /\ frames <= frames'
    BY <1>2
<1> HIDE DEF new
<1>. QED BY <1>1, <1>2, <1>3, <1>4, OthersKeep DEF new

LEMMA CalibrationSteps == CalibrationInv /\ [CalibrationNext]_calibrationVars => CalibrationInv'
<1> SUFFICES ASSUME CalibrationInv, UNCHANGED calibrationVars PROVE CalibrationInv'
    BY PlaceKeeps, FillKeeps, CancelEndsWait, MarkoutKeeps, MarketKeeps DEF CalibrationNext
<1>. QED BY DEF calibrationVars, CalibrationInv, CalibrationTypes, WaitsInv, TrialsInv

\* The waits are of orders that ended without being filled, each of another one.
LEMMA WaitsAreOfEnds ==
    ASSUME CalibrationInv
    PROVE  Len(samples.waits) <= Cardinality({i \in DOMAIN outcome : outcome[i] # "filled"})
<1> DEFINE Ended == {i \in DOMAIN outcome : outcome[i] # "filled"}
           waits == samples.waits
           f == [i \in 1 .. Len(waits) |-> waits[i].of]
<1>1. /\ Len(waits) \in Nat /\ DOMAIN waits = 1 .. Len(waits)
      /\ Len(outcome) \in Nat /\ DOMAIN outcome = 1 .. Len(outcome)
    BY DEF CalibrationInv, CalibrationTypes, Samples
<1>2. IsFiniteSet(Ended) /\ Cardinality(Ended) \in Nat
    <2>1. Ended \subseteq 1 .. Len(outcome)
        BY <1>1
    <2> HIDE DEF Ended
    <2>. QED BY <1>1, <2>1, CountedTo, FS_Subset, FS_CardinalityType
<1>3. f \in [1 .. Len(waits) -> Ended] /\ \A i, j \in 1 .. Len(waits) : i # j => f[i] # f[j]
    BY <1>1 DEF CalibrationInv, WaitsInv
<1>4. IsFiniteSet(1 .. Len(waits)) /\ Cardinality(1 .. Len(waits)) = Len(waits)
    BY <1>1, CountedTo
<1> HIDE DEF Ended, f, waits
<1>5. ~(Cardinality(Ended) < Cardinality(1 .. Len(waits)))
    BY <1>2, <1>3, <1>4, FS_PigeonHole
<1>6. Len(waits) <= Cardinality(Ended)
    BY <1>1, <1>2, <1>4, <1>5
<1>. QED BY <1>6 DEF Ended, waits

\* With a sample of a wait, the horizon is a time that has gone by.
LEMMA HorizonHasPassed ==
    ASSUME CalibrationInv, Len(samples.waits) > 0
    PROVE  Horizon(samples) <= frames
<1> DEFINE times == [i \in 1 .. Len(samples.waits) |-> samples.waits[i].time]
           Wait == [of : Nat, time : Nat]
<1>1. samples.waits \in Seq(Wait) /\ frames \in Nat
    BY DEF CalibrationInv, CalibrationTypes, Samples
<1>2. \A i \in 1 .. Len(samples.waits) : samples.waits[i] \in Wait /\ i \in DOMAIN samples.waits
    <2> HIDE DEF Wait
    <2>. QED BY <1>1
<1>3. \A i \in 1 .. Len(samples.waits) : samples.waits[i].time \in 0 .. frames
    BY <1>1, <1>2 DEF CalibrationInv, WaitsInv
<1>4. Len(samples.waits) \in Nat
    <2> HIDE DEF Wait
    <2>. QED BY <1>1
<1>5. times \in Seq(0 .. frames) /\ Len(times) = Len(samples.waits)
    BY <1>3, <1>4
<1> HIDE DEF times
<1>6. Median(times) \in 0 .. frames
    BY <1>1, <1>5, MedianIs
<1>. QED BY <1>1, <1>6 DEF Horizon, times

LEMMA CalibrationHolds == CalibrationInv => EvidenceIsSound
<1> SUFFICES ASSUME CalibrationInv PROVE EvidenceIsSound
    OBVIOUS
<1> DEFINE Ended == {i \in DOMAIN outcome : outcome[i] # "filled"}
<1>1. frozen => samples = NoSamples
    BY DEF CalibrationInv, TrialsInv
<1>2. \A i, j \in DOMAIN samples.waits : i # j => samples.waits[i].of # samples.waits[j].of
    BY DEF CalibrationInv, WaitsInv
<1>3. \A i \in DOMAIN samples.waits :
          /\ samples.waits[i].of \in DOMAIN outcome
          /\ outcome[samples.waits[i].of] \in {"cancelled", "part"}
    <2>1. \A i \in DOMAIN outcome : outcome[i] \in {"filled", "cancelled", "part"}
        BY DEF CalibrationInv, CalibrationTypes
    <2>. QED BY <2>1 DEF CalibrationInv, WaitsInv
<1>4. ASSUME Calibrated(samples)
      PROVE  /\ Len(outcome) + (IF resting = NoResting THEN 0 ELSE 1) >= Floors["trials"]
             /\ Cardinality(Ended) >= Floors["waits"]
             /\ Hazard(samples) <= 10000 /\ Horizon(samples) <= frames
    <2>1. /\ Evidence(samples)["waits"] >= Floors["waits"]
          /\ Evidence(samples)["trials"] >= Floors["trials"]
        BY <1>4 DEF Calibrated, Ready, Streams
    <2>2. Len(samples.waits) >= Floors["waits"] /\ Len(samples.trials) >= Floors["trials"]
        BY <2>1 DEF Evidence
    <2>3. Floors["waits"] \in Nat \ {0} /\ Floors["trials"] \in Nat \ {0}
        BY CalibrationAssumption DEF Streams
    <2>4. /\ Len(samples.waits) \in Nat /\ Len(samples.trials) \in Nat
          /\ Len(samples.fills) \in Nat /\ Len(outcome) \in Nat
        BY DEF CalibrationInv, CalibrationTypes, Samples
    <2>5. Len(outcome) + (IF resting = NoResting THEN 0 ELSE 1) >= Floors["trials"]
        BY <2>2, <2>3, <2>4 DEF CalibrationInv, TrialsInv
    <2>6. Cardinality(Ended) >= Floors["waits"]
        <3>1. Len(samples.waits) <= Cardinality(Ended)
            BY WaitsAreOfEnds
        <3>2. Cardinality(Ended) \in Nat
            <4>1. Ended \subseteq 1 .. Len(outcome)
                BY DEF CalibrationInv, CalibrationTypes
            <4> HIDE DEF Ended
            <4>. QED BY <2>4, <4>1, CountedTo, FS_Subset, FS_CardinalityType
        <3> HIDE DEF Ended
        <3>. QED BY <2>2, <2>3, <2>4, <3>1, <3>2
    <2>7. Hazard(samples) <= 10000
        <3>1. Fewer(Len(samples.fills), Len(samples.trials)) \in 0 .. Len(samples.trials)
            BY <2>4 DEF Fewer
        <3>. QED BY <2>4, <3>1, WilsonAtMostOne DEF Hazard
    <2>8. Horizon(samples) <= frames
        BY <2>2, <2>3, <2>4, HorizonHasPassed
    <2>. QED BY <2>5, <2>6, <2>7, <2>8
<1>. QED BY <1>1, <1>2, <1>3, <1>4 DEF EvidenceIsSound

\* observe_fill_inner() and from_state(), whatever is placed, filled and cancelled and in
\* whatever order: an order is one sample of the waiting time, taken when it ended without
\* being filled; a frozen ledger learns nothing; and where there is a calibration, at least
\* as many orders were placed, and ended unfilled, as its floors ask for, the fill
\* probability is none above one and the horizon none that has not gone by.
THEOREM EvidenceStaysSound == CalibrationSpec => []EvidenceIsSound
<1>1. CalibrationInit => CalibrationInv
    BY CalibrationStarts
<1>2. CalibrationInv /\ [CalibrationNext]_calibrationVars => CalibrationInv'
    BY CalibrationSteps
<1>3. CalibrationInv => EvidenceIsSound
    BY CalibrationHolds
<1>. QED BY <1>1, <1>2, <1>3, PTL DEF CalibrationSpec

-----------------------------------------------------------------------------
(* The stream of evidence.                                                 *)

Points == [at : Nat, anchor : Nat, residual : Int, done : SUBSET Horizons]

\* No point of the queue is measured at a horizon before it is at a shorter one.
ShortestFirst(queue) ==
    \A i \in DOMAIN queue, g, h \in Horizons : g <= h /\ h \in queue[i].done => g \in queue[i].done

EvidenceTypes ==
    /\ pending \in Seq(Points) /\ dropped \in Seq(Points) /\ eligible \in Nat
    /\ quote \in [price : Nat, index : Nat]
    /\ \A h \in Horizons : sums[h].samples \in Nat /\ sums[h].improved \in Nat

EvidenceInv ==
    /\ EvidenceTypes
    /\ ShortestFirst(pending) /\ ShortestFirst(dropped)
    /\ \A h \in Horizons : /\ sums[h].samples + Waiting(pending, h) + Waiting(dropped, h) = eligible
                           /\ sums[h].improved <= sums[h].samples

\* The points of a queue, from its k-th on, that wait for a horizon.
WaitingFrom(queue, k, h) == {i \in k .. Len(queue) : h \notin queue[i].done}

LEMMA Waits ==
    ASSUME NEW queue \in Seq(Points), NEW h, NEW k \in Nat \ {0}
    PROVE  /\ IsFiniteSet(WaitingFrom(queue, k, h)) /\ Cardinality(WaitingFrom(queue, k, h)) \in Nat
           /\ Waiting(queue, h) = Cardinality(WaitingFrom(queue, 1, h))
           /\ Waiting(queue, h) \in Nat
<1>1. Len(queue) \in Nat /\ DOMAIN queue = 1 .. Len(queue)
    OBVIOUS
<1>2. ASSUME NEW j \in Nat PROVE IsFiniteSet(WaitingFrom(queue, j, h))
    <2>1. IsFiniteSet(j .. Len(queue))
        BY <1>1, FS_Interval
    <2>2. WaitingFrom(queue, j, h) \subseteq j .. Len(queue)
        BY DEF WaitingFrom
    <2>. QED BY <2>1, <2>2, FS_Subset
<1>3. \A j \in Nat : Cardinality(WaitingFrom(queue, j, h)) \in Nat
    BY <1>2, FS_CardinalityType
<1>4. Waiting(queue, h) = Cardinality(WaitingFrom(queue, 1, h))
    BY <1>1 DEF Waiting, WaitingFrom
<1>. QED BY <1>2, <1>3, <1>4

\* A queue that is the end of another one: what waits in it is what waited there.
LEMMA WaitsAtTheEnd ==
    ASSUME NEW queue \in Seq(Points), NEW rest \in Seq(Points), NEW k \in Nat, NEW h,
           Len(rest) = Len(queue) - k, \A i \in 1 .. Len(rest) : rest[i] = queue[i + k]
    PROVE  Waiting(rest, h) = Cardinality(WaitingFrom(queue, k + 1, h))
<1> DEFINE S == WaitingFrom(rest, 1, h)
           T == WaitingFrom(queue, k + 1, h)
           f == [i \in S |-> i + k]
<1>1. Len(rest) \in Nat /\ Len(queue) \in Nat
    OBVIOUS
<1>2. f \in [S -> T]
    <2>1. ASSUME NEW i \in S PROVE i + k \in T
        BY <1>1 DEF WaitingFrom
    <2>. QED BY <2>1
<1>3. \A i, j \in S : f[i] = f[j] => i = j
    BY DEF WaitingFrom
<1>4. ASSUME NEW t \in T PROVE \E i \in S : f[i] = t
    <2>1. t - k \in 1 .. Len(rest) /\ t - k + k = t /\ h \notin queue[t].done
        BY <1>1 DEF WaitingFrom
    <2>2. t - k \in S
        BY <2>1 DEF WaitingFrom
    <2>. QED BY <2>1, <2>2
<1> HIDE DEF S, T, f
<1>5. f \in Bijection(S, T)
    BY <1>2, <1>3, <1>4 DEF Bijection, Injection, Surjection, IsInjective
<1>6. IsFiniteSet(S) /\ Waiting(rest, h) = Cardinality(S)
    BY Waits DEF S
<1>7. Cardinality(T) = Cardinality(S)
    BY <1>5, <1>6, FS_Bijection DEF ExistsBijection
<1>. QED BY <1>6, <1>7 DEF T

LEMMA WaitsFromNext ==
    ASSUME NEW queue \in Seq(Points), NEW k \in 1 .. Len(queue), NEW h
    PROVE  Cardinality(WaitingFrom(queue, k, h)) =
               Cardinality(WaitingFrom(queue, k + 1, h)) + (IF h \in queue[k].done THEN 0 ELSE 1)
<1>1. IsFiniteSet(WaitingFrom(queue, k + 1, h)) /\ k \notin WaitingFrom(queue, k + 1, h)
    <2>1. k + 1 \in Nat \ {0}
        OBVIOUS
    <2>2. k \notin WaitingFrom(queue, k + 1, h)
        BY DEF WaitingFrom
    <2>. QED BY <2>1, <2>2, Waits
<1>2. Len(queue) \in Nat
    OBVIOUS
<1>3. CASE h \in queue[k].done
    <2>1. WaitingFrom(queue, k, h) = WaitingFrom(queue, k + 1, h)
        BY <1>2, <1>3 DEF WaitingFrom
    <2>2. Cardinality(WaitingFrom(queue, k + 1, h)) \in Nat
        BY Waits
    <2>. QED BY <1>3, <2>1, <2>2
<1>4. CASE h \notin queue[k].done
    <2>1. WaitingFrom(queue, k, h) = WaitingFrom(queue, k + 1, h) \cup {k}
        BY <1>2, <1>4 DEF WaitingFrom
    <2>. QED BY <1>1, <1>4, <2>1, FS_AddElement
<1>. QED BY <1>3, <1>4

\* A point joins the end of a queue.
LEMMA WaitsWithOneMore ==
    ASSUME NEW queue \in Seq(Points), NEW point \in Points, NEW h
    PROVE  Waiting(Append(queue, point), h) =
               Waiting(queue, h) + (IF h \in point.done THEN 0 ELSE 1)
<1> DEFINE joined == Append(queue, point)
           S == WaitingFrom(queue, 1, h)
<1>1. /\ joined \in Seq(Points) /\ Len(joined) = Len(queue) + 1 /\ Len(queue) \in Nat
      /\ joined[Len(queue) + 1] = point /\ \A i \in 1 .. Len(queue) : joined[i] = queue[i]
    OBVIOUS
<1> HIDE DEF joined
<1>2. IsFiniteSet(S) /\ Waiting(queue, h) = Cardinality(S) /\ Cardinality(S) \in Nat
    BY Waits
<1>3. Waiting(joined, h) = Cardinality(WaitingFrom(joined, 1, h))
    BY <1>1, Waits
<1>4. CASE h \in point.done
    <2>1. WaitingFrom(joined, 1, h) = S
        BY <1>1, <1>4 DEF WaitingFrom
    <2>. QED BY <1>2, <1>3, <1>4, <2>1 DEF joined
<1>5. CASE h \notin point.done
    <2>1. WaitingFrom(joined, 1, h) = S \cup {Len(queue) + 1}
        BY <1>1, <1>5 DEF WaitingFrom
    <2>2. Len(queue) + 1 \notin S
        BY <1>1 DEF WaitingFrom
    <2> HIDE DEF S
    <2>. QED BY <1>2, <1>3, <1>5, <2>1, <2>2, FS_AddElement DEF joined
<1>. QED BY <1>4, <1>5

\* Nothing that leaves the front of the queue is waiting.
LEMMA TrimmedKeepsWaiting ==
    ASSUME NEW queue \in Seq(Points), ShortestFirst(queue)
    PROVE  /\ Trimmed(queue) \in Seq(Points) /\ ShortestFirst(Trimmed(queue))
           /\ \A h \in Horizons : Waiting(Trimmed(queue), h) = Waiting(queue, h)
<1> DEFINE rest == {i \in DOMAIN queue : ~Finished(queue[i])}
           first == CHOOSE i \in rest : \A j \in rest : i <= j
<1>1. Len(queue) \in Nat /\ DOMAIN queue = 1 .. Len(queue)
    OBVIOUS
<1>2. CASE rest = {}
    <2>1. Trimmed(queue) = <<>>
        BY <1>2 DEF Trimmed
    <2>2. ASSUME NEW h \in Horizons PROVE Waiting(<<>>, h) = 0 /\ Waiting(queue, h) = 0
        <3>1. WaitingFrom(queue, 1, h) = {} /\ WaitingFrom(<<>>, 1, h) = {}
            BY <1>1, <1>2 DEF WaitingFrom, Finished
        <3>2. <<>> \in Seq(Points) /\ Cardinality({}) = 0 /\ 1 \in Nat \ {0}
            BY FS_EmptySet
        <3>3. Waiting(<<>>, h) = 0
            BY <3>1, <3>2, Waits
        <3>4. Waiting(queue, h) = 0
            BY <3>1, <3>2, Waits
        <3>. QED BY <3>3, <3>4
    <2>. QED BY <2>1, <2>2 DEF ShortestFirst
<1>3. CASE rest # {}
    <2>1. PICK i0 \in rest : TRUE
        BY <1>3
    <2>2. \E i \in rest : \A j \in rest : i <= j
        <3>1. rest \subseteq Nat /\ i0 \in Nat
            BY <1>1, <2>1
        <3> HIDE DEF rest
        <3>2. PICK k \in Nat : k \in rest /\ k <= i0 /\ \A j \in Nat : j < k => j \notin rest
            BY <2>1, <3>1, LeastOne
        <3>. QED BY <3>1, <3>2
    <2>3. first \in rest /\ \A j \in rest : first <= j
        <3> HIDE DEF rest
        <3>. QED BY <2>2
    <2> HIDE DEF first
    <2>4. Trimmed(queue) = SubSeq(queue, first, Len(queue))
        BY <1>3 DEF Trimmed, first
    <2>5. first \in 1 .. Len(queue) /\ \A i \in 1 .. first - 1 : queue[i].done = Horizons
        BY <1>1, <2>3 DEF Finished
    <2> DEFINE tail == SubSeq(queue, first, Len(queue))
               k == first - 1
    <2>6. /\ tail \in Seq(Points) /\ Len(tail) = Len(queue) - k /\ k \in Nat
          /\ \A i \in 1 .. Len(tail) : tail[i] = queue[i + k] /\ i + k \in DOMAIN queue
          /\ DOMAIN tail = 1 .. Len(tail)
        BY <1>1, <2>5
    <2> HIDE DEF tail
    <2>7. ShortestFirst(tail)
        BY <2>6 DEF ShortestFirst
    <2>8. ASSUME NEW h \in Horizons PROVE Waiting(tail, h) = Waiting(queue, h)
        <3>1. Waiting(tail, h) = Cardinality(WaitingFrom(queue, k + 1, h))
            BY <2>6, WaitsAtTheEnd
        <3>2. WaitingFrom(queue, k + 1, h) = WaitingFrom(queue, 1, h)
            BY <1>1, <2>5 DEF WaitingFrom
        <3>. QED BY <3>1, <3>2, Waits
    <2>. QED BY <2>4, <2>6, <2>7, <2>8 DEF tail
<1>. QED BY <1>2, <1>3

\* The points of a queue once an event has measured them.
Flushed(queue, now) == [i \in DOMAIN queue |-> [queue[i] EXCEPT !.done = @ \cup Due(queue[i], now)]]

LEMMA FlushKeepsOrder ==
    ASSUME NEW queue \in Seq(Points), ShortestFirst(queue), NEW now \in Nat
    PROVE  /\ Flushed(queue, now) \in Seq(Points) /\ ShortestFirst(Flushed(queue, now))
           /\ DOMAIN Flushed(queue, now) = DOMAIN queue
           /\ \A i \in DOMAIN queue :
                 Flushed(queue, now)[i].done = queue[i].done \cup Due(queue[i], now)
<1> DEFINE flushed == Flushed(queue, now)
<1>1. /\ Len(queue) \in Nat /\ DOMAIN queue = 1 .. Len(queue)
      /\ \A i \in DOMAIN queue : queue[i] \in Points
    <2> HIDE DEF Points
    <2>. QED OBVIOUS
<1>2. ASSUME NEW i \in DOMAIN queue
      PROVE  flushed[i] \in Points /\ flushed[i].done = queue[i].done \cup Due(queue[i], now)
    BY <1>1, <1>2 DEF Points, Due, Flushed
<1>3. DOMAIN flushed = DOMAIN queue /\ flushed = [i \in 1 .. Len(queue) |-> flushed[i]]
    BY <1>1 DEF Flushed
<1> HIDE DEF flushed
<1>4. flushed \in Seq(Points)
    <2>1. flushed \in [1 .. Len(queue) -> Points]
        BY <1>1, <1>2, <1>3
    <2>. QED BY <1>1, <2>1
<1>5. ShortestFirst(flushed)
    <2> SUFFICES ASSUME NEW i \in DOMAIN queue, NEW g \in Horizons, NEW k \in Horizons,
                        g <= k, k \in flushed[i].done
                 PROVE  g \in flushed[i].done
        BY <1>3 DEF ShortestFirst
    <2>1. CASE k \in queue[i].done
        BY <1>2, <2>1 DEF ShortestFirst
    <2>2. CASE k \in Due(queue[i], now)
        <3>1. now >= queue[i].at + k /\ queue[i].at \in Nat /\ g \in Nat /\ k \in Nat
            BY <1>1, <2>2, EvidenceAssumption DEF Due, Points
        <3>2. now >= queue[i].at + g
            BY <3>1
        <3>3. g \in queue[i].done \/ g \in Due(queue[i], now)
            BY <3>2 DEF Due
        <3>. QED BY <1>2, <3>3
    <2>. QED BY <1>2, <2>1, <2>2
<1>. QED BY <1>2, <1>3, <1>4, <1>5 DEF flushed

LEMMA FlushKeepsQueue ==
    ASSUME NEW queue \in Seq(Points), ShortestFirst(queue), NEW now \in Nat, NEW price,
           FlushDue(queue, now, price)
    PROVE  pending' \in Seq(Points) /\ ShortestFirst(pending')
<1>1. pending' = Trimmed(Flushed(queue, now))
    BY DEF FlushDue, Flushed
<1>. QED BY <1>1, FlushKeepsOrder, TrimmedKeepsWaiting

\* Every point that is measured for a horizon waited for it, and waits for it no longer.
LEMMA FlushMeasures ==
    ASSUME NEW queue \in Seq(Points), ShortestFirst(queue), NEW now \in Nat, NEW price,
           FlushDue(queue, now, price), NEW h \in Horizons,
           sums[h].samples \in Nat, sums[h].improved \in Nat, sums[h].improved <= sums[h].samples
    PROVE  /\ sums'[h].samples \in Nat /\ sums'[h].improved \in Nat
           /\ sums'[h].improved <= sums'[h].samples
           /\ sums'[h].samples + Waiting(pending', h) = sums[h].samples + Waiting(queue, h)
<1> DEFINE Hits(g) == {i \in DOMAIN queue : g \in Due(queue[i], now)}
           Better(g) == {i \in Hits(g) : Improvement(queue[i], price) > 0}
           flushed == Flushed(queue, now)
           hits == Hits(h)
           better == Better(h)
           was == WaitingFrom(queue, 1, h)
           is == WaitingFrom(flushed, 1, h)
<1>1. Len(queue) \in Nat /\ DOMAIN queue = 1 .. Len(queue) /\ 1 \in Nat \ {0}
    <2> HIDE DEF Points
    <2>. QED OBVIOUS
<1>2. /\ flushed \in Seq(Points) /\ ShortestFirst(flushed) /\ DOMAIN flushed = DOMAIN queue
      /\ \A i \in DOMAIN queue : flushed[i].done = queue[i].done \cup Due(queue[i], now)
    BY FlushKeepsOrder
<1>3. /\ sums'[h].samples = sums[h].samples + Cardinality(hits)
      /\ sums'[h].improved = sums[h].improved + Cardinality(better)
    BY DEF FlushDue
<1>4. Waiting(pending', h) = Waiting(flushed, h)
    <2>1. pending' = Trimmed(flushed)
        BY DEF FlushDue, Flushed
    <2> HIDE DEF flushed
    <2>. QED BY <1>2, <2>1, TrimmedKeepsWaiting
<1> HIDE DEF flushed
<1>5. Len(flushed) = Len(queue)
    <2> HIDE DEF Points
    <2>. QED BY <1>1, <1>2
<1>6. IsFiniteSet(was) /\ Waiting(queue, h) = Cardinality(was) /\ Cardinality(was) \in Nat
    BY <1>1, Waits
<1>7. Waiting(flushed, h) = Cardinality(is)
    BY <1>1, <1>2, Waits
<1>8. hits \subseteq was /\ is = was \ hits /\ better \subseteq hits
    BY <1>1, <1>2, <1>5 DEF WaitingFrom, Due
<1> HIDE DEF was, is, hits, better
<1>9. IsFiniteSet(hits) /\ Cardinality(hits) \in Nat
    BY <1>6, <1>8, FS_Subset, FS_CardinalityType
<1>10. Cardinality(better) \in Nat /\ Cardinality(better) <= Cardinality(hits)
    BY <1>8, <1>9, FS_Subset, FS_CardinalityType
<1>11. Cardinality(is) = Cardinality(was) - Cardinality(hits)
    <2>1. was \cap hits = hits
        BY <1>8
    <2>2. Cardinality(was \ hits) = Cardinality(was) - Cardinality(was \cap hits)
        BY <1>6, FS_Difference
    <2>. QED BY <1>8, <2>1, <2>2
<1> DEFINE s == sums[h].samples
           m == sums[h].improved
<1>12. /\ sums'[h].samples = s + Cardinality(hits) /\ sums'[h].improved = m + Cardinality(better)
       /\ Waiting(pending', h) = Cardinality(was) - Cardinality(hits)
       /\ Waiting(queue, h) = Cardinality(was) /\ s \in Nat /\ m \in Nat /\ m <= s
    BY <1>3, <1>4, <1>6, <1>7, <1>11
<1>13. /\ s + Cardinality(hits) \in Nat /\ m + Cardinality(better) \in Nat
       /\ m + Cardinality(better) <= s + Cardinality(hits)
       /\ s + Cardinality(hits) + (Cardinality(was) - Cardinality(hits)) = s + Cardinality(was)
    <2> HIDE DEF s, m
    <2>. QED BY <1>6, <1>9, <1>10, <1>12
<1>. QED BY <1>12, <1>13

LEMMA BasisIsInt ==
    ASSUME NEW value \in Int, NEW reference \in Int
    PROVE  BasisBps(value, reference) \in Int
<1>1. CASE reference <= 0
    BY <1>1 DEF BasisBps
<1>2. CASE reference > 0
    <2> DEFINE a == (value - reference) * 10000
    <2>1. a \in Int
        OBVIOUS
    <2> HIDE DEF a
    <2>2. a \div reference \in Int /\ (-a) \div reference \in Int
        BY <1>2, <2>1
    <2>3. Truncated(a, reference) \in Int
        BY <2>2 DEF Truncated
    <2>. QED BY <1>2, <2>3 DEF BasisBps, a
<1>. QED BY <1>1, <1>2

LEMMA ObserveKeeps ==
    ASSUME EvidenceInv, NEW q \in [price : Nat, index : Nat], NEW now \in Nat,
           NEW anchor \in Anchors \cup {NoAnchor}, Observe(q, now, anchor)
    PROVE  EvidenceInv'
<1>1. /\ pending \in Seq(Points) /\ dropped \in Seq(Points) /\ eligible \in Nat
      /\ ShortestFirst(pending) /\ ShortestFirst(dropped)
      /\ quote' \in [price : Nat, index : Nat]
    BY DEF EvidenceInv, EvidenceTypes, Observe
<1>2. \A h \in Horizons :
          /\ sums[h].samples \in Nat /\ sums[h].improved \in Nat
          /\ sums[h].samples + Waiting(pending, h) + Waiting(dropped, h) = eligible
          /\ sums[h].improved <= sums[h].samples
    BY DEF EvidenceInv, EvidenceTypes
<1> DEFINE point == Point(now, anchor, q)
           joined == Append(pending, point)
           full == Len(joined) > MaxPending
           queue == IF full THEN Tail(joined) ELSE joined
           lost == IF full THEN Append(dropped, Head(joined)) ELSE dropped
<1>3. CASE anchor = NoAnchor \/ q.price = 0 \/ q.index = 0
    <2>1. UNCHANGED <<pending, eligible, sums, dropped>>
        BY <1>3 DEF Observe
    <2>. QED BY <1>1, <1>2, <2>1 DEF EvidenceInv, EvidenceTypes
<1>4. CASE /\ ~(anchor = NoAnchor \/ q.price = 0 \/ q.index = 0)
           /\ Magnitude(point.residual) < MinResidual
    <2>1. FlushDue(pending, now, q.price) /\ UNCHANGED <<eligible, dropped>>
        BY <1>4 DEF Observe
    <2>2. pending' \in Seq(Points) /\ ShortestFirst(pending')
        BY <1>1, <2>1, FlushKeepsQueue
    <2>3. ASSUME NEW h \in Horizons
          PROVE  /\ sums'[h].samples \in Nat /\ sums'[h].improved \in Nat
                 /\ sums'[h].improved <= sums'[h].samples
                 /\ sums'[h].samples + Waiting(pending', h) + Waiting(dropped, h) = eligible
        <3>1. /\ sums'[h].samples \in Nat /\ sums'[h].improved \in Nat
              /\ sums'[h].improved <= sums'[h].samples
              /\ sums'[h].samples + Waiting(pending', h) = sums[h].samples + Waiting(pending, h)
            BY <1>1, <1>2, <2>1, FlushMeasures
        <3>. QED BY <1>2, <3>1
    <2>. QED BY <1>1, <2>1, <2>2, <2>3 DEF EvidenceInv, EvidenceTypes
<1>5. CASE /\ ~(anchor = NoAnchor \/ q.price = 0 \/ q.index = 0)
           /\ ~(Magnitude(point.residual) < MinResidual)
    <2>1. eligible' = eligible + 1 /\ dropped' = lost /\ FlushDue(queue, now, q.price)
        BY <1>5 DEF Observe
    <2>2. point \in Points /\ point.done = {}
        <3>1. anchor.price \in Nat /\ q.price \in Nat
            BY <1>5, EvidenceAssumption
        <3>2. BasisBps(q.price, anchor.price) \in Int
            <4>1. anchor.price \in Int /\ q.price \in Int
                BY <3>1
            <4>. QED BY <4>1, BasisIsInt
        <3>. QED BY <3>1, <3>2 DEF Point, Points
    <2> HIDE DEF point
    <2>3. /\ joined \in Seq(Points) /\ Len(joined) = Len(pending) + 1 /\ Len(pending) \in Nat
          /\ joined[Len(pending) + 1] = point /\ \A i \in 1 .. Len(pending) : joined[i] = pending[i]
          /\ DOMAIN joined = 1 .. Len(pending) + 1
        <3> HIDE DEF Points
        <3>. QED BY <1>1, <2>2
    <2>4. ShortestFirst(joined)
        <3> HIDE DEF joined
        <3> SUFFICES ASSUME NEW i \in DOMAIN joined, NEW g \in Horizons, NEW h \in Horizons,
                            g <= h, h \in joined[i].done
                     PROVE  g \in joined[i].done
            BY DEF ShortestFirst
        <3>1. CASE i = Len(pending) + 1
            BY <2>2, <2>3, <3>1
        <3>2. CASE i \in 1 .. Len(pending)
            <4>1. joined[i] = pending[i] /\ i \in DOMAIN pending
                BY <1>1, <2>3, <3>2
            <4>. QED BY <1>1, <4>1 DEF ShortestFirst
        <3>. QED BY <2>3, <3>1, <3>2
    <2>5. \A h \in Horizons : Waiting(joined, h) = Waiting(pending, h) + 1
        BY <1>1, <2>2, WaitsWithOneMore
    <2>6. /\ queue \in Seq(Points) /\ lost \in Seq(Points)
          /\ ShortestFirst(queue) /\ ShortestFirst(lost)
          /\ \A h \in Horizons : Waiting(queue, h) + Waiting(lost, h) = Waiting(pending, h) + 1 + Waiting(dropped, h)
        <3> HIDE DEF joined
        <3>1. CASE full
            <4> DEFINE head == joined[1]
                       tail == Tail(joined)
                       more == Append(dropped, head)
            <4>1. /\ tail \in Seq(Points) /\ Len(tail) = Len(joined) - 1 /\ DOMAIN tail = 1 .. Len(tail)
                  /\ \A i \in 1 .. Len(tail) : tail[i] = joined[i + 1] /\ i + 1 \in DOMAIN joined
                  /\ head \in Points /\ 1 \in 1 .. Len(joined) /\ Len(joined) \in Nat
                <5> HIDE DEF Points
                <5>. QED BY <2>3
            <4>2. queue = tail /\ lost = more
                BY <3>1, <2>3
            <4>3. /\ more \in Seq(Points) /\ DOMAIN more = 1 .. Len(dropped) + 1 /\ Len(dropped) \in Nat
                  /\ more[Len(dropped) + 1] = head /\ \A i \in 1 .. Len(dropped) : more[i] = dropped[i]
                  /\ DOMAIN dropped = 1 .. Len(dropped)
                <5> HIDE DEF Points, head
                <5>. QED BY <1>1, <4>1
            <4>4. ShortestFirst(tail)
                <5> HIDE DEF tail
                <5>. QED BY <2>4, <4>1 DEF ShortestFirst
            <4>5. ShortestFirst(more)
                <5>1. \A g, k \in Horizons : g <= k /\ k \in head.done => g \in head.done
                    BY <2>3, <2>4, <4>1 DEF ShortestFirst
                <5> HIDE DEF more, head
                <5>. QED BY <1>1, <4>3, <5>1 DEF ShortestFirst
            <4>6. ASSUME NEW h \in Horizons
                  PROVE  Waiting(tail, h) + Waiting(more, h) = Waiting(pending, h) + 1 + Waiting(dropped, h)
                <5> HIDE DEF tail, more, head
                <5>1. Waiting(tail, h) = Cardinality(WaitingFrom(joined, 1 + 1, h))
                    <6>1. /\ tail \in Seq(Points) /\ joined \in Seq(Points) /\ 1 \in Nat
                          /\ Len(tail) = Len(joined) - 1
                          /\ \A i \in 1 .. Len(tail) : tail[i] = joined[i + 1]
                        BY <2>3, <4>1
                    <6>. QED BY <6>1, WaitsAtTheEnd
                <5>2. Cardinality(WaitingFrom(joined, 1, h)) =
                          Cardinality(WaitingFrom(joined, 1 + 1, h)) + (IF h \in head.done THEN 0 ELSE 1)
                    BY <2>3, <4>1, WaitsFromNext DEF head
                <5>3. Waiting(joined, h) = Cardinality(WaitingFrom(joined, 1, h)) /\ Waiting(joined, h) \in Nat
                    <6>1. 1 \in Nat \ {0} OBVIOUS
                    <6>. QED BY <2>3, <6>1, Waits
                <5>4. Waiting(more, h) = Waiting(dropped, h) + (IF h \in head.done THEN 0 ELSE 1)
                    BY <1>1, <4>1, WaitsWithOneMore DEF more
                <5>5. /\ Waiting(dropped, h) \in Nat /\ Waiting(pending, h) \in Nat
                      /\ Waiting(tail, h) \in Nat
                    <6>1. 1 \in Nat \ {0} OBVIOUS
                    <6>2. Waiting(dropped, h) \in Nat /\ Waiting(pending, h) \in Nat
                        BY <1>1, <6>1, Waits
                    <6>3. Waiting(tail, h) \in Nat
                        BY <4>1, <6>1, Waits
                    <6>. QED BY <6>2, <6>3
                <5>. QED BY <2>5, <5>1, <5>2, <5>3, <5>4, <5>5
            <4> HIDE DEF tail, more, queue, lost
            <4>. QED BY <4>1, <4>2, <4>3, <4>4, <4>5, <4>6
        <3>2. CASE ~full
            <4>1. queue = joined /\ lost = dropped
                BY <3>2
            <4> HIDE DEF queue, lost
            <4>. QED BY <1>1, <2>3, <2>4, <2>5, <4>1
        <3>. QED BY <3>1, <3>2
    <2> HIDE DEF queue, lost
    <2>7. pending' \in Seq(Points) /\ ShortestFirst(pending')
        BY <1>1, <2>1, <2>6, FlushKeepsQueue
    <2>8. ASSUME NEW h \in Horizons
          PROVE  /\ sums'[h].samples \in Nat /\ sums'[h].improved \in Nat
                 /\ sums'[h].improved <= sums'[h].samples
                 /\ sums'[h].samples + Waiting(pending', h) + Waiting(lost, h) = eligible + 1
        <3>1. /\ sums'[h].samples \in Nat /\ sums'[h].improved \in Nat
              /\ sums'[h].improved <= sums'[h].samples
              /\ sums'[h].samples + Waiting(pending', h) = sums[h].samples + Waiting(queue, h)
            BY <1>1, <1>2, <2>1, <2>6, FlushMeasures
        <3>2. /\ Waiting(pending, h) \in Nat /\ Waiting(dropped, h) \in Nat
              /\ Waiting(queue, h) \in Nat /\ Waiting(lost, h) \in Nat
              /\ Waiting(pending', h) \in Nat
            <4>1. 1 \in Nat \ {0} OBVIOUS
            <4>2. Waiting(pending, h) \in Nat /\ Waiting(dropped, h) \in Nat
                BY <1>1, <4>1, Waits
            <4>3. Waiting(queue, h) \in Nat /\ Waiting(lost, h) \in Nat
                BY <2>6, <4>1, Waits
            <4>4. Waiting(pending', h) \in Nat
                BY <2>7, <4>1, Waits
            <4>. QED BY <4>2, <4>3, <4>4
        <3>3. /\ Waiting(queue, h) + Waiting(lost, h) = Waiting(pending, h) + 1 + Waiting(dropped, h)
              /\ sums[h].samples + Waiting(pending, h) + Waiting(dropped, h) = eligible
              /\ sums[h].samples \in Nat
            BY <1>2, <2>6
        <3> DEFINE s == sums[h].samples
                   t == sums'[h].samples
                   wp == Waiting(pending, h)
                   wd == Waiting(dropped, h)
                   wq == Waiting(queue, h)
                   wl == Waiting(lost, h)
                   wf == Waiting(pending', h)
        <3>4. /\ s \in Nat /\ t \in Nat /\ wp \in Nat /\ wd \in Nat /\ wq \in Nat /\ wl \in Nat /\ wf \in Nat
              /\ t + wf = s + wq /\ wq + wl = wp + 1 + wd /\ s + wp + wd = eligible
            BY <3>1, <3>2, <3>3
        <3>5. t + wf + wl = eligible + 1
            <4> HIDE DEF s, t, wp, wd, wq, wl, wf
            <4>. QED BY <1>1, <3>4
        <3>. QED BY <3>1, <3>5
    <2>. QED BY <1>1, <2>1, <2>6, <2>7, <2>8 DEF EvidenceInv, EvidenceTypes
<1>. QED BY <1>3, <1>4, <1>5

LEMMA EvidenceStarts == EvidenceInit => EvidenceInv
<1> SUFFICES ASSUME EvidenceInit PROVE EvidenceInv
    OBVIOUS
<1>1. /\ pending = <<>> /\ dropped = <<>> /\ eligible = 0 /\ quote = [price |-> 0, index |-> 0]
      /\ \A h \in Horizons : sums[h].samples = 0 /\ sums[h].improved = 0
    BY DEF EvidenceInit, NoSums
<1>2. \A h \in Horizons : Waiting(<<>>, h) = 0
    <2> TAKE h \in Horizons
    <2>1. <<>> \in Seq(Points) /\ 1 \in Nat \ {0} /\ WaitingFrom(<<>>, 1, h) = {}
        BY DEF WaitingFrom
    <2>. QED BY <2>1, Waits, FS_EmptySet
<1>3. <<>> \in Seq(Points) /\ ShortestFirst(<<>>)
    BY DEF ShortestFirst
<1>. QED BY <1>1, <1>2, <1>3 DEF EvidenceInv, EvidenceTypes

LEMMA EvidenceSteps == EvidenceInv /\ [EvidenceNext]_evidenceVars => EvidenceInv'
<1> SUFFICES ASSUME EvidenceInv, [EvidenceNext]_evidenceVars PROVE EvidenceInv'
    OBVIOUS
<1>1. CASE BookTicker
    <2>1. PICK price \in Prices, now \in 0 .. MaxTime, anchor \in Anchors \cup {NoAnchor} :
              Observe([quote EXCEPT !.price = price], now, anchor)
        BY <1>1 DEF BookTicker
    <2>2. [quote EXCEPT !.price = price] \in [price : Nat, index : Nat] /\ now \in Nat
        BY EvidenceAssumption DEF EvidenceInv, EvidenceTypes
    <2>. QED BY <2>1, <2>2, ObserveKeeps
<1>2. CASE MarkPrice
    <2>1. PICK index \in Indexes, now \in 0 .. MaxTime, anchor \in Anchors \cup {NoAnchor} :
              Observe([quote EXCEPT !.index = index], now, anchor)
        BY <1>2 DEF MarkPrice
    <2>2. [quote EXCEPT !.index = index] \in [price : Nat, index : Nat] /\ now \in Nat
        BY EvidenceAssumption DEF EvidenceInv, EvidenceTypes
    <2>. QED BY <2>1, <2>2, ObserveKeeps
<1>3. CASE UNCHANGED evidenceVars
    BY <1>3 DEF evidenceVars, EvidenceInv, EvidenceTypes
<1>. QED BY <1>1, <1>2, <1>3 DEF EvidenceNext

\* What is measured or lost already at a horizon is so at each shorter one, so fewer points
\* wait for the shorter one.
LEMMA EvidenceHolds == EvidenceInv => EveryPointIsMeasured
<1> SUFFICES ASSUME EvidenceInv PROVE EveryPointIsMeasured
    OBVIOUS
<1>1. ASSUME NEW queue \in Seq(Points), ShortestFirst(queue), NEW g \in Horizons, NEW h \in Horizons,
             g <= h
      PROVE  /\ Waiting(queue, g) <= Waiting(queue, h)
             /\ Waiting(queue, g) \in Nat /\ Waiting(queue, h) \in Nat
    <2> DEFINE short == WaitingFrom(queue, 1, g)
               long == WaitingFrom(queue, 1, h)
    <2>1. 1 \in Nat \ {0}
        OBVIOUS
    <2>2. IsFiniteSet(long) /\ Waiting(queue, h) = Cardinality(long) /\ Waiting(queue, h) \in Nat
        BY <1>1, <2>1, Waits
    <2>3. Waiting(queue, g) = Cardinality(short) /\ Waiting(queue, g) \in Nat
        BY <1>1, <2>1, Waits
    <2>4. short \subseteq long
        <3>1. DOMAIN queue = 1 .. Len(queue)
            OBVIOUS
        <3>. QED BY <1>1, <3>1 DEF WaitingFrom, ShortestFirst
    <2> HIDE DEF short, long
    <2>. QED BY <2>2, <2>3, <2>4, FS_Subset
<1>2. ASSUME NEW h \in Horizons, NEW g \in Horizons, g <= h
      PROVE  sums[g].samples >= sums[h].samples
    <2> DEFINE sg == sums[g].samples
               sh == sums[h].samples
               pg == Waiting(pending, g)
               ph == Waiting(pending, h)
               dg == Waiting(dropped, g)
               dh == Waiting(dropped, h)
    <2>1. pg <= ph /\ pg \in Nat /\ ph \in Nat /\ dg <= dh /\ dg \in Nat /\ dh \in Nat
        BY <1>1, <1>2 DEF EvidenceInv, EvidenceTypes
    <2>2. sg + pg + dg = eligible /\ sh + ph + dh = eligible /\ sg \in Nat /\ sh \in Nat
        BY DEF EvidenceInv, EvidenceTypes
    <2>3. sg >= sh
        <3> HIDE DEF sg, sh, pg, ph, dg, dh
        <3>. QED BY <2>1, <2>2
    <2>. QED BY <2>3
<1>. QED BY <1>2 DEF EveryPointIsMeasured, EvidenceInv

\* observe() and flush_due(), whatever the order of the times of the events: every point is
\* measured once at every horizon or still waits for it, or left a full queue unmeasured, and
\* no horizon is counted more often than a shorter one, whichever points finish first.
THEOREM EveryPointStaysMeasured == EvidenceSpec => []EveryPointIsMeasured
<1>1. EvidenceInit => EvidenceInv
    BY EvidenceStarts
<1>2. EvidenceInv /\ [EvidenceNext]_evidenceVars => EvidenceInv'
    BY EvidenceSteps
<1>3. EvidenceInv => EveryPointIsMeasured
    BY EvidenceHolds
<1>. QED BY <1>1, <1>2, <1>3, PTL DEF EvidenceSpec

-----------------------------------------------------------------------------
(* Quotes.                                                                 *)

\* What decide() is called with.  Probabilities are parts of the whole: what is passed is
\* bounded where it is made, and ConditionalOrderValue refuses what is not.
QuoteInput(i) ==
    /\ {i.anchor, i.bid, i.ask, i.tick, i.index, i.mark, i.position, i.max, i.requested,
        i.bidDepth, i.askDepth, i.bidQueue, i.askQueue, i.skew, i.relief, i.maxGap,
        i.age, i.maxAge} \subseteq Int
    /\ i.threshold \in [Components -> Int] /\ i.adverse \in [{1, -1} -> Int]
    /\ i.fill \in [{1, -1} -> 0 .. Unit] /\ i.confidence \in 0 .. Unit
    /\ i.fillAware \in BOOLEAN

\* In an order of numbers between two bounds, every set has a first one.
LEMMA FirstOfAll ==
    ASSUME NEW lo \in Int, NEW hi \in Int, NEW R,
           \A p, q, r \in lo .. hi : <<p, q>> \in R /\ <<q, r>> \in R => <<p, r>> \in R,
           \A p, q \in lo .. hi : p # q => <<p, q>> \in R \/ <<q, p>> \in R,
           NEW T \in SUBSET (lo .. hi), T # {}
    PROVE  \E p \in T : \A q \in T \ {p} : <<p, q>> \in R
<1> DEFINE Leads(U) == \E p \in U : \A q \in U \ {p} : <<p, q>> \in R
           S == {n \in Nat : \A U \in SUBSET (lo .. hi) :
                               U # {} /\ (\A x \in U : x <= lo + n) => Leads(U)}
<1>1. 0 \in S
  <2> SUFFICES ASSUME NEW U \in SUBSET (lo .. hi), U # {}, \A x \in U : x <= lo + 0
               PROVE  Leads(U)
    OBVIOUS
  <2>1. \A x \in U : x = lo
    OBVIOUS
  <2>2. U = {lo}
    BY <2>1
  <2> QED
    BY <2>2
<1>2. ASSUME NEW n \in Nat, n \in S PROVE n + 1 \in S
  <2> SUFFICES ASSUME NEW U \in SUBSET (lo .. hi), U # {}, \A x \in U : x <= lo + (n + 1)
               PROVE  Leads(U)
    OBVIOUS
  <2> DEFINE x == lo + (n + 1)
             V == U \ {x}
  <2>1. \A y \in V : y \in lo .. hi /\ y <= lo + n
    OBVIOUS
  <2>2. V # {} => Leads(V)
    <3>1. V \in SUBSET (lo .. hi)
      OBVIOUS
    <3> HIDE DEF V
    <3> QED
      BY <1>2, <2>1, <3>1
  <2>3. CASE V = {}
    <3>1. U = {x}
      BY <2>3
    <3> QED
      BY <3>1
  <2>4. CASE V # {}
    <3>1. PICK p \in V : \A q \in V \ {p} : <<p, q>> \in R
      BY <2>2, <2>4
    <3>2. CASE x \notin U
      BY <3>1, <3>2
    <3>3. CASE x \in U
      <4>1. x \in lo .. hi /\ p \in lo .. hi /\ p # x
        BY <3>3
      <4> HIDE DEF x
      <4>2. <<p, x>> \in R \/ <<x, p>> \in R
        BY <4>1
      <4>3. CASE <<p, x>> \in R
        BY <3>1, <4>3
      <4>4. CASE <<x, p>> \in R
        <5>1. \A q \in V : <<x, q>> \in R
          BY <2>1, <3>1, <4>1, <4>4
        <5> QED
          BY <3>3, <5>1
      <4> QED
        BY <4>2, <4>3, <4>4
    <3> QED
      BY <3>2, <3>3
  <2> QED
    BY <2>3, <2>4
<1>3. Nat \subseteq S
  <2> HIDE DEF S
  <2> QED
    BY <1>1, <1>2, Induction
<1>4. PICK y \in T : TRUE
  OBVIOUS
<1>5. hi - lo \in Nat
  BY <1>4
<1>6. \A x \in T : x <= lo + (hi - lo)
  OBVIOUS
<1>7. hi - lo \in S
  BY <1>3, <1>5
<1>8. Leads(T)
  BY <1>6, <1>7
<1> QED
  BY <1>8

\* A product with something that is not negative is as large as its factors.
LEMMA Products ==
    ASSUME NEW a \in Int, NEW b \in Int, NEW c \in Nat, a <= b
    PROVE  a * c <= b * c /\ a * c \in Int /\ b * c \in Int
  OBVIOUS
LEMMA Positive ==
    ASSUME NEW a \in Nat, NEW b \in Nat
    PROVE  a * b \in Nat
  OBVIOUS
\* Quotients.
LEMMA Quotients ==
    ASSUME NEW a \in Int, NEW b \in Nat \ {0}
    PROVE  /\ a \div b \in Int /\ (a \div b) * b <= a
           /\ a >= 0 => a \div b >= 0
           /\ \A c \in Int : a <= c * b => a \div b <= c
  OBVIOUS

LEMMA Smaller ==
    ASSUME NEW a \in Int, NEW b \in Int
    PROVE  /\ Lower(a, b) \in {a, b} /\ Lower(a, b) <= a /\ Lower(a, b) <= b
           /\ Higher(a, b) \in {a, b} /\ Higher(a, b) >= a /\ Higher(a, b) >= b
           /\ Size(a) \in Nat /\ Size(a) >= a /\ Size(a) >= -a
           /\ \A c \in Int : b <= c => Between(b, a, c) \in b .. c
  BY DEF Lower, Higher, Size, Between

\* A probability stays one, whatever the queue and the book say of the order.
LEMMA FillsAreShares ==
    ASSUME NEW i, QuoteInput(i), NEW side \in {1, -1}, NEW price \in Int, NEW quantity \in Int
    PROVE  FillAt(i, side, price, quantity) \in 0 .. Unit
<1> USE UnitAssumption
<1> DEFINE spread == Ticks(i)
           distance == Distance(i, side, price) \div i.tick
           base == i.fill[side]
           depth == Depth(i, side)
           ahead == IF Distance(i, side, price) = 0 THEN Queue(i, side) ELSE 0
<1>1. base \in 0 .. Unit /\ depth \in Int /\ ahead \in Int
  BY DEF QuoteInput, Depth, Queue
<1>3. CASE spread <= 0
  BY <1>1, <1>3 DEF FillAt
<1>4. CASE ~(spread <= 0)
  <2>1. i.tick \in Nat \ {0} /\ {i.bid, i.ask} \subseteq Int
    BY <1>4 DEF QuoteInput, Ticks
  <2>2. spread \in Nat \ {0}
    <3>1. (i.ask - i.bid) \div i.tick \in Int
      BY <2>1, Quotients
    <3> QED
      BY <1>4, <2>1, <3>1 DEF Ticks
  <2>3. distance \in Int
    <3>1. Distance(i, side, price) \in Int
      BY <2>1 DEF Distance, Touch
    <3> QED
      BY <2>1, <3>1, Quotients
  <2>4. FillAt(i, side, price, quantity) = CandidateFill(base, depth, ahead, quantity, distance, spread)
    BY <1>4 DEF FillAt
  <2> HIDE DEF spread, distance, base, depth, ahead
  <2>5. ASSUME NEW a \in Int PROVE QueueSurvival(depth, a, quantity) \in Int
    <3>1. CASE depth <= 0 \/ quantity <= 0
      BY <3>1 DEF QueueSurvival
    <3>2. CASE ~(depth <= 0 \/ quantity <= 0)
      <4> DEFINE all == depth + Higher(a, 0) + 2 * quantity
      <4>1. all \in Nat \ {0}
        BY <1>1, <2>5, <3>2 DEF Higher
      <4>2. depth * Unit \in Int
        BY <1>1
      <4> HIDE DEF all
      <4>3. (depth * Unit) \div all \in Int
        BY <4>1, <4>2, Quotients
      <4>4. Unit \div 20 \in Int /\ Unit - Unit \div 20 \in Int
        OBVIOUS
      <4> QED
        BY <3>2, <4>3, <4>4 DEF QueueSurvival, Between, Higher, Lower, all
    <3> QED
      BY <3>1, <3>2
  <2>6. CASE distance <= 0
    BY <1>1, <2>2, <2>4, <2>6 DEF CandidateFill
  <2>7. CASE ~(distance <= 0)
    <3> DEFINE gain == Higher(QueueSurvival(depth, 0, quantity) - QueueSurvival(depth, ahead, quantity), 0)
               adjusted == Between(0, Lower(base, Unit) + gain, Unit)
               progress == Between(0, (distance * Unit) \div spread, Unit)
               all == adjusted + ((Unit - adjusted) * progress) \div Unit
    <3>1. gain \in Int
      BY <1>1, <2>5 DEF Higher
    <3>2. adjusted \in 0 .. Unit
      BY <1>1, <3>1 DEF Between, Higher, Lower
    <3>3. progress \in 0 .. Unit
      <4>1. (distance * Unit) \div spread \in Int
        BY <2>2, <2>3, Quotients
      <4> QED
        BY <4>1 DEF Between, Higher, Lower
    <3>4. all \in Int
      <4> HIDE DEF adjusted, progress
      <4>1. (Unit - adjusted) * progress \in Int
        BY <3>2, <3>3
      <4> QED
        BY <3>2, <4>1, Quotients
    <3>5. CandidateFill(base, depth, ahead, quantity, distance, spread) = Between(0, all, Unit)
      BY <2>2, <2>7 DEF CandidateFill
    <3> HIDE DEF all
    <3>6. Between(0, all, Unit) \in 0 .. Unit
      BY <3>4 DEF Between, Higher, Lower
    <3> QED
      BY <2>4, <3>5, <3>6
  <2> QED
    BY <2>3, <2>6, <2>7
<1> QED
  BY <1>3, <1>4

\* What an input is made of.
LEMMA SurchargesAre ==
    ASSUME NEW i, QuoteInput(i), i.max > 0, i.skew >= 0, NEW side \in {1, -1}
    PROVE  Surcharge(i, side) \in Nat
<1> USE UnitAssumption
<1>1. {i.position, i.max, i.skew} \subseteq Int
  BY DEF QuoteInput
<1> DEFINE share == (Size(i.position) * Unit) \div i.max
<1>2. share \in Nat
  <2>1. Size(i.position) * Unit \in Nat
    BY <1>1, Smaller, Positive
  <2> QED
    BY <1>1, <2>1, Quotients
<1> HIDE DEF share
<1>3. Lower(share, Unit) \in Nat
  BY <1>2 DEF Lower
<1>4. Lower(share, Unit) * i.skew \in Nat
  BY <1>1, <1>3, Positive
<1>5. (Lower(share, Unit) * i.skew) \div Unit \in Nat
  BY <1>4, Quotients
<1> QED
  BY <1>5 DEF Surcharge, share

LEMMA HurdlesAre ==
    ASSUME NEW t \in [Components -> Int], NEW extra \in Nat
    PROVE  /\ WithAdverse(t, extra) \in [Components -> Int]
           /\ Required(t) \in Int /\ Required(WithAdverse(t, extra)) \in Int
           /\ Required(t) <= Required(WithAdverse(t, extra))
           /\ \A c \in Components \ {"adverse"} : WithAdverse(t, extra)[c] = t[c]
<1> DEFINE u == WithAdverse(t, extra)
<1>1. \A c \in Components : t[c] \in Int
  OBVIOUS
<1>2. /\ u \in [Components -> Int] /\ u["adverse"] = t["adverse"] + extra
      /\ \A c \in Components \ {"adverse"} : u[c] = t[c]
  BY <1>1 DEF WithAdverse, Components
<1>3. ASSUME NEW v \in [Components -> Int]
      PROVE  /\ v.floor \in Int /\ v.volatility \in Int /\ v.uncertainty \in Int /\ v.cost \in Int
             /\ v.deadline \in Int /\ v.safety \in Int /\ v.spread \in Int /\ v.adverse \in Int
             /\ v.liquidity \in Int /\ v.inventory \in Int /\ v.tail \in Int /\ v.statistical \in Int
  BY <1>3 DEF Components
<1>4. /\ u.floor = t.floor /\ u.volatility = t.volatility /\ u.uncertainty = t.uncertainty
      /\ u.cost = t.cost /\ u.deadline = t.deadline /\ u.safety = t.safety /\ u.spread = t.spread
      /\ u.adverse = t.adverse + extra /\ u.liquidity = t.liquidity
      /\ u.inventory = t.inventory /\ u.tail = t.tail /\ u.statistical = t.statistical
  BY <1>2 DEF Components
<1> HIDE DEF u
<1> DEFINE base(v) == Higher(v.floor, Higher(v.volatility, v.uncertainty))
           sum(v) == base(v) + v.cost + v.deadline + v.safety + v.spread + v.adverse + v.liquidity
                       + v.inventory + v.tail
<1>5. ASSUME NEW v \in [Components -> Int]
      PROVE  base(v) \in Int /\ sum(v) \in Int /\ Required(v) = Higher(sum(v), v.statistical)
  <2>1. base(v) \in Int
    BY <1>3 DEF Higher
  <2>2. Required(v) = Higher(sum(v), v.statistical)
    BY DEF Required
  <2> HIDE DEF base
  <2>3. sum(v) \in Int
    BY <1>3, <2>1
  <2> QED
    BY <2>1, <2>2, <2>3
<1>6. base(u) = base(t)
  BY <1>4
<1> HIDE DEF base
<1>7. sum(u) = sum(t) + extra
  BY <1>2, <1>3, <1>4, <1>5, <1>6
<1> HIDE DEF sum
<1>8. ASSUME NEW a \in Int, NEW b \in Int, NEW c \in Int, a <= b
      PROVE  Higher(a, c) \in Int /\ Higher(b, c) \in Int /\ Higher(a, c) <= Higher(b, c)
  BY <1>8 DEF Higher
<1>9. Required(t) = Higher(sum(t), t.statistical) /\ Required(u) = Higher(sum(u), t.statistical)
  BY <1>2, <1>4, <1>5
<1>10. sum(t) \in Int /\ sum(u) \in Int /\ sum(t) <= sum(u) /\ t.statistical \in Int
  BY <1>2, <1>3, <1>5, <1>7
<1>11. Required(t) \in Int /\ Required(u) \in Int /\ Required(t) <= Required(u)
  BY <1>8, <1>9, <1>10
<1> QED
  BY <1>2, <1>11 DEF u

\* What is paid for a quote, and what it is worth.
LEMMA EdgesAre ==
    ASSUME NEW i, QuoteInput(i), NEW side \in {1, -1}, NEW price \in Int
    PROVE  Edge(i, side, price) \in Nat /\ Distance(i, side, price) \in Int
<1>1. {i.anchor, i.bid, i.ask} \subseteq Int
  BY DEF QuoteInput
<1>2. Higher(side * (i.anchor - price), 0) \in Nat
  BY <1>1 DEF Higher
<1>3. Edge(i, side, price) \in Nat
  BY <1>2, UnitAssumption, Positive DEF Edge
<1>4. Distance(i, side, price) \in Int
  BY <1>1 DEF Distance, Touch
<1> QED
  BY <1>3, <1>4

LEMMA SidesRequire ==
    ASSUME NEW i, QuoteInput(i), Unusable(i) = "none", NEW side \in {1, -1}
    PROVE  /\ SideRequired(i, side) \in Int /\ Surcharge(i, side) \in Nat
           /\ Required(i.threshold) - Higher(i.relief, 0) \in Int
           /\ SideRequired(i, side) >= Required(i.threshold) - Higher(i.relief, 0)
           /\ Hurdle(i, side).cost = i.threshold.cost
           /\ {Hurdle(i, side).cost, Hurdle(i, side).inventory, Hurdle(i, side).deadline} \subseteq Nat
<1>0. {i.max, i.skew, i.adverse[1], i.adverse[-1]} \subseteq Int
  BY DEF QuoteInput
<1>1. /\ Valid(i.threshold) /\ i.adverse[1] >= 0 /\ i.adverse[-1] >= 0 /\ i.skew >= 0 /\ i.max > 0
  BY <1>0 DEF Unusable
<1>2. i.threshold \in [Components -> Int] /\ i.adverse[side] \in Nat /\ i.relief \in Int
  BY <1>1 DEF QuoteInput
<1>3. Surcharge(i, side) \in Nat
  BY <1>1, SurchargesAre
<1>4. Higher(i.relief, 0) \in Int
  BY <1>2 DEF Higher
<1>5. /\ Required(i.threshold) \in Int /\ Required(Hurdle(i, side)) \in Int
      /\ Required(i.threshold) <= Required(Hurdle(i, side))
      /\ \A c \in Components \ {"adverse"} : Hurdle(i, side)[c] = i.threshold[c]
  BY <1>2, HurdlesAre DEF Hurdle
<1>6. /\ Hurdle(i, side).cost = i.threshold.cost /\ Hurdle(i, side).inventory = i.threshold.inventory
      /\ Hurdle(i, side).deadline = i.threshold.deadline
  BY <1>5 DEF Components
<1>7. {i.threshold.cost, i.threshold.inventory, i.threshold.deadline} \subseteq Nat
  BY <1>1, <1>2 DEF Valid, Components
<1> QED
  BY <1>3, <1>4, <1>5, <1>6, <1>7 DEF SideRequired

LEMMA ScoresAre ==
    ASSUME NEW i, QuoteInput(i), Unusable(i) = "none", NEW side \in {1, -1}, NEW price \in Int,
           NEW quantity \in Int
    PROVE  Score(i, side, price, quantity) \in Int
<1>1. i.anchor \in Int
  BY DEF QuoteInput
<1>2. SideRequired(i, side) \in Int /\ Edge(i, side, price) \in Int
      /\ FillAt(i, side, price, quantity) \in Int
  BY SidesRequire, EdgesAre, FillsAreShares, UnitAssumption
<1>3. SideRequired(i, side) * i.anchor \in Int
  BY <1>1, <1>2
<1> QED
  BY <1>2, <1>3 DEF Score

\* The price that is chosen is one of those that do not cross.
LEMMA BestIsPassive ==
    ASSUME NEW i, QuoteInput(i), Unusable(i) = "none", NEW side \in {1, -1}, NEW quantity \in Int
    PROVE  LET p == BestPrice(i, side, quantity)
           IN  /\ p \in Int
               /\ p # None /\ i.tick > 0 => side * (Touch(i, -side) - p) > 0
<1>1. {i.bid, i.ask, i.tick} \subseteq Int
  BY DEF QuoteInput
<1> DEFINE good == {p \in PassivePrices(i, side) : Clears(i, side, p, quantity)}
           R == {pq \in (i.bid .. i.ask) \X (i.bid .. i.ask) :
                   Ordered(i, side, pq[1], pq[2], quantity)}
           best == BestOf(i, side, good, quantity)
<1>2. \A p \in i.bid .. i.ask : /\ p \in Int /\ Score(i, side, p, quantity) \in Int
                                /\ Edge(i, side, p) \in Int /\ Distance(i, side, p) \in Int
  BY <1>1, ScoresAre, EdgesAre
<1>3. \A p, q \in i.bid .. i.ask : p # q => Distance(i, side, p) # Distance(i, side, q)
  BY <1>1 DEF Distance, Touch
<1>4. \A p, q \in i.bid .. i.ask : <<p, q>> \in R <=> Ordered(i, side, p, q, quantity)
  OBVIOUS
<1>5. \A p, q, r \in i.bid .. i.ask : <<p, q>> \in R /\ <<q, r>> \in R => <<p, r>> \in R
  <2> SUFFICES ASSUME NEW p \in i.bid .. i.ask, NEW q \in i.bid .. i.ask, NEW r \in i.bid .. i.ask,
                      Ordered(i, side, p, q, quantity), Ordered(i, side, q, r, quantity)
               PROVE  Ordered(i, side, p, r, quantity)
    BY <1>4
  <2> QED
    BY <1>2 DEF Ordered
<1>6. \A p, q \in i.bid .. i.ask : p # q => <<p, q>> \in R \/ <<q, p>> \in R
  <2> SUFFICES ASSUME NEW p \in i.bid .. i.ask, NEW q \in i.bid .. i.ask, p # q
               PROVE  Ordered(i, side, p, q, quantity) \/ Ordered(i, side, q, p, quantity)
    BY <1>4
  <2> QED
    BY <1>2, <1>3 DEF Ordered
<1>7. good \in SUBSET (i.bid .. i.ask)
  BY DEF PassivePrices
<1> HIDE DEF R
<1>8. good # {} => best \in good
  <2> SUFFICES ASSUME good # {} PROVE best \in good
    OBVIOUS
  <2>1. \E p \in good : \A q \in good \ {p} : <<p, q>> \in R
    <3> HIDE DEF good
    <3> QED
      BY <1>1, <1>5, <1>6, <1>7, FirstOfAll
  <2>2. \E p \in good : \A q \in good \ {p} : Ordered(i, side, p, q, quantity)
    <3> HIDE DEF good
    <3> QED
      BY <1>4, <1>7, <2>1
  <2> HIDE DEF good
  <2> QED
    BY <2>2 DEF BestOf
<1>9. CASE i.tick <= 0
  BY <1>1, <1>9 DEF BestPrice, Touch
<1>10. CASE ~(i.tick <= 0) /\ Ticks(i) <= 0
  BY <1>10 DEF BestPrice, None
<1>11. CASE ~(i.tick <= 0) /\ ~(Ticks(i) <= 0)
  <2>1. BestPrice(i, side, quantity) = best
    BY <1>11 DEF BestPrice
  <2>2. CASE good = {}
    <3>1. best = None
      BY <2>2 DEF BestOf
    <3> QED
      BY <2>1, <3>1 DEF None
  <2>3. CASE good # {}
    <3>1. best \in PassivePrices(i, side)
      BY <1>8, <2>3
    <3> HIDE DEF best
    <3>2. best \in i.bid .. i.ask /\ best # Touch(i, -side)
      BY <3>1 DEF PassivePrices
    <3>3. side * (Touch(i, -side) - best) > 0
      BY <1>1, <3>2 DEF Touch
    <3> QED
      BY <1>1, <2>1, <3>2, <3>3
  <2> HIDE DEF best, good
  <2> QED
    BY <2>2, <2>3
<1> QED
  BY <1>9, <1>10, <1>11

\* What clears its hurdle pays for it, before any probability is applied.
LEMMA ClearedPays ==
    ASSUME NEW i, QuoteInput(i), Unusable(i) = "none", NEW side \in {1, -1}, NEW price \in Int,
           NEW quantity \in Int, Clears(i, side, price, quantity)
    PROVE  /\ Edge(i, side, price) > (Required(i.threshold) - Higher(i.relief, 0)) * i.anchor
           /\ i.fillAware => Edge(i, side, price) * 100 > i.threshold.cost * 100 * i.anchor
<1> USE UnitAssumption
<1>1. i.anchor \in Nat \ {0}
  <2>1. i.anchor \in Int
    BY DEF QuoteInput
  <2> QED
    BY <2>1 DEF Unusable
<1> DEFINE edge == Edge(i, side, price)
           least == Required(i.threshold) - Higher(i.relief, 0)
           fill == FillAt(i, side, price, quantity)
           cost == Hurdle(i, side).cost
           inventory == (Hurdle(i, side).inventory + Surcharge(i, side)) * 100
           deadline == Hurdle(i, side).deadline * 100
           parts == (edge * 100) \div i.anchor
           value == (parts * fill * i.confidence) \div (Unit * Unit)
<1>2. edge \in Nat /\ fill \in 0 .. Unit /\ i.confidence \in 0 .. Unit
  BY EdgesAre, FillsAreShares DEF QuoteInput
<1>3. /\ cost \in Nat /\ cost = i.threshold.cost /\ inventory \in Nat /\ deadline \in Nat
      /\ SideRequired(i, side) \in Int /\ least \in Int /\ SideRequired(i, side) >= least
  BY SidesRequire
<1>4. edge > least * i.anchor
  <2>1. edge > SideRequired(i, side) * i.anchor
    BY DEF Clears
  <2>2. least * i.anchor <= SideRequired(i, side) * i.anchor
        /\ least * i.anchor \in Int /\ SideRequired(i, side) * i.anchor \in Int
    <3> HIDE DEF least
    <3> QED
      BY <1>1, <1>3, Products
  <2> HIDE DEF edge, least
  <2> QED
    BY <1>2, <2>1, <2>2
<1>5. ASSUME i.fillAware PROVE edge * 100 > cost * 100 * i.anchor
  <2>1. value - cost * 100 - inventory - deadline > 0
    BY <1>5 DEF Clears, ConditionallyAdmissible, ConditionalValue
  <2> HIDE DEF edge, cost, inventory, deadline, fill
  <2>2. parts \in Nat /\ parts * i.anchor <= edge * 100
    <3>1. edge * 100 \in Nat
      BY <1>2
    <3> DEFINE whole == edge * 100
               units == i.anchor
    <3>2. whole \in Nat /\ units \in Nat \ {0} /\ parts = whole \div units
      BY <1>1, <3>1
    <3> HIDE DEF whole, units, parts
    <3>3. /\ whole \div units \in Int /\ (whole \div units) * units <= whole
          /\ whole >= 0 => whole \div units >= 0
      BY <3>2, Quotients
    <3>4. parts \in Nat /\ parts * units <= whole
      BY <3>2, <3>3
    <3> QED
      BY <3>4 DEF whole, units
  <2> HIDE DEF parts
  <2>3. value \in Int /\ value <= parts
    <3>1. parts * fill \in Nat /\ parts * fill <= parts * Unit
      BY <1>2, <2>2
    <3>2. (parts * fill) * i.confidence <= (parts * fill) * Unit
      BY <1>2, <3>1
    <3>3. (parts * fill) * Unit <= (parts * Unit) * Unit
      BY <2>2, <3>1
    <3>4. (parts * fill) * i.confidence \in Nat /\ Unit * Unit \in Nat \ {0}
      BY <1>2, <3>1, Positive
    <3>5. (parts * Unit) * Unit = parts * (Unit * Unit)
      BY <2>2
    <3>6. (parts * fill) * i.confidence <= parts * (Unit * Unit)
      BY <1>2, <2>2, <3>1, <3>2, <3>3, <3>4, <3>5
    <3> QED
      BY <2>2, <3>4, <3>6, Quotients
  <2> HIDE DEF value
  <2>4. cost * 100 + 1 <= parts
    BY <1>3, <2>1, <2>2, <2>3
  <2>5. (cost * 100 + 1) * i.anchor <= parts * i.anchor
    BY <1>1, <1>3, <2>2, <2>4, Products
  <2>6. (cost * 100 + 1) * i.anchor = cost * 100 * i.anchor + i.anchor /\ cost * 100 * i.anchor \in Int
    BY <1>1, <1>3
  <2>7. parts * i.anchor \in Int
    BY <1>1, <2>2
  <2> QED
    BY <1>1, <1>2, <2>2, <2>5, <2>6, <2>7
<1> QED
  BY <1>3, <1>4, <1>5

\* decide(), for every input: a quote has something to trade, keeps a position that is within
\* the limit within it and adds to none beyond it, does not cross the book of a price grid,
\* and its edge pays for its hurdle in full and for the costs in cash.
THEOREM QuotesStaySafe == ASSUME NEW i, QuoteInput(i) PROVE QuoteIsSafe(i)
<1> DEFINE price == [s \in {1, -1} |-> BestPrice(i, s, Lower(i.requested, i.max))]
           admissible == {s \in {1, -1} : /\ price[s] # None
                                          /\ SideQuantity(i, s) > 0
                                          /\ Clears(i, s, price[s], SideQuantity(i, s))}
           d == Decide(i)
<1>1. {i.requested, i.max, i.position, i.tick} \subseteq Int
  BY DEF QuoteInput
<1>2. SUFFICES ASSUME d.side # 0 PROVE QuoteFits(i, d)
  BY DEF QuoteIsSafe, QuoteFits
<1>3. Unusable(i) = "none" /\ d = Choice(i, price, admissible)
  <2>1. Blocked(Unusable(i)).side = 0
    BY DEF Blocked
  <2> QED
    BY <1>2, <2>1 DEF Decide, QuoteAt
<1>4. d.side \in admissible /\ d = Quote(i, d.side, price)
  <2> HIDE DEF price
  <2>1. admissible # {}
    <3>1. SUFFICES ASSUME admissible = {} PROVE FALSE
      OBVIOUS
    <3>2. d.side = 0
      BY <1>3, <3>1 DEF Choice, Blocked
    <3> QED
      BY <1>2, <3>2
  <2>2. CASE Cardinality(admissible) = 1
    <3> DEFINE s == CHOOSE s \in admissible : TRUE
    <3>1. s \in admissible
      BY <2>1
    <3> HIDE DEF admissible
    <3>2. d = Quote(i, s, price)
      BY <1>3, <2>1, <2>2 DEF Choice
    <3> HIDE DEF s
    <3> QED
      BY <3>1, <3>2 DEF Quote
  <2>3. CASE Cardinality(admissible) # 1
    <3>1. \A s \in admissible : admissible # {s}
      BY <2>3, FS_Singleton
    <3>2. admissible = {1, -1}
      BY <2>1, <3>1
    <3> HIDE DEF admissible
    <3>3. PICK s \in {1, -1} : d = Quote(i, s, price)
      BY <1>3, <2>1, <2>3 DEF Choice
    <3> QED
      BY <3>2, <3>3 DEF Quote
  <2> QED
    BY <2>2, <2>3
<1> DEFINE side == d.side
           quantity == SideQuantity(i, side)
<1>5. side \in {1, -1} /\ d.price = price[side] /\ d.quantity = quantity
  BY <1>4 DEF Quote
<1> HIDE DEF d
<1>6. /\ d.price = BestPrice(i, side, Lower(i.requested, i.max)) /\ d.price # None
      /\ quantity > 0 /\ Clears(i, side, d.price, quantity)
  BY <1>4, <1>5
<1> HIDE DEF price, admissible
<1>7. quantity \in Int /\ quantity <= i.max - side * i.position
  <2>1. side * i.position \in Int
    BY <1>1, <1>5
  <2> QED
    BY <1>1, <1>6, <2>1 DEF SideQuantity, Remaining, Lower, Higher
<1>8. d.price \in Int /\ (i.tick > 0 => side * (Touch(i, -side) - d.price) > 0)
  <2>1. Lower(i.requested, i.max) \in Int
    BY <1>1 DEF Lower
  <2> QED
    BY <1>3, <1>5, <1>6, <2>1, BestIsPassive
<1>9. Size(i.position + side * quantity) <= Higher(i.max, Size(i.position))
  BY <1>1, <1>5, <1>6, <1>7 DEF Size, Higher
<1>10. /\ Edge(i, side, d.price) > (Required(i.threshold) - Higher(i.relief, 0)) * i.anchor
       /\ i.fillAware => Edge(i, side, d.price) * 100 > i.threshold.cost * 100 * i.anchor
  BY <1>3, <1>5, <1>6, <1>7, <1>8, ClearedPays
<1> QED
  BY <1>5, <1>6, <1>8, <1>9, <1>10 DEF QuoteFits

-----------------------------------------------------------------------------
(* Gates.                                                                  *)

\* What the gates are called with.
GateInput(i) ==
    /\ {i.now, i.market, i.maxAge, i.position, i.requested, i.price, i.bid, i.ask,
        i.anchor.from, i.anchor.until} \subseteq Int
    /\ i = [i EXCEPT !.position = i.position]

\* An entry that is let through is what the limit leaves of it.
LEMMA EntriesFit ==
    ASSUME NEW i, GateInput(i), NEW max \in Nat \ {0},
           Gates!WithinLimit(i, max).action = "AllowEntry"
    PROVE  /\ Gates!WithinLimit(i, max).quantity > 0
           /\ Gates!Absolute(i.position) + Gates!WithinLimit(i, max).quantity <= max
           /\ i.market <= i.now /\ i.now < i.anchor.until
<1>1. {i.now, i.market, i.position, i.requested, i.anchor.until} \subseteq Int
  BY DEF GateInput
<1> QED
  BY <1>1 DEF Gates!WithinLimit, Gates!Verdict, Gates!AllowsEntry, Gates!MarketFresh,
              Gates!AnchorValid, Gates!Absolute, Gates!Lesser

LEMMA PolicyFits ==
    ASSUME NEW i, GateInput(i), NEW threshold, NEW max \in Nat \ {0},
           Gates!AnchorPolicyDecision(i, threshold, max).side # 0
    PROVE  LET policy == Gates!AnchorPolicyDecision(i, threshold, max)
           IN  Gates!Absolute(i.position + policy.side * policy.quantity)
                 <= Gates!Greater(max, Gates!Absolute(i.position))
<1> DEFINE policy == Gates!AnchorPolicyDecision(i, threshold, max)
           s == policy.side
<1>1. {i.position, i.requested} \subseteq Int
  BY DEF GateInput
<1>2. /\ s \in {1, -1} /\ i.requested > 0 /\ policy.quantity # 0
      /\ policy.quantity = Gates!Lesser(Gates!Lesser(i.requested, max), Gates!Greater(max - s * i.position, 0))
  <2> DEFINE off == ((i.bid + i.ask) \div 2 - i.price) * Unit
             side == IF off <= -(threshold * i.price) THEN 1
                     ELSE IF off >= threshold * i.price THEN -1 ELSE 0
             quantity == Gates!Lesser(Gates!Lesser(i.requested, max), Gates!Greater(max - side * i.position, 0))
             bad == \/ i.price <= 0 \/ i.bid <= 0 \/ i.ask < i.bid \/ i.requested <= 0
                    \/ side = 0 \/ quantity = 0
  <2>1. policy = IF bad THEN [side |-> 0, quantity |-> 0] ELSE [side |-> side, quantity |-> quantity]
    BY DEF Gates!AnchorPolicyDecision
  <2>2. side \in {1, -1, 0} /\ (side = 0 \/ quantity = 0 \/ i.requested <= 0 => bad)
    OBVIOUS
  <2> DEFINE amount(z) == Gates!Lesser(Gates!Lesser(i.requested, max), Gates!Greater(max - z * i.position, 0))
  <2>3. quantity = amount(side)
    OBVIOUS
  <2> HIDE DEF policy, side, quantity, bad, amount
  <2>4. ~bad
    BY <2>1 DEF policy
  <2>5. policy.side = side /\ policy.quantity = quantity
    BY <2>1, <2>4
  <2> QED
    BY <1>1, <2>2, <2>3, <2>4, <2>5 DEF amount
<1> DEFINE q == policy.quantity
<1> HIDE DEF policy
<1>3. q \in Int /\ q > 0 /\ q <= Gates!Greater(max - s * i.position, 0)
  BY <1>1, <1>2 DEF Gates!Lesser, Gates!Greater
<1> HIDE DEF q
<1>4. CASE s = 1
  <2>1. i.position + q <= max /\ s * q = q
    BY <1>1, <1>3, <1>4 DEF Gates!Greater
  <2> QED
    BY <1>1, <1>3, <1>4, <2>1 DEF Gates!Greater, Gates!Absolute, q, policy
<1>5. CASE s = -1
  <2>1. q - i.position <= max /\ s * q = -q
    BY <1>1, <1>3, <1>5 DEF Gates!Greater
  <2> QED
    BY <1>1, <1>3, <1>5, <2>1 DEF Gates!Greater, Gates!Absolute, q, policy
<1> QED
  BY <1>2, <1>4, <1>5 DEF policy

\* SessionRiskGate, FundingAwareRiskGate and AnchorPolicy of every input, session and plan:
\* what they let in stays within a maximum their constructors accept, is on a current market
\* and anchor, and would not have to be flattened at once.
THEOREM GatesStayWithinLimit ==
    ASSUME NEW i, GateInput(i), NEW session, NEW plan, NEW threshold, NEW max \in Nat \ {0}
    PROVE  Gates!GatesKeepTheLimit(i, session, plan, threshold, max)
<1> DEFINE within == Gates!WithinLimit(i, max)
<1>1. ASSUME Gates!SessionGate(i, session, max).action = "AllowEntry"
      PROVE  Gates!SessionGate(i, session, max) = within
  BY <1>1 DEF Gates!SessionGate, Gates!Verdict
<1>2. ASSUME Gates!FundingGate(i, plan, max).action = "AllowEntry"
      PROVE  /\ Gates!FundingGate(i, plan, max) = within
             /\ Gates!PhaseAt(plan, i.now, TRUE) = "Trading"
  BY <1>2 DEF Gates!FundingGate, Gates!Verdict
<1>3. ASSUME Gates!FundingGate(i, plan, max).action = "AllowEntry"
      PROVE  Gates!FundingGate([i EXCEPT !.position = 1], plan, max).action # "Flatten"
  <2> DEFINE j == [i EXCEPT !.position = 1]
  <2>1. j.now = i.now
    BY DEF GateInput
  <2>2. Gates!PhaseAt(plan, j.now, j.position # 0) # "ReduceOnly"
    BY <1>2, <1>3, <2>1 DEF Gates!PhaseAt
  <2>3. Gates!WithinLimit(j, max).action # "Flatten"
    BY DEF Gates!WithinLimit, Gates!Verdict, Gates!AllowsEntry
  <2> QED
    BY <2>2, <2>3 DEF Gates!FundingGate, Gates!Verdict
<1>4. ASSUME within.action = "AllowEntry"
      PROVE  /\ within.quantity > 0 /\ Gates!Absolute(i.position) + within.quantity <= max
             /\ i.market <= i.now /\ i.now < i.anchor.until
  BY <1>4, EntriesFit
<1> QED
  BY <1>1, <1>2, <1>3, <1>4, PolicyFits DEF Gates!GatesKeepTheLimit

-----------------------------------------------------------------------------
(* Funding.                                                                *)

\* The state of a symbol the engine asks with.
FundingInput(s) ==
    /\ s \in [anchor : Int, mid : Int, mark : Int, index : Int, position : Int, max : Int,
              known : BOOLEAN, rate : Int, next : Int, now : Int, fee : Int, volatility : Int,
              spread : Int]

\* A carry that is shown as a payment is one of half a basis point or more (pico_to_bps).
LEMMA RoundsToPayment ==
    ASSUME PicoBpsScale \in Nat \ {0}, NEW carry \in Int
    PROVE  Controls!Rounded(carry) < 0 <=> -2 * carry >= PicoBpsScale
<1> DEFINE half == PicoBpsScale \div 2
           size == Controls!Size(carry)
           whole == (size + half) \div PicoBpsScale
<1>1. half \in Nat /\ 2 * half <= PicoBpsScale /\ PicoBpsScale <= 2 * half + 1
  OBVIOUS
<1>2. size \in Nat /\ (carry < 0 => size = -carry)
  BY DEF Controls!Size, Controls!Sign
<1>3. whole \in Nat /\ (whole > 0 <=> size + half >= PicoBpsScale)
  <2> HIDE DEF half, size
  <2>1. whole \in Int /\ PicoBpsScale * whole <= size + half
        /\ size + half < PicoBpsScale * whole + PicoBpsScale
    BY <1>1, <1>2, Quotients
  <2>2. whole >= 0
    BY <1>1, <1>2
  <2> HIDE DEF whole
  <2>3. CASE whole = 0
    <3>1. PicoBpsScale * whole = 0
      BY <2>3
    <3> QED
      BY <1>1, <1>2, <2>1, <2>3, <3>1
  <2>4. CASE whole >= 1
    <3>1. PicoBpsScale * whole >= PicoBpsScale
      BY <2>1, <2>4
    <3> QED
      BY <1>1, <1>2, <2>1, <2>4, <3>1
  <2> QED
    BY <2>1, <2>2, <2>3, <2>4
<1>4. Controls!Rounded(carry) = Controls!Sign(carry) * whole
  BY DEF Controls!Rounded
<1> HIDE DEF half, size, whole
<1>5. CASE carry < 0
  <2>1. Controls!Rounded(carry) = -whole
    BY <1>3, <1>4, <1>5 DEF Controls!Sign
  <2> QED
    BY <1>1, <1>2, <1>3, <1>5, <2>1
<1>6. CASE carry >= 0
  BY <1>3, <1>4, <1>6 DEF Controls!Sign
<1> QED
  BY <1>5, <1>6

\* A flat symbol is let in exactly when the payment is known, and nothing speaks
\* against it: there is none, it is not shown as against the symbol, or the edge pays
\* for it.
LEMMA FlatIsAllowedWhen ==
    ASSUME NEW s, FundingInput(s), s.position = 0
    PROVE  LET i == Controls!EngineInput(s)
           IN  Controls!FundingAllowed(s) <=>
                 /\ s.known
                 /\ \/ Controls!InvalidFunding(i) \/ ~i.scheduled \/ Controls!AnchorEdge(i) = 0
                    \/ Controls!NetEdge(i) > Controls!Safety(i)
                    \/ ~(Controls!Rounded(Controls!Carry(i)) < 0)
<1> DEFINE i == Controls!EngineInput(s)
           d == Controls!FundingDecision(i)
           unasked == \/ Controls!InvalidFunding(i) \/ ~i.scheduled
<1>1. i.position = 0 /\ i.known = s.known /\ i.status = IF s.known THEN "Observed" ELSE "Missing"
  BY DEF Controls!EngineInput
<1>2. Controls!FundingAllowed(s) <=>
         /\ Controls!FundingOverlay(d, i.status, 0).base
         /\ d.entry \/ d.action \in {"Avoid", "NoAction"}
  BY DEF Controls!FundingAllowed
<1> HIDE DEF i
<1>3. CASE ~s.known
  BY <1>1, <1>2, <1>3 DEF Controls!FundingOverlay, Controls!Overlaid
<1>4. CASE s.known
  <2>1. Controls!FundingOverlay(d, i.status, 0).base
          <=> ~(d.action = "Exit") /\ ~(d.action = "Avoid" /\ d.carry < 0)
    BY <1>1, <1>4 DEF Controls!FundingOverlay, Controls!Overlaid
  <2>2. Controls!FundingUnknown(i) <=> ~i.scheduled
    BY <1>1, <1>4 DEF Controls!FundingUnknown
  <2>3. CASE unasked
    <3>1. d = Controls!NoFunding
      BY <2>2, <2>3 DEF Controls!FundingDecision
    <3> QED
      BY <1>2, <1>4, <2>1, <2>3, <3>1 DEF Controls!NoFunding, Controls!Funding, i
  <2>4. CASE ~unasked
    <3>1. d = IF Controls!AnchorEdge(i) = 0
              THEN Controls!Funding("NoAction", FALSE, FALSE, Controls!Rounded(Controls!Carry(i)))
              ELSE IF Controls!NetEdge(i) > Controls!Safety(i)
              THEN Controls!Funding(IF Controls!Near(i) /\ Controls!Carry(i) > 0 THEN "Collect" ELSE "Tolerate",
                           TRUE, FALSE, Controls!Rounded(Controls!Carry(i)))
              ELSE Controls!Funding("Avoid", FALSE, FALSE, Controls!Rounded(Controls!Carry(i)))
      BY <1>1, <2>2, <2>4 DEF Controls!FundingDecision
    <3> HIDE DEF d
    <3> QED
      BY <1>2, <1>4, <2>1, <2>4, <3>1 DEF Controls!Funding, i
  <2> QED
    BY <2>3, <2>4
<1> QED
  BY <1>3, <1>4 DEF i

\* What a side pays or is paid is a whole number of parts.
LEMMA CarryIsWhole ==
    ASSUME NEW s, FundingInput(s)
    PROVE  Controls!Carry(Controls!EngineInput(s)) \in Int
<1> DEFINE i == Controls!EngineInput(s)
<1>1. i.rate \in Int /\ i.position \in Int /\ i.anchor \in Int /\ i.mid \in Int
  BY DEF Controls!EngineInput, FundingInput
<1> HIDE DEF i
<1>2. Controls!FundedSide(i) \in {1, 0, -1}
  BY <1>1 DEF Controls!FundedSide, Controls!SignalSide, Controls!Sign
<1>3. -Controls!FundedSide(i) * i.rate \in Int
  BY <1>1, <1>2
<1> QED
  BY <1>3 DEF Controls!Carry, i

\* rebalance_symbol with m8::decide, of every market and every set of rates: a flat symbol
\* enters against a payment of half a basis point or more only if its edge pays for it and
\* twice the costs, never on a rate that is not known, and a better rate never closes the gate.
THEOREM FundingStaysPaidFor ==
    ASSUME PicoBpsScale \in Nat \ {0}, BasisPoints \in Int, SafetyMargin \in Int,
           NEW s, FundingInput(s), NEW rates \in SUBSET Int
    PROVE  Controls!FundingIsPaidFor(s, rates)
<1> DEFINE i == Controls!EngineInput(s)
<1>1. SUFFICES ASSUME s.position = 0, Controls!FundingAllowed(s), NEW better \in rates,
                      Controls!FundedSide(i) * better <= Controls!FundedSide(i) * s.rate
               PROVE  Controls!FundingAllowed([s EXCEPT !.rate = better])
  <2>1. ASSUME s.position = 0, Controls!FundingAllowed(s)
        PROVE  /\ s.known
               /\ i.scheduled /\ ~Controls!InvalidFunding(i) /\ Controls!AnchorEdge(i) > 0
                    /\ -2 * Controls!Carry(i) >= PicoBpsScale
                    => Controls!NetEdge(i) > Controls!Safety(i)
    <3>1. Controls!Carry(i) \in Int
      BY CarryIsWhole
    <3> QED
      BY <2>1, <3>1, FlatIsAllowedWhen, RoundsToPayment
  <2> HIDE DEF i
  <2> QED
    BY <2>1 DEF Controls!FundingIsPaidFor, i
<1> DEFINE t == [s EXCEPT !.rate = better]
           j == Controls!EngineInput(t)
<1>2. FundingInput(t) /\ t.position = 0 /\ t.known = s.known
  BY <1>1 DEF FundingInput
<1>3. s.known /\ s.rate \in Int /\ better \in Int
  BY <1>1, FlatIsAllowedWhen DEF FundingInput
<1>4. j = [i EXCEPT !.rate = better] /\ i.rate = s.rate /\ i.known = s.known
  BY DEF FundingInput, Controls!EngineInput
<1>5. /\ i.anchor = s.anchor /\ i.mid = s.mid /\ i.index = s.index /\ i.position = 0
      /\ i.fee = s.fee /\ i.volatility = 3 * s.volatility /\ i.spread = s.spread
      /\ i.buffer = SafetyMargin
      /\ i.uncertainty = ((Controls!Size(s.mark - s.index) * BasisPoints) \div s.index) \div 2
  BY <1>1 DEF Controls!EngineInput
<1> HIDE DEF i, j, t
<1>6. /\ Controls!InvalidFunding(j) <=> Controls!InvalidFunding(i)
      /\ j.scheduled = i.scheduled /\ Controls!AnchorEdge(j) = Controls!AnchorEdge(i)
      /\ Controls!FundedSide(j) = Controls!FundedSide(i) /\ Controls!Costs(j) = Controls!Costs(i)
      /\ Controls!Safety(j) = Controls!Safety(i) /\ j.known = i.known /\ j.rate = better
  BY <1>4 DEF Controls!InvalidFunding, Controls!AnchorEdge, Controls!FundedSide, Controls!Costs,
              Controls!Safety, Controls!SignalSide
<1>7. Controls!FundedSide(i) \in {1, 0, -1}
  BY <1>5 DEF Controls!FundedSide, Controls!SignalSide, Controls!Sign
<1>8. /\ Controls!Carry(i) = -Controls!FundedSide(i) * s.rate
      /\ Controls!Carry(j) = -Controls!FundedSide(i) * better
  BY <1>3, <1>4, <1>6 DEF Controls!Carry
<1>9. Controls!Carry(i) \in Int /\ Controls!Carry(j) \in Int /\ Controls!Carry(i) <= Controls!Carry(j)
  <2> HIDE DEF i
  <2> DEFINE side == Controls!FundedSide(i)
  <2>1. side * better <= side * s.rate /\ side \in {1, 0, -1}
    BY <1>1, <1>7
  <2>2. Controls!Carry(i) = -side * s.rate /\ Controls!Carry(j) = -side * better
    BY <1>8
  <2> HIDE DEF side
  <2> QED
    BY <1>3, <2>1, <2>2
<1>10. CASE Controls!InvalidFunding(i) \/ ~i.scheduled \/ Controls!AnchorEdge(i) = 0
  BY <1>2, <1>3, <1>6, <1>10, FlatIsAllowedWhen DEF j, t
<1>11. CASE ~(Controls!Rounded(Controls!Carry(i)) < 0)
  <2>1. ~(Controls!Rounded(Controls!Carry(j)) < 0)
    BY <1>9, <1>11, RoundsToPayment
  <2> QED
    BY <1>2, <1>3, <2>1, FlatIsAllowedWhen DEF j, t
<1>12. CASE ~Controls!InvalidFunding(i) /\ Controls!NetEdge(i) > Controls!Safety(i)
  <2>1. {s.anchor, s.mid, s.index, s.mark, s.fee, s.volatility, s.spread} \subseteq Int
    BY DEF FundingInput
  <2>2. s.mid \in Nat \ {0} /\ s.index \in Nat \ {0}
    BY <1>5, <1>12, <2>1 DEF Controls!InvalidFunding
  <2>3. Controls!AnchorEdge(i) \in Int
    <3>1. Controls!Size(s.anchor - s.mid) \in Int
      BY <2>1 DEF Controls!Size, Controls!Sign
    <3>2. Controls!Size(s.anchor - s.mid) * BasisPoints \in Int
      BY <3>1
    <3> QED
      BY <1>5, <2>2, <3>2, Quotients DEF Controls!AnchorEdge
  <2>4. i.uncertainty \in Int
    <3>1. Controls!Size(s.mark - s.index) \in Int
      BY <2>1 DEF Controls!Size, Controls!Sign
    <3>2. Controls!Size(s.mark - s.index) * BasisPoints \in Int
      BY <3>1
    <3>3. (Controls!Size(s.mark - s.index) * BasisPoints) \div s.index \in Int
      BY <2>2, <3>2, Quotients
    <3> QED
      BY <1>5, <3>3
  <2>5. Controls!Costs(i) \in Int
    BY <1>5, <2>1, <2>4 DEF Controls!Costs
  <2>6. Controls!NetEdge(j) >= Controls!NetEdge(i) /\ Controls!NetEdge(i) \in Int
        /\ Controls!NetEdge(j) \in Int /\ Controls!Safety(i) \in Int
    BY <1>6, <1>9, <2>3, <2>5 DEF Controls!NetEdge, Controls!Safety
  <2>7. Controls!NetEdge(j) > Controls!Safety(j)
    BY <1>6, <1>12, <2>6
  <2> QED
    BY <1>2, <1>3, <2>7, FlatIsAllowedWhen DEF j, t
<1> QED
  BY <1>1, <1>10, <1>11, <1>12, FlatIsAllowedWhen DEF i, t

-----------------------------------------------------------------------------
(* The deadline.                                                           *)

DeadlineInput(i) ==
    i \in [fair : Int, mid : Int, bid : Int, ask : Int, mark : Int, index : Int, position : Int,
           max : Int, requested : Int, now : Int, deadline : Int, bidDepth : Int, askDepth : Int,
           queue : Int, spread : Int, fee : Int, volatility : Int, markout : Int, carry : Int,
           dataValid : BOOLEAN, fundingValid : BOOLEAN]
DeadlineParameters(c) ==
    c \in [halfLife : Int, exitLead : Int, fillHorizon : Int, hazard : Int, nullWeight : Int,
           participation : Int, uncertainty : Int, adverse : Int, minResidual : Int, minEdge : Int]

\* A quotient is at least what its divisor fits into the dividend.
LEMMA Fits ==
    ASSUME NEW a \in Int, NEW b \in Nat \ {0}, NEW n \in Int, n * b <= a
    PROVE  n <= a \div b
<1> DEFINE q == a \div b
<1>1. q \in Int /\ a < (q + 1) * b
  OBVIOUS
<1> HIDE DEF q
<1>2. ASSUME q + 1 <= n PROVE FALSE
  <2>1. (q + 1) * b <= n * b /\ (q + 1) * b \in Int /\ n * b \in Int
    BY <1>1, <1>2, Products
  <2> QED
    BY <1>1, <2>1
<1>3. n <= q
  BY <1>1, <1>2
<1> QED
  BY <1>3 DEF q

LEMMA QuotientsGrow ==
    ASSUME NEW a \in Int, NEW b \in Int, NEW n \in Nat \ {0}, a <= b
    PROVE  a \div n <= b \div n
<1>1. a \div n \in Int /\ (a \div n) * n <= a
  BY Quotients
<1>2. (a \div n) * n <= b
  <2> DEFINE q == a \div n
  <2> HIDE DEF q
  <2>1. q \in Int /\ q * n <= a
    BY <1>1 DEF q
  <2>2. q * n \in Int
    BY <2>1
  <2>3. q * n <= b
    BY <2>1, <2>2
  <2> QED
    BY <2>3 DEF q
<1> QED
  BY <1>1, <1>2, Fits

\* The part a waiting time has in itself and another grows with it.
LEMMA PartsGrow ==
    ASSUME NEW a \in Nat, NEW b \in Nat, a <= b, NEW w \in Nat, NEW h \in Nat \ {0}
    PROVE  /\ (a * w) \div (a + h) \in Nat /\ (b * w) \div (b + h) \in Nat
           /\ (a * w) \div (a + h) <= (b * w) \div (b + h)
<1>1. a + h \in Nat \ {0} /\ b + h \in Nat \ {0} /\ a * w \in Nat /\ b * w \in Nat
  BY Positive
<1> DEFINE p == (a * w) \div (a + h)
<1>2. p \in Nat /\ p * (a + h) <= a * w
  <2> DEFINE x == a * w
             y == a + h
  <2>1. x \in Nat /\ y \in Nat \ {0} /\ p = x \div y
    BY <1>1
  <2> HIDE DEF x, y, p
  <2>2. x \div y \in Int /\ (x \div y) * y <= x /\ (x >= 0 => x \div y >= 0)
    BY <2>1, Quotients
  <2>3. p \in Nat /\ p * y <= x
    BY <2>1, <2>2
  <2> QED
    BY <2>3 DEF x, y
<1>3. (b * w) \div (b + h) \in Nat
  <2> DEFINE x == b * w
             y == b + h
  <2>1. x \in Nat /\ y \in Nat \ {0}
    BY <1>1
  <2> HIDE DEF x, y
  <2>2. x \div y \in Nat
    BY <2>1, Quotients
  <2> QED
    BY <2>2 DEF x, y
<1> HIDE DEF p
<1>4. p <= w
  <2> SUFFICES ASSUME w + 1 <= p PROVE FALSE
    BY <1>2
  <2>1. (w + 1) * (a + h) <= p * (a + h) /\ (w + 1) * (a + h) \in Int /\ p * (a + h) \in Int
    BY <1>1, <1>2, Products
  <2>2. (w + 1) * (a + h) = a * w + w * h + a + h
    OBVIOUS
  <2>3. w * h \in Nat
    BY Positive
  <2> QED
    BY <1>1, <1>2, <2>1, <2>2, <2>3
<1>5. p * (b - a) <= w * (b - a) /\ p * (b - a) \in Int /\ w * (b - a) \in Int
  BY <1>2, <1>4, Products
<1>6. p * (b + h) = p * (a + h) + p * (b - a) /\ a * w + w * (b - a) = b * w
      /\ p * (a + h) \in Int /\ p * (b + h) \in Int
  BY <1>2
<1>7. p * (b + h) <= b * w
  BY <1>1, <1>2, <1>5, <1>6
<1>8. p <= (b * w) \div (b + h)
  BY <1>1, <1>2, <1>7, Fits
<1> QED
  BY <1>2, <1>3, <1>8 DEF p

LEMMA ProductsGrow ==
    ASSUME NEW a \in Nat, NEW b \in Nat, NEW c \in Nat, NEW d \in Nat, a <= b, c <= d
    PROVE  a * c <= b * d /\ a * c \in Nat /\ b * d \in Nat
<1>1. a * c <= b * c /\ a * c \in Int /\ b * c \in Int
  BY Products
<1>2. c * b <= d * b /\ c * b \in Int /\ d * b \in Int
  BY Products
<1>3. c * b = b * c /\ d * b = b * d
  OBVIOUS
<1>4. a * c \in Nat /\ b * d \in Nat
  BY Positive
<1> QED
  BY <1>1, <1>2, <1>3, <1>4

\* What is not ruled out, and what it is made of.
LEMMA ValidDeadlines ==
    ASSUME Whole \in Nat \ {0}, NEW i, DeadlineInput(i), NEW c, DeadlineParameters(c),
           ~Controls!InvalidDeadlineInput(i, c)
    PROVE  /\ {i.max, i.requested, i.mid, c.halfLife, c.exitLead, c.fillHorizon} \subseteq Nat \ {0}
           /\ {c.hazard, c.nullWeight, c.participation} \subseteq 0 .. Whole
           /\ Controls!Residual(i) \in Nat /\ Controls!SignalOf(i) \in {1, 0, -1}
           /\ Controls!LeftUntil(i) \in Nat
           /\ \A x \in Int : Controls!Size(x) \in Nat /\ Controls!Sign(x) \in {1, 0, -1}
<1>1. {i.fair, i.mid, i.max, i.requested, i.now, i.deadline, c.halfLife, c.exitLead, c.fillHorizon} \subseteq Int
  BY DEF DeadlineInput, DeadlineParameters
<1>2. /\ {i.max, i.requested, i.mid, c.halfLife, c.exitLead, c.fillHorizon} \subseteq Nat \ {0}
      /\ {c.hazard, c.nullWeight, c.participation} \subseteq 0 .. Whole
  BY <1>1 DEF Controls!InvalidDeadlineInput, Controls!ValidCalibration
<1>3. \A x \in Int : Controls!Size(x) \in Nat /\ Controls!Sign(x) \in {1, 0, -1}
  BY DEF Controls!Size, Controls!Sign
<1>4. Controls!Residual(i) \in Nat
  <2>1. i.fair - i.mid \in Int
    BY <1>1
  <2>2. Controls!Size(i.fair - i.mid) * Whole \in Nat
    BY <1>3, <2>1, Positive
  <2> QED
    BY <1>2, <2>2, Quotients DEF Controls!Residual
<1>5. Controls!SignalOf(i) \in {1, 0, -1} /\ Controls!LeftUntil(i) \in Nat
  BY <1>1, <1>3 DEF Controls!SignalOf, Controls!LeftUntil, Controls!Greater
<1> QED
  BY <1>2, <1>3, <1>4, <1>5

\* With more time left a resting order is filled rather, ...
LEMMA FillsGrow ==
    ASSUME Whole \in Nat \ {0}, NEW i, DeadlineInput(i), NEW c, DeadlineParameters(c),
           ~Controls!InvalidDeadlineInput(i, c), NEW now \in Int, i.now <= now
    PROVE  LET j == [i EXCEPT !.now = now]
           IN  /\ Controls!FillLowerBound(j, c) \in Nat /\ Controls!FillLowerBound(i, c) \in Nat
               /\ Controls!FillLowerBound(j, c) <= Controls!FillLowerBound(i, c)
<1> DEFINE j == [i EXCEPT !.now = now]
           f == c.fillHorizon
           Wait(x) == Controls!Lesser(Controls!LeftUntil(x), 8 * f)
           Time(x) == (Wait(x) * Whole) \div (Wait(x) + f)
           queue == (i.requested * Whole) \div (Controls!Greater(i.queue, 0) + i.requested)
           Filled(x) == (c.hazard * Time(x) * queue) \div (Whole * Whole)
<1>1. /\ f \in Nat \ {0} /\ c.hazard \in Nat /\ i.requested \in Nat \ {0} /\ i.queue \in Int
      /\ i.deadline \in Int /\ i.now \in Int
  BY ValidDeadlines DEF DeadlineInput
<1>2. j.deadline = i.deadline /\ j.now = now /\ j.requested = i.requested /\ j.queue = i.queue
  BY DEF DeadlineInput
<1>3. Wait(j) \in Nat /\ Wait(i) \in Nat /\ Wait(j) <= Wait(i)
  BY <1>1, <1>2 DEF Controls!LeftUntil, Controls!Lesser, Controls!Greater
<1>4. queue \in Nat
  <2>1. i.requested * Whole \in Nat
    BY <1>1, Positive
  <2>2. Controls!Greater(i.queue, 0) + i.requested \in Nat \ {0}
    BY <1>1 DEF Controls!Greater
  <2> QED
    BY <2>1, <2>2, Quotients
<1>5. /\ Controls!FillLowerBound(i, c) = Controls!Lesser(Filled(i), Whole)
      /\ Controls!FillLowerBound(j, c) = Controls!Lesser(Filled(j), Whole)
  BY <1>2 DEF Controls!FillLowerBound
<1> HIDE DEF Wait, queue, j, f
<1>6. Time(j) \in Nat /\ Time(i) \in Nat /\ Time(j) <= Time(i)
  BY <1>1, <1>3, PartsGrow
<1> HIDE DEF Time
<1>7. c.hazard * Time(j) \in Nat /\ c.hazard * Time(i) \in Nat /\ c.hazard * Time(j) <= c.hazard * Time(i)
  BY <1>1, <1>6, ProductsGrow
<1>8. /\ c.hazard * Time(j) * queue \in Nat /\ c.hazard * Time(i) * queue \in Nat
      /\ c.hazard * Time(j) * queue <= c.hazard * Time(i) * queue
  BY <1>4, <1>7, ProductsGrow
<1>9. Whole * Whole \in Nat \ {0}
  <2>1. Whole * Whole \in Nat /\ 1 * Whole <= Whole * Whole
    BY Positive, Products
  <2> QED
    BY <2>1
<1>10. Filled(j) \in Nat /\ Filled(i) \in Nat /\ Filled(j) <= Filled(i)
  BY <1>8, <1>9, Quotients, QuotientsGrow
<1> HIDE DEF Filled
<1>11. /\ Controls!Lesser(Filled(j), Whole) \in Nat /\ Controls!Lesser(Filled(i), Whole) \in Nat
       /\ Controls!Lesser(Filled(j), Whole) <= Controls!Lesser(Filled(i), Whole)
  BY <1>10 DEF Controls!Lesser
<1> QED
  BY <1>5, <1>11 DEF j

\* ... more of the residual is expected to revert, ...
LEMMA ReversionsGrow ==
    ASSUME Whole \in Nat \ {0}, NEW i, DeadlineInput(i), NEW c, DeadlineParameters(c),
           ~Controls!InvalidDeadlineInput(i, c), NEW now \in Int, i.now <= now,
           Controls!LeftUntil(i) <= 8 * c.halfLife
    PROVE  LET j == [i EXCEPT !.now = now]
           IN  /\ Controls!ExpectedReversion(j, c) \in Nat /\ Controls!ExpectedReversion(i, c) \in Nat
               /\ Controls!ExpectedReversion(j, c) <= Controls!ExpectedReversion(i, c)
<1> DEFINE j == [i EXCEPT !.now = now]
           h == c.halfLife
           Left(x) == Controls!LeftUntil(x)
           Decay(x) == (Left(x) * Whole) \div (Left(x) + h)
           r == Controls!Residual(i)
           Part(x) == (r * Decay(x)) \div Whole
           u == Whole - c.nullWeight
<1>1. h \in Nat \ {0} /\ r \in Nat /\ u \in Nat /\ i.deadline \in Int /\ i.now \in Int
  BY ValidDeadlines DEF DeadlineInput
<1>2. j.deadline = i.deadline /\ j.now = now /\ j.fair = i.fair /\ j.mid = i.mid
  BY DEF DeadlineInput
<1>3. Left(j) \in Nat /\ Left(i) \in Nat /\ Left(j) <= Left(i) /\ Left(i) <= 8 * h
  BY <1>1, <1>2 DEF Controls!LeftUntil, Controls!Greater
<1>4. /\ Controls!Lesser(Left(i), 8 * h) = Left(i) /\ Controls!Lesser(Left(j), 8 * h) = Left(j)
  BY <1>1, <1>3 DEF Controls!Lesser
<1>5. Controls!Residual(j) = r
  BY <1>2 DEF Controls!Residual
<1>6. /\ Controls!ExpectedReversion(i, c) = (Part(i) * u) \div Whole
      /\ Controls!ExpectedReversion(j, c) = (Part(j) * u) \div Whole
  BY <1>4, <1>5 DEF Controls!ExpectedReversion
<1> HIDE DEF j, h, r, u, Left
<1>7. Decay(j) \in Nat /\ Decay(i) \in Nat /\ Decay(j) <= Decay(i)
  BY <1>1, <1>3, PartsGrow
<1> HIDE DEF Decay
<1>8. r * Decay(j) \in Nat /\ r * Decay(i) \in Nat /\ r * Decay(j) <= r * Decay(i)
  BY <1>1, <1>7, ProductsGrow
<1>9. Part(j) \in Nat /\ Part(i) \in Nat /\ Part(j) <= Part(i)
  BY <1>8, Quotients, QuotientsGrow
<1> HIDE DEF Part
<1>10. Part(j) * u \in Nat /\ Part(i) * u \in Nat /\ Part(j) * u <= Part(i) * u
  BY <1>1, <1>9, ProductsGrow
<1>11. /\ (Part(j) * u) \div Whole \in Nat /\ (Part(i) * u) \div Whole \in Nat
       /\ (Part(j) * u) \div Whole <= (Part(i) * u) \div Whole
  BY <1>10, Quotients, QuotientsGrow
<1> QED
  BY <1>6, <1>11 DEF j

\* ... and it costs no more.
LEMMA CostsShrink ==
    ASSUME Whole \in Nat \ {0}, NEW i, DeadlineInput(i), NEW c, DeadlineParameters(c),
           ~Controls!InvalidDeadlineInput(i, c), NEW now \in Int, i.now <= now
    PROVE  LET j == [i EXCEPT !.now = now]
           IN  /\ Controls!DeadlineCosts(j, c) \in Int /\ Controls!DeadlineCosts(i, c) \in Int
               /\ Controls!DeadlineCosts(i, c) <= Controls!DeadlineCosts(j, c)
<1> DEFINE j == [i EXCEPT !.now = now]
           rest == Controls!Greater(i.fee, 0) + Controls!Greater(i.spread, 0)
                     + Controls!Greater(i.volatility, 0) \div 2
                     + Controls!Greater(i.markout, 0) + Controls!Greater(-i.carry, 0)
                     + c.uncertainty + c.adverse
           Late(x) == IF Controls!LeftUntil(x) < 2 * c.exitLead THEN 5 ELSE 0
<1>1. /\ {i.fee, i.spread, i.volatility, i.markout, i.carry, c.uncertainty, c.adverse, c.exitLead,
          i.deadline, i.now} \subseteq Int
  BY DEF DeadlineInput, DeadlineParameters
<1>2. /\ j.deadline = i.deadline /\ j.now = now /\ j.fee = i.fee /\ j.spread = i.spread
      /\ j.volatility = i.volatility /\ j.markout = i.markout /\ j.carry = i.carry
  BY DEF DeadlineInput
<1>3. rest \in Int
  <2>1. \A x \in Int : Controls!Greater(x, 0) \in Int
    BY DEF Controls!Greater
  <2>2. Controls!Greater(i.volatility, 0) \div 2 \in Int
    BY <1>1, <2>1, Quotients
  <2> QED
    BY <1>1, <2>1, <2>2
<1>4. Controls!DeadlineCosts(i, c) = rest + Late(i) /\ Controls!DeadlineCosts(j, c) = rest + Late(j)
  BY <1>1, <1>2, <1>3 DEF Controls!DeadlineCosts
<1>5. Late(i) \in Int /\ Late(j) \in Int /\ Late(i) <= Late(j)
  BY <1>1, <1>2 DEF Controls!LeftUntil, Controls!Greater
<1> HIDE DEF rest, Late
<1> QED
  BY <1>3, <1>4, <1>5 DEF j

\* Whoever would enter later would enter now.
LEMMA EntriesAreNotPostponed ==
    ASSUME Whole \in Nat \ {0}, NEW i, DeadlineInput(i), NEW c, DeadlineParameters(c),
           NEW now \in Int, i.now <= now, Controls!LeftUntil(i) <= 8 * c.halfLife,
           Controls!DeadlineDecision([i EXCEPT !.now = now], c).action = "Maker"
    PROVE  Controls!DeadlineDecision(i, c).action = "Maker"
<1> DEFINE j == [i EXCEPT !.now = now]
<1>1. /\ ~Controls!InvalidDeadlineInput(j, c) /\ ~Controls!MustReduce(j, c) /\ Controls!MayEnter(j, c)
  BY DEF Controls!DeadlineDecision, Controls!NoDeadlineAction
<1>3. /\ j.fair = i.fair /\ j.mid = i.mid /\ j.bid = i.bid /\ j.ask = i.ask /\ j.mark = i.mark
      /\ j.index = i.index /\ j.position = i.position /\ j.max = i.max /\ j.requested = i.requested
      /\ j.deadline = i.deadline /\ j.dataValid = i.dataValid /\ j.fundingValid = i.fundingValid
      /\ j.bidDepth = i.bidDepth /\ j.askDepth = i.askDepth /\ j.now = now
  BY DEF DeadlineInput
<1>4. ~Controls!InvalidDeadlineInput(i, c)
  BY <1>1, <1>3 DEF Controls!InvalidDeadlineInput
<1>5. Controls!Residual(j) = Controls!Residual(i) /\ Controls!SignalOf(j) = Controls!SignalOf(i)
  BY <1>3 DEF Controls!Residual, Controls!SignalOf
<1>6. Controls!EntryQuantity(j, c) = Controls!EntryQuantity(i, c)
  <2>1. Controls!ExitBuys(j) = Controls!ExitBuys(i)
    BY <1>3, <1>5 DEF Controls!ExitBuys
  <2> QED
    BY <1>3, <1>5, <2>1 DEF Controls!EntryQuantity, Controls!ExitCapacity
<1>7. Controls!LeftUntil(j) \in Nat /\ Controls!LeftUntil(i) \in Nat
      /\ Controls!LeftUntil(j) <= Controls!LeftUntil(i) /\ c.exitLead \in Nat \ {0}
  <2>1. c.exitLead \in Nat \ {0} /\ {i.now, i.deadline} \subseteq Int
    BY <1>4, ValidDeadlines DEF DeadlineInput
  <2> QED
    BY <1>3, <2>1 DEF Controls!LeftUntil, Controls!Greater
<1>8. /\ Controls!LeftUntil(j) > c.exitLead
      /\ Controls!DeadlinePhase(Controls!LeftUntil(i), c) \in {"Build", "Harvest"}
  BY <1>1, <1>7 DEF Controls!MayEnter, Controls!DeadlinePhase
<1>9. ~Controls!MustReduce(i, c)
  BY <1>1, <1>3, <1>5, <1>8 DEF Controls!MustReduce
<1>10. Controls!RobustEdge(i, c) >= c.minEdge
  <2> DEFINE F(x) == Controls!FillLowerBound(x, c)
             E(x) == Controls!ExpectedReversion(x, c)
             C(x) == Controls!DeadlineCosts(x, c)
  <2>1. /\ F(j) \in Nat /\ F(i) \in Nat /\ F(j) <= F(i)
        /\ E(j) \in Nat /\ E(i) \in Nat /\ E(j) <= E(i)
        /\ C(j) \in Int /\ C(i) \in Int /\ C(i) <= C(j)
    BY <1>4, FillsGrow, ReversionsGrow, CostsShrink
  <2>2. /\ Controls!RobustEdge(i, c) = (E(i) * F(i)) \div Whole - C(i)
        /\ Controls!RobustEdge(j, c) = (E(j) * F(j)) \div Whole - C(j)
    BY DEF Controls!RobustEdge
  <2> HIDE DEF F, E, C, j
  <2>3. E(j) * F(j) \in Nat /\ E(i) * F(i) \in Nat /\ E(j) * F(j) <= E(i) * F(i)
    BY <2>1, ProductsGrow
  <2>4. /\ (E(j) * F(j)) \div Whole \in Int /\ (E(i) * F(i)) \div Whole \in Int
        /\ (E(j) * F(j)) \div Whole <= (E(i) * F(i)) \div Whole
    BY <2>3, Quotients, QuotientsGrow
  <2>5. c.minEdge \in Int /\ Controls!RobustEdge(j, c) >= c.minEdge
    BY <1>1 DEF DeadlineParameters, Controls!MayEnter
  <2> QED
    BY <2>1, <2>2, <2>4, <2>5
<1> HIDE DEF j
<1>11. Controls!MayEnter(i, c)
  BY <1>1, <1>5, <1>6, <1>8, <1>10 DEF Controls!MayEnter
<1> QED
  BY <1>4, <1>9, <1>11 DEF Controls!DeadlineDecision

LEMMA CapacityIs ==
    ASSUME Whole \in Nat \ {0}, NEW i, DeadlineInput(i), NEW c, DeadlineParameters(c),
           ~Controls!InvalidDeadlineInput(i, c)
    PROVE  Controls!ExitCapacity(i, c) \in Int
<1> DEFINE depth == IF Controls!ExitBuys(i) THEN i.bidDepth ELSE i.askDepth
           shared == Controls!Greater(depth, 0) * c.participation
<1>1. /\ i.requested \in Nat \ {0} /\ c.participation \in Nat /\ depth \in Int
      /\ Controls!Size(i.position) \in Nat
  BY ValidDeadlines DEF DeadlineInput
<1> HIDE DEF depth
<1>2. Controls!Greater(depth, 0) \in Nat
  BY <1>1 DEF Controls!Greater
<1>3. shared \in Nat
  BY <1>1, <1>2, Positive
<1>4. shared \div Whole \in Int
  BY <1>3, Quotients
<1>5. Controls!ExitCapacity(i, c)
         = Controls!Lesser(Controls!Size(i.position) + i.requested, shared \div Whole)
  BY DEF Controls!ExitCapacity, depth
<1> HIDE DEF shared
<1> QED
  BY <1>1, <1>4, <1>5 DEF Controls!Lesser

\* m9::decide of every input and calibration: what is entered stays within the limit and can
\* be left through the share of the depth an exit may take, a reduction never turns a
\* position round, and an entry that is refused is not taken later.
THEOREM EntriesStayLeavable ==
    ASSUME Whole \in Nat \ {0}, NEW i, DeadlineInput(i), NEW c, DeadlineParameters(c),
           NEW later \in SUBSET Int
    PROVE  Controls!EntriesCanBeLeft(i, c, later)
<1> DEFINE d == Controls!DeadlineDecision(i, c)
<1>1. ASSUME d.action = "Reduce"
      PROVE  d.quantity <= Controls!Size(i.position) /\ d.side = -Controls!Sign(i.position)
  <2> DEFINE all == Controls!Size(i.position)
             q == Controls!Lesser(Controls!ExitCapacity(i, c), all)
  <2>1. d = [action |-> "Reduce", side |-> -Controls!Sign(i.position), quantity |-> q]
        /\ ~Controls!InvalidDeadlineInput(i, c)
    BY <1>1 DEF Controls!DeadlineDecision, Controls!NoDeadlineAction
  <2>2. all \in Nat
    BY <2>1, ValidDeadlines DEF DeadlineInput
  <2>4. Controls!ExitCapacity(i, c) \in Int
    BY <2>1, CapacityIs
  <2> HIDE DEF d, all
  <2>3. q <= all
    BY <2>2, <2>4 DEF Controls!Lesser
  <2> QED
    BY <2>1, <2>3 DEF all
<1>2. ASSUME d.action = "Maker"
      PROVE  /\ Controls!Size(i.position + d.side * d.quantity)
                  <= Controls!Greater(i.max, Controls!Size(i.position))
             /\ d.quantity * Whole
                  <= (IF d.side > 0 THEN i.askDepth ELSE i.bidDepth) * c.participation
  <2> DEFINE side == Controls!SignalOf(i)
             q == Controls!EntryQuantity(i, c)
             depth == IF Controls!ExitBuys(i) THEN i.bidDepth ELSE i.askDepth
             share == (Controls!Greater(depth, 0) * c.participation) \div Whole
             room == Controls!Greater(i.max - side * i.position, 0)
  <2>1. /\ d = [action |-> "Maker", side |-> side, quantity |-> q]
        /\ ~Controls!InvalidDeadlineInput(i, c) /\ ~Controls!MustReduce(i, c) /\ Controls!MayEnter(i, c)
    BY <1>2 DEF Controls!DeadlineDecision, Controls!NoDeadlineAction
  <2>2. /\ i.position \in Int /\ i.max \in Nat \ {0} /\ i.requested \in Nat \ {0}
        /\ c.participation \in Nat /\ side \in {1, -1} /\ depth \in Int
        /\ Controls!Size(i.position) \in Nat
    <3>1. side \in {1, 0, -1} /\ i.max \in Nat \ {0} /\ i.requested \in Nat \ {0}
          /\ c.participation \in 0 .. Whole /\ Controls!Size(i.position) \in Nat
      BY <2>1, ValidDeadlines DEF DeadlineInput
    <3>2. side # 0
      BY <2>1 DEF Controls!MayEnter
    <3> QED
      BY <3>1, <3>2 DEF DeadlineInput
  <2>3. depth = IF side > 0 THEN i.askDepth ELSE i.bidDepth
    <3>1. i.position # 0 => side = Controls!Sign(i.position)
      BY <2>1, <2>2 DEF Controls!MustReduce
    <3> HIDE DEF side
    <3>2. Controls!ExitBuys(i) <=> side < 0
      BY <2>2, <3>1 DEF Controls!ExitBuys, Controls!Sign, side
    <3> QED
      BY <2>2, <3>2
  <2>4. /\ q > 0
        /\ q = Controls!Lesser(Controls!Lesser(i.requested, room),
                               Controls!Lesser(Controls!Size(i.position) + i.requested, share))
    BY <2>1 DEF Controls!MayEnter, Controls!EntryQuantity, Controls!ExitCapacity
  <2> HIDE DEF d, side, q, depth
  <2>5. Controls!Greater(depth, 0) \in Nat /\ Controls!Greater(depth, 0) * c.participation \in Nat
    <3>1. Controls!Greater(depth, 0) \in Nat
      BY <2>2 DEF Controls!Greater
    <3> QED
      BY <2>2, <3>1, Positive
  <2>6. share \in Int /\ share * Whole <= Controls!Greater(depth, 0) * c.participation
    BY <2>5, Quotients
  <2> HIDE DEF share
  <2>7. room \in Int
    BY <2>2 DEF Controls!Greater
  <2>8. q \in Nat \ {0} /\ q <= room /\ q <= share
    <3> HIDE DEF room
    <3> QED
      BY <2>2, <2>4, <2>6, <2>7 DEF Controls!Lesser
  <2>9. Controls!Size(i.position + side * q) <= Controls!Greater(i.max, Controls!Size(i.position))
    <3>1. q <= i.max - side * i.position
      BY <2>2, <2>8 DEF Controls!Greater
    <3>2. CASE side = 1
      <4>1. i.position + q <= i.max /\ side * q = q
        BY <2>2, <2>8, <3>1, <3>2
      <4> QED
        BY <2>2, <2>8, <3>2, <4>1 DEF Controls!Size, Controls!Sign, Controls!Greater
    <3>3. CASE side = -1
      <4>1. q - i.position <= i.max /\ side * q = -q
        BY <2>2, <2>8, <3>1, <3>3
      <4> QED
        BY <2>2, <2>8, <3>3, <4>1 DEF Controls!Size, Controls!Sign, Controls!Greater
    <3> QED
      BY <2>2, <3>2, <3>3
  <2>10. q * Whole <= depth * c.participation
    <3>1. q * Whole <= share * Whole /\ q * Whole \in Int /\ share * Whole \in Int
      BY <2>6, <2>8, Products
    <3>2. q * Whole >= 1 /\ q * Whole <= Controls!Greater(depth, 0) * c.participation
      <4>1. 1 * Whole <= q * Whole
        BY <2>8, Products
      <4> QED
        BY <2>5, <2>6, <3>1, <4>1
    <3>3. Controls!Greater(depth, 0) = depth
      <4> SUFFICES ASSUME Controls!Greater(depth, 0) = 0 PROVE FALSE
        BY <2>2 DEF Controls!Greater
      <4>1. Controls!Greater(depth, 0) * c.participation = 0
        BY <2>2
      <4> QED
        BY <3>1, <3>2, <4>1
    <3> QED
      BY <3>2, <3>3
  <2> QED
    BY <2>1, <2>3, <2>9, <2>10
<1>3. ASSUME d.action # "Maker", Controls!LeftUntil(i) <= 8 * c.halfLife,
             NEW now \in later, now >= i.now
      PROVE  Controls!DeadlineDecision([i EXCEPT !.now = now], c).action # "Maker"
  <2>1. now \in Int /\ i.now <= now
    BY <1>3 DEF DeadlineInput
  <2> QED
    BY <1>3, <2>1, EntriesAreNotPostponed
<1> HIDE DEF d
<1> QED
  BY <1>1, <1>2, <1>3 DEF Controls!EntriesCanBeLeft, d

-----------------------------------------------------------------------------
(* Sessions.                                                               *)

\* The snapshot is about days since an epoch.
CalendarInput(days) ==
    Calendar \in [days -> [weekday : 1 .. 7, holiday : BOOLEAN, half : BOOLEAN, supported : BOOLEAN]]

LEMMA FirstMoment ==
    ASSUME NEW z \in Nat, NEW T \in SUBSET (0 .. z), T # {}
    PROVE  \E p \in T : \A x \in T : p <= x
<1> DEFINE R == {pq \in (0 .. z) \X (0 .. z) : pq[1] < pq[2]}
<1>2. \A p, q \in 0 .. z : <<p, q>> \in R <=> p < q
  OBVIOUS
<1>3. \E p \in T : \A q \in T \ {p} : <<p, q>> \in R
  <2>2. \A p, q, r \in 0 .. z : <<p, q>> \in R /\ <<q, r>> \in R => <<p, r>> \in R
    BY <1>2
  <2>3. \A p, q \in 0 .. z : p # q => <<p, q>> \in R \/ <<q, p>> \in R
    BY <1>2
  <2>4. z \in Int /\ 0 \in Int /\ T \in SUBSET (0 .. z) /\ T # {}
    OBVIOUS
  <2> HIDE DEF R
  <2> QED
    BY <2>2, <2>3, <2>4, FirstOfAll
<1>4. PICK p \in T : \A q \in T \ {p} : p < q
  BY <1>2, <1>3
<1> QED
  BY <1>4

LEMMA EarliestIs ==
    ASSUME NEW T \in SUBSET Nat, T # {}
    PROVE  Earliest(T) \in T /\ \A x \in T : Earliest(T) <= x
<1>1. PICK z \in T : z \in Nat
  OBVIOUS
<1> DEFINE U == {x \in T : x <= z}
<1>2. z \in U /\ \A x \in U : x \in 0 .. z
  BY <1>1
<1>3. U \in SUBSET (0 .. z) /\ U # {}
  <2> HIDE DEF U
  <2> QED
    BY <1>2
<1>4. PICK p \in U : \A x \in U : p <= x
  <2> HIDE DEF U
  <2> QED
    BY <1>1, <1>3, FirstMoment
<1>5. \A x \in T : p <= x
  BY <1>1, <1>4
<1> QED
  BY <1>4, <1>5 DEF Earliest

LEMMA LatestIs ==
    ASSUME NEW z \in Nat, NEW T \in SUBSET (0 .. z), T # {}
    PROVE  Latest(T) \in T /\ \A x \in T : Latest(T) >= x
<1> DEFINE R == {pq \in (0 .. z) \X (0 .. z) : pq[1] > pq[2]}
<1>2. \A p, q \in 0 .. z : <<p, q>> \in R <=> p > q
  OBVIOUS
<1>3. \E p \in T : \A q \in T \ {p} : <<p, q>> \in R
  <2>2. \A p, q, r \in 0 .. z : <<p, q>> \in R /\ <<q, r>> \in R => <<p, r>> \in R
    BY <1>2
  <2>3. \A p, q \in 0 .. z : p # q => <<p, q>> \in R \/ <<q, p>> \in R
    BY <1>2
  <2>4. z \in Int /\ 0 \in Int /\ T \in SUBSET (0 .. z) /\ T # {}
    OBVIOUS
  <2> HIDE DEF R
  <2> QED
    BY <2>2, <2>3, <2>4, FirstOfAll
<1>4. PICK p \in T : \A q \in T \ {p} : p > q
  BY <1>2, <1>3
<1>5. \A x \in T : p >= x
  BY <1>4
<1> QED
  BY <1>4, <1>5 DEF Latest

LEMMA DaysAreCounted ==
    ASSUME NEW d \in Nat, NEW m \in 0 .. DayMinutes - 1
    PROVE  /\ At(d, m) \in Nat /\ At(d, m) \div DayMinutes = d /\ At(d, m) % DayMinutes = m
           /\ \A e \in Nat, n \in 0 .. DayMinutes - 1 :
                 /\ At(e, n) < At(d, m) <=> e < d \/ (e = d /\ n < m)
                 /\ At(e, n) <= At(d, m) <=> e < d \/ (e = d /\ n <= m)
<1>1. At(d, m) \in Nat
  BY DEF At, DayMinutes
<1>2. At(d, m) \div DayMinutes = d /\ At(d, m) % DayMinutes = m
  BY DEF At, DayMinutes
<1>3. ASSUME NEW e \in Nat, NEW n \in 0 .. DayMinutes - 1
      PROVE  /\ At(e, n) < At(d, m) <=> e < d \/ (e = d /\ n < m)
             /\ At(e, n) <= At(d, m) <=> e < d \/ (e = d /\ n <= m)
  <2>1. n \in 0 .. 1439 /\ m \in 0 .. 1439
    BY DEF DayMinutes
  <2>2. At(e, n) = 1440 * e + n /\ At(d, m) = 1440 * d + m
    BY <2>1 DEF At, DayMinutes
  <2> QED
    BY <2>1, <2>2
<1> QED
  BY <1>1, <1>2, <1>3

\* The minutes of a day, in both regions.
LEMMA Minutes ==
    ASSUME NEW region \in Regions
    PROVE  /\ AuctionStart(region) \in {540, 555} /\ MorningClose(region) \in {690, 720}
           /\ \A day \in DOMAIN Calendar :
                /\ FinalClose(region, day) \in {MorningClose(region), FullClose(region)}
                /\ FinalClose(region, day) \in 690 .. 960
                /\ HasAfternoon(region, day) => FinalClose(region, day) = FullClose(region)
  BY DEF Regions, AuctionStart, MorningClose, FinalClose, FullClose, HasAfternoon, AfternoonOpen

\* A session that lets entries in is between two sessions of the venue.
LEMMA ClosedMinutes ==
    ASSUME NEW region \in Regions, NEW weekday \in 1 .. 5, NEW minute \in 0 .. DayMinutes - 1,
           FlattenLead \in 0 .. 540,
           DetailedState(region, weekday, minute, FALSE) \in {"Closed", "MiddayBreak"}
    PROVE  \/ minute < AuctionStart(region) - FlattenLead
           \/ minute >= MorningClose(region) /\ minute < AfternoonOpen
           \/ minute >= FullClose(region) /\ (region = "HongKong" => minute >= 970)
  BY DEF DetailedState, Regions, AuctionStart, MorningClose, FullClose, AfternoonOpen,
         MorningOpen, ClosingAuction, DayMinutes

\* The venue does not open between the evening and the auction of the next trading day.
LEMMA NextDeadlines ==
    ASSUME NEW days \in SUBSET Nat, CalendarInput(days), NEW region \in Regions, NEW day \in Nat,
           NextExitDeadlineAfter(region, day) # Never
    PROVE  \E e \in days :
             /\ NextExitDeadlineAfter(region, day) = At(e, AuctionStart(region))
             /\ e > day /\ \A d \in day + 1 .. e - 1 : ~TradingDay(d)
<1> DEFINE next == {d \in DOMAIN Calendar : d > day /\ TradingDay(d)}
           e == Earliest(next)
<1>1. DOMAIN Calendar = days
  BY DEF CalendarInput
<1>2. next # {} /\ NextExitDeadlineAfter(region, day) = At(e, AuctionStart(region))
  BY DEF NextExitDeadlineAfter
<1>3. e \in next /\ \A x \in next : e <= x
  <2>1. next \in SUBSET Nat
    BY <1>1
  <2> HIDE DEF next
  <2> QED
    BY <1>2, <2>1, EarliestIs
<1> HIDE DEF e
<1>4. \A d \in day + 1 .. e - 1 : ~TradingDay(d)
  <2> SUFFICES ASSUME NEW d \in day + 1 .. e - 1, TradingDay(d) PROVE FALSE
    OBVIOUS
  <2>1. d \in next
    BY <1>1 DEF TradingDay, Supported
  <2>2. e \in Nat /\ e <= d
    BY <1>1, <1>3, <2>1
  <2> QED
    BY <2>2
<1> QED
  BY <1>1, <1>2, <1>3, <1>4

\* An open venue is in one of two parts of a trading day.
LEMMA OpeningsAre ==
    ASSUME NEW region \in Regions, NEW d, NEW m \in {MorningOpen, AfternoonOpen},
           d \in DOMAIN Calendar, ReallyOpen(region, d, m)
    PROVE  /\ TradingDay(d) /\ m \in 0 .. DayMinutes - 1
           /\ m = AfternoonOpen => HasAfternoon(region, d)
  BY DEF ReallyOpen, Regions, MorningOpen, AfternoonOpen, MorningClose, DayMinutes

\* What lets entries in on a trading day.
LEMMA AllowedMinutes ==
    ASSUME NEW days \in SUBSET Nat, CalendarInput(days), NEW region \in Regions, NEW day \in Nat,
           NEW minute \in 0 .. DayMinutes - 1, FlattenLead \in 0 .. 540,
           SessionAllowsEntry(region, day, minute), TradingDay(day)
    PROVE  /\ day \in days
           /\ \/ minute < AuctionStart(region) - FlattenLead
              \/ minute >= MorningClose(region) /\ minute < AfternoonOpen
              \/ minute >= FullClose(region) /\ (region = "HongKong" => minute >= 970)
<1>1. day \in days /\ Calendar[day].weekday \in 1 .. 7 /\ Calendar[day].weekday <= 5
  BY DEF TradingDay, Supported, CalendarInput
<1>2. Calendar[day].weekday \in 1 .. 5
  BY <1>1
<1>3. DetailedState(region, Calendar[day].weekday, minute, FALSE) \in {"Closed", "MiddayBreak"}
  BY DEF SessionAllowsEntry
<1>4. \/ minute < AuctionStart(region) - FlattenLead
      \/ minute >= MorningClose(region) /\ minute < AfternoonOpen
      \/ minute >= FullClose(region) /\ (region = "HongKong" => minute >= 970)
  <2> DEFINE weekday == Calendar[day].weekday
  <2>1. weekday \in 1 .. 5 /\ DetailedState(region, weekday, minute, FALSE) \in {"Closed", "MiddayBreak"}
    BY <1>2, <1>3
  <2> HIDE DEF weekday
  <2> QED
    BY <2>1, ClosedMinutes
<1> QED
  BY <1>1, <1>4

\* Where the deadline of a session lies.
LEMMA DeadlinesAre ==
    ASSUME NEW days \in SUBSET Nat, CalendarInput(days), NEW region \in Regions, NEW day \in Nat,
           NEW minute \in 0 .. DayMinutes - 1, ExitDeadline(region, day, minute) # Never
    PROVE  \/ /\ TradingDay(day) /\ minute < MorningClose(region)
              /\ ExitDeadline(region, day, minute) = At(day, AuctionStart(region))
           \/ /\ TradingDay(day) /\ minute >= MorningClose(region)
              /\ HasAfternoon(region, day) /\ minute < ActiveFinalClose(region, day)
              /\ ExitDeadline(region, day, minute) = At(day, AfternoonOpen)
           \/ /\ ~TradingDay(day) \/ (minute >= MorningClose(region)
                   /\ ~(HasAfternoon(region, day) /\ minute < ActiveFinalClose(region, day)))
              /\ \E e \in days : /\ ExitDeadline(region, day, minute) = At(e, AuctionStart(region))
                                 /\ e > day /\ \A d \in day + 1 .. e - 1 : ~TradingDay(d)
<1>1. minute < MorningClose(region) \/ minute >= MorningClose(region)
  BY DEF MorningClose, DayMinutes
<1> QED
  BY <1>1, NextDeadlines DEF ExitDeadline

\* While entries are let in the deadline lies ahead.
LEMMA DeadlineIsAhead ==
    ASSUME NEW days \in SUBSET Nat, CalendarInput(days), NEW region \in Regions, NEW day \in Nat,
           NEW minute \in 0 .. DayMinutes - 1, FlattenLead \in 0 .. 540,
           SessionAllowsEntry(region, day, minute), ExitDeadline(region, day, minute) # Never
    PROVE  At(day, minute) < ExitDeadline(region, day, minute)
<1> DEFINE opening == AuctionStart(region)
<1>1. opening \in 0 .. DayMinutes - 1 /\ AfternoonOpen \in 0 .. DayMinutes - 1
      /\ opening \in {540, 555} /\ AfternoonOpen = 780
  BY Minutes DEF DayMinutes, AfternoonOpen
<1> HIDE DEF opening
<1>2. ASSUME TradingDay(day), minute < MorningClose(region),
             ExitDeadline(region, day, minute) = At(day, opening)
      PROVE  At(day, minute) < ExitDeadline(region, day, minute)
  <2>1. minute < opening
    BY <1>1, <1>2, AllowedMinutes DEF MorningClose, FullClose, opening, Regions
  <2> QED
    BY <1>1, <1>2, <2>1, DaysAreCounted
<1>3. ASSUME TradingDay(day), HasAfternoon(region, day), minute < ActiveFinalClose(region, day),
             minute >= MorningClose(region), ExitDeadline(region, day, minute) = At(day, AfternoonOpen)
      PROVE  At(day, minute) < ExitDeadline(region, day, minute)
  <2>1. FinalClose(region, day) = FullClose(region)
    BY <1>3, AllowedMinutes, Minutes DEF CalendarInput
  <2>2. minute < FullClose(region) + (IF region = "HongKong" THEN 10 ELSE 0)
    BY <1>3, <2>1 DEF ActiveFinalClose, FullClose, Regions, DayMinutes
  <2>3. minute < AfternoonOpen
    BY <1>1, <1>3, <2>2, AllowedMinutes DEF MorningClose, FullClose, AuctionStart, Regions
  <2> QED
    BY <1>1, <1>3, <2>3, DaysAreCounted
<1>4. ASSUME NEW e \in days, e > day, ExitDeadline(region, day, minute) = At(e, opening)
      PROVE  At(day, minute) < ExitDeadline(region, day, minute)
  BY <1>1, <1>4, DaysAreCounted
<1> QED
  BY <1>2, <1>3, <1>4, DeadlinesAre DEF opening

\* Before the deadline the venue does not open.
LEMMA NoOpeningBefore ==
    ASSUME NEW days \in SUBSET Nat, CalendarInput(days), NEW region \in Regions, NEW day \in Nat,
           NEW minute \in 0 .. DayMinutes - 1,
           At(day, minute) < ExitDeadline(region, day, minute)
    PROVE  ~TradesBetween(region, At(day, minute), ExitDeadline(region, day, minute))
<1> DEFINE opening == AuctionStart(region)
           end == ExitDeadline(region, day, minute)
           now == At(day, minute)
<1>1. /\ opening \in 0 .. DayMinutes - 1 /\ opening < MorningOpen /\ MorningOpen = 570 /\ AfternoonOpen = 780
      /\ MorningOpen \in 0 .. DayMinutes - 1 /\ AfternoonOpen \in 0 .. DayMinutes - 1
      /\ MorningClose(region) \in 690 .. 720
  BY Minutes DEF DayMinutes, AfternoonOpen, MorningOpen
<1>2. now \in Nat /\ now \div DayMinutes = day /\ now % DayMinutes = minute
  BY DaysAreCounted
<1>3. end # Never
  BY <1>2 DEF Never
<1>4. ~ReallyOpen(region, day, minute)
  <2> SUFFICES ASSUME ReallyOpen(region, day, minute) PROVE FALSE
    OBVIOUS
  <2>1. TradingDay(day) /\ day \in DOMAIN Calendar
    BY DEF ReallyOpen, TradingDay, Supported
  <2>2. CASE MorningOpen <= minute /\ minute < MorningClose(region)
    <3>1. end = At(day, opening)
      BY <2>1, <2>2, <1>1, <1>3, DeadlinesAre
    <3> QED
      BY <1>1, <2>2, <3>1, DaysAreCounted
  <2>3. CASE HasAfternoon(region, day) /\ AfternoonOpen <= minute /\ minute < FullClose(region)
    <3>1. FinalClose(region, day) = FullClose(region)
      BY <2>1, <2>3, Minutes
    <3>2. minute < ActiveFinalClose(region, day)
      BY <2>3, <3>1 DEF ActiveFinalClose, FullClose, Regions, DayMinutes
    <3>3. end = At(day, AfternoonOpen)
      BY <2>1, <2>3, <3>2, <1>1, <1>3, DeadlinesAre
    <3> QED
      BY <1>1, <2>3, <3>3, DaysAreCounted
  <2> QED
    BY <2>2, <2>3 DEF ReallyOpen
<1>5. ASSUME NEW d \in now \div DayMinutes .. end \div DayMinutes, NEW m \in {MorningOpen, AfternoonOpen},
             now <= At(d, m), At(d, m) < end, d \in DOMAIN Calendar, ReallyOpen(region, d, m)
      PROVE  FALSE
  <2>1. d \in Nat /\ d \in days /\ m \in 0 .. DayMinutes - 1 /\ TradingDay(d)
        /\ (m = AfternoonOpen => HasAfternoon(region, d))
    BY <1>1, <1>5, OpeningsAre DEF CalendarInput
  <2>2. day < d \/ (day = d /\ minute <= m)
    BY <1>5, <2>1, DaysAreCounted
  <2>3. CASE TradingDay(day) /\ minute < MorningClose(region) /\ end = At(day, opening)
    <3>1. d < day \/ (d = day /\ m < opening)
      <4>1. At(d, m) < At(day, opening) /\ opening \in 0 .. DayMinutes - 1
        BY <1>1, <1>5, <2>3
      <4> HIDE DEF opening
      <4> QED
        BY <2>1, <4>1, DaysAreCounted
    <3> QED
      BY <1>1, <2>1, <2>2, <3>1
  <2>4. CASE TradingDay(day) /\ minute >= MorningClose(region) /\ end = At(day, AfternoonOpen)
    <3>1. d < day \/ (d = day /\ m < AfternoonOpen)
      BY <1>1, <1>5, <2>1, <2>4, DaysAreCounted
    <3> QED
      BY <1>1, <2>1, <2>2, <2>4, <3>1
  <2>5. CASE /\ ~TradingDay(day) \/ (minute >= MorningClose(region)
                   /\ ~(HasAfternoon(region, day) /\ minute < ActiveFinalClose(region, day)))
             /\ \E e \in days : /\ end = At(e, opening)
                                /\ e > day /\ \A x \in day + 1 .. e - 1 : ~TradingDay(x)
    <3>1. PICK e \in days : /\ end = At(e, opening)
                            /\ e > day /\ \A x \in day + 1 .. e - 1 : ~TradingDay(x)
      BY <2>5
    <3>2. d < e \/ (d = e /\ m < opening)
      <4>1. At(d, m) < At(e, opening) /\ opening \in 0 .. DayMinutes - 1 /\ e \in Nat
        BY <1>1, <1>5, <3>1
      <4> HIDE DEF opening
      <4> QED
        BY <2>1, <4>1, DaysAreCounted
    <3>3. d < e
      BY <1>1, <2>1, <3>2
    <3>4. d = day
      BY <2>1, <2>2, <3>1, <3>3
    <3>5. minute <= m /\ minute >= MorningClose(region)
          /\ ~(HasAfternoon(region, day) /\ minute < ActiveFinalClose(region, day))
      BY <2>1, <2>2, <2>5, <3>4
    <3>6. m = AfternoonOpen /\ HasAfternoon(region, day)
      BY <1>1, <2>1, <3>4, <3>5
    <3>7. FinalClose(region, day) = FullClose(region)
      BY <1>5, <3>4, <3>6, Minutes
    <3>8. minute < ActiveFinalClose(region, day)
      BY <1>1, <3>5, <3>6, <3>7 DEF ActiveFinalClose, FullClose, Regions
    <3> QED
      BY <3>5, <3>6, <3>8
  <2> QED
    BY <1>3, <2>3, <2>4, <2>5, DeadlinesAre
<1> QED
  BY <1>2, <1>4, <1>5 DEF TradesBetween

\* Since the close an anchor was read from, the venue has not traded.
LEMMA NothingSinceTheClose ==
    ASSUME NEW days \in SUBSET Nat, CalendarInput(days), NEW region \in Regions, NEW day \in Nat,
           NEW minute \in 0 .. DayMinutes - 1, FlattenLead \in 0 .. 540,
           SessionAllowsEntry(region, day, minute),
           AnchorUsable(region, LatestCompletedClose(region, day, minute), day, minute),
           ~(TradingDay(day) /\ minute \in MorningClose(region) .. AfternoonOpen - 1)
    PROVE  ~TradesBetween(region, LatestCompletedClose(region, day, minute), At(day, minute))
<1> DEFINE now == At(day, minute)
           closed == {d \in DOMAIN Calendar : d <= day /\ TradingDay(d)}
           closes == {At(d, FinalClose(region, d)) : d \in closed}
           complete == {c \in closes : c + 1 <= now}
           close == LatestCompletedClose(region, day, minute)
<1>1. /\ MorningOpen = 570 /\ AfternoonOpen = 780 /\ DOMAIN Calendar = days
      /\ MorningOpen \in 0 .. DayMinutes - 1 /\ AfternoonOpen \in 0 .. DayMinutes - 1
      /\ MorningClose(region) \in 690 .. 720
      /\ \A d \in days : FinalClose(region, d) \in 690 .. 960 /\ FinalClose(region, d) \in 0 .. DayMinutes - 1
  BY Minutes DEF DayMinutes, AfternoonOpen, MorningOpen, CalendarInput
<1>2. now \in Nat
  BY DaysAreCounted
<1>3. complete # {} /\ close = Latest(complete)
  BY DEF AnchorUsable, LatestCompletedClose
<1>4. \A c \in complete : c \in 0 .. now
  <2> SUFFICES ASSUME NEW d \in closed, At(d, FinalClose(region, d)) + 1 <= now
               PROVE  At(d, FinalClose(region, d)) \in 0 .. now
    OBVIOUS
  <2>0. d \in DOMAIN Calendar
    OBVIOUS
  <2>1. d \in Nat /\ FinalClose(region, d) \in 0 .. DayMinutes - 1
    <3>1. d \in days
      BY <1>1, <2>0
    <3>2. FinalClose(region, d) \in 0 .. DayMinutes - 1
      BY <1>1, <3>1
    <3> QED
      BY <3>1, <3>2
  <2>2. At(d, FinalClose(region, d)) \in Nat
    BY <2>1, DaysAreCounted
  <2> QED
    BY <1>2, <2>2
<1>5. close \in complete
  <2> HIDE DEF complete, now, close
  <2> QED
    BY <1>2, <1>3, <1>4, LatestIs
<1>6. PICK c \in closed : close = At(c, FinalClose(region, c))
  BY <1>5
<1> HIDE DEF close
<1> DEFINE f == FinalClose(region, c)
<1>7. /\ c \in days /\ c \in Nat /\ TradingDay(c) /\ f \in 0 .. DayMinutes - 1 /\ f >= 690
      /\ f \in {MorningClose(region), FullClose(region)}
      /\ (HasAfternoon(region, c) => f = FullClose(region)) /\ close = At(c, f)
  <2>1. c \in DOMAIN Calendar /\ TradingDay(c)
    OBVIOUS
  <2> HIDE DEF closed
  <2>2. c \in days /\ c \in Nat /\ f \in 0 .. DayMinutes - 1 /\ f \in 690 .. 960
    <3>1. c \in days
      BY <1>1, <2>1
    <3>2. f \in 0 .. DayMinutes - 1 /\ f \in 690 .. 960
      BY <1>1, <3>1
    <3> QED
      BY <3>1, <3>2
  <2> QED
    BY <1>6, <2>1, <2>2, Minutes
<1>8. ~(HasAfternoon(region, c) /\ f < AfternoonOpen + 1)
  <2>1. f \in Nat
    <3>1. f \in 0 .. DayMinutes - 1
      BY <1>7
    <3> HIDE DEF f
    <3> QED
      BY <3>1 DEF DayMinutes
  <2> QED
    BY <1>1, <2>1 DEF HasAfternoon
<1> HIDE DEF f
<1>9. close \div DayMinutes = c /\ close % DayMinutes = f /\ close \in Nat
  BY <1>7, DaysAreCounted
<1>10. ~ReallyOpen(region, c, f)
  BY <1>1, <1>7 DEF ReallyOpen, MorningClose, FullClose, Regions
<1>11. \A d \in c + 1 .. day : ~(TradingDay(d) /\ (d < day \/ minute >= FinalClose(region, d)))
  BY <1>9 DEF AnchorUsable, close
<1>12. ASSUME NEW d \in close \div DayMinutes .. now \div DayMinutes,
              NEW m \in {MorningOpen, AfternoonOpen}, close <= At(d, m), At(d, m) < now,
              d \in DOMAIN Calendar, ReallyOpen(region, d, m)
       PROVE  FALSE
  <2>1. d \in days /\ d \in Nat /\ m \in 0 .. DayMinutes - 1 /\ TradingDay(d)
        /\ (m = AfternoonOpen => HasAfternoon(region, d))
    BY <1>1, <1>12, OpeningsAre
  <2>2. c < d \/ (c = d /\ f <= m)
    BY <1>7, <1>12, <2>1, DaysAreCounted
  <2>3. d < day \/ (d = day /\ m < minute)
    BY <1>12, <2>1, DaysAreCounted
  <2>4. c # d
    BY <1>1, <1>7, <1>8, <2>1, <2>2
  <2>5. d = day /\ minute < FinalClose(region, day) /\ TradingDay(day) /\ m < minute
    <3>1. d \in c + 1 .. day
      BY <1>7, <2>1, <2>2, <2>3, <2>4
    <3>2. ~(d < day) /\ ~(minute >= FinalClose(region, d))
      BY <1>11, <2>1, <3>1
    <3> QED
      BY <1>1, <2>1, <2>3, <3>2
  <2>6. minute > 570 /\ FinalClose(region, day) <= FullClose(region)
    BY <1>1, <2>1, <2>5, Minutes DEF FullClose, MorningClose, Regions
  <2> QED
    BY <1>1, <2>5, <2>6, AllowedMinutes DEF FullClose, MorningClose, AuctionStart, Regions
<1> QED
  BY <1>9, <1>10, <1>12 DEF TradesBetween, close

\* The calendar and the gates, for every calendar: what SessionsAgree says of a
\* session at any minute of any day.  The lead is less than the night before the auction.
THEOREM SessionsStayApart ==
    ASSUME NEW days \in SUBSET Nat, CalendarInput(days), NEW region \in Regions, NEW day \in Nat,
           NEW minute \in 0 .. DayMinutes - 1, FlattenLead \in 0 .. 540
    PROVE  SessionsAgree(region, day, minute)
<1> DEFINE opening == AuctionStart(region)
<1>1. opening \in 0 .. DayMinutes - 1 /\ opening \in {540, 555} /\ At(day, minute) \in Nat
  <2>1. opening \in {540, 555}
    BY Minutes
  <2> HIDE DEF opening
  <2>2. opening \in 0 .. DayMinutes - 1
    BY <2>1 DEF DayMinutes
  <2>3. At(day, minute) \in Nat
    BY DaysAreCounted
  <2> QED
    BY <2>1, <2>2, <2>3
<1>2. ASSUME SessionAllowsEntry(region, day, minute) PROVE ~ReallyOpen(region, day, minute)
  BY <1>2, AllowedMinutes
     DEF ReallyOpen, Regions, MorningOpen, AfternoonOpen, MorningClose, FullClose, AuctionStart
<1>3. ASSUME SessionAllowsEntry(region, day, minute), NextPreOpen(region, day, minute) # Never
      PROVE  At(day, minute) + FlattenLead <= NextPreOpen(region, day, minute)
  <2> DEFINE ahead == {d \in day .. day + 7 : TradingDay(d) /\ (d = day => minute < opening)}
             e == Earliest(ahead)
  <2>1. ahead # {} /\ NextPreOpen(region, day, minute) = At(e, opening)
    BY <1>3 DEF NextPreOpen
  <2>2. e \in ahead
    <3>1. ahead \in SUBSET Nat
      OBVIOUS
    <3> HIDE DEF ahead
    <3> QED
      BY <2>1, <3>1, EarliestIs
  <2> HIDE DEF e
  <2>3. CASE e = day
    <3>1. minute < opening /\ TradingDay(day)
      BY <2>2, <2>3
    <3>2. minute < opening - FlattenLead
      BY <1>1, <1>3, <3>1, AllowedMinutes DEF MorningClose, FullClose, Regions
    <3> QED
      BY <1>1, <2>1, <2>3, <3>2 DEF At, DayMinutes
  <2>4. CASE e # day
    <3>1. e \in Nat /\ e >= day + 1
      BY <2>2, <2>4
    <3> QED
      BY <1>1, <2>1, <3>1 DEF At, DayMinutes
  <2> QED
    BY <2>3, <2>4
<1>4. ASSUME ExitDeadline(region, day, minute) > At(day, minute)
      PROVE  ~TradesBetween(region, At(day, minute), ExitDeadline(region, day, minute))
  <2>1. At(day, minute) < ExitDeadline(region, day, minute)
    BY <1>4
  <2> QED
    BY <2>1, NoOpeningBefore
<1> QED
  BY <1>2, <1>3, <1>4, DeadlineIsAhead, NothingSinceTheClose DEF SessionsAgree

-----------------------------------------------------------------------------
(* The fair value.                                                         *)

FairInput(m) ==
    {m.anchor, m.index, m.mark, m.mid, m.volatility, m.spread, m.seen, m.until, m.maxAge} \subseteq Int

LEMMA PPMIs == Gates!PPM \in Nat \ {0}
  BY SMT DEF Gates!PPM

\* A larger divisor makes a smaller quotient of what is not negative.
LEMMA Divides ==
    ASSUME NEW n \in Nat, NEW a \in Nat \ {0}, NEW b \in Nat \ {0}, a <= b
    PROVE  n \div b <= n \div a
<1>1. n \div b \in Int /\ (n \div b) * b <= n /\ n \div b >= 0
  BY Quotients
<1> DEFINE q == n \div b
<1>2. q \in Nat /\ q * b <= n
  BY <1>1
<1> HIDE DEF q
<1>3. a * q <= b * q /\ a * q \in Int /\ b * q \in Int
  BY <1>2, Products
<1>4. q * a = a * q /\ q * b = b * q
  BY <1>2
<1>5. q * a <= n
  BY <1>2, <1>3, <1>4
<1> QED
  BY <1>2, <1>5, Fits DEF q

\* What is not negative is rounded towards it; a loss, away from it.
LEMMA LossesDivide ==
    ASSUME NEW n \in Int, n <= 0, NEW a \in Nat \ {0}, NEW b \in Nat \ {0}, a <= b
    PROVE  n \div a <= n \div b /\ n \div a <= 0 /\ n \div b <= 0
<1> DEFINE q == n \div a
<1>1. q \in Int /\ q * a <= n
  BY Quotients
<1>2. q <= 0 /\ n \div b <= 0
  BY Quotients
<1> HIDE DEF q
<1>3. (-q) * a <= (-q) * b
  <2>1. -q \in Nat
    BY <1>1, <1>2
  <2>2. a * (-q) <= b * (-q)
    BY <2>1, Products
  <2> QED
    BY <1>1, <2>2
<1>4. q * b <= n
  <2>1. (-q) * a = -(q * a) /\ (-q) * b = -(q * b) /\ q * a \in Int /\ q * b \in Int
    BY <1>1
  <2> QED
    BY <1>1, <1>3, <2>1
<1> QED
  BY <1>1, <1>2, <1>4, Fits DEF q

\* What is left of the horizon only shrinks.
LEMMA TrustShrinks ==
    ASSUME NEW m, FairInput(m), NEW earlier \in Int, NEW later \in Int
    PROVE  /\ Gates!Trust(m, later) \in 0 .. Gates!PPM
           /\ earlier <= later => Gates!Trust(m, later) <= Gates!Trust(m, earlier)
           /\ m.seen > 0 /\ Gates!Horizon(m) > 0 /\ later >= m.seen + Gates!Horizon(m) =>
                 Gates!Trust(m, later) = 0
<1> DEFINE H == Gates!Horizon(m)
           Left(t) == Gates!Greater(H - (t - m.seen), 0)
           Weighs(t) == m.seen > 0 /\ H > 0 /\ t >= m.seen
           Part(t) == (Left(t) * Gates!PPM) \div H
<1>1. H \in Int /\ m.seen \in Int /\ Gates!PPM \in Nat \ {0}
  BY PPMIs DEF FairInput, Gates!Horizon
<1>2. \A t \in Int : Gates!Trust(m, t) = IF Weighs(t) THEN Part(t) ELSE Gates!PPM
  BY DEF Gates!Trust
<1> HIDE DEF H
<1>3. ASSUME NEW t \in Int, Weighs(t)
      PROVE  H \in Nat \ {0} /\ Left(t) \in 0 .. H /\ Part(t) \in 0 .. Gates!PPM
  <2>1. H \in Nat \ {0} /\ Left(t) \in Nat /\ Left(t) <= H
    BY <1>1, <1>3 DEF Gates!Greater
  <2> HIDE DEF Left
  <2>2. Left(t) * Gates!PPM <= H * Gates!PPM /\ Left(t) * Gates!PPM \in Nat
    BY <1>1, <2>1, ProductsGrow
  <2>3. H * Gates!PPM = Gates!PPM * H /\ Left(t) * Gates!PPM <= Gates!PPM * H
    BY <1>1, <2>1, <2>2
  <2>4. Part(t) \in Int /\ Part(t) >= 0 /\ Part(t) <= Gates!PPM
    BY <1>1, <2>1, <2>2, <2>3, Quotients
  <2> QED
    BY <1>1, <2>1, <2>4
<1>4. ASSUME earlier <= later, Weighs(earlier) PROVE Part(later) <= Part(earlier) /\ Weighs(later)
  <2>1. Weighs(later)
    BY <1>1, <1>4
  <2>2. H \in Nat \ {0} /\ Left(later) \in Nat /\ Left(earlier) \in Nat
    BY <1>3, <1>4, <2>1
  <2>3. Left(later) <= Left(earlier)
    BY <1>1, <1>4 DEF Gates!Greater
  <2> HIDE DEF Left
  <2>4. Left(later) * Gates!PPM <= Left(earlier) * Gates!PPM
        /\ Left(later) * Gates!PPM \in Nat /\ Left(earlier) * Gates!PPM \in Nat
    BY <1>1, <2>2, <2>3, ProductsGrow
  <2> QED
    BY <2>1, <2>2, <2>4, QuotientsGrow
<1>5. ASSUME m.seen > 0, H > 0, later >= m.seen + H PROVE Gates!Trust(m, later) = 0
  <2>1. Weighs(later) /\ Left(later) = 0 /\ H \in Nat \ {0}
    BY <1>1, <1>5 DEF Gates!Greater
  <2>2. Part(later) = 0
    BY <1>1, <2>1
  <2> QED
    BY <1>2, <2>1, <2>2
<1> HIDE DEF Weighs, Part
<1> QED
  BY <1>1, <1>2, <1>3, <1>4, <1>5 DEF H

LEMMA DistancesAre ==
    ASSUME NEW a \in Int, NEW b \in Int
    PROVE  Gates!Distance(a, b) \in Nat
<1>1. Gates!Absolute(a - b) \in Nat /\ Gates!Greater(b, 1) \in Nat \ {0}
  BY DEF Gates!Absolute, Gates!Greater
<1>2. Gates!Absolute(a - b) * Unit \in Nat
  BY <1>1, UnitAssumption, Positive
<1> QED
  BY <1>1, <1>2, Quotients DEF Gates!Distance

\* As the anchor grows old, what it disagrees about counts for less.
LEMMA UncertaintyShrinks ==
    ASSUME NEW m, FairInput(m), NEW earlier \in Int, NEW later \in Int, earlier <= later
    PROVE  Gates!Uncertainty(m, later) <= Gates!Uncertainty(m, earlier)
<1> DEFINE own == Gates!Greater(Gates!Distance(m.mark, m.index), Gates!Distance(m.mid, m.mark))
           gap == Gates!Distance(m.index, m.anchor)
           Part(t) == (gap * Gates!Trust(m, t)) \div Gates!PPM
           rest == m.volatility + (m.spread \div 2)
<1>1. gap \in Nat /\ own \in Nat /\ rest \in Int /\ Gates!PPM \in Nat \ {0}
  <2>1. gap \in Nat /\ Gates!Distance(m.mark, m.index) \in Nat /\ Gates!Distance(m.mid, m.mark) \in Nat
    BY DistancesAre DEF FairInput
  <2>2. m.spread \div 2 \in Int
    BY DEF FairInput
  <2> QED
    BY <2>1, <2>2, PPMIs DEF FairInput, Gates!Greater
<1>2. Gates!Trust(m, later) \in Nat /\ Gates!Trust(m, earlier) \in Nat
      /\ Gates!Trust(m, later) <= Gates!Trust(m, earlier)
  BY TrustShrinks, PPMIs
<1>3. \A t \in Int : Gates!Uncertainty(m, t) = Gates!Greater(own, Part(t)) + m.volatility + (m.spread \div 2)
  BY DEF Gates!Uncertainty
<1> HIDE DEF own, gap
<1>4. gap * Gates!Trust(m, later) <= gap * Gates!Trust(m, earlier)
      /\ gap * Gates!Trust(m, later) \in Nat /\ gap * Gates!Trust(m, earlier) \in Nat
  BY <1>1, <1>2, ProductsGrow
<1>5. Part(later) \in Int /\ Part(earlier) \in Int /\ Part(later) <= Part(earlier)
  BY <1>1, <1>4, Quotients, QuotientsGrow
<1> HIDE DEF Part
<1>6. /\ Gates!Greater(own, Part(later)) \in Int /\ Gates!Greater(own, Part(earlier)) \in Int
      /\ Gates!Greater(own, Part(later)) <= Gates!Greater(own, Part(earlier))
  BY <1>1, <1>5 DEF Gates!Greater
<1>7. m.volatility \in Int /\ m.spread \div 2 \in Int
  BY DEF FairInput
<1> QED
  BY <1>3, <1>6, <1>7

\* A multiple of the divisor is added to the quotient.
LEMMA MultiplesAdd ==
    ASSUME NEW c \in Int, NEW n \in Int, NEW d \in Nat \ {0}
    PROVE  (c * d + n) \div d = c + n \div d
<1> DEFINE q == n \div d
           p == (c * d + n) \div d
<1>1. c * d \in Int /\ c * d + n \in Int
  OBVIOUS
<1>2. q \in Int /\ q * d <= n
  BY Quotients
<1>3. p \in Int /\ p * d <= c * d + n
  BY <1>1, Quotients
<1>4. c + q <= p
  <2> HIDE DEF q
  <2>1. (c + q) * d = c * d + q * d /\ q * d \in Int
    BY <1>2
  <2>2. (c + q) * d <= c * d + n
    BY <1>1, <1>2, <2>1
  <2> QED
    BY <1>1, <1>2, <2>2, Fits
<1>5. p - c <= q
  <2> HIDE DEF p
  <2>1. (p - c) * d = p * d - c * d /\ p * d \in Int
    BY <1>3
  <2>2. (p - c) * d <= n
    BY <1>1, <1>3, <2>1
  <2> QED
    BY <1>3, <2>2, Fits
<1> HIDE DEF p, q
<1>6. p = c + q
  BY <1>2, <1>3, <1>4, <1>5
<1> QED
  BY <1>6 DEF p, q

PriceSplits(m, at, w1, w2, w3) ==
    /\ Gates!Regime(m, at) = "dislocated" => w1 = 900 /\ w2 = 75 /\ w3 = 25
    /\ \A t \in Int :
         LET a == (w1 * Gates!Trust(m, t)) \div Gates!PPM
             n == (m.index - m.anchor) * w2 + (m.mark - m.anchor) * w3
         IN  /\ a \in 0 .. w1
             /\ Gates!FairPrice(m, at, t) = m.anchor + n \div (a + w2 + w3)

\* The fair value is the anchor, and what index and mark add to it: a weighted
\* difference, divided by all the weight there is.
LEMMA PricesAre ==
    ASSUME NEW m, FairInput(m), NEW at, Gates!Usable(m)
    PROVE  \E w1 \in Nat \ {0}, w2 \in Nat \ {0}, w3 \in Nat \ {0} :
             PriceSplits(m, at, w1, w2, w3)
<1> DEFINE w == Gates!Weights[Gates!Regime(m, at)]
<1>1. PICK w1 \in Nat \ {0}, w2 \in Nat \ {0}, w3 \in Nat \ {0} :
        w = <<w1, w2, w3>> /\ (Gates!Regime(m, at) = "dislocated" => w1 = 900 /\ w2 = 75 /\ w3 = 25)
  <2>1. Gates!Regime(m, at) \in {"dislocated", "stressed", "calm", "normal"}
    BY DEF Gates!Regime
  <2>2. CASE Gates!Regime(m, at) = "dislocated"
    <3>1. w = <<900, 75, 25>>
      BY <2>2 DEF Gates!Weights
    <3> QED
      BY <3>1
  <2>3. CASE Gates!Regime(m, at) = "stressed"
    <3>1. w = <<750, 175, 75>>
      BY <2>3 DEF Gates!Weights
    <3> QED
      BY <2>3, <3>1
  <2>4. CASE Gates!Regime(m, at) = "calm"
    <3>1. w = <<500, 300, 200>>
      BY <2>4 DEF Gates!Weights
    <3> QED
      BY <2>4, <3>1
  <2>5. CASE Gates!Regime(m, at) = "normal"
    <3>1. w = <<600, 250, 150>>
      BY <2>5 DEF Gates!Weights
    <3> QED
      BY <2>5, <3>1
  <2> QED
    BY <2>1, <2>2, <2>3, <2>4, <2>5
<1>2. {m.anchor, m.index, m.mark} \subseteq Int /\ Gates!PPM \in Nat \ {0}
  BY PPMIs DEF FairInput
<1>3. ASSUME NEW t \in Int
      PROVE  LET a == (w1 * Gates!Trust(m, t)) \div Gates!PPM
                 n == (m.index - m.anchor) * w2 + (m.mark - m.anchor) * w3
             IN  /\ a \in 0 .. w1
                 /\ Gates!FairPrice(m, at, t) = m.anchor + n \div (a + w2 + w3)
  <2> DEFINE trust == Gates!Trust(m, t)
             a == (w1 * trust) \div Gates!PPM
             n == (m.index - m.anchor) * w2 + (m.mark - m.anchor) * w3
             d == a + w2 + w3
  <2>1. Gates!FairPrice(m, at, t)
           = (m.anchor * a + m.index * w2 + m.mark * w3) \div Gates!Greater(d, 1)
    <3>1. w[1] = w1 /\ w[2] = w2 /\ w[3] = w3
      BY <1>1
    <3> HIDE DEF w
    <3> QED
      BY <3>1 DEF Gates!FairPrice, w
  <2>2. trust \in Nat /\ trust <= Gates!PPM
    BY TrustShrinks, PPMIs
  <2> HIDE DEF trust
  <2>3. w1 * trust \in Nat /\ w1 * trust <= w1 * Gates!PPM
    BY <1>2, <2>2, ProductsGrow
  <2>4. a \in 0 .. w1
    BY <1>2, <2>3, Quotients
  <2> HIDE DEF a
  <2>5. d \in Nat \ {0} /\ Gates!Greater(d, 1) = d
    BY <2>4 DEF Gates!Greater
  <2>6. m.anchor * a + m.index * w2 + m.mark * w3 = m.anchor * d + n /\ n \in Int
    BY <1>2, <2>4
  <2> HIDE DEF n, d
  <2>7. (m.anchor * d + n) \div d = m.anchor + n \div d
    <3>1. m.anchor \in Int
      BY <1>2
    <3> QED
      BY <2>5, <2>6, <3>1, MultiplesAdd
  <2>8. Gates!FairPrice(m, at, t) = m.anchor + n \div d
    BY <2>1, <2>5, <2>6, <2>7
  <2> QED
    BY <2>4, <2>8 DEF n, d, a, trust
<1>4. PriceSplits(m, at, w1, w2, w3)
  BY <1>1, <1>3 DEF PriceSplits
<1> QED
  BY <1>4

\* A weighted sum stays between what its parts stay between.
LEMMA SumsStay ==
    ASSUME NEW x \in Int, NEW y \in Int, NEW b \in Nat, NEW c \in Nat, NEW l \in Int, NEW u \in Int,
           l <= x, l <= y, x <= u, y <= u
    PROVE  x * b + y * c \in Int /\ l * (b + c) <= x * b + y * c /\ x * b + y * c <= u * (b + c)
<1>1. /\ l * b <= x * b /\ l * c <= y * c /\ x * b <= u * b /\ y * c <= u * c
      /\ {l * b, l * c, x * b, y * c, u * b, u * c} \subseteq Int
  BY Products
<1>2. l * (b + c) = l * b + l * c /\ u * (b + c) = u * b + u * c
  OBVIOUS
<1> QED
  BY <1>1, <1>2

\* A loss of one divisor is at least that of a larger one, a gain at most.
LEMMA Widened ==
    ASSUME NEW u \in Int, NEW d \in Nat, NEW e \in Nat, d <= e
    PROVE  /\ u * d \in Int /\ u * e \in Int
           /\ u >= 0 => u * d <= u * e
           /\ u <= 0 => u * e <= u * d
<1>1. u * d \in Int /\ u * e \in Int /\ u * e = u * d + u * (e - d) /\ e - d \in Nat
  OBVIOUS
<1> DEFINE f == e - d
<1>2. f \in Nat /\ u * e = u * d + u * f
  BY <1>1
<1> HIDE DEF f
<1>3. u >= 0 => u * f >= 0
  BY <1>2
<1>4. u <= 0 => u * f <= 0
  BY <1>2
<1>5. u * f \in Int
  BY <1>2
<1> QED
  BY <1>1, <1>2, <1>3, <1>4, <1>5

\* What a weighted difference adds stays within what index and mark are away from it.
LEMMA AddedStays ==
    ASSUME NEW x \in Int, NEW y \in Int, NEW b \in Nat \ {0}, NEW c \in Nat \ {0}, NEW a \in Nat,
           NEW l \in Int, NEW u \in Int, l <= x, l <= y, x <= u, y <= u
    PROVE  /\ (x * b + y * c) \div (a + b + c) \in Int
           /\ a = 0 => l <= (x * b + y * c) \div (a + b + c) /\ (x * b + y * c) \div (a + b + c) <= u
           /\ l <= 0 => l <= (x * b + y * c) \div (a + b + c)
           /\ u >= 0 => (x * b + y * c) \div (a + b + c) <= u
<1> DEFINE n == x * b + y * c
           d == a + b + c
<1>1. n \in Int /\ l * (b + c) <= n /\ n <= u * (b + c)
  BY SumsStay
<1>2. d \in Nat \ {0} /\ b + c \in Nat /\ b + c <= d /\ (a = 0 => d = b + c)
  OBVIOUS
<1>3. /\ u >= 0 => u * (b + c) <= u * d
      /\ l <= 0 => l * d <= l * (b + c)
      /\ {u * (b + c), u * d, l * (b + c), l * d} \subseteq Int
  <2> HIDE DEF d
  <2> QED
    BY <1>2, Widened
<1> HIDE DEF n, d
<1>4. l <= 0 \/ a = 0 => l * d <= n
  BY <1>1, <1>2, <1>3
<1>5. u >= 0 \/ a = 0 => n <= u * d
  BY <1>1, <1>2, <1>3
<1>6. n \div d \in Int
  BY <1>1, <1>2, Quotients
<1>7. l <= 0 \/ a = 0 => l <= n \div d
  BY <1>1, <1>2, <1>4, Fits
<1>8. u >= 0 \/ a = 0 => n \div d <= u
  BY <1>1, <1>2, <1>5, Quotients
<1> QED
  BY <1>6, <1>7, <1>8 DEF n, d

\* fair_value_keeps_anchor_primary_during_dislocation, and the comment on confidence, of
\* every market, whatever the horizon and however much the moments are apart: as an anchor
\* grows old, the fair value never moves back towards it, what it disagrees about counts
\* for less, it has no say once its horizon is over, and while it is fresh a dislocated
\* venue moves the price by at most a tenth of the distance.
THEOREM FairValueStaysAnchored ==
    ASSUME NEW m, FairInput(m), NEW at, NEW earlier \in Int, NEW later \in Int
    PROVE  Gates!AnchorIsPrimaryWhileItLasts(m, at, earlier, later)
<1> SUFFICES ASSUME Gates!Usable(m)
             PROVE  Gates!AnchorIsPrimaryWhileItLasts(m, at, earlier, later)
  BY DEF Gates!AnchorIsPrimaryWhileItLasts
<1> DEFINE Pull(t) == Gates!Absolute(Gates!FairPrice(m, at, t) - m.anchor)
           lowest == Gates!Lesser(m.index, m.mark)
           highest == Gates!Greater(m.index, m.mark)
<1>1. PICK w1 \in Nat \ {0}, w2 \in Nat \ {0}, w3 \in Nat \ {0} :
        PriceSplits(m, at, w1, w2, w3)
  BY PricesAre
<1> DEFINE x == m.index - m.anchor
           y == m.mark - m.anchor
           l == lowest - m.anchor
           u == highest - m.anchor
           Part(t) == (w1 * Gates!Trust(m, t)) \div Gates!PPM
           n == x * w2 + y * w3
           Divisor(t) == Part(t) + w2 + w3
<1>2. {m.anchor, m.index, m.mark} \subseteq Int
  BY DEF FairInput
<1>3. /\ {x, y, l, u, lowest, highest} \subseteq Int /\ l <= x /\ l <= y /\ x <= u /\ y <= u
      /\ l <= u
  BY <1>2 DEF Gates!Lesser, Gates!Greater
<1>4. \A t \in Int : Part(t) \in 0 .. w1 /\ Gates!FairPrice(m, at, t) = m.anchor + n \div Divisor(t)
  BY <1>1 DEF PriceSplits
<1>5. /\ Gates!Trust(m, later) \in 0 .. Gates!PPM /\ Gates!Trust(m, earlier) \in 0 .. Gates!PPM
      /\ earlier <= later => Gates!Trust(m, later) <= Gates!Trust(m, earlier)
      /\ m.seen > 0 /\ Gates!Horizon(m) > 0 /\ later >= m.seen + Gates!Horizon(m) =>
            Gates!Trust(m, later) = 0
  BY TrustShrinks
<1>6. earlier <= later => Part(later) <= Part(earlier)
  <2> SUFFICES ASSUME earlier <= later PROVE Part(later) <= Part(earlier)
    OBVIOUS
  <2> DEFINE p == Gates!Trust(m, later)
             q == Gates!Trust(m, earlier)
  <2>1. p \in Nat /\ q \in Nat /\ p <= q
    BY <1>5, PPMIs
  <2> HIDE DEF p, q
  <2>2. w1 * p <= w1 * q /\ w1 * p \in Nat /\ w1 * q \in Nat
    BY <2>1, ProductsGrow
  <2>3. (w1 * p) \div Gates!PPM <= (w1 * q) \div Gates!PPM
    BY <2>2, PPMIs, QuotientsGrow
  <2> QED
    BY <2>3 DEF p, q
<1>7. Gates!Trust(m, later) = 0 => Part(later) = 0
  BY PPMIs
<1>8. Gates!Regime(m, at) = "dislocated" /\ Gates!Trust(m, later) = Gates!PPM => Part(later) = 900
  <2> SUFFICES ASSUME Gates!Regime(m, at) = "dislocated", Gates!Trust(m, later) = Gates!PPM
               PROVE  (900 * Gates!PPM) \div Gates!PPM = 900
    BY <1>1 DEF PriceSplits
  <2> QED
    BY PPMIs, Fits, Quotients
<1> HIDE DEF Part
<1>9. \A t \in Int : Divisor(t) \in Nat \ {0}
  BY <1>4
<1>10. n \in Int
  BY <1>3
<1> HIDE DEF x, y, l, u, lowest, highest
<1>11. /\ n \div Divisor(later) \in Int
       /\ Part(later) = 0 => l <= n \div Divisor(later) /\ n \div Divisor(later) <= u
       /\ l <= 0 => l <= n \div Divisor(later)
       /\ u >= 0 => n \div Divisor(later) <= u
  <2>1. Part(later) \in Nat
    BY <1>4
  <2> QED
    BY <1>3, <2>1, AddedStays
<1>12. n \div Divisor(earlier) \in Int
  BY <1>9, <1>10, Quotients
<1>13. earlier <= later => Divisor(later) <= Divisor(earlier)
  BY <1>4, <1>6
<1>14. l >= 0 => n >= 0
  <2>1. l >= 0 => x \in Nat /\ y \in Nat
    BY <1>3
  <2>2. l >= 0 => x * w2 \in Nat /\ y * w3 \in Nat
    BY <2>1, Positive
  <2> QED
    BY <2>2
<1>15. u <= 0 => n <= 0
  <2>1. u <= 0 => -x \in Nat /\ -y \in Nat
    BY <1>3
  <2>2. u <= 0 => (-x) * w2 \in Nat /\ (-y) * w3 \in Nat
    BY <2>1, Positive
  <2>3. (-x) * w2 = -(x * w2) /\ (-y) * w3 = -(y * w3) /\ x * w2 \in Int /\ y * w3 \in Int
    BY <1>3
  <2> QED
    BY <2>2, <2>3
<1>16. Gates!Regime(m, at) = "dislocated" /\ Gates!Trust(m, later) = Gates!PPM =>
         n = 75 * x + 25 * y /\ Divisor(later) = 1000
  BY <1>1, <1>3, <1>8 DEF PriceSplits
<1> HIDE DEF n, Divisor
<1>17. \A t \in {earlier, later} : Pull(t) = Gates!Absolute(n \div Divisor(t))
  BY <1>2, <1>4, <1>11, <1>12
<1>18. earlier <= later /\ l >= 0 => Pull(later) >= Pull(earlier)
  <2> SUFFICES ASSUME earlier <= later, l >= 0 PROVE Pull(later) >= Pull(earlier)
    OBVIOUS
  <2>1. n \div Divisor(earlier) <= n \div Divisor(later)
    BY <1>9, <1>10, <1>13, <1>14, Divides
  <2>2. n \div Divisor(earlier) >= 0
    BY <1>9, <1>10, <1>14, Quotients
  <2> QED
    BY <1>11, <1>12, <1>17, <2>1, <2>2 DEF Gates!Absolute
<1>19. earlier <= later /\ u <= 0 => Pull(later) >= Pull(earlier)
  <2> SUFFICES ASSUME earlier <= later, u <= 0 PROVE Pull(later) >= Pull(earlier)
    OBVIOUS
  <2>1. /\ n \div Divisor(later) <= n \div Divisor(earlier)
        /\ n \div Divisor(later) <= 0 /\ n \div Divisor(earlier) <= 0
    BY <1>9, <1>10, <1>13, <1>15, LossesDivide
  <2> QED
    BY <1>11, <1>12, <1>17, <2>1 DEF Gates!Absolute
<1>20. Gates!Trust(m, later) = Gates!PPM /\ Gates!Regime(m, at) = "dislocated" =>
         10 * Pull(later) <= Gates!Greater(Gates!Absolute(l), Gates!Absolute(u)) + 10
  <2> SUFFICES ASSUME Gates!Trust(m, later) = Gates!PPM, Gates!Regime(m, at) = "dislocated"
               PROVE  10 * Pull(later) <= Gates!Greater(Gates!Absolute(l), Gates!Absolute(u)) + 10
    OBVIOUS
  <2>1. n = 75 * x + 25 * y /\ Divisor(later) = 1000
    BY <1>16
  <2>2. 100 * l <= n /\ n <= 100 * u
    BY <1>3, <2>1
  <2>3. Pull(later) = Gates!Absolute(n \div 1000)
    BY <1>17, <2>1
  <2> HIDE DEF Pull
  <2>4. n \div 1000 \in Int /\ 1000 * (n \div 1000) <= n /\ n < 1000 * (n \div 1000) + 1000
    BY <1>10
  <2> QED
    BY <1>3, <1>10, <2>2, <2>3, <2>4, SMT DEF Gates!Greater, Gates!Absolute
<1>21. Gates!FairPrice(m, at, later) \in Gates!Lesser(lowest, m.anchor) .. Gates!Greater(highest, m.anchor)
  <2> DEFINE low == Gates!Lesser(lowest, m.anchor) - m.anchor
             high == Gates!Greater(highest, m.anchor) - m.anchor
  <2>1. low \in Int /\ low <= l /\ low <= 0 /\ high \in Int /\ u <= high /\ high >= 0
    BY <1>2, <1>3 DEF l, u, Gates!Lesser, Gates!Greater
  <2> HIDE DEF low, high
  <2>2. low <= x /\ low <= y /\ x <= high /\ y <= high /\ Part(later) \in Nat
    BY <1>3, <1>4, <2>1
  <2>3. low <= n \div Divisor(later) /\ n \div Divisor(later) <= high
    BY <1>3, <2>1, <2>2, AddedStays DEF n, Divisor
  <2> QED
    BY <1>2, <1>3, <1>4, <1>11, <2>3 DEF low, high, Gates!Lesser, Gates!Greater
<1>22. Part(later) = 0 => Gates!FairPrice(m, at, later) \in lowest .. highest
  BY <1>2, <1>3, <1>4, <1>11 DEF l, u
<1>23. earlier <= later => Gates!Uncertainty(m, later) <= Gates!Uncertainty(m, earlier)
  BY UncertaintyShrinks
<1>24. (m.anchor <= lowest => l >= 0) /\ (m.anchor >= highest => u <= 0)
  BY <1>2, <1>3 DEF l, u
<1> HIDE DEF Pull
<1>25. earlier <= later /\ (m.anchor <= lowest \/ m.anchor >= highest) => Pull(later) >= Pull(earlier)
  BY <1>18, <1>19, <1>24
<1>26. m.seen > 0 /\ Gates!Horizon(m) > 0 /\ later >= m.seen + Gates!Horizon(m) =>
         Gates!FairPrice(m, at, later) \in lowest .. highest
  BY <1>5, <1>7, <1>22
<1> QED
  BY <1>20, <1>21, <1>23, <1>25, <1>26 DEF Gates!AnchorIsPrimaryWhileItLasts, Pull, l, u, lowest, highest
=============================================================================
