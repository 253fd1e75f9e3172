-------------------------- MODULE SimulationProofs --------------------------
(***************************************************************************)
(* SimulationEngine, for any number of symbols, any books, limits and      *)
(* rules of the exchange: an exit never turns a position round, exposure   *)
(* grows up to its limit only, a limit that is cut leaves no live entry    *)
(* beside what exceeds it, and the drawdown guard withdraws the entries.   *)
(* And the books it is fed with, DepthRecovery, for any histories of the   *)
(* exchange's books, any losses and any capacities: a valid book is the    *)
(* exchange's.                                                             *)
(***************************************************************************)
EXTENDS SimulationEngine, DepthRecovery, FiniteSetTheorems, TLAPS

Sides == {"buy", "sell"}
Live == [side : Sides, price : Int, remaining : Nat \ {0}, reduce_only : BOOLEAN, cancel : BOOLEAN]
Books == [bid : Nat, depth : Nat]
Engines == [position : [Symbols -> Int], working : [Symbols -> Live \cup {NoOrder}],
            book : [Symbols -> Books], cap : Caps, guard : Levels, level : Levels]
Intents == [side : Sides, price : Int, quantity : Int, post_only : BOOLEAN]

\* ExitsFitPosition of one symbol; and nothing is placed before there is a book.
Fits(e, s) ==
    /\ HasOrder(e, s) /\ e.working[s].reduce_only =>
          /\ Reduces(e.working[s].side, Position(e, s))
          /\ e.working[s].remaining <= Absolute(Position(e, s))
    /\ e.book[s] = NoBook => ~HasOrder(e, s)

Sound == {e \in Engines : \A s \in Symbols : Fits(e, s)}

\* The exposure of y, which comes after e, is within the limit or has not grown.
Held(e, y, s) == Exposure(y, s) <= y.cap[s] \/ Exposure(y, s) <= Exposure(e, s)

\* What is held has no live entry beside it.
Tame(e, s) == e.position[s] # 0 => ~LiveEntry(e, s)

\* A position that was at most reduced.
Shrunk(q, p) == (0 <= q /\ q <= p) \/ (p <= q /\ q <= 0)

\* What seeing to one symbol may do to an engine.
Acts(e, y, s) ==
    /\ y \in Engines /\ y.book = e.book /\ y.cap = e.cap
    /\ \A t \in Symbols : t # s => y.position[t] = e.position[t] /\ y.working[t] = e.working[t]
    /\ Shrunk(y.position[s], e.position[s])
    /\ y.position[s] = e.position[s] => y.level = e.level
    /\ Fits(y, s)
    /\ Held(e, y, s)

-----------------------------------------------------------------------------
(* Arithmetic.                                                             *)

LEMMA MinOfTwo ==
    ASSUME NEW a \in Int, NEW b \in Int
    PROVE  Min({a, b}) \in {a, b} /\ Min({a, b}) <= a /\ Min({a, b}) <= b
<1>1. \E x \in {a, b} : \A y \in {a, b} : x <= y
  <2>1. CASE a <= b
    BY <2>1
  <2>2. CASE b <= a
    BY <2>2
  <2> QED
    BY <2>1, <2>2
<1> QED
  BY <1>1 DEF Min

LEMMA MinOfThree ==
    ASSUME NEW a \in Int, NEW b \in Int, NEW c \in Int
    PROVE  Min({a, b, c}) \in Int
<1>1. \E x \in {a, b, c} : \A y \in {a, b, c} : x <= y
  <2>1. CASE a <= b /\ a <= c
    BY <2>1
  <2>2. CASE b <= a /\ b <= c
    BY <2>2
  <2>3. CASE c <= a /\ c <= b
    BY <2>3
  <2> QED
    BY <2>1, <2>2, <2>3
<1> QED
  BY <1>1 DEF Min

LEMMA MaxOfTwo ==
    ASSUME NEW a \in Int, NEW b \in Int
    PROVE  Max({a, b}) \in Int
<1>1. \E x \in {a, b} : \A y \in {a, b} : x >= y
  <2>1. CASE a <= b
    BY <2>1
  <2>2. CASE b <= a
    BY <2>2
  <2> QED
    BY <2>1, <2>2
<1> QED
  BY <1>1 DEF Max

LEMMA MaxOfThree ==
    ASSUME NEW a \in Int, NEW b \in Int, NEW c \in Int
    PROVE  Max({a, b, c}) \in Int /\ Max({a, b, c}) >= b
<1>1. \E x \in {a, b, c} : \A y \in {a, b, c} : x >= y
  <2>1. CASE a >= b /\ a >= c
    BY <2>1
  <2>2. CASE b >= a /\ b >= c
    BY <2>2
  <2>3. CASE c >= a /\ c >= b
    BY <2>3
  <2> QED
    BY <2>1, <2>2, <2>3
<1> QED
  BY <1>1 DEF Max

\* What was reduced was there.
LEMMA ShrunkFrom ==
    ASSUME NEW q \in Int, NEW p \in Int, Shrunk(q, p), q # 0
    PROVE  p # 0
  BY DEF Shrunk

LEMMA RoundedUp ==
    ASSUME NEW n \in Nat, NEW step \in Nat \ {0}
    PROVE  RoundUp(n, step) \in Nat
<1>1. (n + step - 1) \div step \in Nat
  OBVIOUS
<1>2. \A a, b \in Nat : a * b \in Nat
  OBVIOUS
<1> QED
  BY <1>1, <1>2 DEF RoundUp

LEMMA RoundedDown ==
    ASSUME NEW n \in Int, NEW step \in Nat \ {0}
    PROVE  RoundDown(n, step) \in Int
<1>1. n % step \in Int
  OBVIOUS
<1> QED
  BY <1>1 DEF RoundDown

LEMMA RulesAre ==
    /\ Rules.min_price \in Nat /\ Rules.max_price \in Nat /\ Rules.price_tick \in Nat \ {0}
    /\ Rules.min_quantity \in Nat \ {0} /\ Rules.max_quantity \in Nat
    /\ Rules.quantity_step \in Nat \ {0} /\ Rules.min_notional \in Nat
  BY RulesAssumption

\* A quantity the exchange's rules made of another is no more than the maximum.
LEMMA NormalizedQuantity ==
    ASSUME NEW requested \in Int, NEW price \in Int, NEW maximum \in Int,
           NormalizeQuantity(Rules, requested, price, maximum, 1) # 0
    PROVE  /\ NormalizeQuantity(Rules, requested, price, maximum, 1) \in Nat \ {0}
           /\ NormalizeQuantity(Rules, requested, price, maximum, 1) <= maximum
<1> DEFINE limit == Min({maximum, Rules.max_quantity})
           down == RoundDown(Min({requested, limit}), Rules.quantity_step)
           required == RequiredQuantity(Rules, price, 1)
           raised == Max({down, Rules.min_quantity, required})
           stepped == RoundUp(raised, Rules.quantity_step)
<1>1. NormalizeQuantity(Rules, requested, price, maximum, 1)
        = IF requested <= 0 \/ price <= 0 \/ maximum <= 0 \/ stepped > limit THEN 0 ELSE stepped
  BY Zenon DEF NormalizeQuantity
<1>2. ~(requested <= 0 \/ price <= 0 \/ maximum <= 0 \/ stepped > limit)
  BY <1>1
<1>3. limit \in Int /\ limit <= maximum
  <2>1. Rules.max_quantity \in Int
    BY RulesAre
  <2> QED
    BY <2>1, MinOfTwo, Zenon
<1>4. down \in Int
  <2>1. Min({requested, limit}) \in Int
    BY <1>3, MinOfTwo
  <2> QED
    BY <2>1, RulesAre, RoundedDown
<1>5. required \in Int
  <2>1. price \in Nat \ {0} /\ Rules.min_notional \in Nat
    BY <1>2, RulesAre
  <2>2. (Rules.min_notional * 1 + price - 1) \in Nat
    BY <2>1
  <2>3. \A n \in Nat, d \in Nat \ {0} : n \div d \in Int
    OBVIOUS
  <2> QED
    BY <2>1, <2>2, <2>3 DEF RequiredQuantity
<1>6. raised \in Nat
  <2>1. Rules.min_quantity \in Nat
    BY RulesAre
  <2> HIDE DEF down, required
  <2>2. raised \in Int /\ raised >= Rules.min_quantity
    BY <1>4, <1>5, <2>1, MaxOfThree
  <2> QED
    BY <2>1, <2>2
<1>7. stepped \in Nat
  BY <1>6, RulesAre, RoundedUp
<1> HIDE DEF limit, stepped
<1> QED
  BY <1>1, <1>2, <1>3, <1>7

LEMMA NormalizedPrice ==
    ASSUME NEW price, NEW isBuy, NEW postOnly
    PROVE  NormalizePrice(Rules, price, isBuy, postOnly) \in Int
  BY RulesAre DEF NormalizePrice

-----------------------------------------------------------------------------
(* What becomes of the order and of the position of one symbol.            *)

LEMMA Orders ==
    ASSUME NEW e \in Engines, NEW s \in Symbols
    PROVE  /\ HasOrder(e, s) => /\ e.working[s] \in Live
                                /\ e.working[s].side \in Sides
                                /\ e.working[s].remaining \in Nat \ {0}
                                /\ e.working[s].reduce_only \in BOOLEAN
           /\ e.position[s] \in Int /\ e.cap[s] \in Nat \ {0} /\ e.book[s] \in Books
           /\ e.book[s].bid \in Nat /\ e.book[s].depth \in Nat
<1>1. e.working[s] \in Live \cup {NoOrder} /\ e.position[s] \in Int /\ e.cap \in Caps /\ e.book[s] \in Books
  BY DEF Engines
<1>2. \A known \in Books : known.bid \in Nat /\ known.depth \in Nat
  BY DEF Books
<1>3. \A order \in Live : /\ order.side \in Sides /\ order.remaining \in Nat \ {0}
                          /\ order.reduce_only \in BOOLEAN
  BY DEF Live
<1>4. Caps \subseteq [Symbols -> Nat \ {0}]
  BY EngineAssumption
<1> QED
  BY <1>1, <1>2, <1>3, <1>4 DEF HasOrder

LEMMA ExposureIs ==
    ASSUME NEW e \in Engines, NEW s \in Symbols
    PROVE  Exposure(e, s) \in Int /\ Absolute(Position(e, s)) \in Int /\ e.cap[s] \in Int
<1>1. e.position[s] \in Int /\ e.cap[s] \in Int /\ (HasOrder(e, s) => e.working[s].remaining \in Int)
  BY Orders
<1> QED
  BY <1>1 DEF Exposure, Absolute, Position, Entry

LEMMA HeldTwice ==
    ASSUME NEW e \in Engines, NEW x \in Engines, NEW y \in Engines, NEW s \in Symbols,
           y.cap = x.cap, Held(e, x, s), Held(x, y, s)
    PROVE  Held(e, y, s)
  BY ExposureIs DEF Held

\* The same position and order are the same exposure.
LEMMA HeldAsIs ==
    ASSUME NEW e \in Engines, NEW y \in Engines, NEW s \in Symbols,
           y.position[s] = e.position[s], y.working[s] = e.working[s]
    PROVE  Exposure(y, s) = Exposure(e, s) /\ Held(e, y, s)
<1>1. Exposure(y, s) = Exposure(e, s)
  BY DEF Exposure, Position, Entry, HasOrder
<1> QED
  BY <1>1, ExposureIs DEF Held

LEMMA ActsKeepSound ==
    ASSUME NEW e \in Sound, NEW y, NEW s \in Symbols, Acts(e, y, s)
    PROVE  y \in Sound
<1>1. y \in Engines /\ Fits(y, s)
  BY DEF Acts
<1>2. ASSUME NEW t \in Symbols, t # s
      PROVE  Fits(y, t)
  <2>1. Fits(e, t)
    BY DEF Sound
  <2>2. y.position[t] = e.position[t] /\ y.working[t] = e.working[t] /\ y.book = e.book
    BY <1>2 DEF Acts
  <2> QED
    BY <2>1, <2>2 DEF Fits, HasOrder, Position
<1> QED
  BY <1>1, <1>2 DEF Sound

LEMMA ActsNot ==
    ASSUME NEW e \in Sound, NEW s \in Symbols
    PROVE  Acts(e, e, s)
<1>1. e \in Engines /\ Fits(e, s)
  BY DEF Sound
<1>2. e.position[s] \in Int /\ Held(e, e, s)
  BY <1>1, Orders, HeldAsIs
<1> QED
  BY <1>1, <1>2 DEF Acts, Shrunk

LEMMA ActsTwice ==
    ASSUME NEW e, NEW x, NEW y, NEW s \in Symbols, e \in Sound, Acts(e, x, s), Acts(x, y, s)
    PROVE  Acts(e, y, s)
<1>1. /\ e.position[s] \in Int /\ x.position[s] \in Int /\ y.position[s] \in Int
  BY Orders DEF Acts, Sound
<1>2. /\ Shrunk(y.position[s], e.position[s])
      /\ y.position[s] = e.position[s] => x.position[s] = e.position[s]
  BY <1>1 DEF Acts, Shrunk
<1>3. \A t \in Symbols : t # s => y.position[t] = e.position[t] /\ y.working[t] = e.working[t]
  BY DEF Acts
<1>4. y.book = e.book /\ y.cap = e.cap /\ Held(e, y, s) /\ y \in Engines /\ Fits(y, s)
  BY HeldTwice DEF Acts, Sound
<1>5. y.position[s] = e.position[s] => y.level = e.level
  BY <1>2 DEF Acts
<1> QED
  BY <1>2, <1>3, <1>4, <1>5 DEF Acts

\* A new order record for one symbol.
LEMMA Rewritten ==
    ASSUME NEW e \in Engines, NEW s \in Symbols, NEW order \in Live \cup {NoOrder}
    PROVE  LET y == [e EXCEPT !.working[s] = order] IN
           /\ y \in Engines /\ y.position = e.position /\ y.book = e.book /\ y.cap = e.cap
           /\ y.guard = e.guard /\ y.level = e.level /\ y.working[s] = order
           /\ \A t \in Symbols : t # s => y.working[t] = e.working[t]
<1> DEFINE y == [e EXCEPT !.working[s] = order]
           w == [e.working EXCEPT ![s] = order]
<1>1. e.working \in [Symbols -> Live \cup {NoOrder}]
  BY DEF Engines
<1>2. /\ w \in [Symbols -> Live \cup {NoOrder}] /\ w[s] = order
      /\ \A t \in Symbols : t # s => w[t] = e.working[t]
  BY <1>1
<1>3. y = [e EXCEPT !.working = w]
  BY DEF Engines
<1> HIDE DEF w, y
<1>4. /\ y \in Engines /\ y.position = e.position /\ y.book = e.book /\ y.cap = e.cap
      /\ y.guard = e.guard /\ y.level = e.level /\ y.working = w
  BY <1>2, <1>3 DEF Engines
<1>5. /\ y \in Engines /\ y.position = e.position /\ y.book = e.book /\ y.cap = e.cap
      /\ y.guard = e.guard /\ y.level = e.level /\ y.working[s] = order
      /\ \A t \in Symbols : t # s => y.working[t] = e.working[t]
  BY <1>2, <1>4
<1> QED
  BY <1>5 DEF y

\* A cancel leaves the position alone, and no live entry.
LEMMA Cancelled ==
    ASSUME NEW e \in Sound, NEW s \in Symbols
    PROVE  LET y == CancelSymbol(e, s) IN
           /\ Acts(e, y, s) /\ y.guard = e.guard /\ y.position = e.position /\ y.level = e.level
           /\ ~LiveEntry(y, s)
<1> DEFINE y == CancelSymbol(e, s)
<1>0. e \in Engines /\ Fits(e, s) /\ e.position[s] \in Int
  BY Orders DEF Sound
<1>1. CASE ~HasOrder(e, s)
  <2>1. y = e
    BY <1>1 DEF CancelSymbol
  <2> QED
    BY <1>1, <2>1, ActsNot DEF LiveEntry, Entry
<1>2. CASE HasOrder(e, s)
  <2> DEFINE order == IF CancelLatency THEN [e.working[s] EXCEPT !.cancel = TRUE] ELSE NoOrder
  <2>1. e.working[s] \in Live
    BY <1>0, <1>2, Orders
  <2>2. y = [e EXCEPT !.working[s] = order]
    BY <1>2 DEF CancelSymbol
  <2>3. order = NoOrder \/ (/\ order \in Live /\ order.cancel
                            /\ order.side = e.working[s].side /\ order.remaining = e.working[s].remaining
                            /\ order.reduce_only = e.working[s].reduce_only)
    BY <2>1 DEF Live
  <2> HIDE DEF order, y
  <2>4. /\ y \in Engines /\ y.position = e.position /\ y.book = e.book /\ y.cap = e.cap
        /\ y.guard = e.guard /\ y.level = e.level /\ y.working[s] = order
        /\ \A t \in Symbols : t # s => y.working[t] = e.working[t]
    BY <1>0, <2>2, <2>3, Rewritten
  <2>5. Fits(y, s)
    BY <1>0, <1>2, <2>3, <2>4 DEF Fits, HasOrder, Position
  <2>6. Held(e, y, s)
    <3>1. CASE order = NoOrder
      <4>1. ~Entry(y, s)
        BY <3>1, <2>4 DEF Entry, HasOrder
      <4>2. e.working[s].remaining \in Nat
        BY <2>1 DEF Live
      <4>3. /\ Absolute(Position(e, s)) \in Int
            /\ Absolute(Position(y, s)) = Absolute(Position(e, s))
        BY <1>0, <2>4 DEF Position, Absolute
      <4> QED
        BY <4>1, <4>2, <4>3 DEF Held, Exposure
    <3>2. CASE order # NoOrder
      <4>1. Entry(y, s) <=> Entry(e, s)
        BY <3>2, <1>2, <2>3, <2>4 DEF Entry, HasOrder
      <4>2. Exposure(y, s) = Exposure(e, s)
        BY <4>1, <3>2, <2>3, <2>4 DEF Exposure, Position
      <4> QED
        BY <1>0, <4>2, ExposureIs DEF Held
    <3> QED
      BY <3>1, <3>2
  <2>7. ~LiveEntry(y, s)
    BY <2>3, <2>4 DEF LiveEntry, Entry, HasOrder
  <2> QED
    BY <1>0, <2>4, <2>5, <2>6, <2>7 DEF Acts, Shrunk, y
<1> QED
  BY <1>1, <1>2

LEMMA AFill ==
    ASSUME NEW e \in Engines, NEW s \in Symbols, NEW side, NEW quantity \in Int,
           NEW y \in Filled(e, s, side, quantity)
    PROVE  /\ y \in Engines /\ y.working = e.working /\ y.book = e.book /\ y.cap = e.cap
           /\ y.guard = e.guard /\ y.position[s] = e.position[s] + Signed(side, quantity)
           /\ \A t \in Symbols : t # s => y.position[t] = e.position[t]
<1> DEFINE p == [e.position EXCEPT ![s] = @ + Signed(side, quantity)]
<1>1. PICK level \in Levels : y = [[e EXCEPT !.position = p] EXCEPT !.level = level]
  BY DEF Filled, Revalued, Engines
<1>2. e.position \in [Symbols -> Int] /\ Signed(side, quantity) \in Int
  BY DEF Engines, Signed
<1>3. /\ p \in [Symbols -> Int] /\ p[s] = e.position[s] + Signed(side, quantity)
      /\ \A t \in Symbols : t # s => p[t] = e.position[t]
  BY <1>2
<1> HIDE DEF p
<1>4. /\ y \in Engines /\ y.working = e.working /\ y.book = e.book /\ y.cap = e.cap
      /\ y.guard = e.guard /\ y.position = p
  BY <1>1, <1>3 DEF Engines
<1> QED
  BY <1>3, <1>4

\* A taker closes what there is to reduce, or part of it.
LEMMA Taken ==
    ASSUME NEW e \in Sound, NEW s \in Symbols, ~HasOrder(e, s), NEW intent \in Intents,
           NEW quantity \in Nat \ {0}, NEW y \in PlaceTaker(e, s, intent, quantity)
    PROVE  Acts(e, y, s) /\ y.guard = e.guard /\ ~HasOrder(y, s)
<1>0. e \in Engines /\ Fits(e, s) /\ e.position[s] \in Int
  BY Orders DEF Sound
<1>1. CASE y = e
  BY <1>1, ActsNot
<1>2. CASE y # e
  <2> DEFINE q == Min({quantity, Absolute(Position(e, s))})
  <2>1. /\ Reduces(intent.side, Position(e, s)) /\ y \in Filled(e, s, intent.side, q)
    BY <1>2 DEF PlaceTaker
  <2>2. intent.side \in Sides
    BY DEF Intents
  <2>3. Absolute(Position(e, s)) \in Nat \ {0}
    BY <1>0, <2>1, <2>2 DEF Absolute, Position, Reduces, Sides
  <2>4. q \in Nat \ {0} /\ q <= Absolute(Position(e, s))
    BY <2>3, MinOfTwo
  <2> HIDE DEF q
  <2>5. /\ y \in Engines /\ y.working = e.working /\ y.book = e.book /\ y.cap = e.cap
        /\ y.guard = e.guard /\ y.position[s] = e.position[s] + Signed(intent.side, q)
        /\ \A t \in Symbols : t # s => y.position[t] = e.position[t]
    BY <1>0, <2>1, <2>4, AFill
  <2>6. ~HasOrder(y, s)
    BY <2>5 DEF HasOrder
  <2>7. /\ Shrunk(y.position[s], e.position[s]) /\ y.position[s] # e.position[s]
        /\ Absolute(Position(y, s)) <= Absolute(Position(e, s))
        /\ Absolute(Position(y, s)) \in Int /\ Absolute(Position(e, s)) \in Int
    BY <1>0, <2>1, <2>2, <2>4, <2>5 DEF Shrunk, Absolute, Position, Reduces, Signed, Sides
  <2>8. Held(e, y, s)
    <3>1. ~Entry(y, s) /\ ~Entry(e, s)
      BY <2>6 DEF Entry
    <3> QED
      BY <2>7, <3>1 DEF Held, Exposure
  <2>9. Fits(y, s)
    BY <2>6 DEF Fits
  <2> QED
    BY <2>5, <2>6, <2>7, <2>8, <2>9 DEF Acts
<1> QED
  BY <1>1, <1>2

\* A resting order fits: an exit the position, an entry the limit.
LEMMA Rested ==
    ASSUME NEW e \in Sound, NEW s \in Symbols, ~HasOrder(e, s), e.book[s] # NoBook,
           NEW intent \in Intents, NEW reduceOnly \in BOOLEAN,
           NEW quantity \in Nat \ {0}, quantity <= Capacity(e, s, reduceOnly),
           NEW y \in PlaceMaker(e, s, intent, quantity, reduceOnly)
    PROVE  Acts(e, y, s) /\ y.guard = e.guard /\ (reduceOnly => ~Entry(y, s))
<1>0. e \in Engines /\ Fits(e, s) /\ e.position[s] \in Int
  BY Orders DEF Sound
<1>1. CASE y = e
  BY <1>1, ActsNot DEF Entry
<1>2. CASE y # e
  <2> DEFINE order == [side |-> intent.side, price |-> intent.price, remaining |-> quantity,
                       reduce_only |-> reduceOnly, cancel |-> FALSE]
  <2>1. y = [e EXCEPT !.working[s] = order] /\ (reduceOnly => Reduces(intent.side, Position(e, s)))
    BY <1>2 DEF PlaceMaker
  <2>2. intent.side \in Sides /\ intent.price \in Int
    BY DEF Intents
  <2>3. /\ order \in Live /\ order # NoOrder /\ order.remaining = quantity /\ order.side = intent.side
    BY <2>2 DEF Live, NoOrder, Sides
  <2>3a. order.reduce_only = reduceOnly
    OBVIOUS
  <2> HIDE DEF order
  <2>4. /\ y \in Engines /\ y.position = e.position /\ y.book = e.book /\ y.cap = e.cap
        /\ y.guard = e.guard /\ y.level = e.level /\ y.working[s] = order
        /\ \A t \in Symbols : t # s => y.working[t] = e.working[t]
    BY <1>0, <2>1, <2>3, Rewritten
  <2>5. reduceOnly => ~Entry(y, s)
    BY <2>3a, <2>4 DEF Entry
  <2>6. Fits(y, s)
    <3>1. Position(y, s) = Position(e, s)
      BY <2>4 DEF Position
    <3>2. reduceOnly => Reduces(intent.side, Position(e, s)) /\ quantity <= Absolute(Position(e, s))
      BY <2>1 DEF Capacity
    <3>3. y.working[s].reduce_only = reduceOnly
      BY <2>3a, <2>4
    <3> QED
      BY <2>3, <2>4, <3>1, <3>2, <3>3 DEF Fits
  <2>7. Held(e, y, s)
    <3>1. /\ Absolute(Position(e, s)) \in Int /\ Absolute(Position(y, s)) = Absolute(Position(e, s))
          /\ y.cap[s] = e.cap[s] /\ e.cap[s] \in Int
      BY <1>0, <2>4, Orders DEF Position, Absolute
    <3>2. CASE reduceOnly
      <4>1. ~Entry(y, s) /\ ~Entry(e, s)
        BY <2>5, <3>2 DEF Entry
      <4> QED
        BY <3>1, <4>1 DEF Held, Exposure
    <3>3. CASE ~reduceOnly
      <4>1. quantity <= e.cap[s] - Absolute(Position(e, s))
        BY <3>3 DEF Capacity
      <4>2. y.working[s].remaining = quantity
        BY <2>3, <2>4
      <4>3. Exposure(y, s) <= e.cap[s]
        BY <3>1, <4>1, <4>2 DEF Exposure
      <4> QED
        BY <3>1, <4>3 DEF Held
    <3> QED
      BY <3>2, <3>3
  <2> QED
    BY <1>0, <2>4, <2>5, <2>6, <2>7 DEF Acts, Shrunk
<1> QED
  BY <1>1, <1>2

LEMMA Placed ==
    ASSUME NEW e \in Sound, NEW s \in Symbols, ~HasOrder(e, s), e.book[s] # NoBook,
           NEW intent \in Intents, NEW reduceOnly \in BOOLEAN,
           NEW y \in PlaceSymbol(e, s, intent, reduceOnly)
    PROVE  Acts(e, y, s) /\ y.guard = e.guard /\ (reduceOnly => ~Entry(y, s))
<1> DEFINE price    == NormalizePrice(Rules, intent.price, intent.side = "buy", intent.post_only)
           quantity == NormalizeQuantity(Rules, intent.quantity, price, Capacity(e, s, reduceOnly), 1)
           placed   == [intent EXCEPT !.price = price]
<1>1. CASE y = e
  BY <1>1, ActsNot DEF Entry
<1>2. CASE y # e
  <2>1. /\ quantity # 0
        /\ \/ y \in PlaceMaker(e, s, placed, quantity, reduceOnly)
           \/ y \in PlaceTaker(e, s, placed, quantity)
    BY <1>2 DEF PlaceSymbol
  <2>2. price \in Int
    BY NormalizedPrice
  <2> HIDE DEF price
  <2>3. placed \in Intents
    BY <2>2 DEF Intents
  <2>4. intent.quantity \in Int
    BY DEF Intents
  <2>5. Capacity(e, s, reduceOnly) \in Int
    <3>1. e.cap[s] \in Int /\ e.position[s] \in Int
      BY Orders DEF Sound
    <3> QED
      BY <3>1 DEF Capacity, Absolute, Position
  <2>6. quantity \in Nat \ {0} /\ quantity <= Capacity(e, s, reduceOnly)
    BY <2>1, <2>2, <2>4, <2>5, NormalizedQuantity
  <2> HIDE DEF quantity, placed
  <2>7. CASE y \in PlaceMaker(e, s, placed, quantity, reduceOnly)
    BY <2>3, <2>6, <2>7, Rested
  <2>8. CASE y \in PlaceTaker(e, s, placed, quantity)
    BY <2>3, <2>6, <2>8, Taken DEF Entry
  <2> QED
    BY <2>1, <2>7, <2>8
<1> QED
  BY <1>1, <1>2

-----------------------------------------------------------------------------
(* What is decided for a symbol.                                           *)

Submitted == [kind : {"submit"}, side : Sides, price : Int, quantity : Int]
Decided == [intent : Intents \cup {NoIntent}, reduce_only : BOOLEAN, soft : BOOLEAN]
ExitsOnly == {d \in Decided : d.reduce_only /\ ~d.soft}

LEMMA NoIntentIsNone == NoIntent \notin Intents
  BY DEF NoIntent, Intents, Sides

LEMMA WantsAre ==
    /\ WantsNothing \in ExitsOnly /\ SignalIsWeak \in Decided
    /\ \A intent \in Intents : /\ Wants(intent, TRUE) \in ExitsOnly
                               /\ Wants(intent, FALSE) \in Decided
  BY DEF WantsNothing, SignalIsWeak, Wants, ExitsOnly, Decided

LEMMA MakersAndTakers ==
    ASSUME NEW side \in Sides, NEW price \in Int, NEW quantity \in Int
    PROVE  Maker(side, price, quantity) \in Intents /\ Taker(side, price, quantity) \in Intents
  BY DEF Maker, Taker, Intents

LEMMA Quotients == \A n \in Nat, d \in Nat \ {0} : n \div d \in Nat
  OBVIOUS

LEMMA ParticipationIs ==
    ASSUME NEW depth \in Nat
    PROVE  Participation(Policy, depth) \in Nat
<1>1. Policy.participation \in Nat
  BY RulesAssumption
<1>2. \A a, b \in Nat : a * b \in Nat
  OBVIOUS
<1>3. depth * Policy.participation \in Nat
  BY <1>1, <1>2
<1> QED
  BY <1>3, Quotients DEF Participation

LEMMA Aggressive ==
    ASSUME NEW side, NEW best \in Int, NEW ask \in Int
    PROVE  AggressivePrice(Policy, side, best, ask) \in Int
<1>1. Policy.slippage \in Int
  BY RulesAssumption
<1>2. best - Policy.slippage \in Int
  BY <1>1
<1>3. Max({best - Policy.slippage, 1}) \in Int
  BY <1>2, MaxOfTwo
<1> QED
  BY <1>1, <1>3 DEF AggressivePrice

LEMMA TakerDecided ==
    ASSUME NEW in, in.position \in Int, in.working \in Int, in.depth \in Nat,
           in.bid \in Int, in.ask \in Int, DecideTaker(Policy, in) # Holds
    PROVE  DecideTaker(Policy, in) \in Submitted
<1> DEFINE remaining == IF in.working > 0 THEN in.working ELSE Absolute(in.position)
           quantity  == Min({Absolute(in.position), remaining, Participation(Policy, in.depth)})
           side      == ReducingSide(in.position)
           price     == AggressivePrice(Policy, side, in.bid, in.ask)
<1>1. DecideTaker(Policy, in) = Submits(side, price, quantity)
  BY Zenon DEF DecideTaker
<1>2. side \in Sides
  BY DEF ReducingSide, Sides
<1>3. price \in Int
  BY Aggressive
<1>4. quantity \in Int
  <2>1. Absolute(in.position) \in Int
    BY DEF Absolute
  <2>2. remaining \in Int
    BY <2>1
  <2>3. Participation(Policy, in.depth) \in Int
    BY ParticipationIs
  <2> HIDE DEF remaining
  <2> QED
    BY <2>1, <2>2, <2>3, MinOfThree
<1> HIDE DEF quantity, side, price
<1> QED
  BY <1>1, <1>2, <1>3, <1>4 DEF Submits, Submitted

LEMMA ForceDecided ==
    ASSUME NEW position \in Int, NEW ok \in BOOLEAN, NEW best \in Int, NEW ask \in Int, NEW depth \in Nat,
           ForceTaker(Policy, position, ok, best, ask, depth) # Holds
    PROVE  ok /\ ForceTaker(Policy, position, ok, best, ask, depth) \in Submitted
<1> DEFINE share == Participation(Policy, depth)
           held  == Absolute(position)
           quantity == Min({held, share})
           side == ReducingSide(position)
           price == AggressivePrice(Policy, side, best, ask)
<1>1. ForceTaker(Policy, position, ok, best, ask, depth) = Submits(side, price, quantity) /\ ok
  BY Zenon DEF ForceTaker
<1>2. share \in Int /\ held \in Int
  <2>1. held \in Int
    BY DEF Absolute
  <2>2. share \in Nat
    BY ParticipationIs
  <2> QED
    BY <2>1, <2>2
<1>3. side \in Sides
  BY DEF ReducingSide, Sides
<1>4. price \in Int
  BY Aggressive
<1> HIDE DEF share, held
<1>5. quantity \in Int
  BY <1>2, MinOfTwo
<1> HIDE DEF quantity, side, price
<1>6. Submits(side, price, quantity) \in Submitted
  BY <1>3, <1>4, <1>5 DEF Submits, Submitted
<1> QED
  BY <1>1, <1>6, Zenon

LEMMA FreshQuantityIs ==
    ASSUME NEW quantity \in Int, NEW limits, NEW price,
           limits.max_quantity \in Int, limits.quantity_step \in Nat \ {0}
    PROVE  FreshQuantity(quantity, limits, price) \in Int
<1> DEFINE capped == Min({quantity, limits.max_quantity})
           rounded == capped - (capped % limits.quantity_step)
<1>1. capped \in Int
  BY MinOfTwo
<1> HIDE DEF capped
<1>2. rounded \in Int
  <2>1. capped % limits.quantity_step \in Int
    BY <1>1
  <2> QED
    BY <1>1, <2>1
<1>3. FreshQuantity(quantity, limits, price) \in {0, rounded}
  BY DEF FreshQuantity, capped
<1> QED
  BY <1>2, <1>3

LEMMA MakerExitDecided ==
    ASSUME NEW in, in.position \in Int, in.bid \in Int, in.ask \in Int,
           in.limits.max_quantity \in Int, in.limits.quantity_step \in Nat \ {0}
    PROVE  LET d == DecideMakerExit(in) IN
           /\ d.kind = "submit" => d \in Submitted
           /\ d.kind = "keep" => Confirmed(in.working)
<1> DEFINE side == ReducingSide(in.position)
           price == IF in.position > 0 THEN in.ask ELSE in.bid
           quantity == FreshQuantity(Absolute(in.position), in.limits, price)
           d == DecideMakerExit(in)
<1>1. side \in Sides /\ price \in Int
  BY DEF ReducingSide, Sides
<1>2. Absolute(in.position) \in Int
  BY DEF Absolute
<1>3. quantity \in Int
  BY <1>2, FreshQuantityIs
<1>4. \/ d = Submits(side, price, quantity)
      \/ d = [kind |-> "keep"] /\ Confirmed(in.working)
      \/ d.kind \in {"wait", "trading", "blocked", "cancel", "flat", "residual"}
  BY DEF DecideMakerExit, Waits
<1> HIDE DEF side, price, quantity, d
<1>5. Submits(side, price, quantity) \in Submitted
  BY <1>1, <1>3 DEF Submits, Submitted
<1>6. (d.kind = "submit" => d \in Submitted) /\ (d.kind = "keep" => Confirmed(in.working))
  BY <1>4, <1>5 DEF Submitted
<1> QED
  BY <1>6 DEF d

LEMMA TakerExitsAre ==
    ASSUME NEW e \in Engines, NEW s \in Symbols, NEW d \in TakerExits(e, s), d # Holds
    PROVE  d \in Submitted
<1> DEFINE working == IF HasOrder(e, s) THEN Working(e, s).remaining ELSE 0
           in(deadline) ==
               [position |-> Position(e, s), market_ok |-> TRUE, deadline |-> deadline, now |-> 0,
                last_taker |-> NoTime, estimate |-> 0, working |-> working,
                bid |-> e.book[s].bid, ask |-> Ask(e.book[s]), depth |-> e.book[s].depth]
<1>1. PICK deadline \in {0, Policy.buffer} : d = DecideTaker(Policy, in(deadline))
  BY DEF TakerExits
<1>2. working \in Int
  BY Orders DEF Working
<1>3. /\ Position(e, s) \in Int /\ e.book[s].bid \in Int /\ Ask(e.book[s]) \in Int /\ e.book[s].depth \in Nat
  BY Orders DEF Position, Ask
<1> HIDE DEF working
<1>4. /\ in(deadline).position \in Int /\ in(deadline).working \in Int
      /\ in(deadline).bid \in Int /\ in(deadline).ask \in Int /\ in(deadline).depth \in Nat
  BY <1>2, <1>3
<1> HIDE DEF in
<1> QED
  BY <1>1, <1>4, TakerDecided

LEMMA MakerExitsAre ==
    ASSUME NEW e \in Engines, NEW s \in Symbols, NEW d \in MakerExits(e, s)
    PROVE  /\ d.kind = "submit" => d \in Submitted
           /\ d.kind = "keep" => HasOrder(e, s)
<1> DEFINE working == IF HasOrder(e, s) /\ Working(e, s).cancel THEN Pending ELSE Working(e, s)
           in(reversion, fresh) ==
               [position |-> Position(e, s), confirmed |-> TRUE, phase |-> "Trading", funding_known |-> TRUE,
                reversion |-> reversion, fresh |-> fresh, bid |-> e.book[s].bid, ask |-> Ask(e.book[s]),
                limits |-> ExitLimits(e, s), working |-> working]
<1>1. PICK reversion \in BOOLEAN, fresh \in BOOLEAN :
        d = DecideMakerExit(in(reversion, fresh))
  BY DEF MakerExits
<1>2. /\ Position(e, s) \in Int /\ e.book[s].bid \in Int /\ Ask(e.book[s]) \in Int
  BY Orders DEF Position, Ask
<1>3. /\ ExitLimits(e, s).max_quantity \in Int /\ ExitLimits(e, s).quantity_step \in Nat \ {0}
  <2>1. Absolute(Position(e, s)) \in Int /\ Rules.max_quantity \in Int /\ Rules.quantity_step \in Nat \ {0}
    BY <1>2, RulesAre DEF Absolute
  <2>2. Min({Absolute(Position(e, s)), Rules.max_quantity}) \in Int
    BY <2>1, MinOfTwo
  <2> QED
    BY <2>1, <2>2 DEF ExitLimits
<1>4. Confirmed(working) => HasOrder(e, s)
  BY DEF Confirmed, HasOrder, Working
<1> HIDE DEF working
<1>5. /\ in(reversion, fresh).position \in Int
      /\ in(reversion, fresh).bid \in Int /\ in(reversion, fresh).ask \in Int
      /\ in(reversion, fresh).limits.max_quantity \in Int
      /\ in(reversion, fresh).limits.quantity_step \in Nat \ {0}
      /\ in(reversion, fresh).working = working
  BY <1>2, <1>3
<1> HIDE DEF in
<1>6. /\ d.kind = "submit" => d \in Submitted
      /\ d.kind = "keep" => Confirmed(in(reversion, fresh).working)
  BY <1>1, <1>5, MakerExitDecided
<1> QED
  BY <1>4, <1>5, <1>6

LEMMA ExitDecisionsAre ==
    ASSUME NEW e \in Engines, NEW s \in Symbols
    PROVE  ExitDecisions(e, s) \subseteq ExitsOnly
<1> SUFFICES ASSUME NEW w \in ExitDecisions(e, s) PROVE w \in ExitsOnly
  OBVIOUS
<1>1. ASSUME NEW d \in TakerExits(e, s), d # Holds, w = Wants(Taker(d.side, d.price, d.quantity), TRUE)
      PROVE  w \in ExitsOnly
  <2>1. d.side \in Sides /\ d.price \in Int /\ d.quantity \in Int
    BY <1>1, TakerExitsAre DEF Submitted
  <2> QED
    BY <1>1, <2>1, MakersAndTakers, WantsAre
<1>2. ASSUME NEW d \in MakerExits(e, s), d.kind = "submit", w = Wants(Maker(d.side, d.price, d.quantity), TRUE)
      PROVE  w \in ExitsOnly
  <2>1. d.side \in Sides /\ d.price \in Int /\ d.quantity \in Int
    BY <1>2, MakerExitsAre DEF Submitted
  <2> QED
    BY <1>2, <2>1, MakersAndTakers, WantsAre
<1>3. ASSUME NEW d \in MakerExits(e, s), d.kind = "keep",
             w = Wants(Maker(Working(e, s).side, Working(e, s).price, Working(e, s).remaining), TRUE)
      PROVE  w \in ExitsOnly
  <2>1. Working(e, s) \in Live
    BY <1>3, MakerExitsAre, Orders DEF Working
  <2>2. Working(e, s).side \in Sides /\ Working(e, s).price \in Int /\ Working(e, s).remaining \in Int
    BY <2>1 DEF Live
  <2> QED
    BY <1>3, <2>2, MakersAndTakers, WantsAre
<1>4. CASE w \in {Wants(Taker(d.side, d.price, d.quantity), TRUE) : d \in TakerExits(e, s) \ {Holds}}
  BY <1>1, <1>4
<1>5. CASE \E d \in MakerExits(e, s) :
             w = CASE d.kind = "submit" -> Wants(Maker(d.side, d.price, d.quantity), TRUE)
                   [] d.kind = "keep"   -> LET order == Working(e, s) IN
                                           Wants(Maker(order.side, order.price, order.remaining), TRUE)
                   [] OTHER             -> WantsNothing
  <2>1. PICK d \in MakerExits(e, s) :
             w = CASE d.kind = "submit" -> Wants(Maker(d.side, d.price, d.quantity), TRUE)
                   [] d.kind = "keep"   -> LET order == Working(e, s) IN
                                           Wants(Maker(order.side, order.price, order.remaining), TRUE)
                   [] OTHER             -> WantsNothing
    BY <1>5
  <2>2. CASE d.kind = "submit"
    BY <2>1, <2>2, <1>2
  <2>3. CASE d.kind = "keep"
    BY <2>1, <2>3, <1>3
  <2>4. CASE d.kind \notin {"submit", "keep"}
    BY <2>1, <2>4, WantsAre
  <2> QED
    BY <2>2, <2>3, <2>4
<1> QED
  BY <1>4, <1>5 DEF ExitDecisions

LEMMA EntryDecisionsAre ==
    ASSUME NEW e \in Engines, NEW s \in Symbols
    PROVE  EntryDecisions(e, s) \subseteq Decided
<1>1. AnchorSignals(e, s) \subseteq Intents
  <2>1. e.book[s].bid \in Int /\ Ask(e.book[s]) \in Int /\ \A q \in Quantities : q \in Int
    BY Orders, EngineAssumption DEF Ask
  <2>2. \A q \in Quantities : /\ Maker("buy", e.book[s].bid, q) \in Intents
                              /\ Maker("sell", Ask(e.book[s]), q) \in Intents
    BY <2>1, MakersAndTakers DEF Sides
  <2> QED
    BY <2>2 DEF AnchorSignals
<1>2. ASSUME NEW intent \in Intents PROVE Projected(e, s, intent) \in Decided
  <2> DEFINE price    == NormalizePrice(Rules, intent.price, intent.side = "buy", TRUE)
             capacity == Capacity(e, s, FALSE)
             quantity == NormalizeQuantity(Rules, intent.quantity, price, capacity, 1)
  <2>1. Projected(e, s, intent) = IF price = 0 \/ quantity = 0 THEN WantsNothing
                                  ELSE Wants(Maker(intent.side, price, quantity), FALSE)
    BY DEF Projected
  <2>2. price \in Int /\ intent.quantity \in Int /\ intent.side \in Sides
    BY NormalizedPrice DEF Intents
  <2>3. capacity \in Int
    BY Orders DEF Capacity, Absolute, Position
  <2> HIDE DEF price, capacity
  <2>4. ASSUME quantity # 0 PROVE quantity \in Int
    <3>1. quantity \in Nat \ {0}
      BY <2>2, <2>3, <2>4, NormalizedQuantity
    <3> QED
      BY <3>1
  <2> HIDE DEF quantity
  <2>5. quantity # 0 => Maker(intent.side, price, quantity) \in Intents
    BY <2>2, <2>4, MakersAndTakers
  <2> QED
    BY <2>1, <2>5, WantsAre DEF ExitsOnly
<1>3. M9Signals(e, s) \subseteq Intents
  BY <1>1 DEF M9Signals
<1> QED
  BY <1>1, <1>2, <1>3, WantsAre DEF EntryDecisions

\* For what is held there are exits only, and so there are while the guard blocks.
NoEntries(e, s) == Blocks(e) \/ e.position[s] # 0

LEMMA DecisionsAre ==
    ASSUME NEW e \in Engines, NEW s \in Symbols, NEW d \in Decisions(e, s)
    PROVE  d \in Decided /\ (NoEntries(e, s) => d \in ExitsOnly)
<1>1. CASE Position(e, s) # 0
  BY <1>1, ExitDecisionsAre DEF Decisions, ExitsOnly, NoEntries
<1>2. CASE Position(e, s) = 0
  <2>1. PICK allowed \in EntriesAllowed(e) : d \in IF allowed THEN EntryDecisions(e, s) ELSE {WantsNothing}
    BY <1>2 DEF Decisions
  <2>2. Blocks(e) => ~allowed
    BY <2>1 DEF EntriesAllowed
  <2> QED
    BY <1>2, <2>1, <2>2, EntryDecisionsAre, WantsAre DEF ExitsOnly, NoEntries, Position
<1> QED
  BY <1>1, <1>2

-----------------------------------------------------------------------------
(* Seeing to one symbol.                                                   *)

LEMMA Observed ==
    ASSUME NEW e \in Sound
    PROVE  /\ Observe(e) \in Sound
           /\ Observe(e).position = e.position /\ Observe(e).working = e.working
           /\ Observe(e).book = e.book /\ Observe(e).cap = e.cap /\ Observe(e).level = e.level
           /\ Observe(e).guard = IF e.guard = "hard_stop" THEN e.guard ELSE e.level
           /\ \A s \in Symbols : Acts(e, Observe(e), s)
<1> DEFINE y == Observe(e)
           guard == IF e.guard = "hard_stop" THEN e.guard ELSE e.level
<1>1. y = [e EXCEPT !.guard = guard] /\ e \in Engines /\ guard \in Levels
  BY DEF Observe, Sound, Engines
<1> HIDE DEF y, guard
<1>2. /\ y \in Engines /\ y.position = e.position /\ y.working = e.working
      /\ y.book = e.book /\ y.cap = e.cap /\ y.level = e.level /\ y.guard = guard
  BY <1>1 DEF Engines
<1>3. \A s \in Symbols : e.position[s] \in Int /\ Fits(e, s)
  BY Orders DEF Sound
<1>4. \A s \in Symbols : Fits(y, s) /\ Held(e, y, s)
  BY <1>1, <1>2, <1>3, HeldAsIs DEF Fits, HasOrder, Position
<1>5. \A s \in Symbols : Acts(e, y, s)
  BY <1>2, <1>3, <1>4 DEF Acts, Shrunk
<1>6. y \in Sound
  BY <1>2, <1>4 DEF Sound
<1> QED
  BY <1>2, <1>5, <1>6 DEF y, guard

LEMMA WithoutAnIntent ==
    ASSUME NEW e \in Sound, NEW s \in Symbols, NEW d \in Decisions(e, s),
           NEW y \in WithoutIntent(e, s, d)
    PROVE  Acts(e, y, s) /\ y.guard = e.guard /\ (NoEntries(e, s) => ~LiveEntry(y, s))
<1>1. CASE ~HasOrder(e, s)
  <2>1. y = e
    BY <1>1 DEF WithoutIntent
  <2> QED
    BY <1>1, <2>1, ActsNot DEF LiveEntry, Entry
<1>2. CASE HasOrder(e, s) /\ y = CancelSymbol(e, s)
  BY <1>2, Cancelled
<1>3. CASE HasOrder(e, s) /\ y # CancelSymbol(e, s)
  <2>1. y = e /\ d.soft
    BY <1>3 DEF WithoutIntent, MayHold
  <2>2. ~NoEntries(e, s)
    BY <2>1, DecisionsAre DEF Sound, ExitsOnly
  <2> QED
    BY <2>1, <2>2, ActsNot
<1> QED
  BY <1>1, <1>2, <1>3

LEMMA AReplacement ==
    ASSUME NEW e \in Sound, NEW s \in Symbols, e.book[s] # NoBook, NEW d \in Decided, d.intent \in Intents,
           NoEntries(e, s) => d.reduce_only, NEW y \in Replaced(e, s, d)
    PROVE  Acts(e, y, s) /\ y.guard = e.guard /\ (NoEntries(e, s) => ~LiveEntry(y, s))
<1> DEFINE x == CancelSymbol(e, s)
<1>1. Acts(e, x, s) /\ x.guard = e.guard /\ ~LiveEntry(x, s)
  BY Cancelled
<1>2. y = x \/ (~HasOrder(x, s) /\ y \in PlaceSymbol(x, s, d.intent, d.reduce_only))
  BY DEF Replaced
<1> HIDE DEF x
<1>3. CASE y = x
  BY <1>1, <1>3
<1>4. CASE ~HasOrder(x, s) /\ y \in PlaceSymbol(x, s, d.intent, d.reduce_only)
  <2>1. x \in Sound /\ x.book[s] # NoBook
    BY <1>1, ActsKeepSound DEF Acts
  <2>2. d.reduce_only \in BOOLEAN
    BY DEF Decided
  <2>3. Acts(x, y, s) /\ y.guard = x.guard /\ (d.reduce_only => ~Entry(y, s))
    BY <1>4, <2>1, <2>2, Placed
  <2>4. Acts(e, y, s)
    BY <1>1, <2>3, ActsTwice
  <2> QED
    BY <1>1, <2>3, <2>4 DEF LiveEntry
<1> QED
  BY <1>2, <1>3, <1>4

LEMMA WithAnIntent ==
    ASSUME NEW e \in Sound, NEW s \in Symbols, e.book[s] # NoBook, NEW d \in Decided, d.intent \in Intents,
           NoEntries(e, s) => d.reduce_only, NEW y \in WithIntent(e, s, d)
    PROVE  Acts(e, y, s) /\ y.guard = e.guard /\ (NoEntries(e, s) => ~LiveEntry(y, s))
<1>1. CASE ~HasOrder(e, s)
  <2>1. y \in PlaceSymbol(e, s, d.intent, d.reduce_only)
    BY <1>1 DEF WithIntent
  <2>2. d.reduce_only \in BOOLEAN
    BY DEF Decided
  <2>3. Acts(e, y, s) /\ y.guard = e.guard /\ (d.reduce_only => ~Entry(y, s))
    BY <1>1, <2>1, <2>2, Placed
  <2> QED
    BY <2>3 DEF LiveEntry
<1>2. CASE HasOrder(e, s) /\ y \in Replaced(e, s, d)
  BY <1>2, AReplacement
<1>3. CASE HasOrder(e, s) /\ y \notin Replaced(e, s, d)
  <2>1. y = e
    BY <1>3 DEF WithIntent
  <2>2. d.reduce_only => SameOrder(Working(e, s), d) \/ Working(e, s).cancel
    BY <1>3 DEF WithIntent
  <2>3. NoEntries(e, s) => ~LiveEntry(e, s)
    BY <2>2 DEF SameOrder, LiveEntry, Entry, Working
  <2> QED
    BY <2>1, <2>3, ActsNot
<1> QED
  BY <1>1, <1>2, <1>3

\* A symbol that has been seen to while the guard blocks has no live entry, and neither
\* has one of which something was held.
LEMMA SeenTo ==
    ASSUME NEW e \in Sound, NEW s \in Symbols, NEW y \in RebalanceSymbol(e, s)
    PROVE  /\ Acts(e, y, s) /\ y.guard = Observe(e).guard
           /\ Blocks(y) => ~LiveEntry(y, s)
           /\ e.position[s] # 0 => ~LiveEntry(y, s)
<1> DEFINE o == Observe(e)
<1>1. o \in Sound /\ Acts(e, o, s) /\ o.book = e.book /\ o.position = e.position
  BY Observed
<1>2. CASE e.book[s] = NoBook
  <2>1. y = o
    BY <1>2 DEF RebalanceSymbol
  <2>2. ~HasOrder(o, s)
    BY <1>1, <1>2 DEF Sound, Fits
  <2> QED
    BY <1>1, <2>1, <2>2 DEF LiveEntry, Entry
<1>3. CASE e.book[s] # NoBook
  <2>1. PICK d \in Decisions(o, s) :
            y \in IF d.intent = NoIntent THEN WithoutIntent(o, s, d) ELSE WithIntent(o, s, d)
    BY <1>3 DEF RebalanceSymbol
  <2> HIDE DEF o
  <2>2. d \in Decided /\ (NoEntries(o, s) => d \in ExitsOnly)
    BY <1>1, DecisionsAre DEF Sound
  <2>3. Acts(o, y, s) /\ y.guard = o.guard /\ (NoEntries(o, s) => ~LiveEntry(y, s))
    <3>1. CASE d.intent = NoIntent
      BY <1>1, <2>1, <3>1, WithoutAnIntent
    <3>2. CASE d.intent # NoIntent
      <4>1. /\ d.intent \in Intents /\ (NoEntries(o, s) => d.reduce_only)
            /\ y \in WithIntent(o, s, d) /\ o.book[s] # NoBook
        BY <1>1, <1>3, <2>1, <2>2, <3>2 DEF Decided, ExitsOnly
      <4> QED
        BY <1>1, <2>2, <4>1, WithAnIntent
    <3> QED
      BY <3>1, <3>2
  <2>4. Acts(e, y, s)
    BY <1>1, <2>3, ActsTwice
  <2>5. /\ Blocks(y) => NoEntries(o, s)
        /\ e.position[s] # 0 => NoEntries(o, s)
    BY <1>1, <2>3 DEF NoEntries, Blocks
  <2> QED
    BY <2>3, <2>4, <2>5 DEF o
<1> QED
  BY <1>2, <1>3

-----------------------------------------------------------------------------
(* The loop over the symbols.  In the middle of it a taker exit may move   *)
(* the valuation, so what it says of the guard is for a pass that finds a  *)
(* hard stop, for one that executes nothing, and for one that executes for *)
(* a single symbol and finds the guard observed and blocking.              *)

Quiet(y, D) == \A t \in Symbols : t \in D => ~LiveEntry(y, t)
Settled(e) == e.guard = "hard_stop" \/ e.guard = e.level
Apart(e, y, s) == \A t \in Symbols : t # s => y.position[t] = e.position[t]

\* What holds of y after the symbols D of e have been seen to.
Carried(e, y, D) ==
    /\ D \subseteq Symbols /\ y \in Sound /\ y.book = e.book /\ y.cap = e.cap
    /\ \A t \in Symbols : t \notin D => y.position[t] = e.position[t] /\ y.working[t] = e.working[t]
    /\ \A t \in Symbols : Shrunk(y.position[t], e.position[t]) /\ Held(e, y, t)
    /\ \A t \in D : e.position[t] # 0 => ~LiveEntry(y, t)
Stopped(e, y, D) == e.guard = "hard_stop" => y.guard = "hard_stop" /\ Quiet(y, D)
Calm(e, y, D) ==
    y.position = e.position => /\ y.level = e.level /\ y.guard \in {e.guard, Observe(e).guard}
                               /\ Blocks(Observe(e)) => Quiet(y, D)
Alone(e, y, D) ==
    \A s \in Symbols : Settled(e) /\ Blocks(e) /\ Apart(e, y, s) =>
        /\ s \notin D => Settled(y) /\ Blocks(y)
        /\ Blocks(y) => Quiet(y, D)
        /\ ~Blocks(y) => Settled(y) /\ s \in D
Passed(e, y, D) == Carried(e, y, D) /\ Stopped(e, y, D) /\ Calm(e, y, D) /\ Alone(e, y, D)

LEMMA PassedNone ==
    ASSUME NEW e \in Sound
    PROVE  Passed(e, e, {})
<1>1. Carried(e, e, {})
  <2>1. e \in Sound /\ \A t \in Symbols : Acts(e, e, t)
    BY ActsNot
  <2> QED
    BY <2>1 DEF Carried, Acts
<1> QED
  BY <1>1 DEF Passed, Stopped, Calm, Alone, Quiet

LEMMA PassedOneMore ==
    ASSUME NEW e \in Sound, NEW y, NEW D, Passed(e, y, D),
           NEW s \in Symbols, s \notin D, NEW z \in RebalanceSymbol(y, s)
    PROVE  Passed(e, z, D \cup {s})
<1>0. y \in Sound /\ z \in Sound /\ y \in Engines /\ z \in Engines /\ e \in Engines
  BY SeenTo, ActsKeepSound DEF Passed, Carried, Sound
<1>1. /\ z.book = y.book /\ z.cap = y.cap
      /\ \A t \in Symbols : t # s => z.position[t] = y.position[t] /\ z.working[t] = y.working[t]
      /\ Shrunk(z.position[s], y.position[s])
      /\ z.position[s] = y.position[s] => z.level = y.level
      /\ Held(y, z, s)
      /\ y.position[s] # 0 => ~LiveEntry(z, s)
  BY <1>0, SeenTo DEF Acts
<1>2. /\ z.guard = IF y.guard = "hard_stop" THEN y.guard ELSE y.level
      /\ Blocks(z) => ~LiveEntry(z, s)
  BY <1>0, SeenTo, Observed
<1>3. Observe(e).guard = IF e.guard = "hard_stop" THEN e.guard ELSE e.level
  BY Observed
<1>4. y.position[s] = e.position[s] /\ y.working[s] = e.working[s]
  BY DEF Passed, Carried
<1>5. Quiet(y, D) /\ Blocks(z) => Quiet(z, D \cup {s})
  <2>1. ASSUME NEW t \in Symbols, t \in D, t # s, Quiet(y, D) PROVE ~LiveEntry(z, t)
    BY <1>1, <2>1 DEF Quiet, LiveEntry, Entry, HasOrder
  <2> QED
    BY <1>2, <2>1 DEF Quiet
<1>6. Carried(e, z, D \cup {s})
  <2>1. ASSUME NEW t \in Symbols
        PROVE  Shrunk(z.position[t], e.position[t]) /\ Held(e, z, t)
    <3>1. Shrunk(y.position[t], e.position[t]) /\ Held(e, y, t)
      BY DEF Passed, Carried
    <3>2. Held(y, z, t) /\ (t # s => z.position[t] = y.position[t])
      BY <1>0, <1>1, HeldAsIs
    <3>3. Held(e, z, t)
      BY <1>0, <1>1, <3>1, <3>2, HeldTwice
    <3> QED
      BY <1>1, <1>4, <3>1, <3>2, <3>3
  <2>2. \A t \in Symbols : t \notin D \cup {s} => z.position[t] = e.position[t] /\ z.working[t] = e.working[t]
    BY <1>1 DEF Passed, Carried
  <2>3. ASSUME NEW t \in D \cup {s}, e.position[t] # 0
        PROVE  ~LiveEntry(z, t)
    <3>1. CASE t = s
      BY <1>1, <1>4, <2>3, <3>1
    <3>2. CASE t # s
      <4>1. t \in D /\ t \in Symbols /\ ~LiveEntry(y, t)
        BY <2>3, <3>2 DEF Passed, Carried
      <4> QED
        BY <1>1, <3>2, <4>1 DEF LiveEntry, Entry, HasOrder
    <3> QED
      BY <3>1, <3>2
  <2> QED
    BY <1>0, <1>1, <2>1, <2>2, <2>3 DEF Passed, Carried
<1>7. Stopped(e, z, D \cup {s})
  BY <1>2, <1>5 DEF Passed, Stopped, Blocks
<1>8. Calm(e, z, D \cup {s})
  <2> SUFFICES ASSUME z.position = e.position
               PROVE  /\ z.level = e.level /\ z.guard = Observe(e).guard
                      /\ Blocks(Observe(e)) => Quiet(z, D \cup {s})
    BY DEF Calm
  <2>1. y.position = e.position
    <3>1. \A t \in Symbols : y.position[t] = e.position[t]
      BY <1>1, <1>4
    <3>2. y.position \in [Symbols -> Int] /\ e.position \in [Symbols -> Int]
      BY <1>0 DEF Engines
    <3> QED
      BY <3>1, <3>2
  <2>2. /\ y.level = e.level /\ y.guard \in {e.guard, Observe(e).guard}
        /\ Blocks(Observe(e)) => Quiet(y, D)
    BY <2>1 DEF Passed, Calm
  <2>3. z.level = e.level
    BY <1>1, <2>1, <2>2
  <2>4. z.guard = Observe(e).guard
    BY <1>2, <1>3, <2>2
  <2> QED
    BY <1>5, <2>2, <2>3, <2>4 DEF Blocks
<1>9. Alone(e, z, D \cup {s})
  <2> SUFFICES ASSUME NEW o \in Symbols, Settled(e), Blocks(e), Apart(e, z, o)
               PROVE  /\ o \notin D \cup {s} => Settled(z) /\ Blocks(z)
                      /\ Blocks(z) => Quiet(z, D \cup {s})
                      /\ ~Blocks(z) => Settled(z) /\ o \in D \cup {s}
    BY DEF Alone
  <2>1. Apart(e, y, o)
    BY <1>1, <1>4 DEF Apart
  <2>2. /\ o \notin D => Settled(y) /\ Blocks(y)
        /\ Blocks(y) => Quiet(y, D)
        /\ ~Blocks(y) => Settled(y) /\ o \in D
    BY <2>1 DEF Passed, Alone
  <2>3. o # s => z.level = y.level
    <3>1. o # s => z.position[s] = e.position[s]
      BY DEF Apart
    <3> QED
      BY <1>1, <1>4, <3>1
  <2>4. o \notin D \cup {s} => Settled(z) /\ Blocks(z)
    BY <1>2, <2>2, <2>3 DEF Settled, Blocks
  <2>5. Blocks(z) => Blocks(y)
    BY <1>2, <2>2 DEF Settled, Blocks
  <2>6. ~Blocks(z) => Settled(z) /\ o \in D
    BY <1>2, <2>2, <2>3 DEF Settled, Blocks
  <2> QED
    BY <1>5, <2>2, <2>4, <2>5, <2>6
<1> QED
  BY <1>6, <1>7, <1>8, <1>9 DEF Passed

-----------------------------------------------------------------------------
(* The loops, as chains of sets of engines.                                *)

\* What holds at 0 and passes from each number to the next holds of every number: a
\* set without its first element would have as many elements as with it.
LEMMA Induction ==
    ASSUME NEW S, 0 \in S, \A n \in Nat : n \in S => n + 1 \in S
    PROVE  Nat \subseteq S
<1> SUFFICES ASSUME NEW n \in Nat, n \notin S PROVE FALSE
  OBVIOUS
<1> DEFINE U == {m \in 0 .. n : m \notin S}
           V == U \ {n}
           f == [m \in U |-> m - 1]
<1>1. IsFiniteSet(U) /\ IsFiniteSet(V) /\ Cardinality(V) < Cardinality(U)
  <2>1. IsFiniteSet(0 .. n)
    BY FS_Interval
  <2>2. IsFiniteSet(U)
    BY <2>1, FS_Subset
  <2>3. n \in U
    OBVIOUS
  <2> HIDE DEF U
  <2>4. IsFiniteSet(V) /\ Cardinality(V) = Cardinality(U) - 1 /\ Cardinality(U) \in Nat
    BY <2>2, <2>3, FS_RemoveElement, FS_CardinalityType
  <2> QED
    BY <2>2, <2>4
<1>2. \A m \in U : m - 1 \in V
  <2> SUFFICES ASSUME NEW m \in U PROVE m - 1 \in V
    OBVIOUS
  <2>1. m # 0 /\ m - 1 \in Nat
    OBVIOUS
  <2>2. m - 1 \notin S
    BY <2>1
  <2> QED
    BY <2>1, <2>2
<1>3. f \in [U -> V]
  BY <1>2
<1>4. \A x, y \in U : x # y => f[x] # f[y]
  OBVIOUS
<1> HIDE DEF U, V, f
<1> QED
  BY <1>1, <1>3, <1>4, FS_PigeonHole

SeeTo(symbols, s, X) == IF s \notin symbols THEN X ELSE UNION {RebalanceSymbol(x, s) : x \in X}

\* The sets of Rebalance(e, symbols).
IsPass(f, e, symbols, n) ==
    f = [k \in 0 .. n |-> IF k = 0 THEN {e} ELSE SeeTo(symbols, SymbolOrder[k], f[k - 1])]

LEMMA PassExists ==
    ASSUME NEW e, NEW symbols, NEW n \in Nat
    PROVE  \E f : IsPass(f, e, symbols, n)
<1> DEFINE T == {m \in Nat : \E f : IsPass(f, e, symbols, m)}
<1>1. 0 \in T
  <2>1. IsPass([k \in 0 .. 0 |-> {e}], e, symbols, 0)
    BY DEF IsPass
  <2> QED
    BY <2>1
<1>2. ASSUME NEW m \in Nat, m \in T PROVE m + 1 \in T
  <2>1. PICK f : IsPass(f, e, symbols, m)
    BY <1>2
  <2> DEFINE last == SeeTo(symbols, SymbolOrder[m + 1], f[m])
             g == [k \in 0 .. m + 1 |-> IF k <= m THEN f[k] ELSE last]
  <2>2. ASSUME NEW k \in 0 .. m + 1
        PROVE  g[k] = IF k = 0 THEN {e} ELSE SeeTo(symbols, SymbolOrder[k], g[k - 1])
    <3>1. CASE k = 0
      BY <2>1, <3>1 DEF IsPass
    <3>2. CASE k # 0 /\ k <= m
      <4>1. k \in 0 .. m /\ k - 1 \in 0 .. m
        BY <3>2
      <4>2. f[k] = SeeTo(symbols, SymbolOrder[k], f[k - 1])
        BY <2>1, <3>2, <4>1 DEF IsPass
      <4>3. g[k] = f[k] /\ g[k - 1] = f[k - 1]
        BY <3>2, <4>1
      <4> QED
        BY <3>2, <4>2, <4>3
    <3>3. CASE k = m + 1
      <4>1. g[k] = last /\ g[k - 1] = f[m] /\ k # 0
        BY <3>3
      <4> QED
        BY <3>3, <4>1
    <3> QED
      BY <3>1, <3>2, <3>3
  <2>3. g = [k \in 0 .. m + 1 |-> g[k]]
    OBVIOUS
  <2> HIDE DEF g
  <2>4. IsPass(g, e, symbols, m + 1)
    BY <2>2, <2>3 DEF IsPass
  <2> QED
    BY <2>4
<1> HIDE DEF T
<1>3. n \in T
  BY <1>1, <1>2, Induction
<1> QED
  BY <1>3 DEF T

Close(s, X) == UNION {Flattened(x, s) : x \in X}

\* The sets of FlattenAll(e).
IsClosing(f, e, n) ==
    f = [k \in 0 .. n |-> IF k = 0 THEN {CancelAll(e)} ELSE Close(SymbolOrder[k], f[k - 1])]

LEMMA ClosingExists ==
    ASSUME NEW e, NEW n \in Nat
    PROVE  \E f : IsClosing(f, e, n)
<1> DEFINE T == {m \in Nat : \E f : IsClosing(f, e, m)}
<1>1. 0 \in T
  <2>1. IsClosing([k \in 0 .. 0 |-> {CancelAll(e)}], e, 0)
    BY DEF IsClosing
  <2> QED
    BY <2>1
<1>2. ASSUME NEW m \in Nat, m \in T PROVE m + 1 \in T
  <2>1. PICK f : IsClosing(f, e, m)
    BY <1>2
  <2> DEFINE last == Close(SymbolOrder[m + 1], f[m])
             g == [k \in 0 .. m + 1 |-> IF k <= m THEN f[k] ELSE last]
  <2>2. ASSUME NEW k \in 0 .. m + 1
        PROVE  g[k] = IF k = 0 THEN {CancelAll(e)} ELSE Close(SymbolOrder[k], g[k - 1])
    <3>1. CASE k = 0
      BY <2>1, <3>1 DEF IsClosing
    <3>2. CASE k # 0 /\ k <= m
      <4>1. k \in 0 .. m /\ k - 1 \in 0 .. m
        BY <3>2
      <4>2. f[k] = Close(SymbolOrder[k], f[k - 1])
        BY <2>1, <3>2, <4>1 DEF IsClosing
      <4>3. g[k] = f[k] /\ g[k - 1] = f[k - 1]
        BY <3>2, <4>1
      <4> QED
        BY <3>2, <4>2, <4>3
    <3>3. CASE k = m + 1
      <4>1. g[k] = last /\ g[k - 1] = f[m] /\ k # 0
        BY <3>3
      <4> QED
        BY <3>3, <4>1
    <3> QED
      BY <3>1, <3>2, <3>3
  <2>3. g = [k \in 0 .. m + 1 |-> g[k]]
    OBVIOUS
  <2> HIDE DEF g
  <2>4. IsClosing(g, e, m + 1)
    BY <2>2, <2>3 DEF IsClosing
  <2> QED
    BY <2>4
<1> HIDE DEF T
<1>3. n \in T
  BY <1>1, <1>2, Induction
<1> QED
  BY <1>3 DEF T

LEMMA RebalanceIsPass ==
    ASSUME NEW e, NEW symbols, NEW n \in Nat, n = Len(SymbolOrder)
    PROVE  \E f : IsPass(f, e, symbols, n) /\ Rebalance(e, symbols) = f[n]
<1> DEFINE F == CHOOSE f : IsPass(f, e, symbols, n)
<1>1. IsPass(F, e, symbols, n)
  BY PassExists
<1>2. Rebalance(e, symbols) = F[n]
  BY DEF Rebalance, IsPass, SeeTo
<1> HIDE DEF F
<1> QED
  BY <1>1, <1>2

LEMMA FlattenAllIsClosing ==
    ASSUME NEW e, NEW n \in Nat, n = Len(SymbolOrder)
    PROVE  \E f : IsClosing(f, e, n) /\ FlattenAll(e) = f[n]
<1> DEFINE F == CHOOSE f : IsClosing(f, e, n)
<1>1. IsClosing(F, e, n)
  BY ClosingExists
<1>2. FlattenAll(e) = F[n]
  BY DEF FlattenAll, IsClosing, Close
<1> HIDE DEF F
<1> QED
  BY <1>1, <1>2

\* The symbols among the first k of the order.
First(k) == {SymbolOrder[i] : i \in 1 .. k}

LEMMA TheOrder ==
    ASSUME NEW n, n = Len(SymbolOrder)
    PROVE  /\ n \in Nat /\ First(n) = Symbols /\ First(0) = {}
           /\ \A k \in Nat : k < n => /\ SymbolOrder[k + 1] \in Symbols
                                      /\ SymbolOrder[k + 1] \notin First(k)
                                      /\ First(k + 1) = First(k) \cup {SymbolOrder[k + 1]}
<1>1. n \in Nat /\ DOMAIN SymbolOrder = 1 .. n
  BY EngineAssumption
<1>2. First(n) = Symbols /\ First(0) = {}
  BY <1>1 DEF First, Symbols, Range
<1>3. ASSUME NEW k \in Nat, k < n
      PROVE  /\ SymbolOrder[k + 1] \in Symbols
             /\ SymbolOrder[k + 1] \notin First(k)
             /\ First(k + 1) = First(k) \cup {SymbolOrder[k + 1]}
  <2>1. k + 1 \in 1 .. n /\ (\A i \in 1 .. k : i \in 1 .. n /\ i # k + 1)
    BY <1>1, <1>3
  <2>2. \A i, j \in 1 .. n : SymbolOrder[i] = SymbolOrder[j] => i = j
    BY <1>1, EngineAssumption DEF IsInjective
  <2>3. 1 .. k + 1 = (1 .. k) \cup {k + 1}
    BY <1>3
  <2>4. SymbolOrder[k + 1] \in Symbols
    BY <1>1, <2>1 DEF Symbols, Range
  <2>5. SymbolOrder[k + 1] \notin First(k)
    BY <2>1, <2>2 DEF First
  <2>6. First(k + 1) = First(k) \cup {SymbolOrder[k + 1]}
    BY <2>3 DEF First
  <2> QED
    BY <2>4, <2>5, <2>6
<1> QED
  BY <1>1, <1>2, <1>3

LEMMA RebalanceKeeps ==
    ASSUME NEW e \in Sound, NEW symbols \in SUBSET Symbols, NEW y \in Rebalance(e, symbols)
    PROVE  Passed(e, y, symbols)
<1> DEFINE n == Len(SymbolOrder)
<1>1. n \in Nat /\ First(n) = Symbols
  BY TheOrder
<1>2. PICK f : IsPass(f, e, symbols, n) /\ Rebalance(e, symbols) = f[n]
  BY <1>1, RebalanceIsPass
<1>3. /\ f[0] = {e}
      /\ \A k \in Nat : k < n => f[k + 1] = SeeTo(symbols, SymbolOrder[k + 1], f[k])
  <2>1. \A k \in 0 .. n : f[k] = IF k = 0 THEN {e} ELSE SeeTo(symbols, SymbolOrder[k], f[k - 1])
    BY <1>2 DEF IsPass
  <2>2. 0 \in 0 .. n /\ \A k \in Nat : k < n => k + 1 \in 0 .. n /\ k + 1 # 0 /\ (k + 1) - 1 = k
    BY <1>1
  <2> HIDE DEF n
  <2>3. f[0] = {e}
    BY <2>1, <2>2
  <2>4. ASSUME NEW k \in Nat, k < n PROVE f[k + 1] = SeeTo(symbols, SymbolOrder[k + 1], f[k])
    <3>1. k + 1 \in 0 .. n /\ k + 1 # 0 /\ (k + 1) - 1 = k
      BY <2>2, <2>4
    <3>2. f[k + 1] = IF k + 1 = 0 THEN {e} ELSE SeeTo(symbols, SymbolOrder[k + 1], f[(k + 1) - 1])
      BY <2>1, <3>1
    <3> QED
      BY <3>1, <3>2
  <2> QED
    BY <2>3, <2>4
<1> DEFINE T == {k \in Nat : k <= n => \A x \in f[k] : Passed(e, x, First(k) \cap symbols)}
<1>4. 0 \in T
  <2>1. First(0) \cap symbols = {}
    BY TheOrder
  <2> QED
    BY <1>3, <2>1, PassedNone
<1>5. ASSUME NEW k \in Nat, k \in T PROVE k + 1 \in T
  <2> HIDE DEF n
  <2> SUFFICES ASSUME k + 1 <= n, NEW x \in f[k + 1]
               PROVE  Passed(e, x, First(k + 1) \cap symbols)
    <3>1. k + 1 \in Nat
      OBVIOUS
    <3> QED
      BY <3>1, Zenon
  <2> DEFINE s == SymbolOrder[k + 1]
  <2>1. k < n /\ k <= n
    BY <1>1
  <2>2. s \in Symbols /\ s \notin First(k) /\ First(k + 1) = First(k) \cup {s}
    BY <2>1, TheOrder DEF n
  <2>3. x \in SeeTo(symbols, s, f[k])
    BY <1>3, <2>1
  <2>4. \A w \in f[k] : Passed(e, w, First(k) \cap symbols)
    BY <1>5, <2>1, Zenon
  <2> HIDE DEF s, T
  <2>5. CASE s \notin symbols
    <3>1. First(k + 1) \cap symbols = First(k) \cap symbols
      BY <2>2, <2>5
    <3> QED
      BY <2>3, <2>4, <2>5, <3>1 DEF SeeTo
  <2>6. CASE s \in symbols
    <3>1. First(k + 1) \cap symbols = (First(k) \cap symbols) \cup {s} /\ s \notin First(k) \cap symbols
      BY <2>2, <2>6
    <3>2. PICK w \in f[k] : x \in RebalanceSymbol(w, s)
      BY <2>3, <2>6 DEF SeeTo
    <3> QED
      BY <2>2, <2>4, <3>1, <3>2, PassedOneMore
  <2> QED
    BY <2>5, <2>6
<1>6. n \in T
  <2> HIDE DEF T, n
  <2> QED
    BY <1>1, <1>4, <1>5, Induction
<1>7. n <= n /\ First(n) \cap symbols = symbols
  BY <1>1
<1> HIDE DEF n
<1>8. \A x \in f[n] : Passed(e, x, First(n) \cap symbols)
  BY <1>6, <1>7, Zenon
<1> QED
  BY <1>2, <1>7, <1>8

-----------------------------------------------------------------------------
(* The handlers.                                                           *)

\* The guard and the level apart, an engine with other orders, books or limits.
LEMMA Rewrites ==
    ASSUME NEW e \in Engines
    PROVE  /\ \A w \in [Symbols -> Live \cup {NoOrder}] :
                LET y == [e EXCEPT !.working = w] IN
                /\ y \in Engines /\ y.working = w /\ y.position = e.position /\ y.book = e.book
                /\ y.cap = e.cap /\ y.guard = e.guard /\ y.level = e.level
           /\ \A c \in Caps :
                LET y == [e EXCEPT !.cap = c] IN
                /\ y \in Engines /\ y.cap = c /\ y.position = e.position /\ y.book = e.book
                /\ y.working = e.working /\ y.guard = e.guard /\ y.level = e.level
           /\ \A b \in [Symbols -> Books] :
                LET y == [e EXCEPT !.book = b] IN
                /\ y \in Engines /\ y.book = b /\ y.position = e.position /\ y.cap = e.cap
                /\ y.working = e.working /\ y.guard = e.guard /\ y.level = e.level
           /\ \A l \in Levels :
                LET y == [e EXCEPT !.level = l] IN
                /\ y \in Engines /\ y.level = l /\ y.position = e.position /\ y.book = e.book
                /\ y.cap = e.cap /\ y.working = e.working /\ y.guard = e.guard
  BY DEF Engines

\* Orders that are gone do not spoil anything.
LEMMA Dropped ==
    ASSUME NEW e \in Sound, NEW w \in [Symbols -> Live \cup {NoOrder}],
           \A s \in Symbols : w[s] \in {e.working[s], NoOrder}
    PROVE  LET y == [e EXCEPT !.working = w] IN
           y \in Sound /\ \A s \in Symbols : Exposure(y, s) <= Exposure(e, s)
<1> DEFINE y == [e EXCEPT !.working = w]
<1>1. /\ y \in Engines /\ y.working = w /\ y.position = e.position /\ y.book = e.book /\ y.cap = e.cap
  BY Rewrites DEF Sound
<1> HIDE DEF y
<1>2. ASSUME NEW s \in Symbols
      PROVE  Fits(y, s) /\ Exposure(y, s) <= Exposure(e, s)
  <2>0. Fits(e, s) /\ e \in Engines
    BY DEF Sound
  <2>1. CASE w[s] = e.working[s]
    <3>1. Exposure(y, s) = Exposure(e, s) /\ Exposure(e, s) \in Int
      BY <1>1, <2>0, <2>1, HeldAsIs, ExposureIs
    <3> QED
      BY <1>1, <2>0, <2>1, <3>1 DEF Fits, HasOrder, Position
  <2>2. CASE w[s] = NoOrder
    <3>1. ~HasOrder(y, s) /\ ~Entry(y, s)
      BY <1>1, <2>2 DEF HasOrder, Entry
    <3>2. /\ Absolute(Position(e, s)) \in Int /\ Absolute(Position(y, s)) = Absolute(Position(e, s))
      BY <1>1, <2>0, Orders DEF Position, Absolute
    <3>3. Entry(e, s) => e.working[s].remaining \in Nat
      BY <2>0, Orders DEF Entry
    <3> QED
      BY <3>1, <3>2, <3>3 DEF Fits, Exposure
  <2> QED
    BY <1>1, <2>1, <2>2
<1>3. y \in Sound /\ \A s \in Symbols : Exposure(y, s) <= Exposure(e, s)
  BY <1>1, <1>2 DEF Sound
<1> QED
  BY <1>3 DEF y

\* What the handler of an event finds.
Kept(e, p) == \A t \in Symbols : LiveEntry(p, t) => p.working[t] = e.working[t]
Ready(e, p) ==
    /\ p \in Sound
    /\ \A t \in Symbols : Shrunk(p.position[t], e.position[t])
    /\ e.guard = "hard_stop" => p.guard = "hard_stop" /\ Kept(e, p)
    /\ p.position = e.position => /\ p.level = e.level /\ p.guard \in {e.guard, Observe(e).guard}
                                  /\ Blocks(Observe(e)) => Kept(e, p)
    /\ \A t \in Symbols : Held(e, p, t)
    /\ p.cap # e.cap => \A t \in Over(e, p.cap) : ~LiveEntry(p, t)

LEMMA Settling ==
    ASSUME NEW e \in Sound, NEW x \in SettleCancels(e)
    PROVE  /\ x \in Sound /\ x.position = e.position /\ x.guard = e.guard /\ x.level = e.level
           /\ x.cap = e.cap
           /\ \A t \in Symbols : /\ x.working[t] \in {e.working[t], NoOrder}
                                 /\ Exposure(x, t) <= Exposure(e, t)
<1>1. PICK due \in SUBSET Symbols :
        x = [e EXCEPT !.working = [s \in Symbols |-> IF s \in due THEN NoOrder ELSE @[s]]]
  BY DEF SettleCancels
<1> DEFINE w == [s \in Symbols |-> IF s \in due THEN NoOrder ELSE e.working[s]]
<1>2. e.working \in [Symbols -> Live \cup {NoOrder}] /\ e \in Engines
  BY DEF Sound, Engines
<1>3. x = [e EXCEPT !.working = w]
  BY <1>1, <1>2 DEF Engines
<1>4. w \in [Symbols -> Live \cup {NoOrder}] /\ \A s \in Symbols : w[s] \in {e.working[s], NoOrder}
  BY <1>2
<1> HIDE DEF w
<1>5. x.working = w /\ x.position = e.position /\ x.guard = e.guard /\ x.level = e.level /\ x.cap = e.cap
  BY <1>2, <1>3, <1>4, Rewrites
<1>6. x \in Sound /\ \A s \in Symbols : Exposure(x, s) <= Exposure(e, s)
  BY <1>3, <1>4, Dropped
<1> QED
  BY <1>4, <1>5, <1>6

LEMMA Refreshing ==
    ASSUME NEW e \in Sound, NEW p \in RefreshAllocations(e)
    PROVE  Ready(e, p)
<1>1. CASE p = e
  <2>1. \A t \in Symbols : e.position[t] \in Int /\ Held(e, e, t)
    BY Orders, HeldAsIs DEF Sound
  <2> QED
    BY <1>1, <2>1 DEF Ready, Kept, Shrunk
<1>2. CASE p # e
  <2>0. PICK caps \in Caps :
          \E symbols \in Moved(e, caps) : p \in Rebalance([e EXCEPT !.cap = caps], symbols)
    BY <1>2 DEF RefreshAllocations
  <2>1. PICK symbols \in Moved(e, caps) : p \in Rebalance([e EXCEPT !.cap = caps], symbols)
    BY <2>0
  <2> DEFINE x == [e EXCEPT !.cap = caps]
  <2>2. /\ x \in Engines /\ x.position = e.position /\ x.book = e.book
        /\ x.working = e.working /\ x.guard = e.guard /\ x.level = e.level /\ x.cap = caps
    BY Rewrites DEF Sound
  <2>3. symbols \in SUBSET Symbols /\ Over(e, caps) \subseteq symbols /\ p \in Rebalance(x, symbols)
    BY <2>1 DEF Moved, Over, Changed
  <2> HIDE DEF x
  <2>4. x \in Sound
    BY <2>2 DEF Sound, Fits, HasOrder, Position
  <2>5. Passed(x, p, symbols)
    BY <2>3, <2>4, RebalanceKeeps
  <2>6. Observe(x).guard = Observe(e).guard
    BY <2>2, <2>4, Observed
  <2>7. Quiet(p, symbols) => Kept(e, p)
    BY <2>2, <2>5 DEF Passed, Carried, Quiet, Kept
  <2>8. p \in Sound /\ p.cap = caps /\ \A t \in Symbols : Shrunk(p.position[t], e.position[t])
    BY <2>2, <2>5 DEF Passed, Carried
  <2>9. e.guard = "hard_stop" => p.guard = "hard_stop" /\ Kept(e, p)
    BY <2>2, <2>5, <2>7 DEF Passed, Stopped
  <2>10. p.position = e.position => /\ p.level = e.level /\ p.guard \in {e.guard, Observe(e).guard}
                                    /\ Blocks(Observe(e)) => Kept(e, p)
    BY <2>2, <2>5, <2>6, <2>7 DEF Passed, Calm, Blocks
  <2>11. ASSUME NEW t \in Symbols PROVE Held(e, p, t)
    <3>1. Exposure(x, t) = Exposure(e, t)
      BY <2>2, HeldAsIs DEF Sound
    <3>2. Held(x, p, t)
      BY <2>5 DEF Passed, Carried
    <3> QED
      BY <3>1, <3>2 DEF Held
  <2>12. ASSUME NEW t \in Over(e, caps) PROVE ~LiveEntry(p, t)
    <3>1. t \in Symbols /\ e.position[t] \in Int /\ caps[t] < Absolute(e.position[t]) /\ caps[t] \in Nat
      BY <2>8, Orders DEF Over, Position, Sound
    <3>2. e.position[t] # 0
      BY <3>1 DEF Absolute
    <3> QED
      BY <2>2, <2>3, <2>5, <3>2 DEF Passed, Carried
  <2> QED
    BY <2>8, <2>9, <2>10, <2>11, <2>12 DEF Ready
<1> QED
  BY <1>1, <1>2

LEMMA Preparing ==
    ASSUME NEW e \in Sound, NEW x \in SettleCancels(e), NEW p \in RefreshAllocations(x)
    PROVE  Ready(e, p)
<1>1. /\ x \in Sound /\ x.position = e.position /\ x.guard = e.guard /\ x.level = e.level
      /\ x.cap = e.cap
      /\ \A t \in Symbols : /\ x.working[t] \in {e.working[t], NoOrder}
                            /\ Exposure(x, t) <= Exposure(e, t)
  BY Settling
<1>2. Ready(x, p)
  BY <1>1, Refreshing
<1>3. Kept(x, p) => Kept(e, p)
  BY <1>1 DEF Kept, LiveEntry, Entry, HasOrder
<1>4. Observe(x).guard = Observe(e).guard
  BY <1>1, Observed
<1>5. Over(x, p.cap) = Over(e, p.cap)
  BY <1>1 DEF Over, Position
<1>6. ASSUME NEW t \in Symbols PROVE Held(e, p, t)
  <2>1. Held(x, p, t) /\ p \in Sound
    BY <1>2 DEF Ready
  <2>2. Exposure(x, t) \in Int /\ Exposure(e, t) \in Int /\ Exposure(p, t) \in Int
    BY <1>1, <2>1, ExposureIs DEF Sound
  <2> QED
    BY <1>1, <2>1, <2>2 DEF Held
<1> QED
  BY <1>1, <1>2, <1>3, <1>4, <1>5, <1>6 DEF Ready, Blocks

\* A fill takes from the order what it gives to the position.
LEMMA Traded ==
    ASSUME NEW e \in Sound, NEW s \in Symbols, NEW y \in TradeFills(e, s)
    PROVE  /\ y \in Sound /\ y.guard = e.guard /\ y.cap = e.cap /\ Apart(e, y, s)
           /\ \A t \in Symbols : /\ Exposure(y, t) <= Exposure(e, t)
                                 /\ ~LiveEntry(e, t) => ~LiveEntry(y, t)
<1> DEFINE order == e.working[s]
<1>1. /\ HasOrder(e, s) /\ e.book[s] # NoBook
      /\ order.reduce_only => Reduces(order.side, Position(e, s))
  BY DEF TradeFills, Working
<1>2. PICK q \in 1 .. order.remaining :
        y \in Filled([e EXCEPT !.working[s] = IF q = order.remaining THEN NoOrder
                                              ELSE [order EXCEPT !.remaining = @ - q]], s, order.side, q)
  BY <1>1 DEF TradeFills, Working
<1>3. /\ e \in Engines /\ Fits(e, s) /\ order \in Live /\ e.position[s] \in Int /\ e.cap[s] \in Int
  BY <1>1, Orders DEF Sound
<1>4. order.side \in Sides /\ order.remaining \in Nat \ {0} /\ order.reduce_only \in BOOLEAN
  BY <1>3 DEF Live
<1>5. q \in Nat \ {0} /\ q <= order.remaining
  BY <1>4
<1> DEFINE rest == order.remaining - q
           left == IF q = order.remaining THEN NoOrder ELSE [order EXCEPT !.remaining = @ - q]
           x == [e EXCEPT !.working[s] = left]
<1>6. rest \in Nat /\ (rest = 0 <=> q = order.remaining)
  BY <1>4, <1>5
<1>7. /\ left \in Live \cup {NoOrder}
      /\ rest = 0 => left = NoOrder
      /\ rest # 0 => /\ left # NoOrder /\ left.remaining = rest /\ left.side = order.side
                     /\ left.reduce_only = order.reduce_only /\ left.cancel = order.cancel
  <2>1. CASE rest = 0
    BY <1>6, <2>1
  <2>2. CASE rest # 0
    <3>1. left = [order EXCEPT !.remaining = rest] /\ rest \in Nat \ {0}
      BY <1>6, <2>2
    <3> HIDE DEF left, rest, order
    <3>2. left \in Live /\ left.remaining = rest /\ left.side = order.side
          /\ left.reduce_only = order.reduce_only /\ left.cancel = order.cancel
      BY <1>3, <3>1 DEF Live
    <3>3. left # NoOrder
      BY <3>2, <1>4 DEF NoOrder, Sides
    <3> QED
      BY <2>2, <3>2, <3>3
  <2> QED
    BY <2>1, <2>2
<1>8. y \in Filled(x, s, order.side, q)
  BY <1>2
<1> HIDE DEF left
<1>9. /\ x \in Engines /\ x.position = e.position /\ x.book = e.book /\ x.cap = e.cap
      /\ x.guard = e.guard /\ x.working[s] = left
      /\ \A t \in Symbols : t # s => x.working[t] = e.working[t]
  BY <1>3, <1>7, Rewritten
<1> HIDE DEF x
<1>10. /\ y \in Engines /\ y.working = x.working /\ y.book = e.book /\ y.cap = e.cap
       /\ y.guard = e.guard /\ y.position[s] = e.position[s] + Signed(order.side, q)
       /\ \A t \in Symbols : t # s => y.position[t] = e.position[t]
  BY <1>5, <1>8, <1>9, AFill
<1> HIDE DEF order, rest
<1>11. ASSUME NEW t \in Symbols, t # s
       PROVE  /\ Fits(y, t) /\ Exposure(y, t) <= Exposure(e, t)
              /\ ~LiveEntry(e, t) => ~LiveEntry(y, t)
  <2>1. Fits(e, t) /\ y.position[t] = e.position[t] /\ y.working[t] = e.working[t]
    BY <1>9, <1>10, <1>11 DEF Sound
  <2>2. Exposure(y, t) = Exposure(e, t) /\ Exposure(e, t) \in Int
    BY <1>3, <1>10, <2>1, HeldAsIs, ExposureIs
  <2> QED
    BY <1>10, <2>1, <2>2 DEF Fits, HasOrder, Position, LiveEntry, Entry
<1>12. HasOrder(y, s) <=> rest # 0
  BY <1>7, <1>9, <1>10 DEF HasOrder
<1>13. rest = order.remaining - q
  BY DEF rest
<1>14. Fits(y, s)
  <2>1. ASSUME rest # 0, order.reduce_only
        PROVE  Reduces(order.side, Position(y, s)) /\ rest <= Absolute(Position(y, s))
    <3>1. Reduces(order.side, Position(e, s)) /\ order.remaining <= Absolute(Position(e, s))
      BY <1>1, <1>3, <2>1 DEF Fits, order
    <3> QED
      BY <1>3, <1>4, <1>5, <1>6, <1>10, <1>13, <2>1, <3>1
         DEF Reduces, Position, Absolute, Signed, Sides
  <2>2. rest # 0 => y.working[s] = left
    BY <1>9, <1>10
  <2>3. y.book[s] # NoBook
    BY <1>1, <1>10
  <2> QED
    BY <1>7, <1>12, <2>1, <2>2, <2>3 DEF Fits
<1>15. Exposure(y, s) <= Exposure(e, s)
  <2>1. Position(e, s) \in Int /\ Position(y, s) = Position(e, s) + Signed(order.side, q) /\ y.cap[s] = e.cap[s]
    BY <1>3, <1>10 DEF Position
  <2>2. CASE order.reduce_only
    <3>1. ~Entry(e, s) /\ ~Entry(y, s)
      BY <1>7, <1>9, <1>10, <1>12, <2>2 DEF Entry, order
    <3>2. Reduces(order.side, Position(e, s)) /\ order.remaining <= Absolute(Position(e, s))
      BY <1>1, <1>3, <2>2 DEF Fits, order
    <3>3. /\ Absolute(Position(y, s)) <= Absolute(Position(e, s))
          /\ Absolute(Position(y, s)) \in Int /\ Absolute(Position(e, s)) \in Int
      BY <1>4, <1>5, <2>1, <3>2 DEF Absolute, Signed, Reduces, Sides
    <3> QED
      BY <3>1, <3>3 DEF Exposure
  <2>3. CASE ~order.reduce_only
    <3>1. Entry(e, s) /\ e.working[s].remaining = order.remaining
      BY <1>1, <2>3 DEF Entry, order
    <3>2. /\ Absolute(Position(y, s)) <= Absolute(Position(e, s)) + q
          /\ Absolute(Position(y, s)) \in Int /\ Absolute(Position(e, s)) \in Int
      BY <1>4, <1>5, <2>1 DEF Absolute, Signed, Sides
    <3>3. (IF Entry(y, s) THEN y.working[s].remaining ELSE 0) = rest
      BY <1>6, <1>7, <1>9, <1>10, <1>12, <2>3 DEF Entry
    <3> QED
      BY <1>4, <1>5, <1>13, <3>1, <3>2, <3>3 DEF Exposure
  <2> QED
    BY <2>2, <2>3
<1>16. y \in Sound
  BY <1>10, <1>11, <1>14 DEF Sound
<1>17. ~LiveEntry(e, s) => ~LiveEntry(y, s)
  BY <1>1, <1>7, <1>9, <1>10, <1>12 DEF LiveEntry, Entry, order
<1> QED
  BY <1>10, <1>11, <1>15, <1>16, <1>17 DEF Apart

\* The loop of the guard.
LEMMA Looped ==
    ASSUME NEW h \in Sound, NEW seen \in SUBSET Symbols, NEW y \in GuardLoop(h, seen)
    PROVE  /\ y \in Sound /\ y.cap = h.cap
           /\ \A t \in Symbols : /\ Held(h, y, t) /\ (Tame(h, t) => Tame(y, t))
                                 /\ Shrunk(y.position[t], h.position[t])
                                 /\ t \in seen => y.working[t] = h.working[t]
           /\ Blocks(y) => /\ Blocks(Observe(h))
                           /\ h.guard = "hard_stop" => Quiet(y, Symbols \ seen)
                           /\ \A s \in Symbols : Apart(h, y, s) => Quiet(y, Symbols \ seen)
<1> DEFINE o == Observe(h)
<1>1. /\ o \in Sound /\ o.position = h.position /\ o.working = h.working /\ o.cap = h.cap /\ o.level = h.level
      /\ o.guard = IF h.guard = "hard_stop" THEN h.guard ELSE h.level
      /\ \A t \in Symbols : Acts(h, o, t)
  BY Observed
<1>2. CASE ~Blocks(o)
  <2>1. y = o
    BY <1>2 DEF GuardLoop
  <2> QED
    BY <1>1, <1>2, <2>1 DEF Acts, Tame, LiveEntry, Entry, HasOrder
<1>3. CASE Blocks(o)
  <2>1. y \in Rebalance(o, Symbols \ seen)
    BY <1>3 DEF GuardLoop
  <2> HIDE DEF o
  <2>2. Passed(o, y, Symbols \ seen)
    BY <1>1, <2>1, RebalanceKeeps
  <2>3. Settled(o)
    BY <1>1 DEF Settled
  <2>4. h.guard = "hard_stop" => Quiet(y, Symbols \ seen)
    BY <1>1, <2>2 DEF Passed, Stopped
  <2>5. ASSUME NEW s \in Symbols, Apart(h, y, s), Blocks(y)
        PROVE  Quiet(y, Symbols \ seen)
    <3>1. Apart(o, y, s)
      BY <1>1, <2>5 DEF Apart
    <3> QED
      BY <1>3, <2>2, <2>3, <2>5, <3>1 DEF Passed, Alone
  <2>6. /\ y \in Sound /\ y.cap = h.cap
        /\ \A t \in Symbols : /\ Held(o, y, t)
                              /\ Shrunk(y.position[t], h.position[t])
                              /\ t \in seen => y.working[t] = h.working[t]
    BY <1>1, <2>2 DEF Passed, Carried
  <2>7. ASSUME NEW t \in Symbols PROVE Held(h, y, t)
    <3>1. Exposure(o, t) = Exposure(h, t)
      BY <1>1, HeldAsIs DEF Sound
    <3> QED
      BY <2>6, <3>1 DEF Held
  <2>8. ASSUME NEW t \in Symbols, Tame(h, t) PROVE Tame(y, t)
    <3> SUFFICES ASSUME y.position[t] # 0 PROVE ~LiveEntry(y, t)
      BY DEF Tame
    <3>1. h.position[t] # 0
      BY <2>6, Orders, ShrunkFrom DEF Sound
    <3>2. CASE t \in seen
      BY <2>6, <2>8, <3>1, <3>2 DEF Tame, LiveEntry, Entry, HasOrder
    <3>3. CASE t \notin seen
      BY <1>1, <2>2, <3>1, <3>3 DEF Passed, Carried
    <3> QED
      BY <3>2, <3>3
  <2> QED
    BY <1>3, <2>4, <2>5, <2>6, <2>7, <2>8 DEF o
<1> QED
  BY <1>2, <1>3

\* What the end leaves: no order where it has not yet been, and no more exposure.
Swept(e, y, k) ==
    /\ y \in Sound /\ y.cap = e.cap
    /\ \A t \in Symbols : t \notin First(k) => ~HasOrder(y, t)
    /\ \A t \in Symbols : Held(e, y, t)

LEMMA SweptOneMore ==
    ASSUME NEW e \in Sound, NEW k \in Nat, k < Len(SymbolOrder), NEW x, Swept(e, x, k),
           NEW y \in Flattened(x, SymbolOrder[k + 1])
    PROVE  Swept(e, y, k + 1)
<1> DEFINE s == SymbolOrder[k + 1]
<1>1. s \in Symbols /\ s \notin First(k) /\ First(k + 1) = First(k) \cup {s}
  BY TheOrder
<1> DEFINE d == ForceTaker(Policy, Position(x, s), x.book[s] # NoBook, x.book[s].bid, Ask(x.book[s]),
                           x.book[s].depth)
<1>2. y = x \/ (d # Holds /\ y \in PlaceSymbol(x, s, Taker(d.side, d.price, d.quantity), TRUE))
  BY DEF Flattened
<1> HIDE DEF s
<1>3. x \in Sound /\ ~HasOrder(x, s) /\ x \in Engines
  BY <1>1 DEF Swept, Sound
<1>4. CASE y = x
  BY <1>1, <1>4 DEF Swept
<1>5. CASE d # Holds /\ y \in PlaceSymbol(x, s, Taker(d.side, d.price, d.quantity), TRUE)
  <2>1. /\ x.book[s].bid \in Int /\ Ask(x.book[s]) \in Int /\ x.book[s].depth \in Nat
        /\ Position(x, s) \in Int
    BY <1>1, <1>3, Orders DEF Ask, Position
  <2>2. x.book[s] # NoBook /\ d \in Submitted
    BY <1>5, <2>1, ForceDecided
  <2> HIDE DEF d
  <2>3. Taker(d.side, d.price, d.quantity) \in Intents
    BY <2>2, MakersAndTakers DEF Submitted
  <2>4. Acts(x, y, s)
    BY <1>1, <1>3, <1>5, <2>2, <2>3, Placed
  <2>5. y \in Sound /\ y.cap = e.cap
    BY <1>1, <1>3, <2>4, ActsKeepSound DEF Acts, Swept
  <2>6. ASSUME NEW t \in Symbols
        PROVE  /\ t \notin First(k + 1) => ~HasOrder(y, t)
               /\ Held(e, y, t)
    <3>1. CASE t = s
      <4>1. Held(e, x, t) /\ Held(x, y, t) /\ y.cap = x.cap
        BY <2>4, <3>1 DEF Acts, Swept
      <4>2. Held(e, y, t)
        BY <1>3, <2>5, <4>1, HeldTwice DEF Sound
      <4> QED
        BY <1>1, <3>1, <4>2
    <3>2. CASE t # s
      <4>1. y.position[t] = x.position[t] /\ y.working[t] = x.working[t] /\ y.cap = x.cap
        BY <2>4, <3>2 DEF Acts
      <4>2. Held(e, x, t) /\ Held(x, y, t)
        BY <1>3, <2>5, <4>1, HeldAsIs DEF Swept, Sound
      <4>3. Held(e, y, t)
        BY <1>3, <2>5, <4>1, <4>2, HeldTwice DEF Sound
      <4>4. t \notin First(k + 1) => ~HasOrder(x, t)
        BY <1>1 DEF Swept
      <4> QED
        BY <4>1, <4>3, <4>4 DEF HasOrder
    <3> QED
      BY <3>1, <3>2
  <2> QED
    BY <2>5, <2>6 DEF Swept
<1> QED
  BY <1>2, <1>4, <1>5

LEMMA Flattening ==
    ASSUME NEW e \in Sound, NEW y \in FlattenAll(e)
    PROVE  y \in Sound /\ y.cap = e.cap /\ \A t \in Symbols : Held(e, y, t)
<1> DEFINE n == Len(SymbolOrder)
<1>1. n \in Nat /\ First(0) = {}
  BY TheOrder
<1>2. PICK f : IsClosing(f, e, n) /\ FlattenAll(e) = f[n]
  BY <1>1, FlattenAllIsClosing
<1>3. Swept(e, CancelAll(e), 0)
  <2> DEFINE w == [s \in Symbols |-> NoOrder]
  <2>1. w \in [Symbols -> Live \cup {NoOrder}] /\ (\A s \in Symbols : w[s] = NoOrder)
    OBVIOUS
  <2>2. CancelAll(e) = [e EXCEPT !.working = w]
    BY DEF CancelAll
  <2> HIDE DEF w
  <2>3. CancelAll(e).working = w /\ CancelAll(e).cap = e.cap
    BY <2>1, <2>2, Rewrites DEF Sound
  <2>4. CancelAll(e) \in Sound /\ \A s \in Symbols : Held(e, CancelAll(e), s)
    BY <2>1, <2>2, Dropped DEF Held
  <2> QED
    BY <2>1, <2>3, <2>4 DEF Swept, HasOrder
<1> DEFINE T == {k \in Nat : k <= n => \A x \in f[k] : Swept(e, x, k)}
<1> HIDE DEF n
<1>4. /\ f[0] = {CancelAll(e)}
      /\ \A k \in Nat : k < n => f[k + 1] = Close(SymbolOrder[k + 1], f[k])
  <2>1. \A k \in 0 .. n : f[k] = IF k = 0 THEN {CancelAll(e)} ELSE Close(SymbolOrder[k], f[k - 1])
    BY <1>2 DEF IsClosing
  <2>2. 0 \in 0 .. n
    BY <1>1
  <2>3. f[0] = {CancelAll(e)}
    BY <2>1, <2>2
  <2>4. ASSUME NEW k \in Nat, k < n PROVE f[k + 1] = Close(SymbolOrder[k + 1], f[k])
    <3>1. k + 1 \in 0 .. n /\ k + 1 # 0 /\ (k + 1) - 1 = k
      BY <1>1, <2>4
    <3>2. f[k + 1] = IF k + 1 = 0 THEN {CancelAll(e)} ELSE Close(SymbolOrder[k + 1], f[(k + 1) - 1])
      BY <2>1, <3>1
    <3> QED
      BY <3>1, <3>2
  <2> QED
    BY <2>3, <2>4
<1>5. 0 \in T
  BY <1>3, <1>4
<1>6. ASSUME NEW k \in Nat, k \in T PROVE k + 1 \in T
  <2> SUFFICES ASSUME k + 1 <= n, NEW x \in f[k + 1]
               PROVE  Swept(e, x, k + 1)
    <3>1. k + 1 \in Nat
      OBVIOUS
    <3> QED
      BY <3>1, Zenon
  <2>1. k < n /\ k <= n
    BY <1>1
  <2>2. PICK w \in f[k] : x \in Flattened(w, SymbolOrder[k + 1])
    BY <1>4, <2>1 DEF Close
  <2>3. Swept(e, w, k)
    BY <1>6, <2>1, Zenon
  <2> QED
    BY <2>1, <2>2, <2>3, SweptOneMore DEF n
<1>7. n \in T
  <2> HIDE DEF T
  <2> QED
    BY <1>1, <1>5, <1>6, Induction
<1>8. n <= n
  BY <1>1
<1>9. \A x \in f[n] : Swept(e, x, n)
  BY <1>7, <1>8, Zenon
<1> QED
  BY <1>2, <1>9 DEF Swept

-----------------------------------------------------------------------------
(* The invariant, and what an event does to it.                            *)

EngineInv == engine \in Sound

\* The clauses of ExposureHeedsLimits and of CutLimitsAreHeeded about an event that makes
\* y of e.
Heeded(e, y) ==
    /\ \A t \in Symbols : Held(e, y, t)
    /\ y.cap # e.cap => \A t \in Over(e, y.cap) : Tame(y, t)

\* What the guard's loop needs to know of the engine h that the handler of an event
\* has made of e: which symbol may have changed its position, and what became of the
\* orders of the symbols the loop passes over.
SeenKept(e, h, seen) == \A t \in seen : LiveEntry(h, t) => h.working[t] = e.working[t]
Handled(e, h, seen) ==
    /\ h \in Sound /\ Heeded(e, h)
    /\ e.guard = "hard_stop" => h.guard = "hard_stop" /\ SeenKept(e, h, seen)
    /\ \A y \in Sound :
         /\ \A t \in Symbols : Shrunk(y.position[t], h.position[t])
         /\ y.position = e.position
         /\ Blocks(Observe(h))
         => (\E s \in Symbols : Apart(h, y, s)) /\ SeenKept(e, h, seen)

\* The clause of GuardWithdrawsEntries about an event that leaves y.
Withdrawn(e, y) ==
    Blocks(y) /\ (e.guard = "hard_stop" \/ y.position = e.position) =>
        \A s, t \in Symbols : LiveEntry(y, s) =>
            (LiveEntry(y, t) => s = t) /\ y.working[s] = e.working[s]

LEMMA Ended ==
    ASSUME NEW e \in Sound, NEW seen \in SUBSET Symbols, \A s, t \in seen : s = t,
           NEW h, Handled(e, h, seen), NEW y \in GuardLoop(h, seen)
    PROVE  y \in Sound /\ Withdrawn(e, y) /\ Heeded(e, y)
<1>0. h \in Sound
  BY DEF Handled
<1>1. y \in Sound /\ h \in Sound /\ \A t \in seen : y.working[t] = h.working[t]
  BY <1>0, Looped
<1>2. Heeded(e, y)
  <2>1. /\ y.cap = h.cap
        /\ \A t \in Symbols : Held(h, y, t) /\ (Tame(h, t) => Tame(y, t))
    BY <1>1, Looped
  <2>2. Heeded(e, h)
    BY DEF Handled
  <2>3. \A t \in Symbols : Held(e, y, t)
    BY <1>1, <2>1, <2>2, HeldTwice DEF Heeded, Sound
  <2> QED
    BY <2>1, <2>2, <2>3 DEF Heeded, Over
<1>3. ASSUME Blocks(y), e.guard = "hard_stop" \/ y.position = e.position
      PROVE  Quiet(y, Symbols \ seen) /\ SeenKept(e, h, seen)
  <2>1. CASE e.guard = "hard_stop"
    BY <1>1, <1>3, <2>1, Looped DEF Handled
  <2>2. CASE y.position = e.position
    <3>1. (\A t \in Symbols : Shrunk(y.position[t], h.position[t])) /\ Blocks(Observe(h))
      BY <1>1, <1>3, Looped
    <3>2. (\E s \in Symbols : Apart(h, y, s)) /\ SeenKept(e, h, seen)
      BY <1>1, <2>2, <3>1 DEF Handled
    <3> QED
      BY <1>1, <1>3, <3>2, Looped
  <2> QED
    BY <1>3, <2>1, <2>2
<1>4. ASSUME Blocks(y), e.guard = "hard_stop" \/ y.position = e.position,
             NEW s \in Symbols, LiveEntry(y, s)
      PROVE  s \in seen /\ y.working[s] = e.working[s]
  <2>1. s \in seen
    BY <1>3, <1>4 DEF Quiet
  <2>2. y.working[s] = h.working[s]
    BY <1>1, <2>1
  <2>3. LiveEntry(h, s)
    BY <1>4, <2>2 DEF LiveEntry, Entry, HasOrder
  <2> QED
    BY <1>3, <1>4, <2>1, <2>2, <2>3 DEF SeenKept
<1> QED
  BY <1>1, <1>2, <1>4 DEF Withdrawn

LEMMA ShrunkBack ==
    ASSUME NEW a \in Int, NEW b \in Int, Shrunk(a, b), Shrunk(b, a)
    PROVE  a = b
  BY DEF Shrunk

LEMMA ShrunkTwice ==
    ASSUME NEW a \in Int, NEW b \in Int, NEW c \in Int, Shrunk(a, b), Shrunk(b, c)
    PROVE  Shrunk(a, c)
  BY DEF Shrunk

\* No handler: a stale price, a depth update, a trade that fills nothing.
LEMMA NothingHandled ==
    ASSUME NEW e \in Sound, NEW p, Ready(e, p), NEW seen \in SUBSET Symbols
    PROVE  Handled(e, p, seen)
<1>1. p \in Sound /\ e \in Sound /\ Heeded(e, p)
  BY DEF Ready, Heeded, Tame
<1>2. Kept(e, p) => SeenKept(e, p, seen)
  BY DEF Kept, SeenKept
<1>3. ASSUME NEW y \in Sound, \A t \in Symbols : Shrunk(y.position[t], p.position[t]),
             y.position = e.position, Blocks(Observe(p))
      PROVE  (\E s \in Symbols : Apart(p, y, s)) /\ SeenKept(e, p, seen)
  <2>1. \A t \in Symbols : p.position[t] \in Int /\ e.position[t] \in Int
    BY <1>1, Orders DEF Sound
  <2>2. \A t \in Symbols : p.position[t] = e.position[t]
    <3> SUFFICES ASSUME NEW t \in Symbols PROVE p.position[t] = e.position[t]
      OBVIOUS
    <3>1. Shrunk(e.position[t], p.position[t]) /\ Shrunk(p.position[t], e.position[t])
      BY <1>3 DEF Ready
    <3> QED
      BY <2>1, <3>1, ShrunkBack
  <2>3. p.position = e.position
    <3>1. p.position \in [Symbols -> Int] /\ e.position \in [Symbols -> Int]
      BY <1>1 DEF Sound, Engines
    <3> QED
      BY <2>2, <3>1
  <2>4. p.level = e.level /\ p.guard \in {e.guard, Observe(e).guard} /\ (Blocks(Observe(e)) => Kept(e, p))
    BY <2>3 DEF Ready
  <2>5. Observe(p).guard = Observe(e).guard
    BY <1>1, <2>4, Observed
  <2>6. SeenKept(e, p, seen)
    BY <1>2, <1>3, <2>4, <2>5 DEF Blocks
  <2>7. \E s \in Symbols : TRUE
    BY EngineAssumption DEF Symbols, Range
  <2> QED
    BY <1>3, <2>3, <2>6, <2>7 DEF Apart
<1> QED
  BY <1>1, <1>2, <1>3 DEF Handled, Ready

\* A price: the symbol is seen to, after its book or the valuation has changed.
LEMMA APriceHandled ==
    ASSUME NEW e \in Sound, NEW p, Ready(e, p), NEW x \in Sound, x.position = p.position,
           x.guard = p.guard, x.working = p.working, x.cap = p.cap,
           NEW s \in Symbols, NEW h \in RebalanceSymbol(x, s)
    PROVE  Handled(e, h, {s})
<1>1. p \in Sound /\ e \in Sound
  BY DEF Ready
<1>2. /\ Acts(x, h, s) /\ h.guard = Observe(x).guard
      /\ Blocks(h) => ~LiveEntry(h, s)
      /\ x.position[s] # 0 => ~LiveEntry(h, s)
  BY SeenTo
<1>3. h \in Sound
  BY <1>2, ActsKeepSound
<1>4. Heeded(e, h)
  <2>0. h.cap = p.cap
    BY <1>2 DEF Acts
  <2>1. ASSUME NEW t \in Symbols PROVE Held(e, h, t)
    <3>1. Held(x, h, t)
      BY <1>2, <1>3, HeldAsIs DEF Acts, Sound
    <3>2. Held(e, p, t) /\ Held(p, x, t)
      BY <1>1, HeldAsIs DEF Ready, Sound
    <3>3. Held(p, h, t)
      BY <1>1, <1>3, <2>0, <3>1, <3>2, HeldTwice DEF Sound
    <3> QED
      BY <1>1, <1>3, <2>0, <3>2, <3>3, HeldTwice DEF Sound
  <2>2. ASSUME h.cap # e.cap, NEW t \in Over(e, h.cap) PROVE Tame(h, t)
    <3>1. t \in Symbols /\ ~LiveEntry(p, t)
      BY <2>0, <2>2 DEF Ready, Over
    <3>2. CASE t = s
      <4>1. h.position[s] # 0 => x.position[s] # 0
        BY <1>2, <1>3, Orders, ShrunkFrom DEF Acts, Sound
      <4> QED
        BY <1>2, <3>2, <4>1 DEF Tame
    <3>3. CASE t # s
      <4>1. h.working[t] = p.working[t]
        BY <1>2, <3>1, <3>3 DEF Acts
      <4> QED
        BY <3>1, <4>1 DEF Tame, LiveEntry, Entry, HasOrder
    <3> QED
      BY <3>2, <3>3
  <2> QED
    BY <2>1, <2>2 DEF Heeded
<1>5. h.guard = IF x.guard = "hard_stop" THEN x.guard ELSE x.level
  BY <1>2, Observed
<1>6. e.guard = "hard_stop" => h.guard = "hard_stop" /\ SeenKept(e, h, {s})
  <2>1. e.guard = "hard_stop" => h.guard = "hard_stop"
    BY <1>5 DEF Ready
  <2> QED
    BY <1>2, <2>1 DEF SeenKept, Blocks
<1>7. ASSUME NEW y \in Sound, \A t \in Symbols : Shrunk(y.position[t], h.position[t]),
             y.position = e.position, Blocks(Observe(h))
      PROVE  (\E o \in Symbols : Apart(h, y, o)) /\ SeenKept(e, h, {s})
  <2>1. \A t \in Symbols : /\ p.position[t] \in Int /\ e.position[t] \in Int
                           /\ h.position[t] \in Int
    BY <1>1, <1>3, Orders DEF Sound
  <2>2. \A t \in Symbols : Shrunk(h.position[t], p.position[t])
    <3>1. \A t \in Symbols : t # s => h.position[t] = p.position[t]
      BY <1>2 DEF Acts
    <3>2. Shrunk(h.position[s], p.position[s])
      BY <1>2 DEF Acts
    <3> QED
      BY <2>1, <3>1, <3>2 DEF Shrunk
  <2>3. \A t \in Symbols : h.position[t] = e.position[t] /\ p.position[t] = e.position[t]
    <3> SUFFICES ASSUME NEW t \in Symbols
                 PROVE  h.position[t] = e.position[t] /\ p.position[t] = e.position[t]
      OBVIOUS
    <3>1. /\ Shrunk(e.position[t], h.position[t]) /\ Shrunk(h.position[t], p.position[t])
          /\ Shrunk(p.position[t], e.position[t])
      BY <1>7, <2>2 DEF Ready
    <3> QED
      BY <2>1, <3>1 DEF Shrunk
  <2>4. h.level = x.level
    BY <1>2, <2>3 DEF Acts
  <2>5. Observe(h).guard = h.guard
    BY <1>3, <1>5, <2>4, Observed
  <2>6. ~LiveEntry(h, s)
    BY <1>2, <1>7, <2>5 DEF Blocks
  <2> QED
    BY <1>7, <2>3, <2>6 DEF Apart, SeenKept
<1> QED
  BY <1>3, <1>4, <1>6, <1>7 DEF Handled

LEMMA ATradeHandled ==
    ASSUME NEW e \in Sound, NEW p, Ready(e, p), NEW s \in Symbols, NEW h \in TradeFills(p, s)
    PROVE  Handled(e, h, {})
<1>1. p \in Sound /\ e \in Sound
  BY DEF Ready
<1>2. /\ h \in Sound /\ h.guard = p.guard /\ h.cap = p.cap /\ Apart(p, h, s)
      /\ \A t \in Symbols : /\ Exposure(h, t) <= Exposure(p, t)
                            /\ ~LiveEntry(p, t) => ~LiveEntry(h, t)
  BY <1>1, Traded
<1>3. Heeded(e, h)
  <2>1. \A t \in Symbols : Held(e, p, t) /\ Held(p, h, t)
    BY <1>2 DEF Ready, Held
  <2>2. \A t \in Symbols : Held(e, h, t)
    BY <1>1, <1>2, <2>1, HeldTwice DEF Sound
  <2>3. h.cap # e.cap => \A t \in Over(e, h.cap) : t \in Symbols /\ ~LiveEntry(p, t)
    BY <1>2 DEF Ready, Over
  <2> QED
    BY <1>2, <2>2, <2>3 DEF Heeded, Tame
<1>4. ASSUME NEW y \in Sound, \A t \in Symbols : Shrunk(y.position[t], h.position[t]),
             y.position = e.position
      PROVE  Apart(h, y, s)
  <2> SUFFICES ASSUME NEW t \in Symbols, t # s PROVE y.position[t] = h.position[t]
    BY DEF Apart
  <2>1. p.position[t] \in Int /\ e.position[t] \in Int
    BY <1>1, Orders DEF Sound
  <2>2. h.position[t] = p.position[t]
    BY <1>2 DEF Apart
  <2>3. Shrunk(e.position[t], p.position[t]) /\ Shrunk(p.position[t], e.position[t])
    BY <1>4, <2>2 DEF Ready
  <2>4. e.position[t] = p.position[t]
    BY <2>1, <2>3, ShrunkBack
  <2> QED
    BY <1>4, <2>2, <2>4
<1>5. SeenKept(e, h, {})
  BY DEF SeenKept
<1> QED
  BY <1>2, <1>3, <1>4, <1>5 DEF Handled, Ready

LEMMA AnEvent ==
    ASSUME EngineInv, NEW h, NEW seen \in SUBSET Symbols, \A s, t \in seen : s = t,
           Handled(engine, h, seen), engine' \in GuardLoop(h, seen), run = "running", run' = run
    PROVE  EngineInv' /\ Withdrawn(engine, engine') /\ Heeded(engine, engine') /\ run' = "running"
<1>1. engine' \in Sound /\ Withdrawn(engine, engine') /\ Heeded(engine, engine')
  BY Ended DEF EngineInv
<1> QED
  BY <1>1 DEF EngineInv

LEMMA APrepared ==
    ASSUME EngineInv, NEW p \in Prepared
    PROVE  Ready(engine, p)
<1>1. PICK x \in SettleCancels(engine) : p \in RefreshAllocations(x)
  BY DEF Prepared
<1>2. engine \in Sound
  BY DEF EngineInv
<1> QED
  BY <1>1, <1>2, Preparing

LEMMA Steps ==
    ASSUME EngineInv, Next
    PROVE  /\ EngineInv'
           /\ run' = "running" => Withdrawn(engine, engine')
           /\ Heeded(engine, engine')
<1>0. engine \in Sound
  BY DEF EngineInv
<1> DEFINE Goal == /\ EngineInv'
                   /\ run' = "running" => Withdrawn(engine, engine')
                   /\ Heeded(engine, engine')
<1>1. ASSUME NEW s \in Symbols, OnBookTicker(s, Prepared) PROVE Goal
  <2>0. PICK best \in Bids[s], depth \in Depths :
          Event(UNION {RebalanceSymbol([e EXCEPT !.book[s] = [bid |-> best, depth |-> depth]], s) :
                       e \in Prepared}, {s})
    BY <1>1 DEF OnBookTicker
  <2>1. PICK h : /\ \E p \in Prepared :
                       h \in RebalanceSymbol([p EXCEPT !.book[s] = [bid |-> best, depth |-> depth]], s)
                 /\ run = "running" /\ engine' \in GuardLoop(h, {s}) /\ run' = run
    BY <2>0 DEF Event
  <2>1a. PICK p \in Prepared :
          h \in RebalanceSymbol([p EXCEPT !.book[s] = [bid |-> best, depth |-> depth]], s)
    BY <2>1
  <2> DEFINE known == [p.book EXCEPT ![s] = [bid |-> best, depth |-> depth]]
             x == [p EXCEPT !.book[s] = [bid |-> best, depth |-> depth]]
  <2>2. h \in RebalanceSymbol(x, s)
    BY <2>1a
  <2>3. Ready(engine, p) /\ p \in Sound /\ p \in Engines
    BY APrepared DEF Ready, Sound
  <2>4. best \in Nat \ {0} /\ depth \in Nat
    BY EngineAssumption
  <2>5. p.book \in [Symbols -> Books]
    BY <2>3 DEF Engines
  <2>6. /\ known \in [Symbols -> Books]
        /\ known[s] # NoBook
        /\ \A t \in Symbols : t # s => known[t] = p.book[t]
    <3>1. [bid |-> best, depth |-> depth] \in Books /\ [bid |-> best, depth |-> depth] # NoBook
      BY <2>4 DEF Books, NoBook
    <3> QED
      BY <2>5, <3>1
  <2>7. x = [p EXCEPT !.book = known]
    BY <2>3 DEF Engines
  <2> HIDE DEF known, x
  <2>8. /\ x \in Engines /\ x.book = known /\ x.position = p.position /\ x.cap = p.cap
        /\ x.working = p.working /\ x.guard = p.guard
    BY <2>3, <2>6, <2>7, Rewrites
  <2>9. ASSUME NEW t \in Symbols PROVE Fits(x, t)
    <3>1. Fits(p, t)
      BY <2>3 DEF Sound
    <3>2. x.book[t] = NoBook => p.book[t] = NoBook
      BY <2>6, <2>8
    <3> QED
      BY <2>8, <3>1, <3>2 DEF Fits, HasOrder, Position
  <2>10. x \in Sound
    BY <2>8, <2>9 DEF Sound
  <2>11. Handled(engine, h, {s})
    BY <1>0, <2>2, <2>3, <2>8, <2>10, APriceHandled
  <2>12. {s} \in SUBSET Symbols /\ \A t, u \in {s} : t = u
    OBVIOUS
  <2> QED
    BY <2>1, <2>11, <2>12, AnEvent
<1>2. ASSUME NEW s \in Symbols, OnStale(s, Prepared) PROVE Goal
  <2>1. PICK p \in Prepared : run = "running" /\ engine' \in GuardLoop(p, {s}) /\ run' = run
    BY <1>2 DEF OnStale, Event
  <2>2. {s} \in SUBSET Symbols /\ \A t, u \in {s} : t = u
    OBVIOUS
  <2>3. Handled(engine, p, {s})
    BY <1>0, <2>2, APrepared, NothingHandled
  <2> QED
    BY <2>1, <2>2, <2>3, AnEvent
<1>3. ASSUME NEW s \in Symbols, OnMarkPrice(s, Prepared) PROVE Goal
  <2>0. PICK h : /\ \E x \in UNION {IF Position(e, s) = 0 THEN {e} ELSE Revalued(e) : e \in Prepared} :
                       h \in RebalanceSymbol(x, s)
                 /\ run = "running" /\ engine' \in GuardLoop(h, {s}) /\ run' = run
    BY <1>3 DEF OnMarkPrice, Event
  <2>1a. PICK p \in Prepared : \E x \in (IF Position(p, s) = 0 THEN {p} ELSE Revalued(p)) :
          h \in RebalanceSymbol(x, s)
    BY <2>0
  <2>1. PICK x \in (IF Position(p, s) = 0 THEN {p} ELSE Revalued(p)) : h \in RebalanceSymbol(x, s)
    BY <2>1a
  <2>3. Ready(engine, p) /\ p \in Sound /\ p \in Engines
    BY APrepared DEF Ready, Sound
  <2>4. /\ x \in Engines /\ x.book = p.book /\ x.position = p.position /\ x.cap = p.cap
        /\ x.working = p.working /\ x.guard = p.guard
    <3>1. CASE x = p
      BY <2>3, <3>1
    <3>2. CASE x # p
      <4>1. PICK level \in Levels : x = [p EXCEPT !.level = level]
        BY <2>1, <2>3, <3>2 DEF Revalued, Engines
      <4> QED
        BY <2>3, <4>1, Rewrites
    <3> QED
      BY <3>1, <3>2
  <2>5. \A t \in Symbols : Fits(x, t)
    <3>1. \A t \in Symbols : Fits(p, t)
      BY <2>3 DEF Sound
    <3> QED
      BY <2>4, <3>1 DEF Fits, HasOrder, Position
  <2>6. x \in Sound
    BY <2>4, <2>5 DEF Sound
  <2>7. Handled(engine, h, {s})
    BY <1>0, <2>1, <2>3, <2>4, <2>6, APriceHandled
  <2>8. {s} \in SUBSET Symbols /\ \A t, u \in {s} : t = u
    OBVIOUS
  <2> QED
    BY <2>0, <2>7, <2>8, AnEvent
<1>4. ASSUME NEW s \in Symbols, OnAggTrade(s, Prepared) PROVE Goal
  <2>0. PICK h : /\ \E p \in Prepared : h \in {p} \cup TradeFills(p, s)
                 /\ run = "running" /\ engine' \in GuardLoop(h, {}) /\ run' = run
    BY <1>4 DEF OnAggTrade, Event
  <2>1. PICK p \in Prepared : h \in {p} \cup TradeFills(p, s)
    BY <2>0
  <2>2. {} \in SUBSET Symbols /\ \A t, u \in {} : t = u
    OBVIOUS
  <2>3. Handled(engine, h, {})
    <3>1. CASE h = p
      BY <1>0, <2>2, <3>1, APrepared, NothingHandled
    <3>2. CASE h \in TradeFills(p, s)
      BY <1>0, <3>2, APrepared, ATradeHandled
    <3> QED
      BY <2>1, <3>1, <3>2
  <2> QED
    BY <2>0, <2>2, <2>3, AnEvent
<1>5. CASE OnDepthUpdate(Prepared)
  <2>1. PICK p \in Prepared : run = "running" /\ engine' \in GuardLoop(p, {}) /\ run' = run
    BY <1>5 DEF OnDepthUpdate, Event
  <2>2. {} \in SUBSET Symbols /\ \A t, u \in {} : t = u
    OBVIOUS
  <2>3. Handled(engine, p, {})
    BY <1>0, <2>2, APrepared, NothingHandled
  <2> QED
    BY <2>1, <2>2, <2>3, AnEvent
<1>6. CASE Shutdown
  <2>1. /\ engine' \in FlattenAll(engine)
        /\ \E failed, lost \in BOOLEAN : run' = Verdict(engine', failed, lost)
    BY <1>6 DEF Shutdown
  <2>2. engine' \in Sound /\ engine'.cap = engine.cap /\ \A t \in Symbols : Held(engine, engine', t)
    BY <1>0, <2>1, Flattening
  <2>3. run' # "running"
    BY <2>1 DEF Verdict
  <2> QED
    BY <2>2, <2>3 DEF EngineInv, Heeded
<1> QED
  BY <1>1, <1>2, <1>3, <1>4, <1>5, <1>6 DEF Next, OnEvent

LEMMA Begins ==
    ASSUME Init
    PROVE  EngineInv
<1>1. /\ engine \in [position : {[s \in Symbols |-> 0]}, working : {[s \in Symbols |-> NoOrder]},
                     book : {[s \in Symbols |-> NoBook]}, cap : Caps,
                     guard : {"trading"}, level : {"trading"}]
  BY DEF Init
<1>2. /\ engine.position = [s \in Symbols |-> 0] /\ engine.working = [s \in Symbols |-> NoOrder]
      /\ engine.cap \in Caps
  BY <1>1
<1>3. engine \in Engines
  <2>1. NoBook \in Books
    BY DEF NoBook, Books
  <2> QED
    BY <1>1, <2>1 DEF Engines, Levels
<1>4. \A s \in Symbols : Position(engine, s) = 0 /\ ~HasOrder(engine, s)
  BY <1>2 DEF Position, HasOrder
<1>5. \A s \in Symbols : Fits(engine, s)
  BY <1>4 DEF Fits
<1> QED
  BY <1>3, <1>5 DEF EngineInv, Sound

LEMMA Invariance == Spec => []EngineInv
<1>1. Init => EngineInv
  BY Begins
<1>2. EngineInv /\ [Next]_vars => EngineInv'
  <2>1. EngineInv /\ Next => EngineInv'
    BY Steps
  <2>2. EngineInv /\ UNCHANGED vars => EngineInv'
    BY DEF EngineInv, vars
  <2> QED
    BY <2>1, <2>2
<1> QED
  BY <1>1, <1>2, PTL DEF Spec

-----------------------------------------------------------------------------
\* No exit order, partly filled or about to be cancelled, ever asks for more than the
\* position it reduces, so no fill of one turns a position round.
THEOREM ExitsAlwaysFit == Spec => []ExitsFitPosition
<1>1. EngineInv => ExitsFitPosition
  BY DEF EngineInv, Sound, Fits, ExitsFitPosition
<1> QED
  BY <1>1, Invariance, PTL

\* What a symbol holds and all its entry order can still add to it grow up to the limit in
\* force and no further, whatever becomes of the limits in between; above a limit that has
\* been cut they do not grow.
THEOREM ExposureAlwaysHeedsLimits == Spec => ExposureHeedsLimits
<1> DEFINE Heeds == \A s \in Symbols : \/ Exposure(engine', s) <= engine'.cap[s]
                                        \/ Exposure(engine', s) <= Exposure(engine, s)
<1>1. EngineInv /\ [Next]_vars => [Heeds]_vars
  <2>1. EngineInv /\ Next => Heeds
    BY Steps DEF Heeded, Held
  <2> HIDE DEF Heeds
  <2> QED
    BY <2>1
<1> QED
  BY <1>1, Invariance, PTL DEF Spec, ExposureHeedsLimits

\* An event that cuts limits leaves no live entry of a symbol that still holds something
\* and held more than its new limit, whatever handlers and loops run after the cut.
THEOREM CutLimitsStayHeeded == Spec => CutLimitsAreHeeded
<1> DEFINE Heeds == engine'.cap # engine.cap =>
                      \A s \in Over(engine, engine'.cap) : engine'.position[s] # 0 => ~LiveEntry(engine', s)
<1>1. EngineInv /\ [Next]_vars => [Heeds]_vars
  <2>1. EngineInv /\ Next => Heeds
    BY Steps DEF Heeded, Tame
  <2> HIDE DEF Heeds
  <2> QED
    BY <2>1
<1> QED
  BY <1>1, Invariance, PTL DEF Spec, CutLimitsAreHeeded

\* An event after which the guard blocks leaves no live entry, if it found a hard stop or
\* executed nothing, but for the order of a stale price's symbol, which is as it was.
THEOREM GuardAlwaysWithdraws == Spec => GuardWithdrawsEntries
<1> DEFINE Withdraws ==
      (run' = "running" /\ Blocks(engine') /\ (engine.guard = "hard_stop" \/ engine'.position = engine.position))
         => \A s, t \in Symbols : LiveEntry(engine', s) =>
                /\ LiveEntry(engine', t) => s = t
                /\ engine'.working[s] = engine.working[s]
<1>1. EngineInv /\ [Next]_vars => [Withdraws]_vars
  <2>1. EngineInv /\ Next => Withdraws
    BY Steps DEF Withdrawn
  <2> HIDE DEF Withdraws
  <2> QED
    BY <2>1
<1> QED
  BY <1>1, Invariance, PTL DEF Spec, GuardWithdrawsEntries

-----------------------------------------------------------------------------
(* The local books.  The invariant says of every diff and snapshot on the  *)
(* way, and of every copy of a book, which versions of the exchange's book *)
(* it was made of; the exchange's history only grows.                      *)

CopiedBooks == [bids : SUBSET Nat, asks : SUBSET Nat, last : Nat, valid : BOOLEAN,
                awaiting_first_diff : BOOLEAN]

\* What the stream may tell of a symbol, given the exchange's book so far.
Levels_(h, first, final, at) ==
    [price \in {h[n] + at : n \in (first - 1) .. final} |-> price = h[final] + at]
Told(s, h, first, final) ==
    [symbol |-> s, first |-> first, final |-> final, previous |-> first - 1,
     bids |-> Levels_(h, first, final, 0), asks |-> Levels_(h, first, final, Spread)]
DiffsOf(s, h) ==
    {d \in {Told(s, h, first, final) : first \in 2 .. Len(h), final \in 2 .. Len(h)} :
        d.first <= d.final}

\* A copy of a book: old perhaps, but the exchange's.
Faithful(h, b) ==
    /\ b \in CopiedBooks /\ b.last <= Len(h)
    /\ b.valid => b.last # 0 /\ b.bids = {h[b.last]} /\ b.asks = {h[b.last] + Spread}

AllDiffs(histories) == UNION {DiffsOf(s, histories[s]) : s \in Instruments}
Snapshots == [symbol : Instruments, last : Nat]

History ==
    /\ bid \in [Instruments -> Seq(Prices)]
    /\ told \in [Instruments -> Nat]
    /\ \A s \in Instruments : 1 <= told[s] /\ told[s] <= Version(s)

\* What is on the way is the exchange's: diffs, and snapshots of versions it has had.
QueuesInv ==
    /\ events \in Seq(AllDiffs(bid))
    /\ requests \in Seq(Instruments)
    /\ fetching \in Instruments \cup {Idle}
    /\ results \in Seq(Snapshots)
    /\ \A i \in DOMAIN results : results[i].last <= Len(bid[results[i].symbol])

CopiesInv ==
    /\ DOMAIN book = Instruments /\ DOMAIN ledger = Instruments /\ DOMAIN buffer = Instruments
    /\ \A s \in Instruments : /\ Faithful(bid[s], book[s]) /\ Faithful(bid[s], ledger[s])
                              /\ buffer[s] \in Seq(DiffsOf(s, bid[s]))

BooksInv == History /\ QueuesInv /\ CopiesInv /\ ended # "crossed"

-----------------------------------------------------------------------------
\* The history of a symbol's book has its first version, and its prices are prices.
LEMMA VersionIs ==
    ASSUME History, NEW s \in Instruments
    PROVE  /\ Version(s) \in Nat /\ Version(s) >= 1
           /\ \A n \in 1 .. Version(s) : bid[s][n] \in Nat
<1>1. bid[s] \in Seq(Prices) /\ told[s] \in Nat /\ 1 <= told[s] /\ told[s] <= Version(s)
  BY DEF History
<1>2. Version(s) \in Nat /\ (\A n \in 1 .. Version(s) : bid[s][n] \in Prices)
  BY <1>1 DEF Version
<1>3. Version(s) >= 1
  BY <1>1, <1>2
<1> QED
  BY <1>2, <1>3, SpreadAssumption

\* WithLevels() changes the two sides, and leaves a book of levels.
LEMMA LevelsOf ==
    ASSUME NEW b \in CopiedBooks, NEW d
    PROVE  /\ WithLevels(b, d).bids = InsertLevels(b.bids, d.bids)
           /\ WithLevels(b, d).asks = InsertLevels(b.asks, d.asks)
           /\ /\ InsertLevels(b.bids, d.bids) \in SUBSET Nat
              /\ InsertLevels(b.asks, d.asks) \in SUBSET Nat
              => WithLevels(b, d) \in CopiedBooks
<1> DEFINE x == InsertLevels(b.bids, d.bids)
           y == InsertLevels(b.asks, d.asks)
           v == [b EXCEPT !.bids = x]
           w == [v EXCEPT !.asks = y]
<1> HIDE DEF x, y
<1>1. /\ v.bids = x /\ v.asks = b.asks /\ v.last = b.last /\ v.valid = b.valid
      /\ v.awaiting_first_diff = b.awaiting_first_diff
      /\ v = [bids |-> x, asks |-> b.asks, last |-> b.last, valid |-> b.valid,
              awaiting_first_diff |-> b.awaiting_first_diff]
  BY DEF CopiedBooks
<1> HIDE DEF v
<1>2. w = [bids |-> x, asks |-> y, last |-> b.last, valid |-> b.valid,
           awaiting_first_diff |-> b.awaiting_first_diff]
  BY <1>1
<1>3. /\ w.bids = x /\ w.asks = y
      /\ x \in SUBSET Nat /\ y \in SUBSET Nat => w \in CopiedBooks
  BY <1>2 DEF CopiedBooks
<1>4. WithLevels(b, d) = w
  BY DEF WithLevels, v, x, y
<1> HIDE DEF w
<1> QED
  BY <1>3, <1>4 DEF x, y

\* What apply_diff() sets beside the levels.
LEMMA AdvancedIs ==
    ASSUME NEW b \in CopiedBooks, NEW d, d.final \in Nat
    PROVE  /\ Advanced(b, d) \in CopiedBooks /\ Advanced(b, d).last = d.final
           /\ Advanced(b, d).bids = b.bids /\ Advanced(b, d).asks = b.asks
<1> DEFINE v == [b EXCEPT !.last = d.final]
           no == FALSE
           w == [v EXCEPT !.awaiting_first_diff = no]
<1>0. no \in BOOLEAN
  OBVIOUS
<1> HIDE DEF no
<1>1. /\ v.bids = b.bids /\ v.asks = b.asks /\ v.last = d.final /\ v.valid = b.valid
      /\ v.awaiting_first_diff = b.awaiting_first_diff
      /\ v = [bids |-> b.bids, asks |-> b.asks, last |-> d.final, valid |-> b.valid,
              awaiting_first_diff |-> b.awaiting_first_diff]
  BY DEF CopiedBooks
<1> HIDE DEF v
<1>2. w = [bids |-> b.bids, asks |-> b.asks, last |-> d.final, valid |-> b.valid,
           awaiting_first_diff |-> no]
  BY <1>1
<1>3. /\ w \in CopiedBooks /\ w.last = d.final /\ w.bids = b.bids /\ w.asks = b.asks
  BY <1>0, <1>2 DEF CopiedBooks
<1>4. Advanced(b, d) = w
  BY DEF Advanced, v, no
<1> HIDE DEF w
<1> QED
  BY <1>3, <1>4

\* The parts of a diff the stream may bring.
LEMMA DiffIs ==
    ASSUME History, NEW s \in Instruments, NEW d \in DiffsOf(s, bid[s])
    PROVE  /\ d.symbol = s /\ d.first \in 2 .. Version(s) /\ d.final \in 2 .. Version(s)
           /\ d.first <= d.final /\ d.previous = d.first - 1
           /\ d.bids = Levels_(bid[s], d.first, d.final, 0)
           /\ d.asks = Levels_(bid[s], d.first, d.final, Spread)
<1>1. PICK first \in 2 .. Version(s), final \in 2 .. Version(s) : d = Told(s, bid[s], first, final)
  BY DEF DiffsOf, Version
<1>2. d.first <= d.final
  BY DEF DiffsOf, Version
<1> QED
  BY <1>1, <1>2 DEF Told

\* The bids or the asks of version v, after a diff that follows it or includes it.
LEMMA SideMovesOn ==
    ASSUME NEW h, NEW first \in Nat, NEW final \in Nat, NEW v \in Nat,
           NEW at \in Nat, first <= final, first - 1 <= v, v < final
    PROVE  InsertLevels({h[v] + at}, Levels_(h, first, final, at)) = {h[final] + at}
<1> DEFINE levels == Levels_(h, first, final, at)
           P == {h[n] + at : n \in (first - 1) .. final}
<1>1. levels = [price \in P |-> price = h[final] + at]
  BY DEF Levels_
<1>2. h[v] + at \in P /\ h[final] + at \in P
  <2>1. v \in (first - 1) .. final /\ final \in (first - 1) .. final
    OBVIOUS
  <2> QED
    BY <2>1
<1> HIDE DEF P, levels
<1>3. DOMAIN levels = P /\ \A price \in P : levels[price] = (price = h[final] + at)
  BY <1>1
<1>4. {price \in DOMAIN levels : levels[price]} = {h[final] + at}
  BY <1>2, <1>3
<1>5. {h[v] + at} \ DOMAIN levels = {}
  BY <1>2, <1>3
<1> QED
  BY <1>4, <1>5 DEF InsertLevels, levels

\* A diff that follows a faithful book makes it the book of a later version, uncrossed.
LEMMA BookMovesOn ==
    ASSUME History, NEW s \in Instruments, NEW b, Faithful(bid[s], b), b.valid, NEW d \in DiffsOf(s, bid[s]),
           d.previous <= b.last, b.last < d.final
    PROVE  /\ ~CrossedBook(WithLevels(b, d))
           /\ Faithful(bid[s], Advanced(WithLevels(b, d), d))
<1>1. /\ d.first \in 2 .. Version(s) /\ d.final \in 2 .. Version(s) /\ d.first <= d.final
      /\ d.previous = d.first - 1
      /\ d.bids = Levels_(bid[s], d.first, d.final, 0)
      /\ d.asks = Levels_(bid[s], d.first, d.final, Spread)
  BY DiffIs
<1>2. /\ Version(s) \in Nat /\ Spread \in Nat /\ Spread > 0
      /\ bid[s][d.final] \in Nat /\ bid[s][b.last] \in Nat
      /\ b \in CopiedBooks /\ b.last \in Nat /\ b.last # 0 /\ b.last <= Version(s)
      /\ b.bids = {bid[s][b.last]} /\ b.asks = {bid[s][b.last] + Spread}
  <2>1. /\ b \in CopiedBooks /\ b.last # 0 /\ b.last <= Version(s)
        /\ b.bids = {bid[s][b.last]} /\ b.asks = {bid[s][b.last] + Spread}
    BY DEF Faithful, Version, TrueBids, TrueAsks
  <2>2. b.last \in Nat
    BY <2>1 DEF CopiedBooks
  <2> QED
    BY <1>1, <2>1, <2>2, VersionIs, SpreadAssumption
<1>11. /\ d.first \in Nat /\ d.final \in Nat /\ b.last \in Nat /\ 0 \in Nat /\ Spread \in Nat
       /\ 1 <= d.first - 1 /\ d.first <= d.final /\ d.final <= Version(s)
       /\ d.first - 1 <= b.last /\ b.last < d.final
  BY <1>1, <1>2
<1>3. InsertLevels({bid[s][b.last] + 0}, d.bids) = {bid[s][d.final] + 0}
  <2>1. InsertLevels({bid[s][b.last] + 0}, Levels_(bid[s], d.first, d.final, 0))
          = {bid[s][d.final] + 0}
    BY <1>11, SideMovesOn
  <2> QED
    BY <1>1, <2>1
<1>4. InsertLevels({bid[s][b.last] + Spread}, d.asks) = {bid[s][d.final] + Spread}
  <2>1. InsertLevels({bid[s][b.last] + Spread}, Levels_(bid[s], d.first, d.final, Spread))
          = {bid[s][d.final] + Spread}
    BY <1>11, SideMovesOn
  <2> QED
    BY <1>1, <2>1
<1>5. InsertLevels(b.bids, d.bids) = TrueBids(s, d.final)
  <2>1. bid[s][b.last] + 0 = bid[s][b.last] /\ bid[s][d.final] + 0 = bid[s][d.final]
    BY <1>2
  <2> QED
    BY <1>2, <1>3, <2>1 DEF TrueBids
<1>6. InsertLevels(b.asks, d.asks) = TrueAsks(s, d.final)
  BY <1>2, <1>4 DEF TrueAsks
<1> DEFINE next == WithLevels(b, d)
<1>7. TrueBids(s, d.final) \in SUBSET Nat /\ TrueAsks(s, d.final) \in SUBSET Nat
  BY <1>2 DEF TrueBids, TrueAsks
<1>8. /\ next.bids = {bid[s][d.final]} /\ next.asks = {bid[s][d.final] + Spread}
      /\ next \in CopiedBooks
  <2>1. /\ next.bids = TrueBids(s, d.final) /\ next.asks = TrueAsks(s, d.final)
        /\ next \in CopiedBooks
    BY <1>2, <1>5, <1>6, <1>7, LevelsOf
  <2> QED
    BY <2>1 DEF TrueBids, TrueAsks
<1> HIDE DEF next
<1>9. ~CrossedBook(next)
  BY <1>2, <1>8 DEF CrossedBook
<1>10. Faithful(bid[s], Advanced(next, d))
  <2>1. /\ Advanced(next, d) \in CopiedBooks /\ Advanced(next, d).last = d.final
        /\ Advanced(next, d).bids = next.bids /\ Advanced(next, d).asks = next.asks
    BY <1>1, <1>8, AdvancedIs
  <2> QED
    BY <1>1, <1>2, <1>8, <2>1 DEF Faithful, Version, TrueBids, TrueAsks
<1> QED
  BY <1>9, <1>10 DEF next

\* Of a book that is marked invalid nothing is claimed.
LEMMA InvalidIsFaithful ==
    ASSUME NEW s, NEW b, Faithful(bid[s], b)
    PROVE  Faithful(bid[s], Invalid(b))
  BY DEF Faithful, Invalid, CopiedBooks

\* apply_diff(), in each of its cases.
LEMMA ApplyKeeps ==
    ASSUME History, NEW s \in Instruments, NEW b, Faithful(bid[s], b), NEW d \in DiffsOf(s, bid[s])
    PROVE  /\ Faithful(bid[s], ApplyDiff(b, d).book)
           /\ ApplyDiff(b, d).result # "crossed"
           /\ Good(ApplyDiff(b, d)) => b.valid
<1> DEFINE next == WithLevels(b, d)
<1>0. /\ d.first \in Nat /\ d.final \in Nat /\ d.previous = d.first - 1 /\ b.last \in Nat
  BY DiffIs, VersionIs DEF Faithful, CopiedBooks
<1>1. CASE b.last = 0 \/ ~b.valid
  BY <1>1 DEF ApplyDiff, Answer, Good
<1>2. CASE b.last # 0 /\ b.valid /\ d.final <= b.last
  BY <1>2 DEF ApplyDiff, Answer, Good
<1>3. CASE b.last # 0 /\ b.valid /\ ~(d.final <= b.last) /\ ~SequenceOk(b, d)
  BY <1>3, InvalidIsFaithful DEF ApplyDiff, Answer, Good
<1>4. CASE b.last # 0 /\ b.valid /\ ~(d.final <= b.last) /\ SequenceOk(b, d)
  <2>1. d.previous <= b.last /\ b.last < d.final
    BY <1>0, <1>4 DEF SequenceOk, BridgesSnapshot
  <2>2. ~CrossedBook(next) /\ Faithful(bid[s], Advanced(next, d))
    BY <1>4, <2>1, BookMovesOn
  <2>3. ApplyDiff(b, d) = Answer(Advanced(next, d), "applied")
    BY <1>4, <2>2 DEF ApplyDiff
  <2> QED
    BY <1>4, <2>2, <2>3 DEF Answer
<1> QED
  BY <1>1, <1>2, <1>3, <1>4

\* The first diff after a snapshot.
LEMMA BridgeKeeps ==
    ASSUME History, NEW s \in Instruments, NEW b, Faithful(bid[s], b), b.valid, NEW d \in DiffsOf(s, bid[s])
    PROVE  /\ Faithful(bid[s], ApplyBridge(b, d).book)
           /\ ApplyBridge(b, d).result # "crossed"
<1> DEFINE next == WithLevels(b, d)
<1>0. /\ d.first \in Nat /\ d.final \in Nat /\ d.previous = d.first - 1 /\ b.last \in Nat
  BY DiffIs, VersionIs DEF Faithful, CopiedBooks
<1>1. CASE ~BridgesSnapshot(d, b.last)
  BY <1>1, InvalidIsFaithful DEF ApplyBridge, Answer
<1>2. CASE BridgesSnapshot(d, b.last)
  <2>1. d.previous <= b.last /\ b.last < d.final
    BY <1>0, <1>2 DEF BridgesSnapshot
  <2>2. ~CrossedBook(next) /\ Faithful(bid[s], Advanced(next, d))
    BY <2>1, BookMovesOn
  <2>3. ApplyBridge(b, d) = Answer(Advanced(next, d), "applied")
    BY <1>2, <2>2 DEF ApplyBridge
  <2> QED
    BY <2>2, <2>3 DEF Answer
<1> QED
  BY <1>1, <1>2

\* load_snapshot() of a version the exchange has had.
LEMMA SnapshotLoads ==
    ASSUME History, NEW s \in Instruments, NEW b, NEW n \in Nat, n # 0, n <= Version(s)
    PROVE  LET loaded == LoadSnapshot(b, n, TrueBids(s, n), TrueAsks(s, n))
           IN  /\ Faithful(bid[s], loaded.book) /\ loaded.book.valid /\ loaded.book.last = n
               /\ loaded.result = "loaded"
<1> DEFINE new == [bids |-> TrueBids(s, n), asks |-> TrueAsks(s, n), last |-> n,
                   valid |-> TRUE, awaiting_first_diff |-> TRUE]
<1>1. bid[s][n] \in Nat /\ Spread \in Nat /\ Spread > 0
  BY VersionIs, SpreadAssumption
<1>2. ~CrossedBook([bids |-> TrueBids(s, n), asks |-> TrueAsks(s, n)])
  BY <1>1 DEF CrossedBook, TrueBids, TrueAsks
<1>3. LoadSnapshot(b, n, TrueBids(s, n), TrueAsks(s, n)) = Answer(new, "loaded")
  BY <1>2 DEF LoadSnapshot
<1>4. TrueBids(s, n) \in SUBSET Nat /\ TrueAsks(s, n) \in SUBSET Nat
  BY <1>1 DEF TrueBids, TrueAsks
<1>5. Faithful(bid[s], new)
  BY <1>4 DEF Faithful, CopiedBooks, Version, TrueBids, TrueAsks
<1> QED
  BY <1>3, <1>5 DEF Answer

-----------------------------------------------------------------------------
\* A set of numbers has its least.
LEMMA MinIsThere ==
    ASSUME NEW S \in SUBSET Nat, S # {}
    PROVE  Min(S) \in S
<1> SUFFICES \E x \in S : \A y \in S : x <= y
  BY DEF Min
<1> SUFFICES ASSUME \A x \in S : \E y \in S : y < x PROVE FALSE
  OBVIOUS
<1> DEFINE T == {n \in Nat : \A m \in 0 .. n : m \notin S}
<1>1. 0 \in T
  OBVIOUS
<1>2. ASSUME NEW n \in Nat, n \in T PROVE n + 1 \in T
  <2>1. n + 1 \notin S
    BY <1>2
  <2> QED
    BY <1>2, <2>1
<1> HIDE DEF T
<1>3. Nat \subseteq T
  BY <1>1, <1>2, Induction
<1>4. PICK x \in S : x \in Nat
  OBVIOUS
<1>5. x \in T
  BY <1>3, <1>4
<1> QED
  BY <1>4, <1>5 DEF T

\* The answers of a replay, diff by diff, up to the n-th after the bridge.
AreAnswers(f, start, buffered, first, n) ==
    f = [k \in first .. first + n |->
            IF k = first THEN ApplyBridge(start, buffered[k])
            ELSE IF Good(f[k - 1]) THEN ApplyDiff(f[k - 1].book, buffered[k])
            ELSE f[k - 1]]

\* They exist: the function of the model is the one its equation describes.
LEMMA AnswersExist ==
    ASSUME NEW start, NEW buffered, NEW first \in Nat, NEW n \in Nat
    PROVE  \E f : AreAnswers(f, start, buffered, first, n)
<1> DEFINE T == {m \in Nat : \E f : AreAnswers(f, start, buffered, first, m)}
           Next_(a, k) == IF Good(a) THEN ApplyDiff(a.book, buffered[k]) ELSE a
           bridge == ApplyBridge(start, buffered[first])
<1> HIDE DEF Next_, bridge
<1>0. ASSUME NEW f, NEW m \in Nat
      PROVE  AreAnswers(f, start, buffered, first, m)
               <=> f = [k \in first .. first + m |-> IF k = first THEN bridge ELSE Next_(f[k - 1], k)]
  BY DEF AreAnswers, Next_, bridge
<1>1. 0 \in T
  <2> DEFINE g == [k \in first .. first + 0 |-> bridge]
  <2>1. g = [k \in first .. first + 0 |-> IF k = first THEN bridge ELSE Next_(g[k - 1], k)]
    <3>1. \A k \in first .. first + 0 : k = first
      OBVIOUS
    <3> QED
      BY <3>1
  <2> QED
    BY <1>0, <2>1
<1>2. ASSUME NEW m \in Nat, m \in T PROVE m + 1 \in T
  <2>1. PICK f : f = [k \in first .. first + m |-> IF k = first THEN bridge ELSE Next_(f[k - 1], k)]
    BY <1>0, <1>2
  <2> DEFINE last == Next_(f[first + m], first + (m + 1))
             g == [k \in first .. first + (m + 1) |-> IF k <= first + m THEN f[k] ELSE last]
  <2>2. ASSUME NEW k \in first .. first + (m + 1)
        PROVE  g[k] = IF k = first THEN bridge ELSE Next_(g[k - 1], k)
    <3>1. CASE k = first
      BY <2>1, <3>1
    <3>2. CASE k # first /\ k <= first + m
      <4>1. k \in first .. first + m /\ k - 1 \in first .. first + m
            /\ k - 1 \in first .. first + (m + 1) /\ k - 1 <= first + m
        BY <3>2
      <4>2. f[k] = Next_(f[k - 1], k)
        BY <2>1, <3>2, <4>1
      <4>3. g[k] = f[k] /\ g[k - 1] = f[k - 1]
        BY <3>2, <4>1
      <4> QED
        BY <3>2, <4>2, <4>3
    <3>3. CASE k = first + (m + 1)
      <4>1. g[k] = last /\ g[k - 1] = f[first + m] /\ k # first
        BY <3>3
      <4> QED
        BY <3>3, <4>1
    <3> QED
      BY <3>1, <3>2, <3>3
  <2>3. g = [k \in first .. first + (m + 1) |-> g[k]]
    OBVIOUS
  <2> HIDE DEF g
  <2>4. g = [k \in first .. first + (m + 1) |-> IF k = first THEN bridge ELSE Next_(g[k - 1], k)]
    BY <2>2, <2>3
  <2>5. AreAnswers(g, start, buffered, first, m + 1)
    BY <1>0, <2>4
  <2> QED
    BY <2>5
<1> HIDE DEF T
<1>3. n \in T
  BY <1>1, <1>2, Induction
<1> QED
  BY <1>3 DEF T

\* Each of them is faithful, and none found the book crossed.
LEMMA AnswersKeep ==
    ASSUME History, NEW s \in Instruments, NEW start, Faithful(bid[s], start), start.valid,
           NEW buffered \in Seq(DiffsOf(s, bid[s])), NEW first \in 1 .. Len(buffered), NEW n \in Nat,
           first + n = Len(buffered), NEW f, AreAnswers(f, start, buffered, first, n)
    PROVE  Faithful(bid[s], f[Len(buffered)].book) /\ f[Len(buffered)].result # "crossed"
<1> DEFINE Right(a) == Faithful(bid[s], a.book) /\ a.result # "crossed"
           T == {m \in Nat : m <= n => Right(f[first + m])}
<1>1. 0 \in T
  <2>1. f[first + 0] = ApplyBridge(start, buffered[first])
    BY DEF AreAnswers
  <2>2. buffered[first] \in DiffsOf(s, bid[s])
    OBVIOUS
  <2> QED
    BY <2>1, <2>2, BridgeKeeps
<1>2. ASSUME NEW m \in Nat, m \in T PROVE m + 1 \in T
  <2> SUFFICES ASSUME m + 1 <= n PROVE Right(f[first + (m + 1)])
    OBVIOUS
  <2> DEFINE k == first + (m + 1)
             a == f[first + m]
  <2>1. k \in first .. first + n /\ k # first /\ k - 1 = first + m /\ k \in 1 .. Len(buffered)
    OBVIOUS
  <2>2. f[k] = IF Good(a) THEN ApplyDiff(a.book, buffered[k]) ELSE a
    BY <2>1 DEF AreAnswers
  <2>3. buffered[k] \in DiffsOf(s, bid[s])
    BY <2>1
  <2>4. Right(a)
    BY <1>2
  <2> HIDE DEF k, a
  <2>5. Right(f[k])
    BY <2>2, <2>3, <2>4, ApplyKeeps
  <2> QED
    BY <2>5 DEF k
<1> HIDE DEF T
<1>3. n \in T
  BY <1>1, <1>2, Induction
<1> QED
  BY <1>3 DEF T

\* load_snapshot_and_replay(), whatever diffs of the stream are buffered.
LEMMA ReplayKeeps ==
    ASSUME History, NEW s \in Instruments, NEW b, NEW n \in Nat, n # 0, n <= Version(s),
           NEW buffered \in Seq(DiffsOf(s, bid[s]))
    PROVE  LET replayed == LoadSnapshotAndReplay(b, n, TrueBids(s, n), TrueAsks(s, n), buffered)
           IN  Faithful(bid[s], replayed.book) /\ replayed.result # "crossed"
<1> DEFINE loaded == LoadSnapshot(b, n, TrueBids(s, n), TrueAsks(s, n))
           first == SelectInSeq(buffered, LAMBDA update : BridgesSnapshot(update, n))
           N == Len(buffered)
           start == loaded.book
           f == CHOOSE f : f = [k \in first .. N |->
                                   IF k = first THEN ApplyBridge(start, buffered[k])
                                   ELSE IF Good(f[k - 1]) THEN ApplyDiff(f[k - 1].book, buffered[k])
                                   ELSE f[k - 1]]
<1>1. Faithful(bid[s], start) /\ start.valid /\ loaded.result = "loaded"
  BY SnapshotLoads
<1>2. Good(loaded)
  BY <1>1 DEF Good
<1>3. LoadSnapshotAndReplay(b, n, TrueBids(s, n), TrueAsks(s, n), buffered)
        = IF ~Good(loaded) THEN loaded
          ELSE IF first = 0 THEN Answer(Invalid(start), "gap")
          ELSE f[N]
  BY DEF LoadSnapshotAndReplay
<1>4. first = 0 \/ first \in 1 .. N
  <2> DEFINE I == {i \in 1 .. N : BridgesSnapshot(buffered[i], n)}
  <2>1. first = IF I # {} THEN Min(I) ELSE 0
    BY DEF SelectInSeq
  <2>2. I \in SUBSET Nat
    OBVIOUS
  <2> HIDE DEF first
  <2>3. I # {} => Min(I) \in I
    BY <2>2, MinIsThere
  <2> QED
    BY <2>1, <2>3
<1>5. CASE first = 0
  BY <1>1, <1>2, <1>3, <1>5, InvalidIsFaithful DEF Answer
<1>6. CASE first \in 1 .. N
  <2> HIDE DEF first, loaded
  <2> DEFINE m == N - first
  <2>1. m \in Nat /\ first + m = N /\ first \in Nat
    BY <1>6
  <2> HIDE DEF m
  <2>2. \E g : AreAnswers(g, start, buffered, first, m)
    BY <2>1, AnswersExist
  <2>3. AreAnswers(f, start, buffered, first, m)
    BY <2>1, <2>2 DEF AreAnswers
  <2> HIDE DEF f
  <2>4. Faithful(bid[s], f[N].book) /\ f[N].result # "crossed"
    BY <1>1, <1>6, <2>1, <2>3, AnswersKeep
  <2> QED
    BY <1>2, <1>3, <1>6, <2>4
<1> QED
  BY <1>4, <1>5, <1>6

-----------------------------------------------------------------------------
(* The exchange's book only grows, and what was true of it stays true.     *)

Longer(h, g) == Len(h) <= Len(g) /\ \A n \in 1 .. Len(h) : g[n] = h[n]

\* What the stream told of earlier versions is still so when the book moves on.
LEMMA LevelsStay ==
    ASSUME NEW h \in Seq(Nat), NEW g \in Seq(Nat), Longer(h, g), NEW at, NEW first \in Nat,
           NEW final \in Nat, 2 <= first, first <= final, final <= Len(h)
    PROVE  Levels_(g, first, final, at) = Levels_(h, first, final, at)
<1> DEFINE P == {h[n] + at : n \in (first - 1) .. final}
           Q == {g[n] + at : n \in (first - 1) .. final}
<1>1. \A n \in (first - 1) .. final : n \in 1 .. Len(h)
  OBVIOUS
<1>2. \A n \in (first - 1) .. final : g[n] = h[n]
  BY <1>1 DEF Longer
<1>3. P = Q
  BY <1>2
<1>4. g[final] = h[final]
  <2>1. final \in (first - 1) .. final
    OBVIOUS
  <2> QED
    BY <1>2, <2>1
<1>5. Levels_(h, first, final, at) = [price \in P |-> price = h[final] + at]
  BY DEF Levels_
<1>6. Levels_(g, first, final, at) = [price \in Q |-> price = g[final] + at]
  BY DEF Levels_
<1> HIDE DEF P, Q
<1> QED
  BY <1>3, <1>4, <1>5, <1>6

\* Likewise a diff.
LEMMA DiffsStay ==
    ASSUME NEW s, NEW h \in Seq(Nat), NEW g \in Seq(Nat), Longer(h, g)
    PROVE  DiffsOf(s, h) \subseteq DiffsOf(s, g)
<1> SUFFICES ASSUME NEW d \in DiffsOf(s, h) PROVE d \in DiffsOf(s, g)
  OBVIOUS
<1>1. PICK first \in 2 .. Len(h), final \in 2 .. Len(h) : d = Told(s, h, first, final)
  BY DEF DiffsOf
<1>2. d.first <= d.final /\ d.first = first /\ d.final = final
  BY <1>1 DEF DiffsOf, Told
<1>3. Len(h) \in Nat /\ Len(g) \in Nat /\ Len(h) <= Len(g)
  BY DEF Longer
<1>4. first \in 2 .. Len(g) /\ final \in 2 .. Len(g)
  BY <1>3
<1>5. /\ Levels_(g, first, final, 0) = Levels_(h, first, final, 0)
      /\ Levels_(g, first, final, Spread) = Levels_(h, first, final, Spread)
  BY <1>2, <1>3, LevelsStay
<1>6. d = Told(s, g, first, final)
  BY <1>1, <1>5 DEF Told
<1> QED
  BY <1>2, <1>4, <1>6 DEF DiffsOf

\* Likewise a copy.
LEMMA FaithStays ==
    ASSUME NEW h \in Seq(Nat), NEW g \in Seq(Nat), Longer(h, g), NEW b, Faithful(h, b)
    PROVE  Faithful(g, b)
<1>1. /\ b \in CopiedBooks /\ b.last <= Len(h) /\ b.last \in Nat
      /\ b.valid => b.last # 0 /\ b.bids = {h[b.last]} /\ b.asks = {h[b.last] + Spread}
  BY DEF Faithful, CopiedBooks
<1>2. Len(h) \in Nat /\ Len(g) \in Nat /\ Len(h) <= Len(g)
  BY DEF Longer
<1>3. b.last # 0 => g[b.last] = h[b.last]
  BY <1>1, <1>2 DEF Longer
<1>4. b.last <= Len(g)
  BY <1>1, <1>2
<1> QED
  BY <1>1, <1>3, <1>4 DEF Faithful

\* A sequence over a set is one over a larger set.
LEMMA SeqWidens ==
    ASSUME NEW S, NEW T, S \subseteq T, NEW q \in Seq(S)
    PROVE  q \in Seq(T)
  OBVIOUS

\* The histories and their prices.
LEMMA HistoriesAre ==
    ASSUME History, NEW s \in Instruments
    PROVE  bid[s] \in Seq(Nat) /\ bid[s] \in Seq(Prices) /\ Longer(bid[s], bid[s])
<1>1. bid[s] \in Seq(Prices)
  BY DEF History
<1>2. bid[s] \in Seq(Nat)
  BY <1>1, SpreadAssumption, SeqWidens
<1> QED
  BY <1>1, <1>2 DEF Longer

\* The first symbol's book moves, the others' stay.
LEMMA MoveKeeps ==
    ASSUME BooksInv, NEW s \in Instruments, Move(s)
    PROVE  BooksInv'
<1>1. PICK price \in Prices : bid' = [bid EXCEPT ![s] = Append(@, price)]
  BY DEF Move
<1>2. History
  BY DEF BooksInv
<1>3. ASSUME NEW r \in Instruments
      PROVE  /\ bid'[r] \in Seq(Prices) /\ bid'[r] \in Seq(Nat) /\ Longer(bid[r], bid'[r])
             /\ Len(bid[r]) \in Nat /\ Len(bid'[r]) \in Nat
  <2>1. bid[r] \in Seq(Nat) /\ bid[r] \in Seq(Prices) /\ Longer(bid[r], bid[r])
    BY <1>2, HistoriesAre
  <2>2. CASE r = s
    <3>1. bid'[r] = Append(bid[r], price)
      BY <1>1, <1>2, <2>2 DEF History
    <3>2. price \in Nat
      BY SpreadAssumption
    <3> QED
      BY <2>1, <3>1, <3>2 DEF Longer
  <2>3. CASE r # s
    <3>1. bid'[r] = bid[r]
      BY <1>1, <1>2, <2>3 DEF History
    <3> QED
      BY <2>1, <3>1
  <2> QED
    BY <2>2, <2>3
<1>4. History'
  <2>1. bid' \in [Instruments -> Seq(Prices)]
    BY <1>1, <1>2, <1>3 DEF History
  <2>2. told' = told
    BY DEF Move
  <2>3. ASSUME NEW r \in Instruments
        PROVE  1 <= told[r] /\ told[r] <= Len(bid'[r])
    <3>1. 1 <= told[r] /\ told[r] <= Len(bid[r]) /\ told[r] \in Nat
      BY <1>2 DEF History, Version
    <3> QED
      BY <1>3, <3>1 DEF Longer
  <2> QED
    BY <1>2, <2>1, <2>2, <2>3 DEF History, Version
<1>5. \A r \in Instruments : DiffsOf(r, bid[r]) \subseteq DiffsOf(r, bid'[r])
  BY <1>2, <1>3, DiffsStay, HistoriesAre
<1>6. AllDiffs(bid) \subseteq AllDiffs(bid')
  BY <1>5 DEF AllDiffs
<1>7. QueuesInv'
  <2>1. UNCHANGED <<events, requests, fetching, results>>
    BY DEF Move, task
  <2>2. events \in Seq(AllDiffs(bid'))
    BY <1>6 DEF BooksInv, QueuesInv
  <2>3. ASSUME NEW i \in DOMAIN results PROVE results[i].last <= Len(bid'[results[i].symbol])
    <3>1. results \in Seq(Snapshots) /\ results[i].last <= Len(bid[results[i].symbol])
      BY DEF BooksInv, QueuesInv
    <3>2. results[i] \in Snapshots
      BY <3>1
    <3>3. results[i].symbol \in Instruments /\ results[i].last \in Nat
      BY <3>2 DEF Snapshots
    <3> QED
      BY <1>3, <3>1, <3>3 DEF Longer
  <2> QED
    BY <2>1, <2>2, <2>3 DEF BooksInv, QueuesInv
<1>8. CopiesInv'
  <2>1. UNCHANGED <<book, buffer, ledger>>
    BY DEF Move
  <2>2. ASSUME NEW r \in Instruments
        PROVE  /\ Faithful(bid'[r], book[r]) /\ Faithful(bid'[r], ledger[r])
               /\ buffer[r] \in Seq(DiffsOf(r, bid'[r]))
    <3>1. /\ Faithful(bid[r], book[r]) /\ Faithful(bid[r], ledger[r])
          /\ buffer[r] \in Seq(DiffsOf(r, bid[r]))
      BY DEF BooksInv, CopiesInv
    <3>2. bid[r] \in Seq(Nat)
      BY <1>2, HistoriesAre
    <3>3. \A b : Faithful(bid[r], b) => Faithful(bid'[r], b)
      BY <1>3, <3>2, FaithStays
    <3>4. buffer[r] \in Seq(DiffsOf(r, bid'[r]))
      BY <1>5, <3>1, SeqWidens
    <3> QED
      BY <3>1, <3>3, <3>4
  <2> QED
    BY <2>1, <2>2 DEF BooksInv, CopiesInv
<1>9. ended' # "crossed"
  BY DEF BooksInv, Move
<1> QED
  BY <1>4, <1>7, <1>8, <1>9 DEF BooksInv

\* An update is told of, and queued or lost.
LEMMA TellKeeps ==
    ASSUME BooksInv, NEW s \in Instruments, Tell(s) \/ Lose(s)
    PROVE  BooksInv'
<1>1. /\ bid' = bid /\ told' = [told EXCEPT ![s] = Version(s)] /\ told[s] < Version(s)
      /\ UNCHANGED <<requests, fetching, results, book, buffer, ledger, ended>>
  BY DEF Tell, Lose, task
<1>2. /\ Version(s) \in Nat /\ Version(s) >= 1 /\ told[s] \in Nat /\ told[s] >= 1
  BY VersionIs DEF BooksInv, History
<1>3. History'
  <2>1. \A r \in Instruments : told'[r] = IF r = s THEN Version(s) ELSE told[r]
    BY <1>1 DEF BooksInv, History
  <2>2. told' \in [Instruments -> Nat]
    BY <1>1, <1>2 DEF BooksInv, History
  <2>3. ASSUME NEW r \in Instruments PROVE 1 <= told'[r] /\ told'[r] <= Len(bid'[r])
    BY <1>1, <1>2, <2>1 DEF BooksInv, History, Version
  <2> QED
    BY <1>1, <2>2, <2>3 DEF BooksInv, History, Version
<1>4. events' \in Seq(AllDiffs(bid))
  <2> DEFINE d == Diff(s, told[s] + 1, Version(s))
  <2>1. d = Told(s, bid[s], told[s] + 1, Version(s))
    BY <1>2 DEF Diff, Told, DiffLevels, Levels_
  <2>2. /\ told[s] + 1 \in 2 .. Len(bid[s]) /\ Version(s) \in 2 .. Len(bid[s])
        /\ told[s] + 1 <= Version(s)
    BY <1>1, <1>2 DEF Version
  <2>3. d \in DiffsOf(s, bid[s])
    BY <2>1, <2>2 DEF DiffsOf, Told
  <2>4. d \in AllDiffs(bid)
    BY <2>3 DEF AllDiffs
  <2>5. events \in Seq(AllDiffs(bid))
    BY DEF BooksInv, QueuesInv
  <2>6. events' = events \/ events' = Append(events, d)
    BY DEF Tell, Lose
  <2> HIDE DEF d
  <2> QED
    BY <2>4, <2>5, <2>6
<1>5. QueuesInv'
  BY <1>1, <1>4 DEF BooksInv, QueuesInv
<1>6. CopiesInv'
  BY <1>1 DEF BooksInv, CopiesInv
<1> QED
  BY <1>1, <1>3, <1>5, <1>6 DEF BooksInv

\* What is taken from the queue is a diff of its symbol.
LEMMA HeadIsGenuine ==
    ASSUME BooksInv, events # <<>>
    PROVE  /\ Head(events).symbol \in Instruments
           /\ Head(events) \in DiffsOf(Head(events).symbol, bid[Head(events).symbol])
           /\ Tail(events) \in Seq(AllDiffs(bid))
<1>1. events \in Seq(AllDiffs(bid)) /\ History
  BY DEF BooksInv, QueuesInv
<1>2. Head(events) \in AllDiffs(bid) /\ Tail(events) \in Seq(AllDiffs(bid))
  BY <1>1
<1>3. PICK s \in Instruments : Head(events) \in DiffsOf(s, bid[s])
  BY <1>2 DEF AllDiffs
<1>4. Head(events).symbol = s
  BY <1>1, <1>3, DiffIs
<1> QED
  BY <1>2, <1>3, <1>4

\* A snapshot is asked for once for each symbol, and never for another.
LEMMA AskingKeeps ==
    ASSUME BooksInv, NEW s \in Instruments, AsksFor(s)
    PROVE  requests' \in Seq(Instruments)
<1>1. requests \in Seq(Instruments)
  BY DEF BooksInv, QueuesInv
<1> QED
  BY <1>1 DEF AsksFor

\* The event loop takes a diff: BufferDiff and ApplyEvent.
LEMMA TakingEvents ==
    ASSUME BooksInv, Overflow \/ BufferDiff \/ ApplyEvent
    PROVE  BooksInv'
<1> DEFINE diff == Head(events)
           s == diff.symbol
<1>1. events # <<>> /\ events' = Tail(events) /\ UNCHANGED <<bid, told, fetching, results>>
  BY DEF Overflow, BufferDiff, ApplyEvent, Takes
<1>2. /\ s \in Instruments /\ diff \in DiffsOf(s, bid[s]) /\ events' \in Seq(AllDiffs(bid))
  BY <1>1, HeadIsGenuine
<1>3. /\ requests' \in Seq(Instruments) => QueuesInv'
      /\ UNCHANGED requests => requests' \in Seq(Instruments)
  BY <1>1, <1>2 DEF BooksInv, QueuesInv
<1>4. History'
  BY <1>1 DEF BooksInv, History, Version
<1>5. CASE Overflow
  <2>1. CopiesInv' /\ UNCHANGED requests /\ ended' # "crossed"
    BY <1>1, <1>5 DEF Overflow, BooksInv, CopiesInv
  <2> QED
    BY <1>3, <1>4, <2>1 DEF BooksInv
<1>6. CASE BufferDiff
  <2>1. /\ UNCHANGED <<book, ledger>>
        /\ \/ buffer' = buffer /\ UNCHANGED requests /\ ended' = "buffer_overflow"
           \/ buffer' = [buffer EXCEPT ![s] = Append(@, diff)] /\ AsksFor(s) /\ ended' = ended
    BY <1>6 DEF BufferDiff
  <2>2. requests' \in Seq(Instruments)
    BY <1>2, <1>3, <2>1, AskingKeeps
  <2>3. CopiesInv'
    <3> HIDE DEF diff
    <3> DEFINE r == s
    <3> HIDE DEF r
    <3>1. r \in Instruments /\ diff \in DiffsOf(r, bid[r])
          /\ (buffer' = buffer \/ buffer' = [buffer EXCEPT ![r] = Append(@, diff)])
      BY <1>2, <2>1 DEF r
    <3>2. buffer[r] \in Seq(DiffsOf(r, bid[r])) /\ DOMAIN buffer = Instruments
      BY <3>1 DEF BooksInv, CopiesInv
    <3>3. Append(buffer[r], diff) \in Seq(DiffsOf(r, bid[r]))
      BY <3>1, <3>2
    <3>4. /\ DOMAIN buffer' = Instruments
          /\ \A q \in Instruments : buffer'[q] \in Seq(DiffsOf(q, bid[q]))
      BY <3>1, <3>2, <3>3 DEF BooksInv, CopiesInv
    <3> QED
      BY <1>1, <2>1, <3>4 DEF BooksInv, CopiesInv
  <2>4. ended' # "crossed"
    BY <2>1 DEF BooksInv
  <2> QED
    BY <1>3, <1>4, <2>2, <2>3, <2>4 DEF BooksInv
<1>7. CASE ApplyEvent
  <2> DEFINE answer == ApplyDiff(book[s], diff)
             echo == ApplyDiff(ledger[s], diff)
  <2>0. /\ Faithful(bid[s], book[s]) /\ Faithful(bid[s], ledger[s]) /\ History
        /\ DOMAIN book = Instruments /\ DOMAIN ledger = Instruments /\ DOMAIN buffer = Instruments
    BY <1>2 DEF BooksInv, CopiesInv
  <2>1. /\ Faithful(bid[s], answer.book) /\ answer.result # "crossed"
    BY <1>2, <2>0, ApplyKeeps
  <2>2. Faithful(bid[s], echo.book)
    BY <1>2, <2>0, ApplyKeeps
  <2>3. /\ book' = [book EXCEPT ![s] = answer.book]
        /\ \/ /\ ledger' = [ledger EXCEPT ![s] = echo.book]
              /\ UNCHANGED <<buffer, requests, ended>>
           \/ /\ buffer' = [buffer EXCEPT ![s] = <<diff>>]
              /\ AsksFor(s) /\ UNCHANGED <<ledger, ended>>
    BY <1>7, <2>1 DEF ApplyEvent
  <2> HIDE DEF answer, echo
  <2>4. requests' \in Seq(Instruments)
    BY <1>2, <1>3, <2>3, AskingKeeps
  <2>5. CopiesInv'
    <3> HIDE DEF diff
    <3> DEFINE r == s
    <3> HIDE DEF r
    <3>1. /\ r \in Instruments /\ diff \in DiffsOf(r, bid[r])
          /\ Faithful(bid[r], answer.book) /\ Faithful(bid[r], echo.book)
          /\ book' = [book EXCEPT ![r] = answer.book]
          /\ ledger' = [ledger EXCEPT ![r] = echo.book] \/ ledger' = ledger
          /\ buffer' = [buffer EXCEPT ![r] = <<diff>>] \/ buffer' = buffer
      BY <1>2, <2>1, <2>2, <2>3 DEF r
    <3>2. <<diff>> \in Seq(DiffsOf(r, bid[r]))
      BY <3>1
    <3>3. \A q \in Instruments : /\ Faithful(bid[q], book'[q]) /\ Faithful(bid[q], ledger'[q])
                                 /\ buffer'[q] \in Seq(DiffsOf(q, bid[q]))
      BY <2>0, <3>1, <3>2 DEF BooksInv, CopiesInv
    <3>4. DOMAIN book' = Instruments /\ DOMAIN ledger' = Instruments /\ DOMAIN buffer' = Instruments
      BY <2>0, <3>1
    <3> QED
      BY <1>1, <3>3, <3>4 DEF CopiesInv
  <2>6. ended' # "crossed"
    BY <2>3 DEF BooksInv
  <2> QED
    BY <1>3, <1>4, <2>4, <2>5, <2>6 DEF BooksInv
<1> QED
  BY <1>5, <1>6, <1>7

\* The task that fetches the snapshots.
LEMMA FetchingKeeps ==
    ASSUME BooksInv, TakeRequest \/ Fetch \/ FetchFails
    PROVE  BooksInv'
<1>1. UNCHANGED <<bid, told, events, book, buffer, ledger, ended>>
  BY DEF TakeRequest, Fetch, FetchFails, Send, feed
<1>2. History' /\ CopiesInv' /\ ended' # "crossed"
  BY <1>1 DEF BooksInv, History, Version, CopiesInv
<1>3. CASE TakeRequest
  <2>1. requests \in Seq(Instruments) /\ requests # <<>>
    BY <1>3 DEF TakeRequest, BooksInv, QueuesInv
  <2>2. Head(requests) \in Instruments /\ Tail(requests) \in Seq(Instruments)
    BY <2>1
  <2>3. QueuesInv'
    BY <1>1, <1>3, <2>2 DEF TakeRequest, BooksInv, QueuesInv
  <2> QED
    BY <1>2, <2>3 DEF BooksInv
<1>4. CASE Fetch \/ FetchFails
  <2>1. PICK last \in {0, Version(fetching)} :
           /\ fetching # Idle /\ fetching' = Idle /\ requests' = requests
           /\ results' = Append(results, [symbol |-> fetching, last |-> last])
    BY <1>4 DEF Fetch, FetchFails, Send
  <2>2. fetching \in Instruments /\ results \in Seq(Snapshots)
    BY <2>1 DEF BooksInv, QueuesInv
  <2>3. last \in Nat /\ last <= Len(bid[fetching])
    BY <2>2, VersionIs DEF BooksInv, Version
  <2> DEFINE new == [symbol |-> fetching, last |-> last]
  <2>4. new \in Snapshots /\ new.last = last /\ new.symbol = fetching
    BY <2>2, <2>3 DEF Snapshots
  <2> HIDE DEF new
  <2>5. results' = Append(results, new)
    BY <2>1 DEF new
  <2>6. results' \in Seq(Snapshots)
    BY <2>2, <2>4, <2>5
  <2>7. ASSUME NEW i \in DOMAIN results' PROVE results'[i].last <= Len(bid[results'[i].symbol])
    <3>1. CASE i = Len(results) + 1
      BY <2>2, <2>3, <2>4, <2>5, <3>1
    <3>2. CASE i # Len(results) + 1
      <4>1. i \in DOMAIN results /\ results'[i] = results[i]
        BY <2>2, <2>5, <3>2
      <4> QED
        BY <4>1 DEF BooksInv, QueuesInv
    <3> QED
      BY <3>1, <3>2
  <2>8. QueuesInv'
    BY <1>1, <2>1, <2>6, <2>7 DEF BooksInv, QueuesInv
  <2> QED
    BY <1>2, <2>8 DEF BooksInv
<1> QED
  BY <1>3, <1>4

\* The event loop takes a snapshot: NotNeeded, Failed and Installs.
LEMMA TakingResults ==
    ASSUME BooksInv, NotNeeded \/ Failed \/ Installs
    PROVE  BooksInv'
<1> DEFINE s == Head(results).symbol
           last == Head(results).last
<1>1. /\ results # <<>> /\ results' = Tail(results)
      /\ UNCHANGED <<bid, told, events, requests, fetching>>
  BY DEF NotNeeded, Failed, Installs, TakesResult, feed, task
<1>2. History' /\ History
  BY <1>1 DEF BooksInv, History, Version
<1>3. /\ s \in Instruments /\ last \in Nat /\ last <= Len(bid[s])
      /\ results' \in Seq(Snapshots)
      /\ \A i \in DOMAIN results' : results'[i].last <= Len(bid[results'[i].symbol])
  <2>1. results \in Seq(Snapshots) /\ (\A i \in DOMAIN results : results[i].last <= Len(bid[results[i].symbol]))
    BY DEF BooksInv, QueuesInv
  <2>2. Head(results) \in Snapshots /\ Head(results) = results[1] /\ 1 \in DOMAIN results
    BY <1>1, <2>1
  <2>3. \A i \in DOMAIN results' : results'[i] = results[i + 1] /\ i + 1 \in DOMAIN results
    BY <1>1, <2>1
  <2>4. results' \in Seq(Snapshots)
    BY <1>1, <2>1
  <2> QED
    BY <2>1, <2>2, <2>3, <2>4 DEF Snapshots
<1>4. QueuesInv'
  BY <1>1, <1>3 DEF BooksInv, QueuesInv
<1>5. CASE NotNeeded \/ Failed
  <2>1. CopiesInv' /\ ended' # "crossed"
    BY <1>1, <1>5 DEF NotNeeded, Failed, BooksInv, CopiesInv
  <2> QED
    BY <1>2, <1>4, <2>1 DEF BooksInv
<1>6. CASE Installs
  <2> DEFINE replayed == LoadSnapshotAndReplay(book[s], last, TrueBids(s, last), TrueAsks(s, last), buffer[s])
             again == LoadSnapshot(replayed.book, last, TrueBids(s, last), TrueAsks(s, last)).book
             copy == LoadSnapshot(ledger[s], last, TrueBids(s, last), TrueAsks(s, last)).book
  <2>1. last # 0
    BY <1>6 DEF Installs
  <2>2. /\ DOMAIN book = Instruments /\ DOMAIN ledger = Instruments /\ DOMAIN buffer = Instruments
        /\ buffer[s] \in Seq(DiffsOf(s, bid[s]))
    BY <1>3 DEF BooksInv, CopiesInv
  <2>3. Faithful(bid[s], replayed.book) /\ replayed.result # "crossed"
    BY <1>2, <1>3, <2>1, <2>2, ReplayKeeps DEF Version
  <2>4. Faithful(bid[s], again) /\ Faithful(bid[s], copy)
    BY <1>2, <1>3, <2>1, SnapshotLoads DEF Version
  <2>5. /\ \/ book' = [book EXCEPT ![s] = replayed.book]
           \/ book' = [book EXCEPT ![s] = again]
        /\ ledger' = ledger \/ ledger' = [ledger EXCEPT ![s] = copy]
        /\ buffer' = [buffer EXCEPT ![s] = <<>>]
        /\ ended' = ended
    BY <1>6, <2>3 DEF Installs, LedgersLoad
  <2> HIDE DEF replayed, again, copy
  <2>6. CopiesInv'
    <3> DEFINE r == s
    <3> HIDE DEF r
    <3>1. /\ r \in Instruments
          /\ Faithful(bid[r], replayed.book) /\ Faithful(bid[r], again) /\ Faithful(bid[r], copy)
          /\ book' = [book EXCEPT ![r] = replayed.book] \/ book' = [book EXCEPT ![r] = again]
          /\ ledger' = ledger \/ ledger' = [ledger EXCEPT ![r] = copy]
          /\ buffer' = [buffer EXCEPT ![r] = <<>>]
      BY <1>3, <2>3, <2>4, <2>5 DEF r
    <3>2. <<>> \in Seq(DiffsOf(r, bid[r]))
      OBVIOUS
    <3>3. \A q \in Instruments : /\ Faithful(bid[q], book'[q]) /\ Faithful(bid[q], ledger'[q])
                                 /\ buffer'[q] \in Seq(DiffsOf(q, bid[q]))
      BY <2>2, <3>1, <3>2 DEF BooksInv, CopiesInv
    <3>4. DOMAIN book' = Instruments /\ DOMAIN ledger' = Instruments /\ DOMAIN buffer' = Instruments
      BY <2>2, <3>1
    <3> QED
      BY <1>1, <3>3, <3>4 DEF CopiesInv
  <2>7. ended' # "crossed"
    BY <2>5 DEF BooksInv
  <2> QED
    BY <1>2, <1>4, <2>6, <2>7 DEF BooksInv
<1> QED
  BY <1>5, <1>6

\* The invariant holds when the batch starts.
LEMMA BooksStart ==
    ASSUME DepthInit
    PROVE  BooksInv
<1>1. ASSUME NEW s \in Instruments
      PROVE  bid[s] \in Seq(Prices) /\ Len(bid[s]) = 1 /\ told[s] = 1
  <2>1. bid[s] \in {<<price>> : price \in Prices} /\ told[s] = 1
    BY DEF DepthInit
  <2>2. PICK price \in Prices : bid[s] = <<price>>
    BY <2>1
  <2> QED
    BY <2>1, <2>2
<1>2. History
  <2>1. DOMAIN bid = Instruments /\ bid = [s \in Instruments |-> bid[s]]
    BY DEF DepthInit
  <2>2. bid \in [Instruments -> Seq(Prices)]
    BY <1>1, <2>1
  <2>3. told \in [Instruments -> Nat]
    BY DEF DepthInit
  <2>4. ASSUME NEW s \in Instruments PROVE 1 <= told[s] /\ told[s] <= Version(s)
    <3>1. Len(bid[s]) = 1 /\ told[s] = 1
      BY <1>1
    <3>2. Version(s) = 1
      BY <3>1 DEF Version
    <3> QED
      BY <3>1, <3>2
  <2> QED
    BY <2>2, <2>3, <2>4 DEF History
<1>3. QueuesInv
  <2>1. results = <<>> /\ events = <<>> /\ requests = <<>> /\ fetching = Idle
    BY DEF DepthInit
  <2> QED
    BY <2>1 DEF QueuesInv
<1>4. CopiesInv
  <2>1. ASSUME NEW s \in Instruments PROVE Faithful(bid[s], EmptyBook)
    BY <1>1 DEF Faithful, CopiedBooks, EmptyBook
  <2> QED
    BY <2>1 DEF DepthInit, CopiesInv
<1> QED
  BY <1>2, <1>3, <1>4 DEF DepthInit, BooksInv

\* Every step of the books keeps it.
LEMMA BooksStep ==
    ASSUME BooksInv, [DepthNext]_depthVars
    PROVE  BooksInv'
<1>1. ASSUME NEW s \in Instruments, DeadlinePasses(s)
      PROVE  BooksInv'
  BY <1>1 DEF DeadlinePasses, feed, task, BooksInv, History, Version, QueuesInv, CopiesInv
<1>2. CASE UNCHANGED depthVars
  BY <1>2 DEF depthVars, feed, task, BooksInv, History, Version, QueuesInv, CopiesInv
<1> QED
  BY <1>1, <1>2, MoveKeeps, TellKeeps, TakingEvents, FetchingKeeps, TakingResults DEF DepthNext

\* It contains what is claimed of the books.
LEMMA InvGivesTruth ==
    ASSUME BooksInv
    PROVE  BooksAreTrue
<1>1. ASSUME NEW s \in Instruments
      PROVE  /\ book[s].valid => IsTrue(s, book[s])
             /\ ledger[s].valid => IsTrue(s, ledger[s])
  BY DEF BooksInv, CopiesInv, Faithful, IsTrue, TrueBids, TrueAsks
<1> QED
  BY <1>1 DEF BooksAreTrue, ValidBooksAreTrue, LedgerBooksAreTrue, NoFalseCross, BooksInv

\* Whatever is lost, late or refused on the way, a valid book of the batch is the exchange's
\* as of its last update, so is each copy in a ledger, and none is ever found crossed
\* (LocalOrderBook; simulation_batch.rs, the snapshots and diffs of the event loop).
THEOREM BooksStayTrue == DepthSpec => []BooksAreTrue
<1>1. DepthInit => BooksInv
  BY BooksStart
<1>2. BooksInv /\ [DepthNext]_depthVars => BooksInv'
  BY BooksStep
<1>3. BooksInv => BooksAreTrue
  BY InvGivesTruth
<1> QED
  BY <1>1, <1>2, <1>3, PTL DEF DepthSpec
=============================================================================
