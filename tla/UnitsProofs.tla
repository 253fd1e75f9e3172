----------------------------- MODULE UnitsProofs -----------------------------
(***************************************************************************)
(* Four parts that share no state, each for every value of its constants:  *)
(* one maker order is counted for exactly what was executed of it, through *)
(* lost and repeated reports; a silent market shard is recycled; what the  *)
(* metadata cache and its gate answer is recent; and the testnet runner    *)
(* leaves nothing behind, whatever fails.                                  *)
(***************************************************************************)
EXTENDS OrderLifecycle, MarketConnection, MarketMetadata, TestnetRunner,
        FiniteSetTheorems, SequenceTheorems, TLAPS

-----------------------------------------------------------------------------
(* One maker order.                                                        *)

Kinds == DOMAIN Step \cup Fills
Reports == [kind : Kinds, quantity : 0 .. Quantity]
Remotes == [status : {"none", "New", "PartiallyFilled", "Filled", "Canceled", "Expired",
                      "Rejected"},
            executed : 0 .. Quantity]

TypeInv ==
    /\ order \in Orders
    /\ remote \in Remotes
    /\ reports \in Seq(Reports)

\* An order is Filled exactly when its whole quantity is.
WhollyFilled(o) == (o.status = "Filled") <=> (o.filled = Quantity)

\* What had been executed at the exchange before each report was sent, and at last: what
\* the runner has counted lies below the first, and every report tells of what follows.
Backed ==
    \E c \in [1 .. Len(reports) + 1 -> Nat] :
        /\ order.filled <= c[1]
        /\ c[Len(reports) + 1] = remote.executed
        /\ \A i \in 1 .. Len(reports), j \in 2 .. Len(reports) + 1 :
             i < j => c[i] + reports[i].quantity <= c[j]

LifecycleInv ==
    /\ TypeInv
    /\ WhollyFilled(order)
    /\ remote.status = "Filled" => remote.executed = Quantity
    /\ Backed

-----------------------------------------------------------------------------
LEMMA KindsAre ==
    Kinds = {"Submitted", "Acknowledged", "CancelRequested", "Canceled", "Expired", "Rejected",
             "PartialFill", "Filled"}
  BY DEF Kinds, Step, Fills

\* The ranks of the contract's states are their places in the declared order.
LEMMA Ranks ==
    ASSUME NEW i \in 1 .. 9
    PROVE  Contract!Rank[Contract!States[i]] = i
<1>1. /\ Len(Contract!States) = 9
      /\ \A j \in 1 .. 9 : Contract!States[j] = Contract!States[i] => j = i
  BY DEF Contract!States
<1>2. Contract!States[i] \in Contract!StateNames
  BY <1>1 DEF Contract!StateNames
<1>3. Contract!Rank[Contract!States[i]]
        = CHOOSE j \in 1 .. Len(Contract!States) : Contract!States[j] = Contract!States[i]
  BY <1>2 DEF Contract!Rank
<1> QED
  BY <1>1, <1>3

LEMMA RankOf ==
    /\ Contract!StateNames = {"Intent", "Submitted", "Accepted", "PartiallyFilled", "Filled",
                              "CancelPending", "Canceled", "Rejected", "Unknown"}
    /\ Contract!Rank["Intent"] = 1 /\ Contract!Rank["Submitted"] = 2
    /\ Contract!Rank["Accepted"] = 3 /\ Contract!Rank["PartiallyFilled"] = 4
    /\ Contract!Rank["Filled"] = 5 /\ Contract!Rank["CancelPending"] = 6
    /\ Contract!Rank["Canceled"] = 7 /\ Contract!Rank["Rejected"] = 8
<1>1. \A i \in 1 .. 9 : Contract!Rank[Contract!States[i]] = i
  BY Ranks
<1>2. /\ Contract!States[1] = "Intent" /\ Contract!States[2] = "Submitted"
      /\ Contract!States[3] = "Accepted" /\ Contract!States[4] = "PartiallyFilled"
      /\ Contract!States[5] = "Filled" /\ Contract!States[6] = "CancelPending"
      /\ Contract!States[7] = "Canceled" /\ Contract!States[8] = "Rejected"
      /\ Contract!States[9] = "Unknown" /\ Len(Contract!States) = 9
  BY DEF Contract!States
<1>3. Contract!StateNames = {Contract!States[i] : i \in 1 .. 9}
  BY <1>2 DEF Contract!StateNames
<1>4. 1 .. 9 = {1, 2, 3, 4, 5, 6, 7, 8, 9}
  OBVIOUS
<1>5. Contract!StateNames
        = {Contract!States[1], Contract!States[2], Contract!States[3], Contract!States[4],
           Contract!States[5], Contract!States[6], Contract!States[7], Contract!States[8],
           Contract!States[9]}
  BY <1>3, <1>4
<1> QED
  BY <1>1, <1>2, <1>5

-----------------------------------------------------------------------------
\* A step of a MakerOrder the contract accepts: no state before, no quantity below.
Forward(o, p) ==
    /\ Contract!Rank[ContractState[o.status]] <= Contract!Rank[ContractState[p.status]]
    /\ o.filled <= p.filled

\* MakerOrder::apply keeps the order well-formed, goes forward only, and counts what a
\* report tells of or nothing.
LEMMA AppliesSafely ==
    ASSUME NEW o \in Orders, WhollyFilled(o), NEW e \in Reports
    PROVE  /\ Apply(o, e) \in Orders
           /\ WhollyFilled(Apply(o, e))
           /\ Forward(o, Apply(o, e))
           /\ Apply(o, e).filled \in {o.filled, o.filled + e.quantity}
<1>q. Quantity \in Nat \ {0}
  BY LifecycleAssumption
<1>o. /\ o.status \in Statuses /\ o.filled \in 0 .. Quantity
      /\ o = [status |-> o.status, filled |-> o.filled]
  BY DEF Orders
<1>e. e.kind \in Kinds /\ e.quantity \in 0 .. Quantity
  BY DEF Reports
<1>r. \A s \in Statuses : Contract!Rank[ContractState[s]] \in 1 .. 9
  BY RankOf DEF Statuses, Terminal, ContractState
<1>1. CASE ~Accepts(o, e)
  <2>1. Apply(o, e) = o
    BY <1>1 DEF Apply
  <2> QED
    BY <2>1, <1>q, <1>o, <1>r DEF Forward
<1>2. CASE Accepts(o, e) /\ e.kind \in Fills
  <2> DEFINE p == Recorded(o, e)
  <2>1. Apply(o, e) = p
    BY <1>2 DEF Apply
  <2>2. /\ o.status \in {"Acknowledged", "PartiallyFilled"}
        /\ o.filled + e.quantity <= Quantity
        /\ e.kind = "Filled" => o.filled + e.quantity = Quantity
    BY <1>2 DEF Accepts, FillFits
  <2>3. /\ p.filled = o.filled + e.quantity
        /\ p.status = IF e.kind = "Filled" \/ p.filled = Quantity
                      THEN "Filled" ELSE "PartiallyFilled"
        /\ p = [status |-> p.status, filled |-> p.filled]
    BY DEF Recorded
  <2>4. /\ p.filled \in 0 .. Quantity
        /\ p.status \in {"Filled", "PartiallyFilled"}
        /\ p.status = "Filled" <=> p.filled = Quantity
    BY <1>q, <1>o, <1>e, <2>2, <2>3
  <2> HIDE DEF p
  <2>5. p \in Orders
    BY <2>3, <2>4 DEF Orders, Statuses, Terminal
  <2>6. Contract!Rank[ContractState[o.status]] \in {3, 4}
    BY <2>2, RankOf DEF ContractState
  <2>7. Contract!Rank[ContractState[p.status]] \in {4, 5}
    BY <2>4, RankOf DEF ContractState
  <2>8. Forward(o, p)
    BY <2>3, <2>6, <2>7, <1>o, <1>e DEF Forward
  <2> QED
    BY <2>1, <2>3, <2>4, <2>5, <2>8 DEF WhollyFilled
<1>3. CASE Accepts(o, e) /\ e.kind \notin Fills
  <2> DEFINE p == Moved(o, e.kind)
  <2>1. Apply(o, e) = p
    BY <1>3 DEF Apply
  <2>2. p = [status |-> e.kind, filled |-> o.filled]
    BY <1>o DEF Moved
  <2>3. o.status \in Step[e.kind]
    BY <1>3 DEF Accepts
  <2>4. e.kind \in {"Submitted", "Acknowledged", "CancelRequested", "Canceled", "Expired",
                    "Rejected"}
    BY <1>3, <1>e, KindsAre DEF Fills
  <2>5. /\ o.status \notin Terminal
        /\ Contract!Rank[ContractState[o.status]] <= Contract!Rank[ContractState[e.kind]]
    BY <2>3, <2>4, RankOf DEF Step, Terminal, ContractState
  <2>6. p \in Orders
    BY <2>2, <2>4, <1>o DEF Orders, Statuses, Terminal
  <2>7. WhollyFilled(p)
    BY <2>2, <2>4, <2>5, <1>o DEF WhollyFilled, Terminal
  <2> QED
    BY <2>1, <2>2, <2>5, <2>6, <2>7, <1>o DEF Forward
<1> QED
  BY <1>1, <1>2, <1>3

-----------------------------------------------------------------------------
\* A report that is sent tells of what was executed since the one before.
LEMMA SendingKeeps ==
    ASSUME LifecycleInv, NEW r \in Reports, Reported(r),
           order'.filled = order.filled,
           remote'.executed = remote.executed + r.quantity
    PROVE  reports' \in Seq(Reports) /\ Backed'
<1> DEFINE n == Len(reports)
<1>1. /\ reports \in Seq(Reports) /\ n \in Nat
      /\ remote.executed \in Nat /\ r.quantity \in Nat
  BY LifecycleAssumption DEF LifecycleInv, TypeInv, Remotes, Reports
<1>2. /\ reports' = Append(reports, r) /\ reports' \in Seq(Reports)
      /\ Len(reports') = n + 1
      /\ \A i \in 1 .. n : reports'[i] = reports[i]
      /\ reports'[n + 1] = r
  BY <1>1 DEF Reported
<1>3. PICK c \in [1 .. n + 1 -> Nat] :
        /\ order.filled <= c[1]
        /\ c[n + 1] = remote.executed
        /\ \A i \in 1 .. n, j \in 2 .. n + 1 : i < j => c[i] + reports[i].quantity <= c[j]
  BY DEF LifecycleInv, Backed
<1> DEFINE d == [i \in 1 .. n + 2 |-> IF i = n + 2 THEN remote'.executed ELSE c[i]]
<1> HIDE DEF n
<1>4. remote'.executed \in Nat
  BY <1>1
<1>5. d \in [1 .. n + 2 -> Nat]
  BY <1>1, <1>4
<1>6. /\ d[1] = c[1] /\ d[n + 2] = remote'.executed
      /\ \A i \in 1 .. n + 1 : d[i] = c[i]
  BY <1>1
<1> HIDE DEF d
<1>7. ASSUME NEW i \in 1 .. n + 1, NEW j \in 2 .. n + 2, i < j
      PROVE  d[i] + reports'[i].quantity <= d[j]
  <2>1. CASE i = n + 1
    <3>1. d[i] = remote.executed /\ reports'[i] = r /\ d[j] = remote'.executed
      BY <2>1, <1>1, <1>2, <1>3, <1>6, <1>7
    <3> QED
      BY <3>1, <1>1
  <2>2. CASE i # n + 1 /\ j # n + 2
    <3>1. i \in 1 .. n /\ j \in 2 .. n + 1 /\ j \in 1 .. n + 1
      <4>1. n \in Nat
        BY <1>1
      <4> QED
        BY <2>2, <4>1
    <3> QED
      BY <3>1, <1>2, <1>3, <1>6, <1>7
  <2>3. CASE i # n + 1 /\ j = n + 2
    <3>1. i \in 1 .. n /\ n + 1 \in 2 .. n + 1 /\ i < n + 1
      BY <2>3, <1>1
    <3>2. d[i] = c[i] /\ reports'[i] = reports[i] /\ c[i] + reports[i].quantity <= c[n + 1]
      BY <3>1, <1>2, <1>3, <1>6
    <3>3. c[i] \in Nat
      BY <3>1, <1>1
    <3>4. reports[i] \in Reports
      BY <3>1, <1>1 DEF n
    <3>5. reports[i].quantity \in Nat
      BY <3>4, LifecycleAssumption DEF Reports
    <3> QED
      BY <3>2, <3>3, <3>5, <2>3, <1>1, <1>3, <1>6
  <2> QED
    BY <2>1, <2>2, <2>3
<1>8. /\ Len(reports') + 1 = n + 2
      /\ d[Len(reports') + 1] = remote'.executed
      /\ order'.filled <= d[1]
  BY <1>1, <1>2, <1>3, <1>6
<1> QED
  BY <1>2, <1>5, <1>7, <1>8 DEF Backed

\* The first report leaves; what it told of is counted once at most.
LEMMA TakingKeeps ==
    ASSUME LifecycleInv, reports # <<>>, reports' = Tail(reports),
           order'.filled \in {order.filled, order.filled + Head(reports).quantity},
           remote' = remote
    PROVE  reports' \in Seq(Reports) /\ Backed'
<1> DEFINE n == Len(reports)
<1>1. /\ reports \in Seq(Reports) /\ n \in Nat \ {0}
      /\ Head(reports) = reports[1] /\ reports[1] \in Reports
      /\ order.filled \in Nat
  BY LifecycleAssumption DEF LifecycleInv, TypeInv, Orders
<1>2. /\ reports' \in Seq(Reports) /\ Len(reports') = n - 1
      /\ \A i \in 1 .. n - 1 : reports'[i] = reports[i + 1]
  BY <1>1
<1>3. PICK c \in [1 .. n + 1 -> Nat] :
        /\ order.filled <= c[1]
        /\ c[n + 1] = remote.executed
        /\ \A i \in 1 .. n, j \in 2 .. n + 1 : i < j => c[i] + reports[i].quantity <= c[j]
  BY DEF LifecycleInv, Backed
<1> DEFINE d == [i \in 1 .. n |-> c[i + 1]]
<1> HIDE DEF n
<1>4. /\ d \in [1 .. n -> Nat] /\ d[1] = c[2] /\ d[n] = c[n + 1]
      /\ \A i \in 1 .. n : d[i] = c[i + 1]
  BY <1>1
<1> HIDE DEF d
<1>5. reports[1].quantity \in Nat /\ c[1] \in Nat /\ c[2] \in Nat
  BY <1>1, LifecycleAssumption DEF Reports
<1>6. c[1] + reports[1].quantity <= c[2]
  <2>1. 1 \in 1 .. n /\ 2 \in 2 .. n + 1
    BY <1>1
  <2> QED
    BY <2>1, <1>3
<1>7. order'.filled <= d[1]
  BY <1>1, <1>3, <1>4, <1>5, <1>6
<1>8. ASSUME NEW i \in 1 .. n - 1, NEW j \in 2 .. n, i < j
      PROVE  d[i] + reports'[i].quantity <= d[j]
  <2>1. i \in 1 .. n /\ i + 1 \in 1 .. n /\ j \in 1 .. n /\ j + 1 \in 2 .. n + 1 /\ i + 1 < j + 1
    BY <1>1, <1>8
  <2>2. c[i + 1] + reports[i + 1].quantity <= c[j + 1]
    BY <2>1, <1>3
  <2>3. d[i] = c[i + 1] /\ d[j] = c[j + 1] /\ reports'[i] = reports[i + 1]
    BY <2>1, <1>2, <1>4
  <2> QED
    BY <2>2, <2>3
<1>9. Len(reports') + 1 = n /\ d[Len(reports') + 1] = remote'.executed
  BY <1>1, <1>2, <1>3, <1>4
<1> QED
  BY <1>2, <1>4, <1>7, <1>8, <1>9 DEF Backed

-----------------------------------------------------------------------------
LEMMA LifecycleStarts == LifecycleInit => LifecycleInv
<1> SUFFICES ASSUME LifecycleInit PROVE LifecycleInv
  OBVIOUS
<1>1. /\ order = [status |-> "New", filled |-> 0]
      /\ remote = [status |-> "none", executed |-> 0]
      /\ reports = <<>>
  BY DEF LifecycleInit
<1>2. TypeInv
  BY <1>1, LifecycleAssumption DEF TypeInv, Orders, Statuses, Terminal, Remotes
<1>3. WhollyFilled(order)
  BY <1>1, LifecycleAssumption DEF WhollyFilled
<1>4. Backed
  <2> DEFINE c == [i \in 1 .. 1 |-> 0]
  <2>1. Len(reports) = 0
    BY <1>1
  <2>2. c \in [1 .. Len(reports) + 1 -> Nat] /\ c[1] = 0
    BY <2>1
  <2>3. \A i \in 1 .. Len(reports) : FALSE
    BY <2>1
  <2>4. order.filled = 0 /\ remote.executed = 0
    BY <1>1
  <2> HIDE DEF c
  <2> QED
    BY <2>1, <2>2, <2>3, <2>4 DEF Backed
<1> QED
  BY <1>1, <1>2, <1>3, <1>4 DEF LifecycleInv

LEMMA ReportIs ==
    ASSUME NEW k \in Kinds, NEW q \in 0 .. Quantity
    PROVE  Report(k, q) \in Reports /\ Report(k, q).quantity = q
  BY DEF Report, Reports

LEMMA LifecycleSteps ==
    LifecycleInv /\ [LifecycleNext]_lifecycleVars
      => LifecycleInv' /\ (order' = order \/ Forward(order, order'))
<1> SUFFICES ASSUME LifecycleInv, [LifecycleNext]_lifecycleVars
             PROVE  LifecycleInv' /\ (order' = order \/ Forward(order, order'))
  OBVIOUS
<1>q. Quantity \in Nat \ {0}
  BY LifecycleAssumption
<1>t. /\ order \in Orders /\ remote \in Remotes /\ reports \in Seq(Reports) /\ WhollyFilled(order)
      /\ remote.status = "Filled" => remote.executed = Quantity
  BY DEF LifecycleInv, TypeInv
<1>o. order.status \in Statuses /\ order.filled \in 0 .. Quantity
  BY <1>t DEF Orders
<1>r. /\ remote.executed \in 0 .. Quantity
      /\ remote = [status |-> remote.status, executed |-> remote.executed]
  BY <1>t DEF Remotes
<1>k. /\ {"Submitted", "Acknowledged", "CancelRequested", "Canceled", "Expired", "Rejected",
          "PartialFill", "Filled"} \subseteq Kinds
      /\ 0 \in 0 .. Quantity
  BY KindsAre, <1>q
\* The exchange's status moves, nothing is executed, and a report says so.
<1>s. ASSUME NEW s \in {"New", "Rejected", "Canceled", "Expired"}, NEW k \in Kinds,
             remote' = [remote EXCEPT !.status = s], Reported(Report(k, 0)),
             order' \in Orders, WhollyFilled(order'), order'.filled = order.filled
      PROVE  LifecycleInv'
  <2>1. remote' = [status |-> s, executed |-> remote.executed]
    BY <1>s, <1>r
  <2>2. remote' \in Remotes /\ remote'.executed = remote.executed
    BY <2>1, <1>r DEF Remotes
  <2>3. Report(k, 0) \in Reports /\ Report(k, 0).quantity = 0
    BY <1>k, ReportIs
  <2>4. remote'.executed = remote.executed + Report(k, 0).quantity
    BY <2>2, <2>3, <1>r
  <2>5. reports' \in Seq(Reports) /\ Backed'
    BY <1>s, <2>3, <2>4, SendingKeeps
  <2> QED
    BY <1>s, <2>1, <2>2, <2>5 DEF LifecycleInv, TypeInv
<1>1. CASE Submit
  <2>1. Report("Submitted", 0) \in Reports
    BY <1>k, ReportIs
  <2>2. /\ order.status = "New"
        /\ order' = Apply(order, Report("Submitted", 0))
    BY <1>1 DEF Submit
  <2>3. order' \in Orders /\ WhollyFilled(order') /\ Forward(order, order')
    BY <2>1, <2>2, <1>t, AppliesSafely
  <2>4. Report("Submitted", 0).quantity = 0
    BY DEF Report
  <2>5. order'.filled = order.filled
    BY <2>1, <2>2, <2>4, <1>t, <1>o, AppliesSafely
  <2>6. \/ remote' = [remote EXCEPT !.status = "New"] /\ Reported(Report("Acknowledged", 0))
        \/ remote' = [remote EXCEPT !.status = "Rejected"] /\ Reported(Report("Rejected", 0))
    BY <1>1 DEF Submit
  <2> QED
    BY <2>3, <2>5, <2>6, <1>s, <1>k
<1>2. CASE RequestCancel
  <2>1. /\ Report("CancelRequested", 0) \in Reports
        /\ Report("CancelRequested", 0).quantity = 0
    BY <1>k, ReportIs
  <2>2. /\ order' = Apply(order, Report("CancelRequested", 0))
        /\ remote' = remote /\ reports' = reports
    BY <1>2 DEF RequestCancel
  <2>3. /\ order' \in Orders /\ WhollyFilled(order') /\ Forward(order, order')
        /\ order'.filled = order.filled
    BY <2>1, <2>2, <1>t, <1>o, AppliesSafely
  <2>4. Backed'
    BY <2>2, <2>3 DEF LifecycleInv, Backed
  <2> QED
    BY <2>2, <2>3, <2>4, <1>t DEF LifecycleInv, TypeInv
<1>3. CASE ExchangeFills
  <2>1. PICK k \in 1 .. Quantity - remote.executed :
          LET full == remote.executed + k = Quantity
          IN  /\ remote' = [status |-> IF full THEN "Filled" ELSE "PartiallyFilled",
                            executed |-> remote.executed + k]
              /\ Reported(Report(IF full THEN "Filled" ELSE "PartialFill", k))
    BY <1>3 DEF ExchangeFills
  <2>2. order' = order
    BY <1>3 DEF ExchangeFills
  <2>3. k \in 0 .. Quantity /\ remote.executed + k \in 0 .. Quantity
    BY <1>q, <1>r
  <2>4. /\ remote'.executed = remote.executed + k
        /\ remote'.status = "Filled" => remote'.executed = Quantity
        /\ remote' \in Remotes
    BY <2>1, <2>3 DEF Remotes
  <2>5. PICK kind \in {"Filled", "PartialFill"} : Reported(Report(kind, k))
    BY <2>1
  <2>6. Report(kind, k) \in Reports /\ Report(kind, k).quantity = k
    BY <2>3, <1>k, ReportIs
  <2>7. reports' \in Seq(Reports) /\ Backed'
    BY <2>2, <2>4, <2>5, <2>6, SendingKeeps
  <2> QED
    BY <2>2, <2>4, <2>7, <1>t DEF LifecycleInv, TypeInv
<1>4. CASE ExchangeCancels
  <2>1. /\ order' = order /\ remote' = [remote EXCEPT !.status = "Canceled"]
        /\ Reported(Report("Canceled", 0))
    BY <1>4 DEF ExchangeCancels
  <2> QED
    BY <2>1, <1>s, <1>k, <1>t
<1>5. CASE ExchangeExpires
  <2>1. /\ order' = order /\ remote' = [remote EXCEPT !.status = "Expired"]
        /\ Reported(Report("Expired", 0))
    BY <1>5 DEF ExchangeExpires
  <2> QED
    BY <2>1, <1>s, <1>k, <1>t
<1>6. CASE Deliver
  <2>1. /\ reports # <<>> /\ reports' = Tail(reports) /\ remote' = remote
        /\ order' = Apply(order, Head(reports))
    BY <1>6 DEF Deliver
  <2>2. Head(reports) \in Reports
    BY <2>1, <1>t
  <2>3. /\ order' \in Orders /\ WhollyFilled(order') /\ Forward(order, order')
        /\ order'.filled \in {order.filled, order.filled + Head(reports).quantity}
    BY <2>1, <2>2, <1>t, AppliesSafely
  <2>4. reports' \in Seq(Reports) /\ Backed'
    BY <2>1, <2>3, TakingKeeps
  <2> QED
    BY <2>1, <2>3, <2>4, <1>t DEF LifecycleInv, TypeInv
<1>7. CASE Lose
  <2>1. reports # <<>> /\ reports' = Tail(reports) /\ remote' = remote /\ order' = order
    BY <1>7 DEF Lose
  <2>2. reports' \in Seq(Reports) /\ Backed'
    BY <2>1, TakingKeeps
  <2> QED
    BY <2>1, <2>2, <1>t DEF LifecycleInv, TypeInv
<1>8. CASE UNCHANGED lifecycleVars
  <2>1. order' = order /\ remote' = remote /\ reports' = reports
    BY <1>8 DEF lifecycleVars
  <2> QED
    BY <2>1 DEF LifecycleInv, TypeInv, Backed
<1> QED
  BY <1>1, <1>2, <1>3, <1>4, <1>5, <1>6, <1>7, <1>8 DEF LifecycleNext

-----------------------------------------------------------------------------
\* What the runner has counted was executed, and the order says Filled when all is.
LEMMA CountIsReal == LifecycleInv => FillsAreReal
<1> SUFFICES ASSUME LifecycleInv PROVE FillsAreReal
  OBVIOUS
<1> DEFINE n == Len(reports)
<1>1. PICK c \in [1 .. n + 1 -> Nat] :
        /\ order.filled <= c[1]
        /\ c[n + 1] = remote.executed
        /\ \A i \in 1 .. n, j \in 2 .. n + 1 : i < j => c[i] + reports[i].quantity <= c[j]
  BY DEF LifecycleInv, Backed
<1>r. reports \in Seq(Reports) /\ order \in Orders /\ WhollyFilled(order)
  BY DEF LifecycleInv, TypeInv
<1>2. /\ n \in Nat /\ order.filled \in Nat /\ WhollyFilled(order)
      /\ \A i \in 1 .. n : reports[i].quantity \in Nat
  <2>1. n \in Nat /\ \A i \in 1 .. n : reports[i] \in Reports
    BY <1>r
  <2>2. \A e \in Reports : e.quantity \in Nat
    BY LifecycleAssumption DEF Reports
  <2>3. order.filled \in Nat
    BY <1>r, LifecycleAssumption DEF Orders
  <2> QED
    BY <1>r, <2>1, <2>2, <2>3
<1> HIDE DEF n
<1>3. order.filled <= remote.executed
  <2>1. CASE n = 0
    BY <2>1, <1>1
  <2>2. CASE n # 0
    <3>1. 1 \in 1 .. n /\ n + 1 \in 2 .. n + 1 /\ 1 < n + 1 /\ 1 \in 1 .. n + 1
      BY <2>2, <1>2
    <3>2. c[1] + reports[1].quantity <= c[n + 1]
      BY <3>1, <1>1
    <3>3. c[1] \in Nat /\ c[n + 1] \in Nat
      BY <3>1, <1>1, <1>2
    <3> QED
      BY <3>1, <3>2, <3>3, <1>1, <1>2
  <2> QED
    BY <2>1, <2>2
<1> QED
  BY <1>2, <1>3 DEF FillsAreReal, WhollyFilled

\* No finding of reconcile() is its Continue.
LEMMA FindingsAreNotContinue ==
    /\ \A why : Halt(why) # Continue
    /\ \A i : [act |-> "CancelRemoteOrder", id |-> i] # Continue
    /\ \A q : [act |-> "ApplyRemoteFill", quantity |-> q] # Continue
    /\ \A s : [act |-> "ApplyRemoteStatus", status |-> s] # Continue
    /\ \A a, b : [act |-> "AdoptRemotePosition", from |-> a, to |-> b] # Continue
    /\ \A d : [act |-> "RecordExternalAdjustment", delta |-> d] # Continue
<1>1. Continue.act = "Continue"
  BY DEF Continue
<1>2. \A why : Halt(why).act = "Halt"
  BY DEF Halt
<1>3. /\ \A i : [act |-> "CancelRemoteOrder", id |-> i].act = "CancelRemoteOrder"
      /\ \A q : [act |-> "ApplyRemoteFill", quantity |-> q].act = "ApplyRemoteFill"
      /\ \A s : [act |-> "ApplyRemoteStatus", status |-> s].act = "ApplyRemoteStatus"
      /\ \A a, b : [act |-> "AdoptRemotePosition", from |-> a, to |-> b].act
                       = "AdoptRemotePosition"
      /\ \A d : [act |-> "RecordExternalAdjustment", delta |-> d].act
                    = "RecordExternalAdjustment"
  OBVIOUS
<1> QED
  BY <1>1, <1>2, <1>3

\* Continue is the answer only when neither the orders nor the positions gave a finding.
LEMMA ContinueMeansNothingFound ==
    ASSUME NEW l, NEW r, NEW p, NEW q, l.id = r.id,
           Continue \in Reconcile({l}, {r}, p, q)
    PROVE  OrderActions(l, r) = {} /\ p = q
<1> DEFINE strays == {[act |-> "CancelRemoteOrder", id |-> i] : i \in Ids({r}) \ Ids({l})}
           absent == {Halt("absent remotely") :
                        m \in {m \in {l} : m.id \notin Ids({r}) /\ ~m.terminal}}
           pairs == {m \in {l} \X {r} : m[1].id = m[2].id}
           matched == UNION {OrderActions(m[1], m[2]) : m \in pairs}
           found == strays \cup absent \cup matched \cup PositionActions(p, q)
<1>1. Reconcile({l}, {r}, p, q) = IF found = {} THEN {Continue} ELSE found
  BY DEF Reconcile
<1>2. Continue \notin strays /\ Continue \notin absent
  BY FindingsAreNotContinue
<1>3. Continue \notin PositionActions(p, q)
  BY FindingsAreNotContinue DEF PositionActions
<1>4. ASSUME NEW m \in pairs PROVE Continue \notin OrderActions(m[1], m[2])
  <2> DEFINE a == m[1]
             b == m[2]
  <2> HIDE DEF a, b
  <2>1. Continue \notin OrderActions(a, b)
    BY FindingsAreNotContinue DEF OrderActions
  <2> QED
    BY <2>1 DEF a, b
<1>5. Continue \notin found
  <2>1. Continue \notin matched
    BY <1>4
  <2> HIDE DEF strays, absent, matched
  <2> QED
    BY <1>2, <1>3, <2>1
<1>6. found = {}
  BY <1>1, <1>5
<1>7. <<l, r>> \in pairs
  OBVIOUS
<1>8. OrderActions(l, r) \subseteq matched
  BY <1>7
<1>9. p = q
  BY <1>6 DEF PositionActions
<1> QED
  BY <1>6, <1>8, <1>9

LEMMA ComparisonIsComplete == LifecycleInv => NothingSlips
<1> SUFFICES ASSUME LifecycleInv PROVE NothingSlips
  OBVIOUS
<1> DEFINE local == [id |-> 1, terminal |-> order.status \in Terminal,
                     executed |-> order.filled]
           there == [id |-> 1, status |-> remote.status, executed |-> remote.executed]
<1> SUFFICES ASSUME remote.status # "none",
                    Continue \in Reconcile({local}, {there}, order.filled, remote.executed)
             PROVE  /\ order.filled = remote.executed
                    /\ (order.status \in Terminal) = ~Resting
  BY DEF NothingSlips
<1>1. /\ local.id = 1 /\ there.id = 1
      /\ local.executed = order.filled /\ there.executed = remote.executed
      /\ there.status = remote.status
  OBVIOUS
<1>2. local.terminal <=> order.status \in Terminal
  BY Zenon
<1> HIDE DEF local, there
<1>3. OrderActions(local, there) = {} /\ order.filled = remote.executed
  BY <1>1, ContinueMeansNothingFound
<1>4. order.filled \in 0 .. Quantity /\ Quantity \in Nat \ {0}
  BY LifecycleAssumption DEF LifecycleInv, TypeInv, Orders
<1>5. ~(there.executed < local.executed)
  BY <1>1, <1>3, <1>4
<1>6. /\ ~(remote.status \in {"Canceled", "Expired", "Rejected"} /\ ~local.terminal)
      /\ ~(remote.status \in {"Filled", "New", "PartiallyFilled"} /\ local.terminal)
  BY <1>1, <1>3, <1>5 DEF OrderActions
<1>7. remote.status \in {"New", "PartiallyFilled", "Filled", "Canceled", "Expired",
                         "Rejected"}
  BY DEF LifecycleInv, TypeInv, Remotes
<1>8. remote.status = "Filled" => order.status \in Terminal
  BY <1>3 DEF LifecycleInv, WhollyFilled, Terminal
<1>9. order.status \in Terminal <=> ~Resting
  BY <1>2, <1>6, <1>7, <1>8 DEF Resting
<1> QED
  BY <1>3, <1>9

-----------------------------------------------------------------------------
\* Each step of the order is an event OrderManager accepts, or none.
LEMMA StepsAreMoves ==
    ASSUME TypeInv, order' \in Orders, Forward(order, order')
    PROVE  Contract!Moves
<1> DEFINE s == ContractState[order.status]
           t == ContractState[order'.status]
<1>1. /\ order.status \in Statuses /\ order'.status \in Statuses
      /\ order.filled \in 0 .. Quantity /\ order'.filled \in 0 .. Quantity
  BY DEF TypeInv, Orders
<1>2. /\ s \in Contract!StateNames /\ t \in Contract!StateNames
      /\ Contract!Rank[s] \in Nat /\ Contract!Rank[t] \in Nat
  BY <1>1, RankOf DEF Statuses, Terminal, ContractState
<1>3. Contract!Rank[s] <= Contract!Rank[t] /\ order.filled <= order'.filled
  BY DEF Forward
<1> HIDE DEF s, t
<1> DEFINE before == [state |-> s, quantity |-> order.filled, at |-> 0]
           event == [state |-> t, quantity |-> order'.filled, at |-> 0]
<1>4. /\ before.state = s /\ before.quantity = order.filled /\ before.at = 0
      /\ event.state = t /\ event.quantity = order'.filled /\ event.at = 0
  OBVIOUS
<1> HIDE DEF before, event
<1>5. ~Contract!Regressed(before, event)
  BY <1>2, <1>3, <1>4 DEF Contract!Regressed
<1>6. Contract!Refusal(before, event) = "none"
  BY <1>1, <1>3, <1>4, <1>5, LifecycleAssumption DEF Contract!Refusal
<1> QED
  BY <1>1, <1>2, <1>6 DEF Contract!Moves, before, event, s, t

LEMMA Invariance == LifecycleSpec => []LifecycleInv
<1>1. LifecycleInv /\ [LifecycleNext]_lifecycleVars => LifecycleInv'
  BY LifecycleSteps
<1> QED
  BY <1>1, LifecycleStarts, PTL DEF LifecycleSpec

\* No execution is counted twice or made up, whatever was delivered, refused or lost
\* (MakerOrder::apply, record_fill).
THEOREM FillsStayReal == LifecycleSpec => []FillsAreReal
  BY Invariance, CountIsReal, PTL

\* A fill or an end the runner does not know of is found by reconcile(): it answers
\* Continue only when both sides agree.
THEOREM NothingIsMissed == LifecycleSpec => []NothingSlips
  BY Invariance, ComparisonIsComplete, PTL

\* MakerOrder implements the contract of OrderManager: from Intent, by events it accepts.
THEOREM OrderImplementsContract == LifecycleSpec => KeepsContract
<1>1. LifecycleInit => Contract!ContractInit
  BY DEF LifecycleInit, Contract!ContractInit, ContractState
<1>2. LifecycleInv /\ [LifecycleNext]_lifecycleVars
        => [Contract!Moves]_<<ContractState[order.status], order.filled>>
  <2> SUFFICES ASSUME LifecycleInv, [LifecycleNext]_lifecycleVars
               PROVE  [Contract!Moves]_<<ContractState[order.status], order.filled>>
    OBVIOUS
  <2>1. LifecycleInv' /\ (order' = order \/ Forward(order, order'))
    BY LifecycleSteps
  <2>2. CASE order' = order
    BY <2>2
  <2>3. CASE Forward(order, order')
    BY <2>1, <2>3, StepsAreMoves DEF LifecycleInv, TypeInv
  <2> QED
    BY <2>1, <2>2, <2>3
<1> QED
  BY <1>1, <1>2, Invariance, PTL DEF LifecycleSpec, KeepsContract, Contract!ContractSpec

-----------------------------------------------------------------------------
(* One market shard.                                                       *)

Reading ==
    /\ quiet \in 0 .. ReadTimeout /\ silence \in Nat /\ control \in Nat
    /\ quiet <= silence
    /\ \/ silence = quiet
       \/ silence <= quiet + ReadTimeout /\ control = quiet

ConnectionInv ==
    /\ stream \in {"connecting", "reading", "waiting", "restarting"}
    /\ control \in 0 .. PingEvery
    /\ stream = "reading" => Reading

LEMMA ConnectionStarts == ConnectionInit => ConnectionInv
<1> USE ConnectionAssumption
<1>. QED BY DEF ConnectionInit, ConnectionInv

\* Whatever ends a connection leaves the stream out of "reading".
LEMMA Disconnects ==
    ASSUME NEW stable, OnDisconnect(stable)
    PROVE  stream' \in {"waiting", "restarting"}
BY DEF OnDisconnect, Restarts

LEMMA ConnectionSteps == ConnectionInv /\ [ConnectionNext]_connectionVars => ConnectionInv'
<1> SUFFICES ASSUME ConnectionInv, [ConnectionNext]_connectionVars PROVE ConnectionInv'
    OBVIOUS
<1> USE ConnectionAssumption
<1>1. CASE Connects
    BY <1>1 DEF Connects, ConnectionInv, Reading
<1>2. CASE ConnectFails
    BY <1>2, Disconnects DEF ConnectFails, ConnectionInv, Gone
<1>3. CASE Data
    <2>1. CASE age >= RotateAfter /\ OnDisconnect(Stable) /\ Gone
        BY <2>1, Disconnects DEF ConnectionInv, Gone
    <2>2. CASE stream' = stream /\ quiet' = 0 /\ silence' = 0 /\ control' = control
        BY <2>2 DEF ConnectionInv, Reading
    <2>3. CASE Restarts /\ Gone
        BY <2>3 DEF ConnectionInv, Gone, Restarts
    <2>. QED BY <1>3, <2>1, <2>2, <2>3 DEF Data
<1>4. CASE Control
    <2>1. CASE OnDisconnect(Stable)
        BY <1>4, <2>1, Disconnects DEF ConnectionInv, Control
    <2>2. CASE quiet' = 0 /\ stream' = stream /\ silence' = silence
        \* A ping comes at least PingEvery > ReadTimeout after the last one, so that the
        \* silence it leaves behind is no longer than one read timeout.
        <3>1. stream = "reading" /\ control >= PingEvery /\ control' = 0 BY <1>4 DEF Control
        <3>2. Reading BY <3>1 DEF ConnectionInv
        <3>3. silence = quiet BY <3>1, <3>2 DEF Reading
        <3>. QED BY <2>2, <3>1, <3>2, <3>3 DEF ConnectionInv, Reading
    <2>. QED BY <1>4, <2>1, <2>2 DEF Control
<1>5. CASE ReadTimesOut
    <2>1. CASE StaleShard /\ OnDisconnect(Stable) /\ Gone
        BY <2>1, Disconnects DEF ConnectionInv, Gone
    <2>2. CASE quiet >= ReadTimeout /\ stream = "reading" /\ ~StaleShard
        BY <2>2 DEF ConnectionInv, Reading, StaleShard
    <2>. QED BY <1>5, <2>1, <2>2 DEF ReadTimesOut
<1>6. CASE Closes
    BY <1>6, Disconnects DEF Closes, ConnectionInv, Gone
<1>7. CASE Wakes
    BY <1>7 DEF Wakes, ConnectionInv
<1>8. CASE Tick
    <2>1. CASE stream = "reading"
        <3>1. quiet < ReadTimeout /\ quiet' = quiet + 1 /\ silence' = silence + 1
              /\ control' = Least(control + 1, PingEvery) /\ stream' = stream
            BY <1>8, <2>1 DEF Tick
        <3>2. control' = IF control + 1 < PingEvery THEN control + 1 ELSE PingEvery
            BY <3>1 DEF Least
        <3>3. Reading /\ control \in 0 .. PingEvery BY <2>1 DEF ConnectionInv
        <3>4. control' \in 0 .. PingEvery BY <3>2, <3>3
        <3>5. Reading' BY <3>1, <3>2, <3>3, <3>4 DEF Reading
        <3>. QED BY <3>1, <3>4, <3>5 DEF ConnectionInv
    <2>2. CASE stream # "reading"
        BY <1>8, <2>2 DEF Tick, ConnectionInv
    <2>. QED BY <2>1, <2>2
<1>9. CASE UNCHANGED connectionVars
    BY <1>9 DEF connectionVars, ConnectionInv, Reading
<1>. QED BY <1>1, <1>2, <1>3, <1>4, <1>5, <1>6, <1>7, <1>8, <1>9 DEF ConnectionNext

\* No shard is kept that has been silent for more than two read timeouts, for every set of
\* limits in which control frames are further apart than the read timeout.
THEOREM SilenceEnds == ConnectionSpec => []SilentShardsAreRecycled
<1>1. ConnectionInv => SilentShardsAreRecycled
    BY ConnectionAssumption DEF ConnectionInv, Reading, SilentShardsAreRecycled
<1>. QED BY <1>1, ConnectionStarts, ConnectionSteps, PTL DEF ConnectionSpec

-----------------------------------------------------------------------------
(* The metadata cache and the capability gate.                             *)

MetadataTypes ==
    /\ endpoint \in Endpoints /\ time \in Nat \ {0}
    /\ cache \in {NoFile} \cup [fetched : Nat, seen : Nat]
    /\ call \in [Readers -> [at : {"idle", "request", "write", "rename"}, attempt : Nat,
                             seen : Nat, received : Nat, fetched : Nat]]
    /\ answer \in [why : {"none", "fresh", "cooldown", "failure", "asked"}, age : Int]
    /\ DOMAIN admitted = Universe /\ DOMAIN offered = Universe

\* What a file holds was true not long before the file was written.
FileIsRecent ==
    cache # NoFile => cache.fetched <= time /\ cache.fetched - cache.seen <= Delay + 1

\* An answer on its way to the file and to its caller is as recent.
CallsAreRecent ==
    \A r \in Readers :
        LET c == call[r]
        IN  c.at \in {"write", "rename"} =>
                /\ c.received - c.seen <= 1 /\ c.received <= time /\ time - c.received <= Delay
                /\ c.at = "rename" => c.received <= c.fetched /\ c.fetched <= time

\* What the gate has admitted is the last thing it was offered, which it looked at then.
GateIsLatest ==
    \A s \in Universe :
        admitted[s] # Missing =>
            /\ admitted[s] = offered[s]
            /\ offered[s].seen \in Nat \ {0} /\ offered[s].trading /\ offered[s].quote

MetadataInv ==
    MetadataTypes /\ FileIsRecent /\ CallsAreRecent /\ AnswersAreBounded /\ GateIsLatest

-----------------------------------------------------------------------------
LEMMA MetadataStarts == MetadataInit => MetadataInv
<1> SUFFICES ASSUME MetadataInit PROVE MetadataInv
    OBVIOUS
<1> USE MetadataAssumption
<1>1. MetadataTypes
    BY DEF MetadataInit, MetadataTypes, NoCall, NoAnswer, Endpoints
<1>2. CallsAreRecent
    BY DEF MetadataInit, CallsAreRecent, NoCall
<1>3. AnswersAreBounded
    BY DEF MetadataInit, AnswersAreBounded, NoAnswer
<1>. QED BY <1>1, <1>2, <1>3 DEF MetadataInit, MetadataInv, FileIsRecent, GateIsLatest

\* What a usable file holds is no older than the lifetime it is used under, and the time
\* that a call takes.
LEMMA UsableIsRecent ==
    ASSUME MetadataInv, NEW limit \in Nat, Usable(limit)
    PROVE  cache.seen \in Nat /\ time - cache.seen <= limit + Delay + 1
BY MetadataAssumption DEF MetadataInv, MetadataTypes, FileIsRecent, Usable

LEMMA ServesFromFile ==
    ASSUME MetadataInv,
           \/ Usable(Ttl) /\ Serves(cache.seen, "fresh")
           \/ Usable(Fallback) /\ Serves(cache.seen, "cooldown")
           \/ Usable(Fallback) /\ Serves(cache.seen, "failure")
    PROVE  /\ answer' \in [why : {"none", "fresh", "cooldown", "failure", "asked"}, age : Int]
           /\ AnswersAreBounded'
<1> USE MetadataAssumption
<1>1. CASE Usable(Ttl) /\ Serves(cache.seen, "fresh")
    <2>1. cache.seen \in Nat /\ time - cache.seen <= Ttl + Delay + 1
        BY <1>1, UsableIsRecent
    <2>. QED BY <1>1, <2>1 DEF Serves, AnswersAreBounded, MetadataInv, MetadataTypes
<1>2. CASE /\ Usable(Fallback)
           /\ Serves(cache.seen, "cooldown") \/ Serves(cache.seen, "failure")
    <2>1. cache.seen \in Nat /\ time - cache.seen <= Fallback + Delay + 1
        BY <1>2, UsableIsRecent
    <2>. QED BY <1>2, <2>1 DEF Serves, AnswersAreBounded, MetadataInv, MetadataTypes
<1>. QED BY <1>1, <1>2

LEMMA NoAnswerIsBounded ==
    ASSUME answer' = NoAnswer
    PROVE  /\ answer' \in [why : {"none", "fresh", "cooldown", "failure", "asked"}, age : Int]
           /\ AnswersAreBounded'
BY MetadataAssumption DEF NoAnswer, AnswersAreBounded

LEMMA GivenIsBounded ==
    ASSUME MetadataInv, NEW r \in Readers, call[r].at \in {"write", "rename"}, GivesTheAnswer(r)
    PROVE  /\ answer' \in [why : {"none", "fresh", "cooldown", "failure", "asked"}, age : Int]
           /\ AnswersAreBounded'
<1>1. /\ call[r].seen \in Nat /\ call[r].received \in Nat /\ time \in Nat
      /\ call[r].received - call[r].seen <= 1 /\ time - call[r].received <= Delay
    BY DEF MetadataInv, MetadataTypes, CallsAreRecent
<1>2. time - call[r].seen <= Delay + 1
    BY <1>1, MetadataAssumption
<1>. QED BY <1>1, <1>2, MetadataAssumption DEF GivesTheAnswer, Serves, AnswersAreBounded

\* The calls that no step of another touches, when the time stands.
LEMMA ReturnKeepsCalls ==
    ASSUME MetadataInv, NEW r \in Readers, Returns(r), time' = time
    PROVE  /\ call' \in [Readers -> [at : {"idle", "request", "write", "rename"}, attempt : Nat,
                                     seen : Nat, received : Nat, fetched : Nat]]
           /\ CallsAreRecent'
BY DEF MetadataInv, MetadataTypes, CallsAreRecent, Returns, NoCall

LEMMA CallSteps ==
    ASSUME MetadataInv, Calls, UNCHANGED endpoint
    PROVE  MetadataInv'
<1> USE MetadataAssumption
<1> DEFINE AnswerOk == /\ answer' \in [why : {"none", "fresh", "cooldown", "failure", "asked"}, age : Int]
                       /\ AnswersAreBounded'
           CallOk == /\ call' \in [Readers -> [at : {"idle", "request", "write", "rename"},
                                     attempt : Nat, seen : Nat, received : Nat, fetched : Nat]]
                     /\ CallsAreRecent'
           CacheOk == /\ cache' \in {NoFile} \cup [fetched : Nat, seen : Nat]
                      /\ FileIsRecent'
           Kept == UNCHANGED <<time, admitted, offered>>
<1>1. UNCHANGED answer => AnswerOk
    BY DEF MetadataInv, MetadataTypes, AnswersAreBounded
<1>2. UNCHANGED <<call, time>> => CallOk
    BY DEF MetadataInv, MetadataTypes, CallsAreRecent
<1>3. UNCHANGED <<cache, time>> => CacheOk
    BY DEF MetadataInv, MetadataTypes, FileIsRecent
<1>4. ASSUME AnswerOk, CallOk, CacheOk, Kept
      PROVE  MetadataInv'
    BY <1>4 DEF MetadataInv, MetadataTypes, GateIsLatest
<1> HIDE DEF AnswerOk, CallOk, CacheOk
<1>5. PICK r \in Readers :
        \/ Begin(r) \/ Retry(r) \/ Unavailable(r) \/ Refused(r) \/ Respond(r)
        \/ WriteTemporary(r) \/ WriteFails(r) \/ Replace(r) \/ RenameFails(r) \/ Dies(r)
    BY DEF Calls
<1>6. /\ call[r] \in [at : {"idle", "request", "write", "rename"}, attempt : Nat, seen : Nat,
                      received : Nat, fetched : Nat]
      /\ DOMAIN call = Readers /\ time \in Nat \ {0}
    BY DEF MetadataInv, MetadataTypes
<1>7. ASSUME Returns(r), UNCHANGED time PROVE CallOk
    BY <1>7, ReturnKeepsCalls DEF CallOk
<1>8. ASSUME GivesTheAnswer(r), call[r].at \in {"write", "rename"} PROVE AnswerOk
    BY <1>8, GivenIsBounded DEF AnswerOk
<1>9. ASSUME answer' = NoAnswer PROVE AnswerOk
    BY <1>9, NoAnswerIsBounded DEF AnswerOk
<1>20. ASSUME NEW c \in [at : {"idle", "request", "write", "rename"}, attempt : Nat, seen : Nat,
                         received : Nat, fetched : Nat],
              call' = [call EXCEPT ![r] = c], UNCHANGED time,
              c.at \in {"write", "rename"} =>
                /\ c.received - c.seen <= 1 /\ c.received <= time /\ time - c.received <= Delay
                /\ c.at = "rename" => c.received <= c.fetched /\ c.fetched <= time
      PROVE  CallOk
    BY <1>6, <1>20 DEF CallOk, MetadataInv, MetadataTypes, CallsAreRecent
<1>10. CASE Begin(r)
    <2>1. Kept /\ UNCHANGED cache BY <1>10 DEF Begin
    <2>2. CASE Usable(Ttl) /\ Serves(cache.seen, "fresh") /\ UNCHANGED call
        BY <2>1, <2>2, <1>2, <1>3, <1>4, ServesFromFile DEF AnswerOk
    <2>3. CASE Usable(Fallback) /\ Serves(cache.seen, "cooldown") /\ UNCHANGED call
        BY <2>1, <2>3, <1>2, <1>3, <1>4, ServesFromFile DEF AnswerOk
    <2>4. CASE call' = [call EXCEPT ![r].at = "request"] /\ UNCHANGED answer
        <3>1. CallOk
            BY <2>1, <2>4, <1>6 DEF CallOk, MetadataInv, MetadataTypes, CallsAreRecent
        <3>. QED BY <2>1, <2>4, <3>1, <1>1, <1>3, <1>4
    <2>. QED BY <1>10, <2>2, <2>3, <2>4 DEF Begin
<1>11. CASE Retry(r)
    <2>1. CallOk
        BY <1>11, <1>6 DEF Retry, CallOk, MetadataInv, MetadataTypes, CallsAreRecent
    <2>. QED BY <1>11, <2>1, <1>1, <1>3, <1>4 DEF Retry
<1>12. CASE Unavailable(r)
    <2>1. CASE Usable(Fallback) /\ Serves(cache.seen, "failure")
        BY <1>12, <2>1, <1>3, <1>4, <1>7, ServesFromFile DEF Unavailable, FallsBack, AnswerOk
    <2>2. CASE answer' = NoAnswer
        BY <1>12, <2>2, <1>3, <1>4, <1>7, <1>9 DEF Unavailable, FallsBack
    <2>. QED BY <1>12, <2>1, <2>2 DEF Unavailable, FallsBack
<1>13. CASE Refused(r)
    BY <1>13, <1>3, <1>4, <1>7, <1>9 DEF Refused
<1>14. CASE Respond(r)
    <2>1. PICK seen \in {time, time - 1} \cap Nat :
            call' = [call EXCEPT ![r].at = "write", ![r].seen = seen, ![r].received = time,
                                 ![r].attempt = 0]
        <3>1. (IF endpoint = "premium" THEN {time, time - 1} \cap Nat ELSE {time})
                 \subseteq {time, time - 1} \cap Nat
            BY <1>6
        <3>. QED BY <1>14, <3>1 DEF Respond
    <2>2. CallOk
        <3> DEFINE c == [call[r] EXCEPT !.at = "write", !.seen = seen, !.received = time,
                                        !.attempt = 0]
        <3>1. call' = [call EXCEPT ![r] = c] BY <2>1, <1>6
        <3>2. c \in [at : {"idle", "request", "write", "rename"}, attempt : Nat, seen : Nat,
                     received : Nat, fetched : Nat]
            BY <1>6, <2>1
        <3>3. /\ c.at = "write" /\ c.received = time /\ c.seen = seen
              /\ time - time <= Delay /\ time - seen <= 1 /\ time <= time
            BY <1>6, <2>1
        <3> HIDE DEF c
        <3>4. UNCHANGED time BY <1>14 DEF Respond
        <3>. QED BY <3>1, <3>2, <3>3, <3>4, <1>20
    <2>. QED BY <1>14, <2>2, <1>1, <1>3, <1>4 DEF Respond
<1>15. CASE WriteTemporary(r)
    <2>1. CallOk
        <3>1. call[r].received \in Nat /\ call[r].received <= time
            BY <1>15 DEF WriteTemporary, MetadataInv, CallsAreRecent, MetadataTypes
        <3> DEFINE c == [call[r] EXCEPT !.at = "rename", !.fetched = time]
        <3>2. call' = [call EXCEPT ![r] = c] /\ UNCHANGED time BY <1>15, <1>6 DEF WriteTemporary
        <3>3. c \in [at : {"idle", "request", "write", "rename"}, attempt : Nat, seen : Nat,
                     received : Nat, fetched : Nat]
            BY <1>6
        <3>4. /\ c.at = "rename" /\ c.received = call[r].received /\ c.seen = call[r].seen
              /\ c.fetched = time
            BY <1>6
        <3>5. call[r].received - call[r].seen <= 1 /\ time - call[r].received <= Delay
            BY <1>15 DEF WriteTemporary, MetadataInv, CallsAreRecent
        <3> HIDE DEF c
        <3>6. time <= time BY <1>6
        <3>. QED BY <3>1, <3>2, <3>3, <3>4, <3>5, <3>6, <1>20
    <2>. QED BY <1>15, <2>1, <1>1, <1>3, <1>4 DEF WriteTemporary
<1>16. CASE WriteFails(r)
    BY <1>16, <1>3, <1>4, <1>7, <1>8 DEF WriteFails, GivesTheAnswer
<1>17. CASE Replace(r)
    <2>1. CacheOk
        BY <1>17, <1>6 DEF Replace, CacheOk, MetadataInv, MetadataTypes, CallsAreRecent, FileIsRecent
    <2>. QED BY <1>17, <2>1, <1>4, <1>7, <1>8 DEF Replace, GivesTheAnswer
<1>18. CASE RenameFails(r)
    <2>1. CASE cache' = NoFile /\ call' = [call EXCEPT ![r].attempt = @ + 1] /\ UNCHANGED answer
        <3>1. CallOk
            BY <1>18, <2>1, <1>6 DEF RenameFails, CallOk, MetadataInv, MetadataTypes, CallsAreRecent
        <3>2. CacheOk BY <2>1 DEF CacheOk, FileIsRecent
        <3>. QED BY <1>18, <2>1, <3>1, <3>2, <1>1, <1>4 DEF RenameFails
    <2>2. CASE GivesTheAnswer(r) /\ UNCHANGED cache
        BY <1>18, <2>2, <1>3, <1>4, <1>7, <1>8 DEF RenameFails, GivesTheAnswer
    <2>. QED BY <1>18, <2>1, <2>2 DEF RenameFails
<1>19. CASE Dies(r)
    BY <1>19, <1>3, <1>4, <1>7, <1>9 DEF Dies
<1>. QED BY <1>5, <1>10, <1>11, <1>12, <1>13, <1>14, <1>15, <1>16, <1>17, <1>18, <1>19

LEMMA OfferSteps ==
    ASSUME MetadataInv, NEW symbol \in Universe, Offer(symbol), UNCHANGED endpoint
    PROVE  MetadataInv'
<1>1. PICK wrong \in {"nothing", "trading", "quote"}, next \in {0, 2, LastTime + 1} :
        LET s == [seen |-> time, trading |-> wrong # "trading", filters |-> TRUE,
                  quote |-> wrong # "quote", rate |-> TRUE, next |-> next]
        IN  /\ offered' = [offered EXCEPT ![symbol] = s]
            /\ admitted' = Accepted(symbol, s)
            /\ UNCHANGED <<time, cache, cooling, call, answer>>
    BY DEF Offer
<1> DEFINE s == [seen |-> time, trading |-> wrong # "trading", filters |-> TRUE,
                 quote |-> wrong # "quote", rate |-> TRUE, next |-> next]
<1>2. time \in Nat \ {0} /\ DOMAIN admitted = Universe /\ DOMAIN offered = Universe
    BY DEF MetadataInv, MetadataTypes
<1>3. MetadataTypes' /\ FileIsRecent' /\ CallsAreRecent' /\ AnswersAreBounded'
    BY <1>1 DEF MetadataInv, MetadataTypes, FileIsRecent, CallsAreRecent, AnswersAreBounded, Accepted
<1>4. Refusal(s, time) = "none" => s.trading /\ s.quote
    BY DEF Refusal
<1>5. GateIsLatest'
    <2> SUFFICES ASSUME NEW t \in Universe, admitted'[t] # Missing
                 PROVE  /\ admitted'[t] = offered'[t]
                        /\ offered'[t].seen \in Nat \ {0} /\ offered'[t].trading /\ offered'[t].quote
        BY <1>1 DEF GateIsLatest
    <2>1. CASE t = symbol
        <3>1. offered'[t] = s /\ admitted'[t] = (IF Refusal(s, time) = "none" THEN s ELSE Missing)
            BY <1>1, <1>2, <2>1 DEF Accepted
        <3>. QED BY <3>1, <1>2, <1>4
    <2>2. CASE t # symbol
        <3>1. offered'[t] = offered[t] /\ admitted'[t] = admitted[t]
            BY <1>1, <1>2, <2>2 DEF Accepted
        <3>. QED BY <3>1 DEF MetadataInv, GateIsLatest
    <2>. QED BY <2>1, <2>2
<1>. QED BY <1>3, <1>5 DEF MetadataInv

LEMMA MetadataSteps == MetadataInv /\ [MetadataNext]_metadataVars => MetadataInv'
<1> SUFFICES ASSUME MetadataInv, [MetadataNext]_metadataVars PROVE MetadataInv'
    OBVIOUS
<1>1. CASE Calls /\ UNCHANGED endpoint
    BY <1>1, CallSteps
<1>2. CASE (\E s \in Universe : Offer(s)) /\ UNCHANGED endpoint
    BY <1>2, OfferSteps
<1>3. CASE Passes /\ UNCHANGED endpoint
    BY <1>3, MetadataAssumption DEF Passes, MetadataInv, MetadataTypes, FileIsRecent, CallsAreRecent,
       AnswersAreBounded, GateIsLatest
<1>4. CASE UNCHANGED metadataVars
    BY <1>4 DEF metadataVars, MetadataInv, MetadataTypes, FileIsRecent, CallsAreRecent,
       AnswersAreBounded, GateIsLatest
<1>. QED BY <1>1, <1>2, <1>3, <1>4 DEF MetadataNext, CacheNext, GateNext

LEMMA ReadyIsLatest == MetadataInv => ReadyOnTheLatest
<1> SUFFICES ASSUME MetadataInv, IsReadyAt(time), NEW s \in Universe
             PROVE  /\ admitted[s] = offered[s] /\ offered[s].trading /\ offered[s].quote
                    /\ time - offered[s].seen <= MaxAge
    BY DEF ReadyOnTheLatest
<1>1. admitted[s] # Missing /\ Refusal(admitted[s], time) = "none"
    BY DEF IsReadyAt
<1>2. /\ admitted[s] = offered[s] /\ offered[s].seen \in Nat \ {0}
      /\ offered[s].trading /\ offered[s].quote
    BY <1>1 DEF MetadataInv, GateIsLatest
<1>3. ~(offered[s].seen # 0 /\ (offered[s].seen > time \/ time - offered[s].seen > MaxAge))
    BY <1>1, <1>2 DEF Refusal
<1>. QED BY <1>2, <1>3, MetadataAssumption DEF MetadataInv, MetadataTypes

\* For any number of callers that share a file, every time to live and every universe:
\* what a call returns was true within the lifetime it is served under and the time a
\* call takes, and a gate that is ready is so on the last thing it was offered.
THEOREM MetadataStaysCurrent == MetadataSpec => []MetadataIsCurrent
<1>1. MetadataInv => MetadataIsCurrent
    BY ReadyIsLatest DEF MetadataInv, MetadataIsCurrent
<1>. QED BY <1>1, MetadataStarts, MetadataSteps, PTL DEF MetadataSpec

-----------------------------------------------------------------------------
(* The testnet runner.                                                     *)

\* A call that is still to be made, by its name.
CallTo(name) == [call |-> name]
Reviews == {[call |-> "review", orders |-> others] : others \in SUBSET [id : Nat, side : {1, -1}, left : Nat]}

Intents == [side : {1, -1}, price : IntentPrices, quantity : Nat]
Placings == {[call |-> "place", intent |-> i] : i \in Intents}

\* The calls a handler may still have to make, by the phase.
Startings ==
    {<<CallTo("orders"), CallTo("position"), CallTo("flat")>>, <<CallTo("position"), CallTo("flat")>>, <<CallTo("flat")>>}
        \cup {<<v, CallTo("position"), CallTo("flat")>> : v \in Reviews}
Polls ==
    {<<>>, <<CallTo("rebalance")>>, <<CallTo("orders"), CallTo("rebalance")>>,
     <<CallTo("position"), CallTo("orders"), CallTo("rebalance")>>,
     <<CallTo("query"), CallTo("position"), CallTo("orders"), CallTo("rebalance")>>, <<CallTo("cancel")>>}
        \cup {<<v, CallTo("rebalance")>> : v \in Reviews}
Replacements == {<<p>> : p \in Placings} \cup {<<CallTo("cancel"), p>> : p \in Placings}
Finals ==
    {<<CallTo("checkpoint")>>, <<CallTo("orders"), CallTo("checkpoint")>>,
     <<CallTo("position"), CallTo("orders"), CallTo("checkpoint")>>,
     <<CallTo("cancel"), CallTo("position"), CallTo("orders"), CallTo("checkpoint")>>}
        \cup {<<v, CallTo("checkpoint")>> : v \in Reviews}

RunnerTypes ==
    /\ phase \in {"off", "starting", "live", "stopping"}
    /\ send \in BOOLEAN /\ halted \in BOOLEAN /\ placed \in Nat
    /\ exposure \in Int /\ position \in Int
    /\ working = NoOrder \/ working \in [id : 1 .. placed, intent : Intents]
    /\ open \subseteq {Foreign} \cup [id : 1 .. placed, side : {1, -1}, left : Nat]

HandlerInv ==
    /\ phase = "off" => todo = <<>>
    /\ phase = "starting" => todo \in Startings
    /\ phase = "live" => todo \in Polls \/ (send /\ todo \in Replacements)
    /\ phase = "stopping" => todo \in Finals

\* Of its orders the runner knows each but one whose placement it believes failed, and it
\* does not go on after that.
Tracked == \A o \in Own : o.id = working.id

OrdersInv ==
    /\ \A o, p \in Own : o = p
    /\ phase = "live" \/ (phase = "stopping" /\ ~halted) => Tracked
    /\ phase = "starting" => working = NoOrder /\ ~halted
    /\ phase = "live" => ~halted
    /\ Now("place") => working = NoOrder
    /\ working # NoOrder /\ phase \in {"live", "stopping"} => send

\* What the start has done with the orders an earlier process left.
StartInv ==
    phase = "starting" =>
        /\ Now("review") => \A o \in Own : \E p \in Head(todo).orders : p.id = o.id
        /\ Now("position") \/ Now("flat") => Own = {}

\* What the end knows: that nothing can trade any more, and then the position.
EndInv ==
    /\ phase = "stopping" /\ ~halted =>
        /\ ~Now("cancel") => working = NoOrder /\ Own = {}
        /\ Now("orders") \/ Now("review") \/ Now("checkpoint") => position = exposure
    /\ exit = "clean" => phase = "off" /\ Own = {} /\ exposure = 0 /\ checkpoint = "clear"

RunnerInv == RunnerTypes /\ HandlerInv /\ OrdersInv /\ StartInv /\ EndInv

-----------------------------------------------------------------------------
LEMMA Tuples ==
    /\ \A a : <<a>> # <<>> /\ Head(<<a>>) = a /\ Tail(<<a>>) = <<>>
    /\ \A a, b : <<a, b>> # <<>> /\ Head(<<a, b>>) = a /\ Tail(<<a, b>>) = <<b>>
    /\ \A a, b, c : <<a, b, c>> # <<>> /\ Head(<<a, b, c>>) = a /\ Tail(<<a, b, c>>) = <<b, c>>
    /\ \A a, b, c, d : /\ <<a, b, c, d>> # <<>> /\ Head(<<a, b, c, d>>) = a
                       /\ Tail(<<a, b, c, d>>) = <<b, c, d>>
OBVIOUS

LEMMA Prepended ==
    ASSUME NEW T, NEW a \in T, NEW t \in Seq(T), NEW u \in Seq(T), Len(u) = Len(t) + 1,
           u[1] = a, \A i \in 1 .. Len(t) : u[i + 1] = t[i]
    PROVE  <<a>> \o t = u
<1> DEFINE s == <<a>>
<1>1. s \in Seq(T) /\ Len(s) = 1 /\ s[1] = a
    OBVIOUS
<1> HIDE DEF s
<1>2. /\ s \o t \in Seq(T) /\ Len(s \o t) = Len(s) + Len(t)
      /\ \A i \in 1 .. Len(s) + Len(t) : (s \o t)[i] = IF i <= Len(s) THEN s[i] ELSE t[i - Len(s)]
    BY <1>1, ConcatProperties, Zenon
<1>3. ASSUME NEW i \in 1 .. 1 + Len(t) PROVE (s \o t)[i] = u[i]
    <2>1. (s \o t)[i] = IF i <= 1 THEN s[i] ELSE t[i - 1]
        BY <1>1, <1>2
    <2>2. CASE i = 1
        BY <1>1, <2>1, <2>2
    <2>3. CASE i # 1
        <3>1. i - 1 \in 1 .. Len(t) /\ (i - 1) + 1 = i BY <2>3
        <3>. QED BY <2>1, <2>3, <3>1
    <2>. QED BY <2>2, <2>3
<1>4. Len(s \o t) = Len(u) /\ \A i \in 1 .. Len(s \o t) : (s \o t)[i] = u[i]
    BY <1>1, <1>2, <1>3
<1>5. s \o t = u
    BY <1>2, <1>4, SeqEqual, Zenon
<1>. QED BY <1>5 DEF s

LEMMA Joined ==
    /\ \A a : <<a>> \o <<>> = <<a>> /\ <<>> \o <<a>> = <<a>>
    /\ \A a, b : <<a>> \o <<b>> = <<a, b>>
    /\ \A a, b, c : <<a>> \o <<b, c>> = <<a, b, c>> /\ <<>> \o <<a, b, c>> = <<a, b, c>>
    /\ \A a, b, c, d : <<a>> \o <<b, c, d>> = <<a, b, c, d>>
<1>1. \A a : <<a>> \o <<>> = <<a>>
    OBVIOUS
<1>2. \A a : <<>> \o <<a>> = <<a>>
    OBVIOUS
<1>3. ASSUME NEW a, NEW b PROVE <<a>> \o <<b>> = <<a, b>>
    <2> DEFINE t == <<b>> u == <<a, b>>
    <2>1. t \in Seq({a, b}) /\ u \in Seq({a, b})
        OBVIOUS
    <2>2. u[1] = a /\ Len(t) = 1 /\ Len(u) = 2 /\ t[1] = b /\ u[2] = b
        OBVIOUS
    <2> HIDE DEF t, u
    <2>3. Len(u) = Len(t) + 1 /\ \A i \in 1 .. Len(t) : u[i + 1] = t[i]
        BY <2>2
    <2>4. a \in {a, b}
        OBVIOUS
    <2>5. <<a>> \o t = u
        BY <2>1, <2>2, <2>3, <2>4, Prepended, Zenon
    <2>. QED BY <2>5 DEF t, u
<1>4. ASSUME NEW a, NEW b, NEW c PROVE <<a>> \o <<b, c>> = <<a, b, c>>
    <2> DEFINE t == <<b, c>> u == <<a, b, c>>
    <2>1. t \in Seq({a, b, c}) /\ u \in Seq({a, b, c})
        OBVIOUS
    <2>2. u[1] = a /\ Len(t) = 2 /\ Len(u) = 3 /\ t[1] = b /\ u[2] = b /\ t[2] = c /\ u[3] = c
        OBVIOUS
    <2> HIDE DEF t, u
    <2>3. Len(u) = Len(t) + 1 /\ \A i \in 1 .. Len(t) : u[i + 1] = t[i]
        BY <2>2
    <2>4. a \in {a, b, c}
        OBVIOUS
    <2>5. <<a>> \o t = u
        BY <2>1, <2>2, <2>3, <2>4, Prepended, Zenon
    <2>. QED BY <2>5 DEF t, u
<1>5. \A a, b, c : <<>> \o <<a, b, c>> = <<a, b, c>>
    OBVIOUS
<1>6. ASSUME NEW a, NEW b, NEW c, NEW d PROVE <<a>> \o <<b, c, d>> = <<a, b, c, d>>
    <2> DEFINE t == <<b, c, d>> u == <<a, b, c, d>>
    <2>1. t \in Seq({a, b, c, d}) /\ u \in Seq({a, b, c, d})
        OBVIOUS
    <2>2. u[1] = a /\ Len(t) = 3 /\ Len(u) = 4 /\ t[1] = b /\ u[2] = b /\ t[2] = c /\ u[3] = c /\ t[3] = d /\ u[4] = d
        OBVIOUS
    <2> HIDE DEF t, u
    <2>3. Len(u) = Len(t) + 1 /\ \A i \in 1 .. Len(t) : u[i + 1] = t[i]
        BY <2>2
    <2>4. a \in {a, b, c, d}
        OBVIOUS
    <2>5. <<a>> \o t = u
        BY <2>1, <2>2, <2>3, <2>4, Prepended, Zenon
    <2>. QED BY <2>5 DEF t, u
<1>. QED BY <1>1, <1>2, <1>3, <1>4, <1>5, <1>6

LEMMA Called ==
    /\ \A a : CallsOf(<<a>>) = <<CallTo(a)>>
    /\ \A a, b, c : CallsOf(<<a, b, c>>) = <<CallTo(a), CallTo(b), CallTo(c)>>
BY DEF CallsOf, CallTo

\* Where in its handler the runner is, by the call it is about to make.
LEMMA AtCall ==
    ASSUME HandlerInv, phase \in {"off", "starting", "live", "stopping"}
    PROVE  /\ Now("query") => /\ phase = "live"
                              /\ Tail(todo) = <<CallTo("position"), CallTo("orders"), CallTo("rebalance")>>
           /\ Now("position") => \/ phase = "starting" /\ Tail(todo) = <<CallTo("flat")>>
                                 \/ phase = "live" /\ Tail(todo) = <<CallTo("orders"), CallTo("rebalance")>>
                                 \/ phase = "stopping" /\ Tail(todo) = <<CallTo("orders"), CallTo("checkpoint")>>
           /\ Now("flat") => phase = "starting" /\ Tail(todo) = <<>>
           /\ Now("orders") \/ Now("review") =>
                \/ phase = "starting" /\ Tail(todo) = <<CallTo("position"), CallTo("flat")>>
                \/ phase = "live" /\ Tail(todo) = <<CallTo("rebalance")>>
                \/ phase = "stopping" /\ Tail(todo) = <<CallTo("checkpoint")>>
           /\ Now("review") => Head(todo) \in Reviews
           /\ Now("cancel") =>
                \/ phase = "live" /\ Tail(todo) = <<>>
                \/ phase = "live" /\ send /\ \E p \in Placings : Tail(todo) = <<p>>
                \/ /\ phase = "stopping"
                   /\ Tail(todo) = <<CallTo("position"), CallTo("orders"), CallTo("checkpoint")>>
           /\ Now("place") => phase = "live" /\ send /\ Tail(todo) = <<>> /\ Head(todo) \in Placings
           /\ Now("rebalance") => phase = "live" /\ Tail(todo) = <<>>
           /\ Now("checkpoint") => phase = "stopping" /\ Tail(todo) = <<>>
           /\ todo # <<>> => phase \in {"starting", "live", "stopping"}
<1>1. /\ \A name : CallTo(name).call = name
      /\ \A v \in Reviews : v.call = "review"
      /\ \A p \in Placings : p.call = "place"
    BY DEF CallTo, Reviews, Placings
<1> HIDE DEF CallTo, Reviews, Placings
<1>2. CASE phase = "starting" /\ todo \in Startings
    <2>1. CASE todo = <<CallTo("orders"), CallTo("position"), CallTo("flat")>>
        BY <1>1, <1>2, <2>1, Tuples DEF Now
    <2>2. CASE todo = <<CallTo("position"), CallTo("flat")>>
        BY <1>1, <1>2, <2>2, Tuples DEF Now
    <2>3. CASE todo = <<CallTo("flat")>>
        BY <1>1, <1>2, <2>3, Tuples DEF Now
    <2>4. CASE \E v \in Reviews : todo = <<v, CallTo("position"), CallTo("flat")>>
        BY <1>1, <1>2, <2>4, Tuples DEF Now
    <2>. QED BY <1>2, <2>1, <2>2, <2>3, <2>4 DEF Startings
<1>3. CASE phase = "live" /\ todo \in Polls
    <2>1. CASE todo = <<>>
        BY <1>3, <2>1 DEF Now
    <2>2. CASE todo = <<CallTo("rebalance")>>
        BY <1>1, <1>3, <2>2, Tuples DEF Now
    <2>3. CASE todo = <<CallTo("orders"), CallTo("rebalance")>>
        BY <1>1, <1>3, <2>3, Tuples DEF Now
    <2>4. CASE todo = <<CallTo("position"), CallTo("orders"), CallTo("rebalance")>>
        BY <1>1, <1>3, <2>4, Tuples DEF Now
    <2>5. CASE todo = <<CallTo("query"), CallTo("position"), CallTo("orders"), CallTo("rebalance")>>
        BY <1>1, <1>3, <2>5, Tuples DEF Now
    <2>6. CASE todo = <<CallTo("cancel")>>
        BY <1>1, <1>3, <2>6, Tuples DEF Now
    <2>7. CASE \E v \in Reviews : todo = <<v, CallTo("rebalance")>>
        BY <1>1, <1>3, <2>7, Tuples DEF Now
    <2>. QED BY <1>3, <2>1, <2>2, <2>3, <2>4, <2>5, <2>6, <2>7 DEF Polls
<1>4. CASE phase = "live" /\ send /\ todo \in Replacements
    <2>1. CASE \E p \in Placings : todo = <<p>>
        BY <1>1, <1>4, <2>1, Tuples DEF Now
    <2>2. CASE \E p \in Placings : todo = <<CallTo("cancel"), p>>
        BY <1>1, <1>4, <2>2, Tuples DEF Now
    <2>. QED BY <1>4, <2>1, <2>2 DEF Replacements
<1>5. CASE phase = "stopping" /\ todo \in Finals
    <2>1. CASE todo = <<CallTo("checkpoint")>>
        BY <1>1, <1>5, <2>1, Tuples DEF Now
    <2>2. CASE todo = <<CallTo("orders"), CallTo("checkpoint")>>
        BY <1>1, <1>5, <2>2, Tuples DEF Now
    <2>3. CASE todo = <<CallTo("position"), CallTo("orders"), CallTo("checkpoint")>>
        BY <1>1, <1>5, <2>3, Tuples DEF Now
    <2>4. CASE todo = <<CallTo("cancel"), CallTo("position"), CallTo("orders"), CallTo("checkpoint")>>
        BY <1>1, <1>5, <2>4, Tuples DEF Now
    <2>5. CASE \E v \in Reviews : todo = <<v, CallTo("checkpoint")>>
        BY <1>1, <1>5, <2>5, Tuples DEF Now
    <2>. QED BY <1>5, <2>1, <2>2, <2>3, <2>4, <2>5 DEF Finals
<1>6. CASE todo = <<>>
    BY <1>6 DEF Now
<1>. QED BY <1>2, <1>3, <1>4, <1>5, <1>6 DEF HandlerInv

LEMMA NextCall ==
    ASSUME NEW a, NEW b, NEW c, NEW d,
           todo' = <<a>> \/ todo' = <<a, b>> \/ todo' = <<a, b, c>> \/ todo' = <<a, b, c, d>>
    PROVE  \A name : Now(name)' <=> (a.call = name)
<1>1. todo' # <<>> /\ Head(todo') = a
    BY Tuples
<1>. QED BY <1>1 DEF Now

LEMMA CallNames ==
    /\ \A name : CallTo(name).call = name
    /\ \A v \in Reviews : v.call = "review"
    /\ \A p \in Placings : p.call = "place"
BY DEF CallTo, Reviews, Placings

One == \A o, p \in Own : o = p

-----------------------------------------------------------------------------
(* What has to be shown of a step, by the phase it leads to.               *)

LEMMA ToOff ==
    ASSUME RunnerTypes', One', phase' = "off", todo' = <<>>,
           exit' = "clean" => Own' = {} /\ exposure' = 0 /\ checkpoint' = "clear"
    PROVE  RunnerInv'
BY DEF RunnerInv, HandlerInv, OrdersInv, StartInv, EndInv, One, Now

LEMMA ToStarting ==
    ASSUME RunnerTypes', One', phase' = "starting", todo' \in Startings,
           working' = NoOrder, ~halted', ~Now("place")', exit' # "clean",
           Now("review")' => \A o \in Own' : \E p \in Head(todo').orders : p.id = o.id,
           Now("position")' \/ Now("flat")' => Own' = {}
    PROVE  RunnerInv'
BY DEF RunnerInv, HandlerInv, OrdersInv, StartInv, EndInv, One

LEMMA ToLive ==
    ASSUME RunnerTypes', One', phase' = "live",
           todo' \in Polls \/ (send' /\ todo' \in Replacements),
           Tracked', ~halted', exit' # "clean",
           Now("place")' => working' = NoOrder,
           working' # NoOrder => send'
    PROVE  RunnerInv'
BY DEF RunnerInv, HandlerInv, OrdersInv, StartInv, EndInv, One

LEMMA ToStopping ==
    ASSUME RunnerTypes', One', phase' = "stopping", todo' \in Finals,
           ~Now("place")', exit' # "clean", working' # NoOrder => send',
           ~halted' =>
             /\ Tracked'
             /\ ~Now("cancel")' => working' = NoOrder /\ Own' = {}
             /\ Now("orders")' \/ Now("review")' \/ Now("checkpoint")' => position' = exposure'
    PROVE  RunnerInv'
BY DEF RunnerInv, HandlerInv, OrdersInv, StartInv, EndInv, One

LEMMA ToCheckpoint ==
    ASSUME RunnerTypes', One', phase' = "stopping", todo' = CallsOf(<<"checkpoint">>), halted',
           exit' # "clean", working' # NoOrder => send'
    PROVE  RunnerInv'
<1>1. todo' = <<CallTo("checkpoint")>>
    BY Called
<1>2. \A name : Now(name)' <=> (CallTo("checkpoint").call = name)
    BY <1>1, NextCall
<1>3. ~Now("place")'
    BY <1>2, CallNames
<1>. QED BY <1>1, <1>3, ToStopping DEF Finals

\* The process ends or goes on to its checkpoint, whatever the call was.
LEMMA FailureKeeps ==
    ASSUME RunnerInv, Fails, todo # <<>>, RunnerTypes', One',
           working' = working \/ working' = NoOrder
    PROVE  RunnerInv'
<1>1. CASE phase = "live" \/ Now("cancel")
    <2>1. phase \in {"live", "stopping"}
        BY <1>1, AtCall DEF RunnerInv, RunnerTypes
    <2>2. /\ halted' /\ phase' = "stopping" /\ todo' = CallsOf(<<"checkpoint">>)
          /\ exit' = exit /\ send' = send
        BY <1>1 DEF Fails
    <2>3. exit # "clean" /\ (working # NoOrder => send)
        BY <2>1 DEF RunnerInv, EndInv, OrdersInv
    <2>. QED BY <2>2, <2>3, ToCheckpoint
<1>2. CASE ~(phase = "live" \/ Now("cancel"))
    BY <1>2, ToOff DEF Fails, Ends
<1>. QED BY <1>1, <1>2

LEMMA PhaseHere ==
    ASSUME RunnerInv
    PROVE  /\ HandlerInv /\ phase \in {"off", "starting", "live", "stopping"}
           /\ One
           /\ phase # "off" => exit # "clean"
           /\ phase \in {"live", "stopping"} => (working # NoOrder => send)
           /\ \A o \in Own : o.id \in 1 .. placed /\ o # Foreign /\ o \in open
           /\ placed \in Nat
BY DEF RunnerInv, RunnerTypes, OrdersInv, EndInv, One, Own, Foreign

-----------------------------------------------------------------------------
(* One lemma for each step of the runner.                                  *)

LEMMA StartKeeps == RunnerInv /\ Start => RunnerInv'
<1> SUFFICES ASSUME RunnerInv, Start PROVE RunnerInv'
    OBVIOUS
<1>1. todo' = <<CallTo("orders"), CallTo("position"), CallTo("flat")>>
    BY Called DEF Start
<1>2. \A name : Now(name)' <=> (CallTo("orders").call = name)
    BY <1>1, NextCall
<1>3. ~Now("place")' /\ ~Now("review")' /\ ~Now("position")' /\ ~Now("flat")'
    BY <1>2, CallNames
<1>4. RunnerTypes' /\ One'
    <2>1. send' \in BOOLEAN /\ halted' \in BOOLEAN
        BY DEF Start
    <2>2. phase' = "starting" /\ working' = NoOrder /\ position' = 0
          /\ UNCHANGED <<open, exposure, placed>>
        BY DEF Start, exchange
    <2>3. One' BY <2>2, PhaseHere DEF One, Own
    <2>4. RunnerTypes' BY <2>1, <2>2 DEF RunnerInv, RunnerTypes
    <2>. QED BY <2>3, <2>4
<1>. QED BY <1>1, <1>3, <1>4, ToStarting DEF Start, Startings

LEMMA CallFailsKeeps == RunnerInv /\ CallFails => RunnerInv'
<1> SUFFICES ASSUME RunnerInv, CallFails PROVE RunnerInv'
    OBVIOUS
<1>1. One' /\ todo # <<>> /\ working' = working
    BY PhaseHere DEF CallFails, One, Own, exchange
<1>2. CASE Now("checkpoint")
    <2>1. RunnerTypes'
        BY <1>2 DEF CallFails, RunnerInv, RunnerTypes, exchange, Ends
    <2>. QED BY <1>1, <1>2, <2>1, ToOff DEF CallFails, Ends
<1>3. CASE ~Now("checkpoint")
    <2>1. RunnerTypes'
        BY <1>3 DEF CallFails, RunnerInv, RunnerTypes, exchange, Fails, Ends
    <2>. QED BY <1>1, <1>3, <2>1, FailureKeeps DEF CallFails
<1>. QED BY <1>2, <1>3

LEMMA QueryKeeps == RunnerInv /\ Query => RunnerInv'
<1> SUFFICES ASSUME RunnerInv, Query PROVE RunnerInv'
    OBVIOUS
<1>1. /\ phase' = "live" /\ phase = "live"
      /\ todo' = <<CallTo("position"), CallTo("orders"), CallTo("rebalance")>>
    BY AtCall, PhaseHere DEF Query, Continues
<1>2. \A name : Now(name)' <=> (CallTo("position").call = name)
    BY <1>1, NextCall
<1>3. ~Now("place")'
    BY <1>2, CallNames
<1>4. RunnerTypes' /\ One' /\ Own' = Own
    BY PhaseHere DEF Query, Continues, RunnerInv, RunnerTypes, One, Own, exchange, bounds
<1>5. Tracked'
    BY <1>1, <1>4 DEF Query, Tracked, RunnerInv, OrdersInv
<1>6. ~halted' /\ exit' # "clean" /\ (working' # NoOrder => send')
    BY <1>1, PhaseHere DEF Query, Continues, RunnerInv, OrdersInv
<1>. QED BY <1>1, <1>3, <1>4, <1>5, <1>6, ToLive DEF Polls

LEMMA RefreshKeeps == RunnerInv /\ RefreshPosition => RunnerInv'
<1> SUFFICES ASSUME RunnerInv, RefreshPosition PROVE RunnerInv'
    OBVIOUS
<1>1. /\ Now("position") /\ todo # <<>> /\ position' = exposure
      /\ UNCHANGED <<working, open, exposure, placed>>
    BY DEF RefreshPosition, Now, exchange, bounds
<1>2. One' /\ Own' = Own
    BY <1>1, PhaseHere DEF One, Own
<1>3. CASE Fails
    <2>1. RunnerTypes'
        BY <1>1, <1>3 DEF Fails, Ends, RunnerInv, RunnerTypes
    <2>. QED BY <1>1, <1>2, <1>3, <2>1, FailureKeeps
<1>4. CASE Continues(Tail(todo))
    <2>1. RunnerTypes' /\ UNCHANGED <<phase, send, halted, exit>> /\ todo' = Tail(todo)
        BY <1>1, <1>4 DEF Continues, RunnerInv, RunnerTypes
    <2>2. CASE phase = "starting" /\ todo' = <<CallTo("flat")>>
        <3>1. \A name : Now(name)' <=> (CallTo("flat").call = name)
            BY <2>2, NextCall
        <3>2. ~Now("place")' /\ ~Now("review")'
            BY <3>1, CallNames
        <3>3. Own' = {}
            BY <1>1, <1>2, <2>2 DEF RunnerInv, StartInv
        <3>4. working' = NoOrder /\ ~halted' /\ exit' # "clean"
            BY <1>1, <2>1, <2>2, PhaseHere DEF RunnerInv, OrdersInv
        <3>. QED BY <1>2, <2>1, <2>2, <3>2, <3>3, <3>4, ToStarting DEF Startings
    <2>3. CASE phase = "live" /\ todo' = <<CallTo("orders"), CallTo("rebalance")>>
        <3>1. \A name : Now(name)' <=> (CallTo("orders").call = name)
            BY <2>3, NextCall
        <3>2. ~Now("place")'
            BY <3>1, CallNames
        <3>3. Tracked' /\ ~halted' /\ exit' # "clean" /\ (working' # NoOrder => send')
            BY <1>1, <1>2, <2>1, <2>3, PhaseHere DEF RunnerInv, OrdersInv, Tracked
        <3>. QED BY <1>2, <2>1, <2>3, <3>2, <3>3, ToLive DEF Polls
    <2>4. CASE phase = "stopping" /\ todo' = <<CallTo("orders"), CallTo("checkpoint")>>
        <3>1. \A name : Now(name)' <=> (CallTo("orders").call = name)
            BY <2>4, NextCall
        <3>2. ~Now("place")'
            BY <3>1, CallNames
        <3>3. ~Now("cancel")
            BY <1>1 DEF Now
        <3>4. exit' # "clean" /\ (working' # NoOrder => send')
            BY <1>1, <2>1, <2>4, PhaseHere
        <3>5. ~halted' => Tracked' /\ working' = NoOrder /\ Own' = {} /\ position' = exposure'
            BY <1>1, <1>2, <2>1, <2>4, <3>3 DEF RunnerInv, OrdersInv, EndInv, Tracked
        <3>. QED BY <1>2, <2>1, <2>4, <3>2, <3>4, <3>5, ToStopping DEF Finals
    <2>. QED BY <1>1, <2>1, <2>2, <2>3, <2>4, AtCall, PhaseHere
<1>. QED BY <1>3, <1>4 DEF RefreshPosition

LEMMA CheckFlatKeeps == RunnerInv /\ CheckFlat => RunnerInv'
<1> SUFFICES ASSUME RunnerInv, CheckFlat PROVE RunnerInv'
    OBVIOUS
<1>1. /\ Now("flat") /\ phase = "starting" /\ UNCHANGED <<working, open, exposure, position, placed>>
    BY AtCall, PhaseHere DEF CheckFlat, exchange, bounds
<1>2. One' /\ Own' = Own
    BY <1>1, PhaseHere DEF One, Own
<1>3. CASE position # 0
    <2>1. RunnerTypes'
        BY <1>1, <1>3 DEF CheckFlat, Ends, RunnerInv, RunnerTypes
    <2>. QED BY <1>2, <1>3, <2>1, ToOff DEF CheckFlat, Ends
<1>4. CASE position = 0
    <2>1. phase' = "live" /\ todo' = <<>> /\ UNCHANGED <<send, halted, exit>>
        BY <1>4 DEF CheckFlat
    <2>2. RunnerTypes'
        BY <1>1, <2>1 DEF RunnerInv, RunnerTypes
    <2>3. Own' = {} /\ working' = NoOrder /\ ~halted' /\ exit' # "clean"
        BY <1>1, <1>2, <2>1, PhaseHere DEF RunnerInv, StartInv, OrdersInv
    <2>4. Tracked' /\ ~Now("place")'
        BY <2>1, <2>3 DEF Tracked, Now
    <2>. QED BY <1>2, <2>1, <2>2, <2>3, <2>4, ToLive DEF Polls
<1>. QED BY <1>3, <1>4

LEMMA ReadOrdersKeeps == RunnerInv /\ ReadOrders => RunnerInv'
<1> SUFFICES ASSUME RunnerInv, ReadOrders PROVE RunnerInv'
    OBVIOUS
<1> DEFINE others == {o \in open : o = Foreign \/ o.id # working.id}
           v == [call |-> "review", orders |-> others]
<1>1. /\ Now("orders") /\ todo' = <<v>> \o Tail(todo)
      /\ UNCHANGED <<phase, send, halted, exit, working, open, exposure, position, placed>>
    BY DEF ReadOrders, Continues, exchange, bounds
<1>2. One' /\ Own' = Own /\ RunnerTypes'
    BY <1>1, PhaseHere DEF One, Own, RunnerInv, RunnerTypes
<1>3. v \in Reviews /\ v.call = "review" /\ v.orders = others
    <2>1. others \in SUBSET [id : Nat, side : {1, -1}, left : Nat]
        BY DEF RunnerInv, RunnerTypes, Foreign
    <2>. QED BY <2>1 DEF Reviews
<1>4. ~Now("cancel")
    BY <1>1 DEF Now
<1> HIDE DEF v
<1>5. CASE phase = "starting" /\ Tail(todo) = <<CallTo("position"), CallTo("flat")>>
    <2>1. todo' = <<v, CallTo("position"), CallTo("flat")>>
        <3>1. <<v>> \o <<CallTo("position"), CallTo("flat")>> = <<v, CallTo("position"), CallTo("flat")>>
            BY Joined
        <3>. QED BY <1>1, <1>5, <3>1, Zenon
    <2>2. \A name : Now(name)' <=> (v.call = name)
        BY <2>1, NextCall
    <2>3. working' = NoOrder /\ ~halted' /\ exit' # "clean" /\ working = NoOrder
        BY <1>1, <1>5, PhaseHere DEF RunnerInv, OrdersInv
    <2>4. \A o \in Own' : o \in others
        BY <1>2, <2>3, PhaseHere DEF NoOrder
    <2>5. Head(todo') = v
        BY <2>1, Tuples
    <2>6. \A o \in Own' : \E p \in Head(todo').orders : p.id = o.id
        BY <1>3, <2>4, <2>5
    <2>7. ~Now("place")' /\ ~Now("position")' /\ ~Now("flat")'
        BY <1>3, <2>2
    <2>. QED BY <1>1, <1>2, <1>3, <1>5, <2>1, <2>3, <2>6, <2>7, ToStarting DEF Startings
<1>6. CASE phase = "live" /\ Tail(todo) = <<CallTo("rebalance")>>
    <2>1. todo' = <<v, CallTo("rebalance")>>
        BY <1>1, <1>6, Joined
    <2>2. \A name : Now(name)' <=> (v.call = name)
        BY <2>1, NextCall
    <2>3. ~Now("place")'
        BY <1>3, <2>2
    <2>4. Tracked' /\ ~halted' /\ exit' # "clean" /\ (working' # NoOrder => send')
        BY <1>1, <1>2, <1>6, PhaseHere DEF RunnerInv, OrdersInv, Tracked
    <2>. QED BY <1>1, <1>2, <1>3, <1>6, <2>1, <2>3, <2>4, ToLive DEF Polls
<1>7. CASE phase = "stopping" /\ Tail(todo) = <<CallTo("checkpoint")>>
    <2>1. todo' = <<v, CallTo("checkpoint")>>
        BY <1>1, <1>7, Joined
    <2>2. \A name : Now(name)' <=> (v.call = name)
        BY <2>1, NextCall
    <2>3. ~Now("place")'
        BY <1>3, <2>2
    <2>4. exit' # "clean" /\ (working' # NoOrder => send')
        BY <1>1, <1>7, PhaseHere
    <2>5. ~halted' => Tracked' /\ working' = NoOrder /\ Own' = {} /\ position' = exposure'
        BY <1>1, <1>2, <1>4, <1>7 DEF RunnerInv, OrdersInv, EndInv, Tracked
    <2>. QED BY <1>1, <1>2, <1>3, <1>7, <2>1, <2>3, <2>4, <2>5, ToStopping DEF Finals
<1>. QED BY <1>1, <1>5, <1>6, <1>7, AtCall, PhaseHere

\* A review goes on with the calls that follow it, or with the orders that are left.
LEMMA ReviewGoesOn ==
    ASSUME RunnerInv, Now("review"), RunnerTypes', One', Own' \subseteq Own,
           UNCHANGED <<phase, send, halted, exit, working, position, exposure>>,
           \/ todo' = Tail(todo) /\ (phase = "starting" => Own' = {})
           \/ \E v \in Reviews :
                 /\ todo' = <<v>> \o Tail(todo)
                 /\ phase = "starting" => \A o \in Own' : \E p \in v.orders : p.id = o.id
    PROVE  RunnerInv'
<1>1. Tracked => Tracked'
    BY DEF Tracked
<1>2. ~Now("cancel")
    BY DEF Now
<1>3. phase \in {"starting", "live", "stopping"}
    BY AtCall, PhaseHere
<1>4. exit' # "clean" /\ (phase # "starting" => (working' # NoOrder => send'))
    BY <1>3, PhaseHere
<1>5. phase = "starting" => working' = NoOrder /\ ~halted'
    BY DEF RunnerInv, OrdersInv
<1>6. phase = "live" => Tracked' /\ ~halted'
    BY <1>1 DEF RunnerInv, OrdersInv
<1>7. phase = "stopping" /\ ~halted' =>
            Tracked' /\ working' = NoOrder /\ Own' = {} /\ position' = exposure'
    BY <1>1, <1>2 DEF RunnerInv, OrdersInv, EndInv
<1>8. CASE todo' = Tail(todo) /\ (phase = "starting" => Own' = {})
    <2>1. CASE phase = "starting" /\ todo' = <<CallTo("position"), CallTo("flat")>>
        <3>1. \A name : Now(name)' <=> (CallTo("position").call = name)
            BY <2>1, NextCall
        <3>2. ~Now("place")' /\ ~Now("review")'
            BY <3>1, CallNames
        <3>. QED BY <1>4, <1>5, <1>8, <2>1, <3>2, ToStarting DEF Startings
    <2>2. CASE phase = "live" /\ todo' = <<CallTo("rebalance")>>
        <3>1. \A name : Now(name)' <=> (CallTo("rebalance").call = name)
            BY <2>2, NextCall
        <3>2. ~Now("place")'
            BY <3>1, CallNames
        <3>. QED BY <1>4, <1>6, <2>2, <3>2, ToLive DEF Polls
    <2>3. CASE phase = "stopping" /\ todo' = <<CallTo("checkpoint")>>
        <3>1. \A name : Now(name)' <=> (CallTo("checkpoint").call = name)
            BY <2>3, NextCall
        <3>2. ~Now("place")'
            BY <3>1, CallNames
        <3>. QED BY <1>4, <1>7, <2>3, <3>2, ToStopping DEF Finals
    <2>. QED BY <1>8, <2>1, <2>2, <2>3, AtCall, PhaseHere
<1>9. ASSUME NEW v \in Reviews, todo' = <<v>> \o Tail(todo),
             phase = "starting" => \A o \in Own' : \E p \in v.orders : p.id = o.id
      PROVE  RunnerInv'
    <2>1. CASE phase = "starting" /\ todo' = <<v, CallTo("position"), CallTo("flat")>>
        <3>1. \A name : Now(name)' <=> (v.call = name)
            BY <2>1, NextCall
        <3>2. ~Now("place")' /\ ~Now("position")' /\ ~Now("flat")'
            BY <3>1, CallNames
        <3>3. Head(todo') = v
            BY <2>1, Tuples
        <3>. QED BY <1>4, <1>5, <1>9, <2>1, <3>2, <3>3, ToStarting DEF Startings
    <2>2. CASE phase = "live" /\ todo' = <<v, CallTo("rebalance")>>
        <3>1. \A name : Now(name)' <=> (v.call = name)
            BY <2>2, NextCall
        <3>2. ~Now("place")'
            BY <3>1, CallNames
        <3>. QED BY <1>4, <1>6, <2>2, <3>2, ToLive DEF Polls
    <2>3. CASE phase = "stopping" /\ todo' = <<v, CallTo("checkpoint")>>
        <3>1. \A name : Now(name)' <=> (v.call = name)
            BY <2>3, NextCall
        <3>2. ~Now("place")'
            BY <3>1, CallNames
        <3>. QED BY <1>4, <1>7, <2>3, <3>2, ToStopping DEF Finals
    <2>4. /\ <<v>> \o <<CallTo("position"), CallTo("flat")>> = <<v, CallTo("position"), CallTo("flat")>>
          /\ <<v>> \o <<CallTo("rebalance")>> = <<v, CallTo("rebalance")>>
          /\ <<v>> \o <<CallTo("checkpoint")>> = <<v, CallTo("checkpoint")>>
        BY Joined
    <2>5. \/ phase = "starting" /\ Tail(todo) = <<CallTo("position"), CallTo("flat")>>
          \/ phase = "live" /\ Tail(todo) = <<CallTo("rebalance")>>
          \/ phase = "stopping" /\ Tail(todo) = <<CallTo("checkpoint")>>
        BY AtCall, PhaseHere
    <2>. QED BY <1>9, <2>1, <2>2, <2>3, <2>4, <2>5, Zenon
<1>. QED BY <1>8, <1>9

LEMMA ReviewOrderKeeps == RunnerInv /\ ReviewOrder => RunnerInv'
<1> SUFFICES ASSUME RunnerInv, ReviewOrder PROVE RunnerInv'
    OBVIOUS
<1> DEFINE others == Head(todo).orders
<1>1. /\ Now("review") /\ todo # <<>> /\ Head(todo) \in Reviews
      /\ UNCHANGED <<working, position, exposure, placed>>
    BY AtCall, PhaseHere DEF ReviewOrder, Now, bounds
<1>2. phase = "starting" => \A o \in Own : \E p \in others : p.id = o.id
    BY <1>1 DEF RunnerInv, StartInv
<1>3. CASE others = {} /\ Continues(Tail(todo)) /\ UNCHANGED open
    <2>1. Own' = Own /\ One'
        BY <1>3, PhaseHere DEF One, Own
    <2>2. RunnerTypes'
        BY <1>1, <1>3 DEF Continues, RunnerInv, RunnerTypes
    <2>3. phase = "starting" => Own' = {}
        BY <1>2, <1>3, <2>1
    <2>. QED BY <1>1, <1>3, <2>1, <2>2, <2>3, ReviewGoesOn DEF Continues
<1>4. CASE Fails /\ UNCHANGED open
    <2>1. Own' = Own /\ One'
        BY <1>4, PhaseHere DEF One, Own
    <2>2. RunnerTypes'
        BY <1>1, <1>4 DEF Fails, Ends, RunnerInv, RunnerTypes
    <2>. QED BY <1>1, <1>4, <2>1, <2>2, FailureKeeps
<1>5. ASSUME NEW o \in others, open' = {p \in open : p = Foreign \/ p.id # o.id},
             Continues(<<[Head(todo) EXCEPT !.orders = @ \ {o}]>> \o Tail(todo))
      PROVE  RunnerInv'
    <2> DEFINE v == [Head(todo) EXCEPT !.orders = @ \ {o}]
    <2>1. v \in Reviews /\ v.orders = others \ {o}
        <3>1. PICK all \in SUBSET [id : Nat, side : {1, -1}, left : Nat] :
                Head(todo) = [call |-> "review", orders |-> all]
            BY <1>1 DEF Reviews
        <3>2. v = [call |-> "review", orders |-> all \ {o}] /\ others = all
            BY <3>1
        <3>. QED BY <3>2 DEF Reviews
    <2> HIDE DEF v
    <2>2. Own' = {p \in Own : p.id # o.id}
        BY <1>5 DEF Own
    <2>3. Own' \subseteq Own /\ One'
        BY <2>2, PhaseHere DEF One
    <2>4. RunnerTypes'
        BY <1>1, <1>5 DEF Continues, RunnerInv, RunnerTypes
    <2>5. phase = "starting" => \A q \in Own' : \E p \in v.orders : p.id = q.id
        BY <1>2, <2>1, <2>2
    <2>6. todo' = <<v>> \o Tail(todo) /\ UNCHANGED <<phase, send, halted, exit>>
        BY <1>5 DEF Continues, v
    <2>. QED BY <1>1, <2>1, <2>3, <2>4, <2>5, <2>6, ReviewGoesOn
<1>6. ReviewOrder =>
        \/ others = {} /\ Continues(Tail(todo)) /\ UNCHANGED open
        \/ Fails /\ UNCHANGED open
        \/ \E o \in others : /\ open' = {p \in open : p = Foreign \/ p.id # o.id}
                             /\ Continues(<<[Head(todo) EXCEPT !.orders = @ \ {o}]>> \o Tail(todo))
    BY Zenon DEF ReviewOrder
<1>. QED BY <1>3, <1>4, <1>5, <1>6

LEMMA CancelKeeps == RunnerInv /\ CancelWorking => RunnerInv'
<1> SUFFICES ASSUME RunnerInv, CancelWorking PROVE RunnerInv'
    OBVIOUS
<1>1. /\ Now("cancel") /\ todo # <<>> /\ phase \in {"live", "stopping"}
      /\ UNCHANGED <<position, exposure, placed>>
    BY AtCall, PhaseHere DEF CancelWorking, Now, bounds
<1>2. exit # "clean" /\ (working # NoOrder => send) /\ (phase = "live" => ~halted)
    BY <1>1, PhaseHere DEF RunnerInv, OrdersInv
<1>3. ~halted => Tracked
    BY <1>1 DEF RunnerInv, OrdersInv
<1>4. ASSUME Continues(Tail(todo)), working' = NoOrder, RunnerTypes', One', ~halted => Own' = {}
      PROVE  RunnerInv'
    <2>1. UNCHANGED <<phase, send, halted, exit>> /\ todo' = Tail(todo)
        BY <1>4 DEF Continues
    <2>2. ~halted' => Tracked'
        BY <1>4, <2>1 DEF Tracked
    <2>3. CASE phase = "live" /\ todo' = <<>>
        BY <1>2, <1>4, <2>1, <2>2, <2>3, ToLive DEF Polls, Now
    <2>4. ASSUME phase = "live", send, NEW p \in Placings, todo' = <<p>> PROVE RunnerInv'
        BY <1>2, <1>4, <2>1, <2>2, <2>4, ToLive DEF Replacements
    <2>5. CASE phase = "stopping" /\ todo' = <<CallTo("position"), CallTo("orders"), CallTo("checkpoint")>>
        <3>1. \A name : Now(name)' <=> (CallTo("position").call = name)
            BY <2>5, NextCall
        <3>2. ~Now("place")' /\ ~Now("orders")' /\ ~Now("review")' /\ ~Now("checkpoint")'
            BY <3>1, CallNames
        <3>. QED BY <1>2, <1>4, <2>1, <2>2, <2>5, <3>2, ToStopping DEF Finals
    <2>. QED BY <1>1, <2>1, <2>3, <2>4, <2>5, AtCall, PhaseHere
<1>5. CASE working = NoOrder /\ Continues(Tail(todo)) /\ UNCHANGED <<working, open>>
    <2>1. Own' = Own /\ One'
        BY <1>5, PhaseHere DEF One, Own
    <2>2. RunnerTypes'
        BY <1>1, <1>5 DEF Continues, RunnerInv, RunnerTypes
    <2>3. ~halted => Own' = {}
        BY <1>3, <1>5, <2>1, PhaseHere DEF Tracked, NoOrder
    <2>. QED BY <1>4, <1>5, <2>1, <2>2, <2>3
<1>6. CASE /\ open' = {o \in open : o = Foreign \/ o.id # working.id}
           /\ working' = NoOrder /\ Continues(Tail(todo))
    <2>1. Own' = {o \in Own : o.id # working.id}
        BY <1>6 DEF Own
    <2>2. One' /\ (~halted => Own' = {})
        BY <1>3, <2>1, PhaseHere DEF One, Tracked
    <2>3. RunnerTypes'
        BY <1>1, <1>6 DEF Continues, RunnerInv, RunnerTypes
    <2>. QED BY <1>4, <1>6, <2>2, <2>3
<1>7. CASE Fails /\ UNCHANGED <<working, open>>
    <2>1. Own' = Own /\ One'
        BY <1>7, PhaseHere DEF One, Own
    <2>2. RunnerTypes'
        BY <1>1, <1>7 DEF Fails, Ends, RunnerInv, RunnerTypes
    <2>. QED BY <1>1, <1>7, <2>1, <2>2, FailureKeeps
<1>. QED BY <1>5, <1>6, <1>7 DEF CancelWorking

LEMMA PlaceOrderKeeps == RunnerInv /\ PlaceOrder => RunnerInv'
<1> SUFFICES ASSUME RunnerInv, PlaceOrder PROVE RunnerInv'
    OBVIOUS
<1> DEFINE intent == Head(todo).intent
           placing == [id |-> placed', side |-> intent.side, left |-> intent.quantity]
<1>1. /\ Now("place") /\ todo # <<>> /\ placed' = placed + 1
      /\ phase = "live" /\ send /\ Tail(todo) = <<>> /\ Head(todo) \in Placings
      /\ UNCHANGED <<position, exposure>>
    BY AtCall, PhaseHere DEF PlaceOrder, Now
<1>2. working = NoOrder /\ ~halted /\ Own = {} /\ exit # "clean" /\ placed \in Nat
    BY <1>1, PhaseHere DEF RunnerInv, OrdersInv, Tracked, NoOrder
<1>3. intent \in Intents
    <2>1. PICK i \in Intents : Head(todo) = [call |-> "place", intent |-> i]
        BY <1>1 DEF Placings
    <2>. QED BY <2>1
<1>4. /\ placing \in [id : 1 .. placed', side : {1, -1}, left : Nat]
      /\ placing.id = placed' /\ placing # Foreign
    BY <1>1, <1>2, <1>3 DEF Intents, Foreign
<1> HIDE DEF placing, intent
<1>5. /\ [id : 1 .. placed, side : {1, -1}, left : Nat]
            \subseteq [id : 1 .. placed', side : {1, -1}, left : Nat]
      /\ [id : 1 .. placed, intent : Intents] \subseteq [id : 1 .. placed', intent : Intents]
    BY <1>1, <1>2
<1>6. ASSUME open' = open \cup {placing} PROVE Own' = {placing}
    BY <1>2, <1>4, <1>6 DEF Own
<1>7. CASE /\ open' = open \cup {placing} /\ working' = [id |-> placed', intent |-> intent]
           /\ Continues(Tail(todo))
    <2>1. RunnerTypes'
        <3>1. working' \in [id : 1 .. placed', intent : Intents] /\ placed' \in Nat
            BY <1>1, <1>2, <1>3, <1>7
        <3>. QED BY <1>1, <1>4, <1>5, <1>7, <3>1 DEF RunnerInv, RunnerTypes, Continues
    <2>2. One' /\ Tracked'
        BY <1>4, <1>6, <1>7 DEF One, Tracked
    <2>3. todo' = <<>> /\ phase' = "live" /\ send' /\ ~halted' /\ exit' # "clean"
        BY <1>1, <1>2, <1>7 DEF Continues
    <2>. QED BY <2>1, <2>2, <2>3, ToLive DEF Polls, Now
<1>8. CASE open' = open /\ working' = NoOrder /\ Continues(Tail(todo))
    <2>1. RunnerTypes'
        BY <1>1, <1>2, <1>5, <1>8 DEF RunnerInv, RunnerTypes, Continues
    <2>2. Own' = {} /\ One' /\ Tracked'
        BY <1>2, <1>8 DEF Own, One, Tracked
    <2>3. todo' = <<>> /\ phase' = "live" /\ send' /\ ~halted' /\ exit' # "clean"
        BY <1>1, <1>2, <1>8 DEF Continues
    <2>. QED BY <2>1, <2>2, <2>3, ToLive DEF Polls, Now
<1>9. CASE open' = open \cup {placing} /\ Fails /\ UNCHANGED working
    <2>1. RunnerTypes'
        BY <1>1, <1>2, <1>4, <1>5, <1>9 DEF RunnerInv, RunnerTypes, Fails, Ends
    <2>2. One'
        BY <1>6, <1>9 DEF One
    <2>. QED BY <1>1, <1>9, <2>1, <2>2, FailureKeeps
<1>10. \/ /\ open' = open \cup {placing} /\ working' = [id |-> placed', intent |-> intent]
          /\ Continues(Tail(todo))
       \/ open' = open /\ working' = NoOrder /\ Continues(Tail(todo))
       \/ open' = open \cup {placing} /\ Fails /\ UNCHANGED working
    BY DEF PlaceOrder, placing, intent
<1>. QED BY <1>7, <1>8, <1>9, <1>10

LEMMA RebalanceKeeps == RunnerInv /\ Rebalance => RunnerInv'
<1> SUFFICES ASSUME RunnerInv, Rebalance PROVE RunnerInv'
    OBVIOUS
<1>1. /\ Now("rebalance") /\ phase = "live" /\ Tail(todo) = <<>>
      /\ UNCHANGED <<working, position, open, exposure, placed>>
    BY AtCall, PhaseHere DEF Rebalance, exchange, bounds
<1>2. Own' = Own /\ One'
    BY <1>1, PhaseHere DEF One, Own
<1>3. ASSUME NEW rest, Continues(rest)
      PROVE  /\ todo' = rest /\ phase' = "live" /\ send' = send
             /\ RunnerTypes' /\ Tracked' /\ ~halted' /\ exit' # "clean"
             /\ working' # NoOrder => send'
    <2>1. RunnerTypes'
        BY <1>1, <1>3 DEF Continues, RunnerInv, RunnerTypes
    <2>. QED BY <1>1, <1>2, <1>3, <2>1, PhaseHere DEF Continues, RunnerInv, OrdersInv, Tracked
<1>4. CASE Continues(Tail(todo))
    <2>1. todo' = <<>> BY <1>1, <1>3, <1>4
    <2>. QED BY <1>2, <1>3, <1>4, <2>1, ToLive DEF Polls, Now
<1>5. CASE Continues(CallsOf(<<"cancel">>) \o Tail(todo))
    <2>1. todo' = <<CallTo("cancel")>>
        BY <1>1, <1>3, <1>5, Joined, Called
    <2>2. \A name : Now(name)' <=> (CallTo("cancel").call = name)
        BY <2>1, NextCall
    <2>3. ~Now("place")'
        BY <2>2, CallNames
    <2>. QED BY <1>2, <1>3, <1>5, <2>1, <2>3, ToLive DEF Polls
<1>6. ASSUME send, NEW intent \in Intents, Continues(Replacing(intent))
      PROVE  RunnerInv'
    <2> DEFINE p == [call |-> "place", intent |-> intent]
    <2>1. p \in Placings BY DEF Placings
    <2>2. Replacing(intent) = (IF working = NoOrder THEN <<>> ELSE CallsOf(<<"cancel">>))
                                 \o <<p>> \o Tail(todo)
        BY DEF Replacing
    <2> HIDE DEF p
    <2>3. CASE working = NoOrder
        <3>1. todo' = <<p>>
            BY <1>1, <1>3, <1>6, <2>2, <2>3, Joined
        <3>. QED BY <1>1, <1>2, <1>3, <1>6, <2>1, <2>3, <3>1, ToLive DEF Replacements
    <2>4. CASE working # NoOrder
        <3>1. Replacing(intent) = <<CallTo("cancel")>> \o <<p>> \o <<>>
            BY <1>1, <2>2, <2>4, Called
        <3>2. <<CallTo("cancel")>> \o <<p>> = <<CallTo("cancel"), p>>
            BY Joined
        <3>3. <<CallTo("cancel"), p>> \o <<>> = <<CallTo("cancel"), p>>
            OBVIOUS
        <3>4. todo' = <<CallTo("cancel"), p>>
            BY <1>3, <1>6, <3>1, <3>2, <3>3, Zenon
        <3>5. \A name : Now(name)' <=> (CallTo("cancel").call = name)
            BY <3>4, NextCall
        <3>6. ~Now("place")'
            BY <3>5, CallNames
        <3>. QED BY <1>2, <1>3, <1>6, <2>1, <3>4, <3>6, ToLive DEF Replacements
    <2>. QED BY <2>3, <2>4
<1>7. ASSUME NEW side \in {1, -1}, NEW price \in IntentPrices, NEW asked \in 1 .. Requested
      PROVE  LET most == MaxOrderQuantity(side)
                 intent == [side |-> side, price |-> price,
                            quantity |-> IF asked < most THEN asked ELSE most]
             IN  intent.quantity > 0 => intent \in Intents
    <2>1. MaxOrderQuantity(side) \in Nat
        BY <1>7, RunnerAssumption DEF MaxOrderQuantity, RunnerInv, RunnerTypes
    <2>. QED BY <1>7, <2>1, RunnerAssumption DEF Intents
<1>8. CASE \E side \in {1, -1}, price \in IntentPrices, asked \in 1 .. Requested :
            LET most == MaxOrderQuantity(side)
                intent == [side |-> side, price |-> price,
                           quantity |-> IF asked < most THEN asked ELSE most]
            IN  /\ send /\ ~halted /\ intent.quantity > 0 /\ placed < MaxPlaced
                /\ working # NoOrder => working.intent # intent
                /\ Continues(Replacing(intent))
    BY <1>6, <1>7, <1>8
<1>. QED BY <1>4, <1>5, <1>8 DEF Rebalance

LEMMA WriteCheckpointKeeps == RunnerInv /\ WriteCheckpoint => RunnerInv'
<1> SUFFICES ASSUME RunnerInv, WriteCheckpoint PROVE RunnerInv'
    OBVIOUS
<1>1. /\ Now("checkpoint") /\ phase = "stopping"
      /\ UNCHANGED <<send, working, position, halted, open, exposure, placed>>
    BY AtCall, PhaseHere DEF WriteCheckpoint, exchange, bounds
<1>2. Own' = Own /\ One'
    BY <1>1, PhaseHere DEF One, Own
<1>3. /\ phase' = "off" /\ todo' = <<>>
      /\ exit' = IF halted \/ position # 0 \/ working # NoOrder THEN "stopped" ELSE "clean"
      /\ checkpoint' = IF halted \/ position # 0 THEN "risk_stopped" ELSE "clear"
    BY DEF WriteCheckpoint, Ends
<1>4. RunnerTypes'
    BY <1>1, <1>3 DEF RunnerInv, RunnerTypes
<1>5. ~Now("cancel")
    BY <1>1 DEF Now
\* The position was read after the last order had left the exchange.
<1>6. exit' = "clean" => Own' = {} /\ exposure' = 0 /\ checkpoint' = "clear"
    BY <1>1, <1>2, <1>3, <1>5 DEF RunnerInv, EndInv
<1>. QED BY <1>2, <1>3, <1>4, <1>6, ToOff

-----------------------------------------------------------------------------
LEMMA BranchKeeps == RunnerInv /\ (MarketEvent \/ Poll) => RunnerInv'
<1> SUFFICES ASSUME RunnerInv, MarketEvent \/ Poll PROVE RunnerInv'
    OBVIOUS
<1>1. /\ phase = "live"
      /\ UNCHANGED <<phase, send, working, position, halted, exit, open, exposure, placed>>
    BY DEF MarketEvent, Poll, Idle, exchange, bounds
<1>2. Own' = Own /\ One'
    BY <1>1, PhaseHere DEF One, Own
<1>3. RunnerTypes'
    BY <1>1 DEF RunnerInv, RunnerTypes
<1>4. Tracked' /\ ~halted' /\ exit' # "clean" /\ (working' # NoOrder => send')
    BY <1>1, <1>2, PhaseHere DEF RunnerInv, OrdersInv, Tracked
<1>5. \/ todo' = <<CallTo("rebalance")>>
      \/ todo' = <<CallTo("position"), CallTo("orders"), CallTo("rebalance")>>
      \/ todo' = <<CallTo("query"), CallTo("position"), CallTo("orders"), CallTo("rebalance")>>
    <2> DEFINE three == <<CallTo("position"), CallTo("orders"), CallTo("rebalance")>>
    <2>1. CallsOf(<<"position", "orders", "rebalance">>) = three
        BY Called
    <2>2. <<>> \o three = three
        BY Joined
    <2>3. <<CallTo("query")>> \o three = <<CallTo("query"), CallTo("position"), CallTo("orders"), CallTo("rebalance")>>
        BY Joined
    <2> HIDE DEF three
    <2>4. CASE MarketEvent
        BY <2>4, Called DEF MarketEvent
    <2>5. CASE Poll
        <3>1. todo' = <<>> \o three \/ todo' = <<CallTo("query")>> \o three
            BY <2>1, <2>5, Called DEF Poll
        <3>2. todo' = three \/ todo' = <<CallTo("query"), CallTo("position"), CallTo("orders"), CallTo("rebalance")>>
            BY <2>2, <2>3, <3>1, Zenon
        <3>. QED BY <3>2 DEF three
    <2>. QED BY <2>4, <2>5
<1>6. ~Now("place")'
    <2>1. CASE todo' = <<CallTo("rebalance")>>
        BY <2>1, NextCall, CallNames
    <2>2. CASE todo' = <<CallTo("position"), CallTo("orders"), CallTo("rebalance")>>
        BY <2>2, NextCall, CallNames
    <2>3. CASE todo' = <<CallTo("query"), CallTo("position"), CallTo("orders"), CallTo("rebalance")>>
        BY <2>3, NextCall, CallNames
    <2>. QED BY <1>5, <2>1, <2>2, <2>3
<1>7. todo' \in Polls
    BY <1>5 DEF Polls
<1>. QED BY <1>1, <1>2, <1>3, <1>4, <1>6, <1>7, ToLive

LEMMA StreamClosedKeeps == RunnerInv /\ StreamClosed => RunnerInv'
<1> SUFFICES ASSUME RunnerInv, StreamClosed PROVE RunnerInv'
    OBVIOUS
<1>1. /\ phase = "live" /\ phase' = "stopping" /\ halted' /\ halted' \in BOOLEAN
      /\ todo' = CallsOf(<<"checkpoint">>)
      /\ UNCHANGED <<send, working, position, exit, open, exposure, placed>>
    BY DEF StreamClosed, Idle, exchange, bounds
<1>2. One'
    BY <1>1, PhaseHere DEF One, Own
<1>3. RunnerTypes'
    BY <1>1 DEF RunnerInv, RunnerTypes
<1>4. exit' # "clean" /\ (working' # NoOrder => send')
    BY <1>1, PhaseHere
<1>. QED BY <1>1, <1>2, <1>3, <1>4, ToCheckpoint

LEMMA StopKeeps == RunnerInv /\ Stop => RunnerInv'
<1> SUFFICES ASSUME RunnerInv, Stop PROVE RunnerInv'
    OBVIOUS
<1>1. /\ phase = "live" /\ phase' = "stopping" /\ todo' = FinalCalls
      /\ UNCHANGED <<send, working, position, halted, exit, open, exposure, placed>>
    BY DEF Stop, Idle, exchange, bounds
<1>2. One' /\ Own' = Own
    BY <1>1, PhaseHere DEF One, Own
<1>3. RunnerTypes'
    BY <1>1 DEF RunnerInv, RunnerTypes
<1>4. exit' # "clean" /\ (working' # NoOrder => send') /\ Tracked /\ Tracked'
    BY <1>1, <1>2, PhaseHere DEF RunnerInv, OrdersInv, Tracked
<1>5. CASE send
    <2>1. todo' = <<CallTo("cancel"), CallTo("position"), CallTo("orders"), CallTo("checkpoint")>>
        <3>1. todo' = <<CallTo("cancel")>> \o <<CallTo("position"), CallTo("orders"), CallTo("checkpoint")>>
            BY <1>1, <1>5, Called DEF FinalCalls
        <3>2. <<CallTo("cancel")>> \o <<CallTo("position"), CallTo("orders"), CallTo("checkpoint")>>
                = <<CallTo("cancel"), CallTo("position"), CallTo("orders"), CallTo("checkpoint")>>
            BY Joined
        <3>. QED BY <3>1, <3>2
    <2>2. \A name : Now(name)' <=> (CallTo("cancel").call = name)
        BY <2>1, NextCall
    <2>3. /\ ~Now("place")' /\ ~Now("orders")' /\ ~Now("review")' /\ ~Now("checkpoint")'
          /\ Now("cancel")'
        BY <2>2, CallNames
    <2>. QED BY <1>1, <1>2, <1>3, <1>4, <2>1, <2>3, ToStopping DEF Finals
<1>6. CASE ~send
    <2>1. todo' = <<CallTo("position"), CallTo("orders"), CallTo("checkpoint")>>
        BY <1>1, <1>6, Called, Joined DEF FinalCalls
    <2>2. \A name : Now(name)' <=> (CallTo("position").call = name)
        BY <2>1, NextCall
    <2>3. ~Now("place")' /\ ~Now("orders")' /\ ~Now("review")' /\ ~Now("checkpoint")'
        BY <2>2, CallNames
    <2>4. working' = NoOrder /\ Own' = {}
        BY <1>1, <1>2, <1>4, <1>6, PhaseHere DEF Tracked, NoOrder
    <2>. QED BY <1>1, <1>2, <1>3, <1>4, <2>1, <2>3, <2>4, ToStopping DEF Finals
<1>. QED BY <1>5, <1>6

LEMMA CrashKeeps == RunnerInv /\ Crash => RunnerInv'
<1> SUFFICES ASSUME RunnerInv, Crash PROVE RunnerInv'
    OBVIOUS
<1>1. /\ phase' = "off" /\ todo' = <<>> /\ exit' = "crashed"
      /\ UNCHANGED <<send, working, position, halted, open, exposure, placed>>
    BY DEF Crash, Ends, exchange, bounds
<1>2. One'
    BY <1>1, PhaseHere DEF One, Own
<1>3. RunnerTypes'
    BY <1>1 DEF RunnerInv, RunnerTypes
<1>. QED BY <1>1, <1>2, <1>3, ToOff

\* What the exchange does to its orders it does to orders it has.
LEMMA ExchangeKeeps ==
    ASSUME RunnerInv, RunnerTypes', One', UNCHANGED runner,
           \A o \in Own' : \E p \in Own : p.id = o.id,
           exposure' = exposure \/ Own # {}
    PROVE  RunnerInv'
<1>1. UNCHANGED <<phase, send, todo, working, position, halted, exit, checkpoint>>
    BY DEF runner
<1>2. Own = {} => Own' = {} /\ exposure' = exposure
    OBVIOUS
<1>3. Tracked => Tracked'
    BY <1>1 DEF Tracked
<1>4. \A name : Now(name)' <=> Now(name)
    BY <1>1 DEF Now
<1>5. HandlerInv'
    BY <1>1 DEF RunnerInv, HandlerInv
<1>6. OrdersInv'
    BY <1>1, <1>3, <1>4 DEF RunnerInv, OrdersInv, One
<1>7. StartInv'
    <2>1. Now("review") /\ phase = "starting" =>
            \A o \in Own' : \E p \in Head(todo).orders : p.id = o.id
        BY DEF RunnerInv, StartInv
    <2>. QED BY <1>1, <1>2, <1>4, <2>1 DEF RunnerInv, StartInv
<1>8. EndInv'
    <2>1. Now("orders") \/ Now("review") \/ Now("checkpoint") => ~Now("cancel")
        BY DEF Now
    <2>. QED BY <1>1, <1>2, <1>4, <2>1 DEF RunnerInv, EndInv
<1>. QED BY <1>5, <1>6, <1>7, <1>8 DEF RunnerInv

LEMMA FillsKeep == RunnerInv /\ RestingFills => RunnerInv'
<1> SUFFICES ASSUME RunnerInv, RestingFills PROVE RunnerInv'
    OBVIOUS
<1>1. PICK o \in Own : \E k \in 1 .. o.left :
        /\ open' = (open \ {o}) \cup (IF k = o.left THEN {} ELSE {[o EXCEPT !.left = @ - k]})
        /\ exposure' = exposure + o.side * k
        /\ UNCHANGED <<runner, bounds>>
    BY DEF RestingFills
<1>2. PICK k \in 1 .. o.left :
        /\ open' = (open \ {o}) \cup (IF k = o.left THEN {} ELSE {[o EXCEPT !.left = @ - k]})
        /\ exposure' = exposure + o.side * k
        /\ UNCHANGED <<runner, bounds>>
    BY <1>1
<1>3. /\ o \in [id : 1 .. placed, side : {1, -1}, left : Nat] /\ Own = {o}
      /\ placed' = placed /\ placed \in Nat /\ exposure \in Int
    BY <1>2, PhaseHere DEF RunnerInv, RunnerTypes, Own, One, bounds
<1> DEFINE less == [o EXCEPT !.left = @ - k]
<1>4. k # o.left => /\ less \in [id : 1 .. placed, side : {1, -1}, left : Nat]
                    /\ less.id = o.id /\ less # Foreign
    BY <1>2, <1>3 DEF Foreign
<1>5. exposure' \in Int
    BY <1>2, <1>3
<1>6. open' \subseteq (open \ {o}) \cup {less} /\ (k = o.left => open' = open \ {o})
    BY <1>2
<1> HIDE DEF less
<1>7. Own' \subseteq {less} /\ (k = o.left => Own' = {})
    BY <1>3, <1>6 DEF Own
<1>8. One' /\ \A q \in Own' : \E p \in Own : p.id = q.id
    BY <1>3, <1>4, <1>7 DEF One
<1>9. RunnerTypes'
    BY <1>2, <1>3, <1>4, <1>5, <1>6 DEF RunnerInv, RunnerTypes, runner
<1>. QED BY <1>2, <1>3, <1>8, <1>9, ExchangeKeeps

LEMMA ExpiryKeeps == RunnerInv /\ (Expires \/ ForeignOrder) => RunnerInv'
<1> SUFFICES ASSUME RunnerInv, Expires \/ ForeignOrder PROVE RunnerInv'
    OBVIOUS
<1>1. /\ UNCHANGED <<runner, exposure, placed>>
      /\ open' \subseteq open \cup {Foreign}
    BY DEF Expires, ForeignOrder, bounds
<1>2. Own' \subseteq Own
    BY <1>1 DEF Own
<1>3. One'
    BY <1>2, PhaseHere DEF One
<1>4. RunnerTypes'
    BY <1>1 DEF RunnerInv, RunnerTypes, runner
<1>. QED BY <1>1, <1>2, <1>3, <1>4, ExchangeKeeps

-----------------------------------------------------------------------------
LEMMA RunnerStarts == RunnerInit => RunnerInv
<1> SUFFICES ASSUME RunnerInit PROVE RunnerInv
    OBVIOUS
<1>1. Own = {} /\ \A name : ~Now(name)
    BY DEF RunnerInit, Own, Now
<1>2. RunnerTypes
    <2>1. send \in BOOLEAN /\ halted \in BOOLEAN
        BY DEF RunnerInit
    <2>2. phase = "off" /\ working = NoOrder /\ position = 0 /\ open = {} /\ exposure = 0 /\ placed = 0
        BY DEF RunnerInit
    <2>. QED BY <2>1, <2>2 DEF RunnerTypes
<1>. QED BY <1>1, <1>2 DEF RunnerInit, RunnerInv, HandlerInv, OrdersInv, StartInv, EndInv, Tracked

LEMMA RunnerSteps == RunnerInv /\ [RunnerNext]_runnerVars => RunnerInv'
<1> SUFFICES ASSUME RunnerInv, [RunnerNext]_runnerVars PROVE RunnerInv'
    OBVIOUS
<1>1. CASE UNCHANGED runnerVars
    <2>1. UNCHANGED <<runner, open, exposure, placed>>
        BY <1>1 DEF runnerVars, runner
    <2>2. Own' = Own /\ One' /\ RunnerTypes'
        BY <2>1, PhaseHere DEF Own, One, RunnerInv, RunnerTypes, runner
    <2>. QED BY <2>1, <2>2, ExchangeKeeps
<1>2. CASE Handler
    BY <1>2, QueryKeeps, RefreshKeeps, CheckFlatKeeps, ReadOrdersKeeps, ReviewOrderKeeps,
       CancelKeeps, PlaceOrderKeeps, RebalanceKeeps, WriteCheckpointKeeps DEF Handler
<1>. QED BY <1>1, <1>2, StartKeeps, CallFailsKeeps, BranchKeeps, StreamClosedKeeps, StopKeeps,
            CrashKeeps, FillsKeep, ExpiryKeeps DEF RunnerNext

\* For every limit, quantity and number of orders, failures and processes: across crashes,
\* lost answers and restarts at most one order of the runner's rests at the exchange, and a
\* process that exits cleanly has left neither an order nor a position.
THEOREM RunnerStaysTidy == RunnerSpec => []RunnerIsTidy
<1>1. RunnerInv => RunnerIsTidy
    <2> SUFFICES ASSUME RunnerInv PROVE OneOrderAtATime /\ CleanExit
        BY DEF RunnerIsTidy
    <2>1. Own = {} \/ \E o \in Own : Own = {o}
        BY PhaseHere DEF One
    <2>2. Cardinality(Own) = 0 \/ Cardinality(Own) = 1
        BY <2>1, FS_EmptySet, FS_Singleton
    <2>3. OneOrderAtATime
        BY <2>2 DEF OneOrderAtATime
    <2>. QED BY <2>3 DEF RunnerInv, EndInv, CleanExit
<1>. QED BY <1>1, RunnerStarts, RunnerSteps, PTL DEF RunnerSpec
=============================================================================
