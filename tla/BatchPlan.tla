----------------------------- MODULE BatchPlan -------------------------------
(***************************************************************************)
(* What a batch is to run, and what is kept of it:                         *)
(*  - which experiments a plan may hold, which method each of them is, and *)
(*    what a method inherits (simulation/experiment_plan.rs,               *)
(*    strategy/method_catalog.rs, strategy/method_graph.rs). An experiment *)
(*    is [label, key, ablations, parent, overlay, policy], an ablation     *)
(*    [name, padded], padded by blanks or not;                             *)
(*  - the checkpoint (execution/session_checkpoint.rs) and its writers:    *)
(*    the live runner, the batch runner, the supervisor and the testnet    *)
(*    runner. A checkpoint is [scope, net, gross, detail], where detail    *)
(*    gives the position of each ledger; positions that do not add up are  *)
(*    refused when it is written and when it is read. The sums of the code *)
(*    saturate; here they have room, and so has every account.             *)
(***************************************************************************)
EXTENDS Integers, Sequences, SequencesExt, FiniteSets, FiniteSetsExt, Functions

CONSTANTS MethodOf,   \* the method each spelling of a key names (id, key or label)
          Ablations,  \* the ablations each method supports
          Overlays, Policies

Blank == ""

-----------------------------------------------------------------------------
(* The catalog *)

\* resolve compares the ablations without their blanks ..
Resolves(key, ablations) ==
    /\ key \in DOMAIN MethodOf
    /\ \A a \in Range(ablations) : a.name \in Ablations[MethodOf[key]]

\* .. and looks for the one ablation that has a variant of its own with them.
Variant(key, ablations) ==
    [method |-> MethodOf[key],
     ablated |-> MethodOf[key] = "m8" /\ [name |-> "funding", padded |-> FALSE] \in Range(ablations)]

\* register: a method is new, its parents are there, and it overrides nothing
\* that is immutable. A graph is a sequence of [id, parents, overrides].
Registers(graph, method, immutable) ==
    /\ method.id \notin {m.id : m \in Range(graph)}
    /\ Range(method.parents) \subseteq {m.id : m \in Range(graph)}
    /\ method.overrides \cap immutable = {}

\* resolve_dfs: the parents first, each method once.
Lineage(parents, order, id) ==
    LET RECURSIVE Visit(_, _)
        Visit(lineage, m) ==
            IF m \in Range(lineage) THEN lineage
            ELSE LET before == FoldLeft(Visit, lineage, parents[m])
                 IN  Append(before, m)
    IN  Visit(order, id)

-----------------------------------------------------------------------------
(* The plan *)

WellFormed(e) ==
    /\ e.label # Blank /\ e.key # Blank
    /\ \A a \in Range(e.ablations) : a.name # Blank
    /\ \A i, j \in DOMAIN e.ablations : i # j => e.ablations[i].name # e.ablations[j].name

Before(plan, i) == {plan[j] : j \in 1 .. i - 1}

\* An experiment is known by its key as it is written and by its ablations.
Identity(e) == <<e.key, Range(e.ablations)>>

BugFits(plan, i) ==
    LET e == plan[i] IN
    /\ e.overlay \in Overlays /\ e.policy \in Policies
    /\ e.parent # Blank => e.parent \in {b.label : b \in Before(plan, i)}
    /\ Identity(e) \notin {Identity(b) : b \in Before(plan, i)}
    /\ Resolves(e.key, e.ablations)
Fits(plan, i) ==
    LET e == plan[i] IN
    /\ e.label \notin {b.label : b \in Before(plan, i)}
    /\ e.overlay \in Overlays /\ e.policy \in Policies
    /\ e.parent # Blank => e.parent \in {b.label : b \in Before(plan, i)}
    /\ Identity(e) \notin {Identity(b) : b \in Before(plan, i)}
    /\ Resolves(e.key, e.ablations)

\* ExperimentPlan::validate
PlanAccepted(plan) ==
    /\ plan # <<>>
    /\ \A i \in DOMAIN plan : WellFormed(plan[i]) /\ Fits(plan, i)

\* runtime_specs_with_ablations
Specs(plan) == [i \in DOMAIN plan |-> [label |-> plan[i].label,
                                       variant |-> Variant(plan[i].key, plan[i].ablations)]]

\* The batch's own validate: labels are compared with their neighbours only.
SpecsAccepted(specs) ==
    /\ specs # <<>>
    /\ \A i \in DOMAIN specs : specs[i].label # Blank
    /\ \A i \in DOMAIN specs \ {1} : specs[i].label # specs[i - 1].label

-----------------------------------------------------------------------------
(* What the plan promises the batch *)

\* A lineage ends in the method, holds each of its ancestors once, and nobody
\* before its parents: features and overlays are inherited once, oldest first.
LineageIsComplete(parents, id) ==
    LET lineage == Lineage(parents, <<>>, id)
        RECURSIVE Ancestors(_)
        Ancestors(m) == {m} \cup UNION {Ancestors(p) : p \in Range(parents[m])}
    IN  /\ Last(lineage) = id
        /\ Range(lineage) = Ancestors(id) /\ IsInjective(lineage)
        /\ \A i, j \in DOMAIN lineage : lineage[j] \in Range(parents[lineage[i]]) => j < i

\* experiment_plan.rs promises one ledger per hypothesis. The code compares the
\* spellings of the keys, so two of one method's names make two ledgers of it.
OneLedgerPerHypothesis(plan) == PlanAccepted(plan) => IsInjective([i \in DOMAIN plan |-> Specs(plan)[i].variant])

-----------------------------------------------------------------------------
(* The checkpoint.                                                         *)

Magnitude(n) == IF n < 0 THEN -n ELSE n
Total(f) == FoldFunction(+, 0, f)

New(scope) == [scope |-> scope, net |-> 0, gross |-> 0, detail |-> <<>>]

\* validate: net and gross follow from the detail, the gross of one symbol from
\* its net. write_atomic and read both ask for it first.
Valid(c) ==
    /\ c.gross >= 0
    /\ c.net = Total(c.detail)
    /\ c.gross = IF c.scope = "PORTFOLIO"
                 THEN Total([key \in DOMAIN c.detail |-> Magnitude(c.detail[key])])
                 ELSE Magnitude(c.net)

\* One ledger adds its symbols under its label; a key that is there is replaced,
\* while net and gross are added to.
Counted(c, label, positions) ==
    [c EXCEPT !.net = @ + Total(positions),
              !.gross = @ + Total([s \in DOMAIN positions |-> Magnitude(positions[s])]),
              !.detail = [key \in {<<label, s>> : s \in DOMAIN positions} |-> positions[key[2]]] @@ @]

\* persist_live_checkpoint: the symbols of the one live account.
OfLive(positions) == Counted(New("PORTFOLIO"), "live", positions)

\* The batch runner: every ledger in the order of the specs.
OfBatch(labels, positions) ==
    FoldLeftDomain(LAMBDA c, i : Counted(c, labels[i], positions[i]), New("PORTFOLIO"), labels)

\* ExecutionSupervisor::checkpoint and the testnet runner: one symbol.
OfSymbol(symbol, position) ==
    [New(symbol) EXCEPT !.net = position, !.gross = Magnitude(position),
                        !.detail = [key \in {symbol} |-> position]]
=============================================================================
