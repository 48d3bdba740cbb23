----------------------------- MODULE Variances ------------------------------
(***************************************************************************)
(* The variances of type and lifetime parameters: compute_variance in      *)
(* src/typeck/variance.rs.                                                 *)
(*                                                                         *)
(* Every parameter of a struct or enum is a slot <<owner, kind, position>> *)
(* that starts covariant and may become invariant; the state is the set of *)
(* invariant slots. A round visits the declarations in the order of the    *)
(* tables and reads a snapshot taken when it began.                        *)
(*                                                                         *)
(* A type is the set of the nodes of its tree: a node has a head, lifetimes*)
(* and the way to it from the root, the slots that it passes; the walk of  *)
(* the code visits each.                                                   *)
(***************************************************************************)
EXTENDS Integers, Sequences, FiniteSets

CONSTANTS Tables      \* sets of declarations, each a Seq([name, tps, lps, fields])

VARIABLES table,      \* structs first, then enums
          invariant,
          snap,       \* the slots that were invariant when the round began
          at,         \* the declaration to visit next
          round,
          settled

varianceVars == <<table, invariant, snap, at, round, settled>>

SlotsOf(d) == ({d.name} \X {"type"} \X (DOMAIN d.tps))
                \cup ({d.name} \X {"lifetime"} \X (DOMAIN d.lps))
Slots == UNION {SlotsOf(table[i]) : i \in DOMAIN table}

Covariant == "covariant"
Invariant == "invariant"

(* Mutant of Compose: the position a type stands in is forgotten inside.   *)
ComposeInner(outer, inner) == inner

Compose(outer, inner) == IF outer = Covariant THEN inner ELSE Invariant

\* A slot of an applied type as the snapshot has it; one it does not have is
\* invariant.
SlotVariance(slot) == IF slot \in Slots \ snap THEN Covariant ELSE Invariant

InvariantHeads == {"&mut", "*const", "*mut", "proj", "fn"}
CovariantHeads == {"&", "tuple", "slice"}
BuiltIn == InvariantHeads \cup CovariantHeads \cup {"dyn"}

\* The variance of an argument of a type constructor.
ArgVariance(slot) ==
    CASE slot[1] \in InvariantHeads -> Invariant
      [] slot[1] \in CovariantHeads -> Covariant
      [] OTHER -> SlotVariance(slot)

\* References and dyn are covariant in their lifetime.
LifetimeVariance(slot) ==
    IF slot[1] \in {"&", "&mut", "dyn"} THEN Covariant ELSE SlotVariance(slot)

Positions(s, name) == {i \in DOMAIN s : s[i] = name}
SlotsNamed(d, kind, names, name) == {<<d.name, kind, i>> : i \in Positions(names, name)}

\* The position at the end of a way.
PositionAt(way) ==
    LET position[k \in 0..Len(way)] ==
            IF k = 0 THEN Covariant ELSE Compose(position[k - 1], ArgVariance(way[k]))
    IN  position[Len(way)]

LifetimeSlot(node, i) == <<node.h, "lifetime", i>>

\* The slots of d that a node of one of its types makes invariant.
Walk(d, node) ==
    (IF PositionAt(node.way) = Invariant THEN SlotsNamed(d, "type", d.tps, node.h) ELSE {})
    \cup UNION {SlotsNamed(d, "lifetime", d.lps, node.lts[i]) :
                    i \in {j \in DOMAIN node.lts :
                            Compose(PositionAt(node.way), LifetimeVariance(LifetimeSlot(node, j)))
                                = Invariant}}
Nodes(d) == UNION {d.fields[j] : j \in DOMAIN d.fields}

-----------------------------------------------------------------------------
VarInit ==
    /\ table \in Tables
    /\ invariant = {} /\ snap = {}
    /\ at = 1 /\ round = 1
    /\ settled = FALSE

Visit ==
    /\ ~settled /\ at <= Len(table)
    /\ invariant' = invariant \cup UNION {Walk(table[at], node) : node \in Nodes(table[at])}
    /\ at' = at + 1
    /\ UNCHANGED <<table, snap, round, settled>>

EndRound ==
    /\ ~settled /\ at > Len(table)
    /\ IF invariant = snap
       THEN settled' = TRUE /\ UNCHANGED <<snap, at, round>>
       ELSE snap' = invariant /\ at' = 1 /\ round' = round + 1 /\ UNCHANGED settled
    /\ UNCHANGED <<table, invariant>>

VarNext == Visit \/ EndRound

VarSpec == VarInit /\ [][VarNext]_varianceVars

-----------------------------------------------------------------------------
(* What the proofs take the tables to be: no declaration has the name of a *)
(* built-in type, a way leads through arguments of types, and only         *)
(* references, dyn and declared types have lifetimes.                      *)
IsSeq(s) == Len(s) \in Nat /\ DOMAIN s = 1..Len(s)
IsNode(node) ==
    /\ IsSeq(node.way)
    /\ \A k \in DOMAIN node.way : LET slot == node.way[k]
                                  IN  slot = <<slot[1], "type", slot[3]>> /\ slot[1] # "dyn"
    /\ DOMAIN node.lts # {} => node.h \notin BuiltIn \ {"&", "&mut", "dyn"}
IsDeclaration(d) ==
    /\ d.name \notin BuiltIn /\ IsSeq(d.tps) /\ IsSeq(d.lps)
    /\ \A node \in Nodes(d) : IsNode(node)
AreTables == \A t \in Tables : IsSeq(t) /\ \A i \in DOMAIN t : IsDeclaration(t[i])
ASSUME TablesOK == AreTables

\* Where a parameter is mentioned: the slot it is, and those on the way to it.
Mentions(d, node) ==
    LET on == {node.way[k] : k \in DOMAIN node.way}
    IN  {[slot |-> s, way |-> on] : s \in SlotsNamed(d, "type", d.tps, node.h)}
        \cup UNION {{[slot |-> s, way |-> on \cup {LifetimeSlot(node, i)}] :
                        s \in SlotsNamed(d, "lifetime", d.lps, node.lts[i])} :
                    i \in DOMAIN node.lts}
AllMentions == UNION {UNION {Mentions(table[i], node) : node \in Nodes(table[i])} :
                        i \in DOMAIN table}

\* Invariant whatever the declarations say.
Pins(slot) == \/ slot[1] \in InvariantHeads /\ slot[2] = "type"
              \/ slot[1] \notin BuiltIn /\ slot \notin Slots

\* What is invariant passes on to what is mentioned in it.
IsClosed(known) ==
    \A m \in AllMentions : (\E slot \in m.way : Pins(slot) \/ slot \in known) => m.slot \in known

(* The iteration ends after at most one round per slot and a last one,     *)
(* with a parameter invariant exactly if some chain of mentions leads from *)
(* it through parameters of other types to an invariant position: mutual   *)
(* recursion makes none of them invariant by itself.                       *)
VariancesAreLeast ==
    /\ round <= Cardinality(Slots) + 1
    /\ settled => /\ IsClosed(invariant)
                  /\ \A known \in SUBSET Slots : IsClosed(known) => invariant \subseteq known
=============================================================================
