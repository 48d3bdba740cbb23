--------------------------- MODULE VarianceProofs ---------------------------
(***************************************************************************)
(* The rounds of compute_variance end, with the least variances that the   *)
(* declarations allow, for any tables.                                     *)
(***************************************************************************)
EXTENDS Variances, LoopProofs

(***************************************************************************)
(* Slots                                                                   *)
(***************************************************************************)
LEMMA IndexesAreFinite ==
  ASSUME NEW s, IsSeq(s)
  PROVE  IsFiniteSet(DOMAIN s)
<1>1. Len(s) \in Int /\ DOMAIN s = 1..Len(s)
  BY DEF IsSeq
<1> QED
  BY <1>1, FS_Interval

LEMMA ImagesAreFinite ==
  ASSUME NEW S, IsFiniteSet(S), NEW f, DOMAIN f = S
  PROVE  IsFiniteSet({f[x] : x \in S})
<1> DEFINE T == {f[x] : x \in S}
           g == [x \in S |-> f[x]]
<1>1. g \in Surjection(S, T)
  BY DEF Surjection
<1> QED
  BY <1>1, FS_Surjection

LEMMA SlotsAreFinite ==
  ASSUME IsSeq(table), \A i \in DOMAIN table : IsDeclaration(table[i])
  PROVE  IsFiniteSet(Slots)
<1>1. IsFiniteSet(DOMAIN table)
  BY IndexesAreFinite
<1>2. ASSUME NEW i \in DOMAIN table
      PROVE  IsFiniteSet(SlotsOf(table[i]))
  <2> DEFINE d == table[i]
  <2>1. IsFiniteSet(DOMAIN d.tps) /\ IsFiniteSet(DOMAIN d.lps)
    <3>1. IsSeq(d.tps) /\ IsSeq(d.lps)
      BY <1>2 DEF IsDeclaration
    <3> HIDE DEF d
    <3> QED BY <3>1, IndexesAreFinite
  <2> HIDE DEF d
  <2> DEFINE types == {<<d.name, "type", k>> : k \in DOMAIN d.tps}
             lifetimes == {<<d.name, "lifetime", k>> : k \in DOMAIN d.lps}
  <2>2. IsFiniteSet(types) /\ IsFiniteSet(lifetimes)
    <3> DEFINE f == [k \in DOMAIN d.tps |-> <<d.name, "type", k>>]
               g == [k \in DOMAIN d.lps |-> <<d.name, "lifetime", k>>]
    <3>1. IsFiniteSet({f[k] : k \in DOMAIN d.tps}) /\ IsFiniteSet({g[k] : k \in DOMAIN d.lps})
      BY <2>1, ImagesAreFinite
    <3> QED BY <3>1
  <2>3. SlotsOf(d) = types \cup lifetimes
    BY DEF SlotsOf
  <2> HIDE DEF types, lifetimes
  <2>4. IsFiniteSet(SlotsOf(d))
    BY <2>2, <2>3, FS_Union
  <2> QED BY <2>4 DEF d
<1>3. IsFiniteSet({SlotsOf(table[i]) : i \in DOMAIN table})
  <2> DEFINE f == [i \in DOMAIN table |-> SlotsOf(table[i])]
  <2>1. IsFiniteSet({f[i] : i \in DOMAIN table})
    BY <1>1, ImagesAreFinite
  <2> QED BY <2>1
<1> QED
  BY <1>2, <1>3, FS_UNION DEF Slots

(* A slot that a declaration names is one of its own. *)
LEMMA NamedAreSlots ==
  ASSUME NEW i \in DOMAIN table, NEW name
  PROVE  /\ SlotsNamed(table[i], "type", table[i].tps, name) \subseteq Slots
         /\ SlotsNamed(table[i], "lifetime", table[i].lps, name) \subseteq Slots
BY DEF SlotsNamed, Positions, SlotsOf, Slots

(***************************************************************************)
(* Positions                                                               *)
(***************************************************************************)
Variance == {Covariant, Invariant}

Walked(u, way) ==
  /\ PositionAt(way) = u[Len(way)]
  /\ u \in [0..Len(way) -> Variance] /\ u[0] = Covariant
  /\ \A k \in 1..Len(way) : u[k] = Compose(u[k - 1], ArgVariance(way[k]))

(* The position at the end of a way is walked to. *)
LEMMA PositionFacts ==
  ASSUME NEW way, IsSeq(way)
  PROVE  \E u : Walked(u, way)
<1> DEFINE n == Len(way)
           Then(k, p) == Compose(p, ArgVariance(way[k]))
           Rec(f) == f = [k \in 0..n |-> IF k = 0 THEN Covariant
                                         ELSE Compose(f[k - 1], ArgVariance(way[k]))]
           u == CHOOSE f : Rec(f)
           step == [k \in 1..n |-> [p \in Variance |-> Then(k, p)]]
<1>1. PositionAt(way) = u[n] /\ n \in Nat
  BY DEF PositionAt, IsSeq
<1>2. Covariant \in Variance /\ \A k \in 1..n : \A p \in Variance : Then(k, p) \in Variance
  BY DEF Variance, Compose, ArgVariance, SlotVariance
<1> HIDE DEF u, n
<1>3. AreSteps(step, n, Variance)
  BY <1>2 DEF AreSteps
<1>4. PICK f : Iterates(f, Covariant, step, n, Variance)
  BY <1>1, <1>2, <1>3, Iteration
<1>5. \A k \in 1..n : k - 1 \in 0..n /\ f[k - 1] \in Variance /\ f[k] = Then(k, f[k - 1])
  <2> SUFFICES ASSUME NEW k \in 1..n
               PROVE  k - 1 \in 0..n /\ f[k - 1] \in Variance /\ f[k] = Then(k, f[k - 1])
    OBVIOUS
  <2>1. k - 1 \in 0..n
    BY <1>1
  <2>2. f[k - 1] \in Variance /\ f[k] = step[k][f[k - 1]]
    BY <1>4, <2>1 DEF Iterates
  <2> HIDE DEF Then
  <2> QED BY <2>1, <2>2
<1>6. Rec(f)
  BY <1>1, <1>4, <1>5 DEF Iterates
<1>7. Rec(u)
  BY <1>6 DEF u
<1> DEFINE I == {k \in 0..n : u[k] \in Variance}
<1>8. 0 \in I
  BY <1>1, <1>2, <1>7
<1>9. ASSUME NEW k \in I, k \in 0..(n - 1)
      PROVE  k + 1 \in I
  <2>1. k + 1 \in 1..n /\ (k + 1) - 1 = k
    BY <1>1, <1>9
  <2>2. u[k + 1] = Then(k + 1, u[k])
    BY <1>7, <2>1
  <2> HIDE DEF Then
  <2>3. u[k + 1] \in Variance
    BY <1>2, <1>9, <2>1, <2>2
  <2> QED BY <1>9, <2>1, <2>3
<1> HIDE DEF I
<1>10. 0..n \subseteq I
  BY <1>1, <1>8, <1>9, Induction
<1>11. u \in [0..n -> Variance] /\ u[0] = Covariant
  BY <1>1, <1>7, <1>10 DEF I
<1>12. \A k \in 1..n : u[k] = Compose(u[k - 1], ArgVariance(way[k]))
  BY <1>1, <1>7
<1> HIDE DEF Rec
<1> QED
  BY <1>1, <1>11, <1>12 DEF Walked, n

(* A position is invariant exactly if some slot on its way is: compose     *)
(* never forgets one.                                                      *)
LEMMA PositionIsInvariant ==
  ASSUME NEW way, IsSeq(way)
  PROVE  /\ PositionAt(way) \in Variance
         /\ PositionAt(way) = Invariant
              <=> \E k \in DOMAIN way : ArgVariance(way[k]) = Invariant
<1> DEFINE n == Len(way)
           Some(k) == \E j \in 1..k : ArgVariance(way[j]) = Invariant
<1>1. n \in Nat /\ DOMAIN way = 1..n
  BY DEF IsSeq
<1>2. PICK u : Walked(u, way)
  BY PositionFacts
<1>3. /\ u \in [0..n -> Variance] /\ u[0] = Covariant /\ PositionAt(way) = u[n]
      /\ \A k \in 1..n : u[k] = Compose(u[k - 1], ArgVariance(way[k]))
  BY <1>2 DEF Walked
<1>4. \A s : ArgVariance(s) \in Variance
  BY DEF ArgVariance, SlotVariance, Variance
<1>5. Covariant # Invariant
  BY DEF Covariant, Invariant
<1> HIDE DEF n
<1> DEFINE I == {k \in 0..n : u[k] = Invariant <=> Some(k)}
<1>6. 0 \in I
  BY <1>1, <1>3, <1>5
<1>7. ASSUME NEW k \in I, k \in 0..(n - 1)
      PROVE  k + 1 \in I
  <2>1. k + 1 \in 1..n /\ (k + 1) - 1 = k /\ k \in 0..n
    BY <1>1, <1>7
  <2>2. u[k + 1] = Compose(u[k], ArgVariance(way[k + 1])) /\ u[k] \in Variance
    BY <1>3, <2>1
  <2>3. u[k + 1] = Invariant <=> (u[k] = Invariant \/ ArgVariance(way[k + 1]) = Invariant)
    BY <1>4, <1>5, <2>2 DEF Compose, Variance
  <2>4. 1..(k + 1) = (1..k) \cup {k + 1}
    BY <2>1
  <2>5. Some(k + 1) <=> Some(k) \/ ArgVariance(way[k + 1]) = Invariant
    BY <2>4
  <2>6. u[k] = Invariant <=> Some(k)
    BY <1>7
  <2> HIDE DEF Some
  <2>7. u[k + 1] = Invariant <=> Some(k + 1)
    BY <2>3, <2>5, <2>6
  <2>8. k + 1 \in 0..n
    BY <2>1
  <2> QED BY <2>7, <2>8
<1> HIDE DEF I
<1>8. 0..n \subseteq I
  BY <1>1, <1>6, <1>7, Induction
<1>9. n \in I /\ n \in 0..n
  BY <1>1, <1>8
<1> QED
  BY <1>1, <1>3, <1>9 DEF I

(***************************************************************************)
(* What a visit marks                                                      *)
(***************************************************************************)
Known(slot) == Pins(slot) \/ slot \in snap

(* No slot is one of a built-in type. *)
LEMMA SlotsAreDeclared ==
  ASSUME \A i \in DOMAIN table : IsDeclaration(table[i]), NEW slot \in Slots
  PROVE  slot[1] \notin BuiltIn
<1>1. PICK i \in DOMAIN table : slot \in SlotsOf(table[i])
  BY DEF Slots
<1>2. slot[1] = table[i].name
  BY <1>1 DEF SlotsOf
<1> QED
  BY <1>2 DEF IsDeclaration

(* A slot on a way is invariant if it is known to be. *)
LEMMA ArgIsKnown ==
  ASSUME \A i \in DOMAIN table : IsDeclaration(table[i]), snap \subseteq Slots,
         NEW node, IsNode(node), NEW k \in DOMAIN node.way
  PROVE  ArgVariance(node.way[k]) = Invariant <=> Known(node.way[k])
<1> DEFINE slot == node.way[k]
<1> SUFFICES ArgVariance(slot) = Invariant <=> Known(slot)
  OBVIOUS
<1>1. slot[2] = "type" /\ slot[1] # "dyn"
  BY DEF IsNode
<1>2. slot \in Slots => slot[1] \notin BuiltIn
  BY SlotsAreDeclared
<1>3. Covariant # Invariant
  BY DEF Covariant, Invariant
<1> HIDE DEF slot
<1>4. CASE slot[1] \in InvariantHeads
  <2>1. slot[1] \notin CovariantHeads
    BY <1>4 DEF CovariantHeads, InvariantHeads
  <2>2. ArgVariance(slot) = Invariant
    BY <1>4, <2>1 DEF ArgVariance
  <2>3. Known(slot)
    BY <1>1, <1>4 DEF Known, Pins
  <2> QED BY <2>2, <2>3
<1>5. CASE slot[1] \in CovariantHeads
  <2>1. slot[1] \notin InvariantHeads /\ slot[1] \in BuiltIn
    BY <1>5 DEF CovariantHeads, InvariantHeads, BuiltIn
  <2> QED BY <1>2, <1>3, <1>5, <2>1 DEF ArgVariance, Known, Pins
<1>6. CASE slot[1] \notin InvariantHeads \cup CovariantHeads
  <2>1. slot[1] \notin BuiltIn
    BY <1>1, <1>6 DEF BuiltIn
  <2>2. ArgVariance(slot) = SlotVariance(slot)
    BY <1>6 DEF ArgVariance
  <2> QED BY <1>3, <1>6, <2>1, <2>2 DEF SlotVariance, Known, Pins
<1> QED
  BY <1>4, <1>5, <1>6

LEMMA LifetimeIsKnown ==
  ASSUME \A i \in DOMAIN table : IsDeclaration(table[i]), snap \subseteq Slots,
         NEW node, IsNode(node), NEW k \in DOMAIN node.lts
  PROVE  LifetimeVariance(LifetimeSlot(node, k)) = Invariant <=> Known(LifetimeSlot(node, k))
<1> DEFINE slot == LifetimeSlot(node, k)
<1> SUFFICES LifetimeVariance(slot) = Invariant <=> Known(slot)
  OBVIOUS
<1>1. slot[1] = node.h /\ slot[2] = "lifetime" /\ node.h \notin BuiltIn \ {"&", "&mut", "dyn"}
  BY DEF IsNode, LifetimeSlot
<1>2. slot \in Slots => slot[1] \notin BuiltIn
  BY SlotsAreDeclared
<1>3. Covariant # Invariant
  BY DEF Covariant, Invariant
<1> HIDE DEF slot
<1>4. CASE slot[1] \in {"&", "&mut", "dyn"}
  <2>1. slot[1] \in BuiltIn
    BY <1>4 DEF BuiltIn, InvariantHeads, CovariantHeads
  <2> QED BY <1>1, <1>2, <1>3, <1>4, <2>1 DEF LifetimeVariance, Known, Pins
<1>5. CASE slot[1] \notin {"&", "&mut", "dyn"}
  <2>1. slot[1] \notin BuiltIn
    BY <1>1, <1>5
  <2> QED BY <1>1, <1>3, <1>5, <2>1 DEF LifetimeVariance, SlotVariance, Known, Pins
<1> QED
  BY <1>4, <1>5

(* A node marks what is mentioned there after a slot that is known. *)
LEMMA WalkIsKnown ==
  ASSUME \A i \in DOMAIN table : IsDeclaration(table[i]), snap \subseteq Slots,
         NEW d, NEW node, IsNode(node), NEW s
  PROVE  s \in Walk(d, node)
           <=> \E m \in Mentions(d, node) : m.slot = s /\ \E slot \in m.way : Known(slot)
<1> DEFINE on == {node.way[k] : k \in DOMAIN node.way}
           types == SlotsNamed(d, "type", d.tps, node.h)
           names(k) == SlotsNamed(d, "lifetime", d.lps, node.lts[k])
           Passed == \E slot \in on : Known(slot)
           There(k) == \E slot \in on \cup {LifetimeSlot(node, k)} : Known(slot)
<1>1. PositionAt(node.way) \in Variance /\ (PositionAt(node.way) = Invariant <=> Passed)
  <2>1. IsSeq(node.way)
    BY DEF IsNode
  <2>2. \A k \in DOMAIN node.way : ArgVariance(node.way[k]) = Invariant <=> Known(node.way[k])
    BY ArgIsKnown
  <2> QED BY <2>1, <2>2, PositionIsInvariant
<1>2. ASSUME NEW k \in DOMAIN node.lts
      PROVE  Compose(PositionAt(node.way), LifetimeVariance(LifetimeSlot(node, k))) = Invariant
               <=> There(k)
  <2>1. LifetimeVariance(LifetimeSlot(node, k)) = Invariant <=> Known(LifetimeSlot(node, k))
    BY LifetimeIsKnown
  <2>2. There(k) <=> Passed \/ Known(LifetimeSlot(node, k))
    OBVIOUS
  <2> HIDE DEF There, Passed
  <2>3. Covariant # Invariant
    BY DEF Covariant, Invariant
  <2> QED BY <1>1, <2>1, <2>2, <2>3 DEF Compose, Variance
<1> HIDE DEF Passed, There
<1>3. s \in Walk(d, node) <=> \/ Passed /\ s \in types
                              \/ \E k \in DOMAIN node.lts : There(k) /\ s \in names(k)
  BY <1>1, <1>2 DEF Walk
<1>4. ASSUME NEW m
      PROVE  m \in Mentions(d, node)
               <=> \/ \E n \in types : m = [slot |-> n, way |-> on]
                   \/ \E k \in DOMAIN node.lts : \E n \in names(k) :
                        m = [slot |-> n, way |-> on \cup {LifetimeSlot(node, k)}]
  BY DEF Mentions
<1> HIDE DEF types, names, on
<1>5. ASSUME Passed, s \in types
      PROVE  \E m \in Mentions(d, node) : m.slot = s /\ \E slot \in m.way : Known(slot)
  <2> DEFINE m == [slot |-> s, way |-> on]
  <2>1. m \in Mentions(d, node) /\ m.slot = s /\ m.way = on
    BY <1>4, <1>5
  <2> QED BY <1>5, <2>1 DEF Passed
<1>6. ASSUME NEW k \in DOMAIN node.lts, There(k), s \in names(k)
      PROVE  \E m \in Mentions(d, node) : m.slot = s /\ \E slot \in m.way : Known(slot)
  <2> DEFINE m == [slot |-> s, way |-> on \cup {LifetimeSlot(node, k)}]
  <2>1. m \in Mentions(d, node) /\ m.slot = s /\ m.way = on \cup {LifetimeSlot(node, k)}
    BY <1>4, <1>6
  <2> QED BY <1>6, <2>1 DEF There
<1>7. ASSUME NEW m \in Mentions(d, node), m.slot = s, NEW slot \in m.way, Known(slot)
      PROVE  \/ Passed /\ s \in types
             \/ \E k \in DOMAIN node.lts : There(k) /\ s \in names(k)
  BY <1>4, <1>7 DEF Passed, There
<1> QED
  BY <1>3, <1>5, <1>6, <1>7

(***************************************************************************)
(* The invariant                                                           *)
(***************************************************************************)
Marks(i) == UNION {Walk(table[i], node) : node \in Nodes(table[i])}

VarTypeOK ==
  /\ table \in Tables
  /\ invariant \subseteq Slots /\ snap \subseteq invariant
  /\ at \in 1..(Len(table) + 1) /\ round \in Nat /\ settled \in BOOLEAN

(* Every round but the last finds a slot more. *)
RoundsCounted == round <= Cardinality(snap) + 1

(* What was visited in this round has marked what the snapshot knows. *)
VisitedMarked == \A i \in 1..(at - 1) : Marks(i) \subseteq invariant

(* Nothing is marked that could be left covariant. *)
NoneTooMany == \A known \in SUBSET Slots : IsClosed(known) => invariant \subseteq known

SettledIsWhole == settled => at = Len(table) + 1 /\ invariant = snap

VarIInv == VarTypeOK /\ RoundsCounted /\ VisitedMarked /\ NoneTooMany /\ SettledIsWhole

LEMMA TablesHere ==
  ASSUME AreTables, VarTypeOK
  PROVE  /\ IsSeq(table) /\ Len(table) \in Nat /\ DOMAIN table = 1..Len(table)
         /\ \A i \in DOMAIN table : IsDeclaration(table[i])
         /\ \A i \in DOMAIN table : \A node \in Nodes(table[i]) : IsNode(node)
         /\ snap \subseteq Slots
BY DEF AreTables, VarTypeOK, IsSeq, IsDeclaration

(* The slots marked are slots that some mention leads to. *)
LEMMA MarksAreKnown ==
  ASSUME AreTables, VarTypeOK, NEW i \in DOMAIN table, NEW s
  PROVE  /\ s \in Marks(i) =>
              \E m \in AllMentions : m.slot = s /\ \E slot \in m.way : Known(slot)
         /\ Marks(i) \subseteq Slots
<1>1. ASSUME NEW r \in Marks(i)
      PROVE  \E node \in Nodes(table[i]) : r \in Walk(table[i], node)
  BY <1>1 DEF Marks
<1>2. ASSUME s \in Marks(i)
      PROVE  \E m \in AllMentions : m.slot = s /\ \E slot \in m.way : Known(slot)
  <2>1. PICK node \in Nodes(table[i]) : s \in Walk(table[i], node)
    BY <1>1, <1>2
  <2>2. IsNode(node)
    BY TablesHere
  <2>3. PICK m \in Mentions(table[i], node) : m.slot = s /\ \E slot \in m.way : Known(slot)
    BY <2>1, <2>2, TablesHere, WalkIsKnown
  <2>4. m \in AllMentions
    BY DEF AllMentions
  <2> QED BY <2>3, <2>4
<1>3. ASSUME NEW node, NEW r \in Walk(table[i], node)
      PROVE  r \in Slots
  BY <1>3, NamedAreSlots DEF Walk
<1> QED
  BY <1>1, <1>2, <1>3

(* When all were visited, whatever the snapshot passes on is marked. *)
LEMMA AllMarked ==
  ASSUME AreTables, VarTypeOK, VisitedMarked, at = Len(table) + 1,
         NEW m \in AllMentions, NEW slot \in m.way, Known(slot)
  PROVE  m.slot \in invariant
<1>0. PICK i \in DOMAIN table : m \in UNION {Mentions(table[i], node) : node \in Nodes(table[i])}
  BY DEF AllMentions
<1>1. PICK node \in Nodes(table[i]) : m \in Mentions(table[i], node)
  BY <1>0
<1>2. IsNode(node)
  BY TablesHere
<1>3. m.slot \in Walk(table[i], node)
  BY <1>1, <1>2, TablesHere, WalkIsKnown
<1>4. m.slot \in Marks(i)
  BY <1>3 DEF Marks
<1>5. i \in 1..(at - 1)
  BY TablesHere
<1> QED
  BY <1>4, <1>5 DEF VisitedMarked

(* What is closed depends on the declarations only. *)
LEMMA ClosedIsConstant ==
  ASSUME table' = table
  PROVE  \A known : IsClosed(known)' <=> IsClosed(known)
<1>1. AllMentions' = AllMentions
  BY DEF AllMentions
<1>2. \A slot : Pins(slot)' <=> Pins(slot)
  BY DEF Pins, Slots
<1> QED
  BY <1>1, <1>2 DEF IsClosed

LEMMA InitHolds ==
  ASSUME AreTables, VarInit
  PROVE  VarIInv
<1>1. /\ table \in Tables /\ invariant = {} /\ snap = {} /\ at = 1 /\ round = 1
      /\ settled = FALSE
  BY DEF VarInit
<1>2. Len(table) \in Nat
  BY <1>1 DEF AreTables, IsSeq
<1>3. VarTypeOK
  <2>1. at \in 1..(Len(table) + 1) /\ round \in Nat
    BY <1>1, <1>2
  <2> QED BY <1>1, <2>1 DEF VarTypeOK
<1>4. RoundsCounted
  BY <1>1, FS_EmptySet DEF RoundsCounted
<1> QED
  BY <1>1, <1>3, <1>4 DEF VarIInv, VisitedMarked, NoneTooMany, SettledIsWhole

LEMMA VisitKeeps ==
  ASSUME AreTables, VarIInv, Visit
  PROVE  VarIInv'
<1>1. VarTypeOK /\ RoundsCounted /\ VisitedMarked /\ NoneTooMany
  BY DEF VarIInv
<1>2. /\ at <= Len(table) /\ settled = FALSE
      /\ invariant' = invariant \cup Marks(at) /\ at' = at + 1
      /\ table' = table /\ snap' = snap /\ round' = round /\ settled' = settled
  BY <1>1 DEF Visit, Marks, VarTypeOK
<1>3. at \in DOMAIN table /\ at \in Nat /\ Len(table) \in Nat
  BY <1>1, <1>2, TablesHere DEF VarTypeOK
<1>4. Slots' = Slots
  BY <1>2 DEF Slots
<1>5. VarTypeOK'
  <2>1. Marks(at) \subseteq Slots
    BY <1>1, <1>3, MarksAreKnown
  <2> QED BY <1>1, <1>2, <1>3, <1>4, <2>1 DEF VarTypeOK
<1>6. RoundsCounted'
  BY <1>1, <1>2 DEF RoundsCounted
<1>7. \A i : Marks(i)' = Marks(i)
  BY <1>2, <1>4 DEF Marks, Walk, Nodes, PositionAt, Compose, ArgVariance, LifetimeVariance,
                    SlotVariance
<1>8. VisitedMarked'
  <2> SUFFICES ASSUME NEW i \in 1..at PROVE Marks(i) \subseteq invariant \cup Marks(at)
    BY <1>2, <1>3, <1>7 DEF VisitedMarked
  <2>1. i = at \/ i \in 1..(at - 1)
    BY <1>3
  <2> QED BY <1>1, <2>1 DEF VisitedMarked
<1>9. NoneTooMany'
  <2> SUFFICES ASSUME NEW known \in SUBSET Slots, IsClosed(known)
               PROVE  invariant \cup Marks(at) \subseteq known
    <3>1. \A known : IsClosed(known)' <=> IsClosed(known)
      BY <1>2, ClosedIsConstant
    <3> QED BY <1>2, <1>4, <3>1 DEF NoneTooMany
  <2>1. invariant \subseteq known /\ snap \subseteq known
    BY <1>1 DEF NoneTooMany, VarTypeOK
  <2>2. ASSUME NEW s \in Marks(at)
        PROVE  s \in known
    <3>1. PICK m \in AllMentions : m.slot = s /\ \E slot \in m.way : Known(slot)
      BY <1>1, <1>3, <2>2, MarksAreKnown
    <3> QED BY <2>1, <3>1 DEF IsClosed, Known
  <2> QED BY <2>1, <2>2
<1>10. SettledIsWhole'
  BY <1>2 DEF SettledIsWhole
<1> QED
  BY <1>5, <1>6, <1>8, <1>9, <1>10 DEF VarIInv

LEMMA EndRoundKeeps ==
  ASSUME AreTables, VarIInv, EndRound
  PROVE  VarIInv'
<1>1. VarTypeOK /\ RoundsCounted /\ VisitedMarked /\ NoneTooMany
  BY DEF VarIInv
<1>2. settled = FALSE /\ at > Len(table) /\ table' = table /\ invariant' = invariant
  BY <1>1 DEF EndRound, VarTypeOK
<1>3. at = Len(table) + 1 /\ Len(table) \in Nat
  BY <1>1, <1>2, TablesHere DEF VarTypeOK
<1>4. Slots' = Slots
  BY <1>2 DEF Slots
<1>5. NoneTooMany'
  <2>1. \A known : IsClosed(known)' <=> IsClosed(known)
    BY <1>2, ClosedIsConstant
  <2> QED BY <1>1, <1>2, <1>4, <2>1 DEF NoneTooMany
<1>6. CASE invariant = snap
  <2>1. settled' = TRUE /\ snap' = snap /\ at' = at /\ round' = round
    BY <1>6 DEF EndRound
  <2>2. \A i : Marks(i)' = Marks(i)
    BY <1>2, <1>4, <2>1 DEF Marks, Walk, Nodes, PositionAt, Compose, ArgVariance,
                            LifetimeVariance, SlotVariance
  <2>3. VarTypeOK'
    BY <1>1, <1>2, <1>4, <2>1 DEF VarTypeOK
  <2>4. VisitedMarked'
    BY <1>1, <1>2, <2>1, <2>2 DEF VisitedMarked
  <2> QED BY <1>1, <1>2, <1>3, <1>5, <1>6, <2>1, <2>3, <2>4
          DEF VarIInv, RoundsCounted, SettledIsWhole
<1>7. CASE invariant # snap
  <2>1. settled' = settled /\ snap' = invariant /\ at' = 1 /\ round' = round + 1
    BY <1>7 DEF EndRound
  <2>2. VarTypeOK'
    BY <1>1, <1>2, <1>3, <1>4, <2>1 DEF VarTypeOK
  <2>3. RoundsCounted'
    <3>1. IsFiniteSet(Slots)
      BY <1>1, TablesHere, SlotsAreFinite
    <3>2. IsFiniteSet(invariant) /\ snap \subseteq invariant
      BY <1>1, <3>1, FS_Subset DEF VarTypeOK
    <3>3. Cardinality(snap) < Cardinality(invariant)
          /\ Cardinality(snap) \in Nat /\ Cardinality(invariant) \in Nat
      BY <1>7, <3>2, FS_Subset, FS_CardinalityType
    <3> QED BY <1>1, <2>1, <3>3 DEF RoundsCounted, VarTypeOK
  <2>4. VisitedMarked' /\ SettledIsWhole'
    BY <1>2, <2>1 DEF VisitedMarked, SettledIsWhole
  <2> QED BY <1>5, <2>2, <2>3, <2>4 DEF VarIInv
<1> QED
  BY <1>6, <1>7

LEMMA StutterKeeps ==
  ASSUME VarIInv, UNCHANGED varianceVars
  PROVE  VarIInv'
<1>1. /\ table' = table /\ invariant' = invariant /\ snap' = snap /\ at' = at
      /\ round' = round /\ settled' = settled
  BY DEF varianceVars
<1>2. Slots' = Slots
  BY <1>1 DEF Slots
<1>3. \A i : Marks(i)' = Marks(i)
  BY <1>1, <1>2 DEF Marks, Walk, Nodes, PositionAt, Compose, ArgVariance, LifetimeVariance,
                    SlotVariance
<1>4. NoneTooMany'
  <2>1. \A known : IsClosed(known)' <=> IsClosed(known)
    BY <1>1, ClosedIsConstant
  <2> QED BY <1>1, <1>2, <2>1 DEF VarIInv, NoneTooMany
<1> QED
  BY <1>1, <1>2, <1>3, <1>4 DEF VarIInv, VarTypeOK, RoundsCounted, VisitedMarked, SettledIsWhole

(* On any tables, what compute_variance has marked is in every solution,   *)
(* and what it visited in a round is consistent with its snapshot.         *)
THEOREM VarianceInvariant == VarSpec => []VarIInv
<1> USE TablesOK
<1>1. VarInit => VarIInv
  BY InitHolds
<1>2. VarIInv /\ [VarNext]_varianceVars => VarIInv'
  BY VisitKeeps, EndRoundKeeps, StutterKeeps DEF VarNext
<1> QED
  BY <1>1, <1>2, PTL DEF VarSpec

(* On any tables, compute_variance takes at most a round for each          *)
(* parameter and one more, and ends with the least variances that agree    *)
(* with the declarations.                                                  *)
THEOREM LeastVariances == VarSpec => []VariancesAreLeast
<1> USE TablesOK
<1>1. VarIInv => VariancesAreLeast
  <2> SUFFICES ASSUME VarIInv PROVE VariancesAreLeast
    OBVIOUS
  <2>1. VarTypeOK /\ RoundsCounted /\ VisitedMarked /\ NoneTooMany /\ SettledIsWhole
    BY DEF VarIInv
  <2>2. round <= Cardinality(Slots) + 1
    <3>1. IsFiniteSet(Slots) /\ snap \subseteq Slots
      BY <2>1, TablesHere, SlotsAreFinite
    <3>2. Cardinality(snap) <= Cardinality(Slots)
          /\ Cardinality(snap) \in Nat /\ Cardinality(Slots) \in Nat
      BY <3>1, FS_Subset, FS_CardinalityType
    <3> QED BY <2>1, <3>2 DEF RoundsCounted, VarTypeOK
  <2>3. ASSUME settled
        PROVE  IsClosed(invariant)
    <3> SUFFICES ASSUME NEW m \in AllMentions, NEW slot \in m.way,
                        Pins(slot) \/ slot \in invariant
                 PROVE  m.slot \in invariant
      BY DEF IsClosed
    <3>1. at = Len(table) + 1 /\ invariant = snap
      BY <2>1, <2>3 DEF SettledIsWhole
    <3>2. Known(slot)
      BY <3>1 DEF Known
    <3> QED BY <2>1, <3>1, <3>2, AllMarked
  <2> QED BY <2>1, <2>2, <2>3 DEF VariancesAreLeast, NoneTooMany
<1> QED
  BY <1>1, VarianceInvariant, PTL

=============================================================================
