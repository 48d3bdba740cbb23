--------------------------- MODULE RegionsProofs ---------------------------
(***************************************************************************)
(* Proofs about the lifetime solver: its two matrices are the least        *)
(* preorders over the edges, and what its verdict means for a caller.      *)
(***************************************************************************)
EXTENDS Regions, TLAPS

LEMMA GraphFacts ==
  ASSUME graph \in Graphs
  PROVE  /\ graph.n \in Nat \ {0}
         /\ V = 0 .. (graph.n - 1)
         /\ graph.fixed \subseteq V /\ STATIC \in graph.fixed
         /\ graph.declared \subseteq graph.fixed \X graph.fixed
         /\ graph.declared \subseteq V \X V
         /\ Edges(graph) \subseteq V \X V
BY GraphsOK DEF GraphOK, Regions, V, Edges

(* Relations over the regions are compared cell by cell. *)
LEMMA CellByCell ==
  ASSUME NEW S, NEW R, NEW Q, R \subseteq S \X S,
         \A x, y \in S : <<x, y>> \in R => <<x, y>> \in Q
  PROVE  R \subseteq Q
<1> SUFFICES ASSUME NEW e \in R PROVE e \in Q
  OBVIOUS
<1>1. PICK x, y \in S : e = <<x, y>>
  OBVIOUS
<1> QED
  BY <1>1

LEMMA SeedType ==
  ASSUME NEW E, E \subseteq V \X V
  PROVE  Seed(E) \subseteq V \X V
BY DEF Seed, Identity

-----------------------------------------------------------------------------
(* TypeOK is inductive. *)
LEMMA InitType == Init => TypeOK
<1> SUFFICES ASSUME Init PROVE TypeOK
  OBVIOUS
<1>1. Seed(graph.declared) \subseteq V \X V
  BY GraphFacts, SeedType DEF Init
<1> QED
  BY <1>1, GraphFacts DEF Init, TypeOK

LEMMA NextType == TypeOK /\ [Next]_vars => TypeOK'
<1> SUFFICES ASSUME TypeOK, [Next]_vars PROVE TypeOK'
  OBVIOUS
<1>g. /\ graph \in Graphs /\ graph.n \in Nat \ {0}
      /\ graph.declared \subseteq V \X V /\ Edges(graph) \subseteq V \X V
  BY GraphFacts DEF TypeOK
<1>v. graph' = graph /\ V' = V
  BY DEF V, Next, Row, NextRound, DeclaredClosed, FullClosed, CheckRow, Accept, vars
<1> USE <1>g, <1>v
<1>1. CASE Row
  <2>1. a \in V
    BY <1>1, GraphFacts DEF Row, TypeOK
  <2>2. \A b \in V : <<a, b>> \in V \X V
    BY <2>1
  <2>3. c' \subseteq V \X V
    BY <1>1, <2>2 DEF Row, TypeOK
  <2>4. a' \in 0..graph.n
    BY <1>1 DEF Row, TypeOK
  <2> QED
    BY <1>1, <2>3, <2>4 DEF Row, TypeOK
<1>2. CASE NextRound
  BY <1>2 DEF NextRound, TypeOK
<1>3. CASE DeclaredClosed
  <2>1. Seed(Edges(graph)) \subseteq V \X V
    BY SeedType
  <2> QED
    BY <1>3, <2>1 DEF DeclaredClosed, TypeOK
<1>4. CASE FullClosed
  BY <1>4 DEF FullClosed, TypeOK
<1>5. CASE CheckRow
  <2>1. CASE i' = i + 1 /\ UNCHANGED <<phase, verdict>>
    BY <1>5, <2>1 DEF CheckRow, TypeOK
  <2>2. CASE i \in graph.fixed /\ phase' = "done" /\ UNCHANGED i
             /\ \E j \in Unsupported(i) : verdict' = <<i, j>>
    <3>1. verdict' \in graph.fixed \X graph.fixed
      BY <2>2 DEF Unsupported
    <3> QED
      BY <1>5, <2>2, <3>1 DEF CheckRow, TypeOK
  <2> QED
    BY <1>5, <2>1, <2>2 DEF CheckRow
<1>6. CASE Accept
  BY <1>6 DEF Accept, TypeOK
<1>7. CASE UNCHANGED vars
  BY <1>7 DEF vars, TypeOK
<1> QED
  BY <1>1, <1>2, <1>3, <1>4, <1>5, <1>6, <1>7 DEF Next

(* The solver's state stays well formed (TypeOK), for every set of graphs. *)
THEOREM TypeCorrect == Spec => []TypeOK
<1>1. Init => TypeOK
  BY InitType
<1>2. TypeOK /\ [Next]_vars => TypeOK'
  BY NextType
<1> QED
  BY <1>1, <1>2, PTL DEF Spec

-----------------------------------------------------------------------------
(* The cells of a round that is complete. *)
LEMMA RoundDone ==
  ASSUME TypeOK, RoundInv, Closing, k < graph.n, a = graph.n,
         NEW x \in V, NEW y \in V
  PROVE  <<x, y>> \in c <=> <<x, y>> \in start
                            \/ (<<x, k>> \in start /\ <<k, y>> \in start)
BY GraphFacts DEF TypeOK, RoundInv

(* What a matrix closed through every region is. *)
LEMMA ClosedIsLeast ==
  ASSUME TypeOK, RoundInv, Closing, k = graph.n
  PROVE  IsClosure(c, Goal)
<1>1. c = start /\ Seed(Goal) \subseteq c
  BY DEF RoundInv
<1>2. \A m \in V : \A x, y \in V : <<x, m>> \in c /\ <<m, y>> \in c => <<x, y>> \in c
  BY <1>1, GraphFacts DEF RoundInv, TypeOK
<1>3. Preorder(c)
  BY <1>1, <1>2 DEF Preorder, Seed
<1> QED
  BY <1>1, <1>3 DEF IsClosure, Seed, RoundInv

LEMMA SeedBelow ==
  ASSUME NEW E, NEW Q \in Preorders(E)
  PROVE  Seed(E) \subseteq Q
BY DEF Preorders, Preorder, Seed

LEMMA NextRoundInv ==
  ASSUME TypeOK, RoundInv, NextRound
  PROVE  RoundInv'
<1> DEFINE thru(x, y) == <<x, k>> \in start /\ <<k, y>> \in start
<1>1. /\ Closing /\ k < graph.n /\ a = graph.n
      /\ graph' = graph /\ phase' = phase /\ c' = c /\ start' = c
      /\ k' = k + 1 /\ a' = 0
      /\ graph \in Graphs /\ k \in V /\ k \in Nat /\ graph.n \in Nat
      /\ start \subseteq V \X V /\ c \subseteq V \X V
  BY GraphFacts DEF NextRound, TypeOK
<1>2. \A x, y \in V : <<x, y>> \in c <=> <<x, y>> \in start \/ thru(x, y)
  BY <1>1, RoundDone
<1>3. V' = V /\ Goal' = Goal /\ Preorders(Goal)' = Preorders(Goal)
      /\ Seed(Goal)' = Seed(Goal)
  BY <1>1 DEF V, Goal, Preorders, Preorder, Seed, Identity
<1>4. start \subseteq c
  BY <1>1, <1>2, CellByCell
<1>5. (Seed(Goal) \subseteq start)'
  BY <1>1, <1>3, <1>4 DEF RoundInv
<1>6. (\A Q \in Preorders(Goal) : start \subseteq Q)'
  <2>1. SUFFICES ASSUME NEW Q \in Preorders(Goal) PROVE c \subseteq Q
    BY <1>1, <1>3
  <2>2. start \subseteq Q
    BY <1>1 DEF RoundInv
  <2>3. \A x, y \in V : <<x, y>> \in c => <<x, y>> \in Q
    BY <2>2, <1>1, <1>2 DEF Preorders, Preorder
  <2> QED
    BY <2>3, <1>1, CellByCell
<1>7. \A m \in 0..k : \A x, y \in V :
        <<x, m>> \in c /\ <<m, y>> \in c => <<x, y>> \in c
  <2> SUFFICES ASSUME NEW m \in 0..k, NEW x \in V, NEW y \in V,
                      <<x, m>> \in c, <<m, y>> \in c
               PROVE  <<x, y>> \in c
    OBVIOUS
  <2>1. m \in V
    BY <1>1
  <2>2. <<x, m>> \in start \/ thru(x, m)
    BY <1>2, <2>1
  <2>3. <<m, y>> \in start \/ thru(m, y)
    BY <1>2, <2>1
  <2>4. CASE m = k
    BY <2>2, <2>3, <2>4, <1>2
  <2>5. CASE m # k
    <3>1. m \in 0..(k - 1)
      BY <2>5, <1>1
    <3>2. \A p, q \in V : <<p, m>> \in start /\ <<m, q>> \in start => <<p, q>> \in start
      BY <3>1, <1>1 DEF RoundInv
    <3> QED
      BY <2>2, <2>3, <3>2, <1>1, <1>2
  <2> QED
    BY <2>4, <2>5
<1>8. (\A m \in 0..(k - 1) : \A x, y \in V :
         <<x, m>> \in start /\ <<m, y>> \in start => <<x, y>> \in start)'
  <2>1. 0..(k' - 1) = 0..k
    BY <1>1
  <2> QED
    BY <2>1, <1>1, <1>3, <1>7
<1>9. (\A x, y \in V :
         <<x, y>> \in c <=> \/ <<x, y>> \in start
                            \/ x < a /\ <<x, k>> \in start /\ <<k, y>> \in start)'
  BY <1>1, <1>3, GraphFacts
<1> QED
  BY <1>1, <1>5, <1>6, <1>8, <1>9 DEF RoundInv, Closing

LEMMA RowInv ==
  ASSUME TypeOK, RoundInv, Row
  PROVE  RoundInv'
<1>1. /\ Closing /\ k < graph.n /\ a < graph.n
      /\ graph' = graph /\ phase' = phase /\ start' = start /\ k' = k /\ a' = a + 1
      /\ c' = c \cup {<<a, b>> : b \in {b \in V : <<a, k>> \in c /\ <<k, b>> \in c}}
      /\ graph \in Graphs /\ k \in V /\ a \in V /\ a \in Nat
  BY GraphFacts DEF Row, TypeOK
<1>2. V' = V /\ Goal' = Goal /\ Preorders(Goal)' = Preorders(Goal)
      /\ Seed(Goal)' = Seed(Goal)
  BY <1>1 DEF V, Goal, Preorders, Preorder, Seed, Identity
<1>3. \A x, y \in V :
        <<x, y>> \in c <=> \/ <<x, y>> \in start
                           \/ x < a /\ <<x, k>> \in start /\ <<k, y>> \in start
  BY <1>1 DEF RoundInv
<1>4. <<a, k>> \in c <=> <<a, k>> \in start
  BY <1>1, <1>3
<1>5. \A y \in V : <<k, y>> \in c <=> <<k, y>> \in start
  BY <1>1, <1>3
<1>6. \A x, y \in V :
        <<x, y>> \in c' <=> <<x, y>> \in c
                            \/ (x = a /\ <<a, k>> \in start /\ <<k, y>> \in start)
  BY <1>1, <1>4, <1>5
<1>7. \A x \in V : x < a + 1 <=> x < a \/ x = a
  BY <1>1, GraphFacts
<1>8. (\A x, y \in V :
         <<x, y>> \in c <=> \/ <<x, y>> \in start
                            \/ x < a /\ <<x, k>> \in start /\ <<k, y>> \in start)'
  BY <1>1, <1>2, <1>3, <1>6, <1>7
<1> QED
  BY <1>1, <1>2, <1>8, GraphFacts DEF RoundInv, Closing

(* A closure that starts afresh. *)
LEMMA FreshRound ==
  ASSUME graph \in Graphs, graph' = graph, Closing', k' = 0, a' = 0,
         c' = Seed(Goal)', start' = c'
  PROVE  RoundInv'
<1>1. V' = V /\ graph.n \in Nat \ {0}
  BY GraphFacts DEF V
<1>2. (\A Q \in Preorders(Goal) : start \subseteq Q)'
  BY DEF Preorders, Preorder, Seed
<1>3. 0..(k' - 1) = {}
  BY SMT
<1> QED
  BY <1>1, <1>2, <1>3, GraphFacts DEF RoundInv

-----------------------------------------------------------------------------
SolverInv == TypeOK /\ RoundInv /\ ClosuresCorrect /\ CheckInv

LEMMA InitSolver == Init => SolverInv
<1> SUFFICES ASSUME Init PROVE SolverInv
  OBVIOUS
<1>1. graph.n \in Nat \ {0} /\ Goal = graph.declared
  BY GraphFacts DEF Init, Goal
<1>2. \A Q \in Preorders(Goal) : Seed(Goal) \subseteq Q
  BY DEF Preorders, Preorder, Seed
<1>3. RoundInv
  BY <1>1, <1>2, GraphFacts DEF RoundInv, Init, Closing
<1> QED
  BY <1>3, InitType DEF SolverInv, Init, ClosuresCorrect, CheckInv, Closing

LEMMA NextSolver == SolverInv /\ [Next]_vars => SolverInv'
<1> SUFFICES ASSUME SolverInv, [Next]_vars PROVE SolverInv'
  OBVIOUS
<1>g. /\ graph \in Graphs /\ graph.n \in Nat \ {0}
      /\ i \in Nat /\ TypeOK /\ RoundInv /\ ClosuresCorrect /\ CheckInv
  BY GraphFacts DEF SolverInv, TypeOK
<1>v. graph' = graph /\ V' = V
  BY DEF V, Next, Row, NextRound, DeclaredClosed, FullClosed, CheckRow, Accept, vars
<1>t. TypeOK'
  BY NextType, <1>g
<1>c. cD' = cD => (IsClosure(cD, graph.declared)' <=> IsClosure(cD, graph.declared))
  BY <1>v DEF IsClosure, Preorders, Preorder, Identity
<1>f. cFull' = cFull => (IsClosure(cFull, Edges(graph))' <=> IsClosure(cFull, Edges(graph)))
  BY <1>v DEF IsClosure, Preorders, Preorder, Identity
<1>u. cD' = cD /\ cFull' = cFull => \A r : Unsupported(r)' = Unsupported(r)
  BY <1>v DEF Unsupported
<1>1. CASE Row
  <2>1. RoundInv'
    BY <1>1, <1>g, RowInv
  <2>2. ClosuresCorrect' /\ CheckInv'
    BY <1>1, <1>g, <1>c, <1>f, <1>u DEF Row, Closing, ClosuresCorrect, CheckInv
  <2> QED
    BY <2>1, <2>2, <1>t DEF SolverInv
<1>2. CASE NextRound
  <2>1. RoundInv'
    BY <1>2, <1>g, NextRoundInv
  <2>2. ClosuresCorrect' /\ CheckInv'
    BY <1>2, <1>g, <1>c, <1>f DEF NextRound, Closing, ClosuresCorrect, CheckInv
  <2> QED
    BY <2>1, <2>2, <1>t DEF SolverInv
<1>3. CASE DeclaredClosed
  <2>1. Goal' = Edges(graph) /\ Seed(Goal)' = Seed(Edges(graph))
    BY <1>3, <1>v DEF DeclaredClosed, Goal, Seed, Identity
  <2>2. RoundInv'
    BY <1>3, <1>g, <1>v, <2>1, FreshRound DEF DeclaredClosed, Closing
  <2>3. IsClosure(c, graph.declared)
    BY <1>3, <1>g, ClosedIsLeast DEF DeclaredClosed, Closing, Goal
  <2>4. IsClosure(cD, graph.declared)'
    BY <2>3, <1>3, <1>v DEF DeclaredClosed, IsClosure, Preorders, Preorder, Identity
  <2> QED
    BY <2>2, <2>4, <1>3, <1>g, <1>t DEF SolverInv, DeclaredClosed, ClosuresCorrect, CheckInv, Closing
<1>4. CASE FullClosed
  <2>1. IsClosure(c, Edges(graph))
    BY <1>4, <1>g, ClosedIsLeast DEF FullClosed, Closing, Goal
  <2>2. IsClosure(cFull, Edges(graph))'
    BY <2>1, <1>4, <1>v DEF FullClosed, IsClosure, Preorders, Preorder, Identity
  <2>3. ClosuresCorrect' /\ RoundInv'
    BY <2>2, <1>4, <1>g, <1>c DEF FullClosed, ClosuresCorrect, RoundInv, Closing
  <2>4. CheckInv'
    BY <1>4, <1>g DEF FullClosed, CheckInv, Closing
  <2> QED
    BY <2>3, <2>4, <1>t DEF SolverInv
<1>5. CASE CheckRow
  <2>1. ClosuresCorrect' /\ RoundInv'
    BY <1>5, <1>g, <1>c, <1>f DEF CheckRow, ClosuresCorrect, RoundInv, Closing
  <2>2. CASE i' = i + 1 /\ phase' = phase /\ (i \notin graph.fixed \/ Unsupported(i) = {})
    <3>1. \A r \in 0..(i' - 1) : r \in 0..(i - 1) \/ r = i
      BY <2>2, <1>g
    <3>2. CheckInv'
      BY <3>1, <2>2, <1>5, <1>g, <1>v, <1>u DEF CheckRow, CheckInv, Closing
    <3> QED
      BY <3>2, <2>1, <1>t DEF SolverInv
  <2>3. CASE i \in graph.fixed /\ phase' = "done" /\ \E j \in Unsupported(i) : verdict' = <<i, j>>
    <3>1. CheckInv'
      BY <2>3, <1>5, <1>v, <1>u DEF CheckRow, CheckInv, Closing
    <3> QED
      BY <3>1, <2>1, <1>t DEF SolverInv
  <2> QED
    BY <2>2, <2>3, <1>5 DEF CheckRow
<1>6. CASE Accept
  <2>1. ClosuresCorrect' /\ RoundInv'
    BY <1>6, <1>g, <1>c, <1>f DEF Accept, ClosuresCorrect, RoundInv, Closing
  <2>2. CheckInv'
    <3>1. \A r \in graph.fixed : r \in 0..(i - 1)
      BY <1>6, <1>g, GraphFacts DEF Accept
    <3> QED
      BY <3>1, <1>6, <1>g, <1>v, <1>u DEF Accept, CheckInv, Closing
  <2> QED
    BY <2>1, <2>2, <1>t DEF SolverInv
<1>7. CASE UNCHANGED vars
  <2>1. RoundInv' <=> RoundInv
    BY <1>7, <1>v DEF vars, RoundInv, Closing, Goal, Preorders, Preorder, Identity, Seed
  <2>2. ClosuresCorrect' /\ CheckInv'
    BY <1>7, <1>g, <1>v, <1>c, <1>f, <1>u DEF vars, ClosuresCorrect, CheckInv, Closing
  <2> QED
    BY <2>1, <2>2, <1>g, <1>t DEF SolverInv
<1> QED
  BY <1>1, <1>2, <1>3, <1>4, <1>5, <1>6, <1>7 DEF Next

LEMMA SolverCorrect == Spec => []SolverInv
<1>1. Init => SolverInv
  BY InitSolver
<1>2. SolverInv /\ [Next]_vars => SolverInv'
  BY NextSolver
<1> QED
  BY <1>1, <1>2, PTL DEF Spec

(* Floyd-Warshall, in place and over a graph of any size, leaves in c_d    *)
(* and c_full the least preorders over the declared edges and over all     *)
(* edges: nothing is missed and nothing invented.                          *)
THEOREM ClosuresAreCorrect == Spec => []ClosuresCorrect
<1>1. SolverInv => ClosuresCorrect
  BY DEF SolverInv
<1> QED
  BY <1>1, SolverCorrect, PTL

-----------------------------------------------------------------------------
(* An accepted function: extend the caller's choice by giving a region of  *)
(* the body the points of the fixed regions it must outlive.               *)
LEMMA AcceptedIsSolvable ==
  ASSUME graph \in Graphs,
         IsClosure(cD, graph.declared), IsClosure(cFull, Edges(graph)),
         \A r \in graph.fixed : Unsupported(r) = {},
         NEW val \in Callers
  PROVE  Solvable(val)
<1> DEFINE ext == [x \in V |-> \E f \in graph.fixed : val[f] /\ <<x, f>> \in cFull]
           Q == {e \in V \X V : e[1] \in graph.fixed /\ e[2] \in graph.fixed
                                  => (val[e[2]] => val[e[1]])}
           P == {e \in Q : e[1] \in graph.fixed <=> e[2] \in graph.fixed}
<1>1. /\ graph.fixed \subseteq V /\ graph.declared \subseteq graph.fixed \X graph.fixed
      /\ Edges(graph) \subseteq V \X V
      /\ val \in [graph.fixed -> BOOLEAN]
  BY GraphFacts DEF Callers
<1>2. P \in Preorders(graph.declared)
  <2>1. Identity(V) \subseteq P
    BY DEF Identity
  <2>2. \A x, y, z \in V : <<x, y>> \in P /\ <<y, z>> \in P => <<x, z>> \in P
    OBVIOUS
  <2>3. graph.declared \subseteq P
    <3> SUFFICES ASSUME NEW e \in graph.declared PROVE e \in P
      OBVIOUS
    <3>1. PICK x, y \in graph.fixed : e = <<x, y>>
      BY <1>1
    <3>2. val[y] => val[x]
      BY <3>1 DEF Callers
    <3> QED
      BY <3>1, <3>2, <1>1
  <2> QED
    BY <2>1, <2>2, <2>3 DEF Preorders, Preorder
<1>3. \A x, y \in graph.fixed : <<x, y>> \in cD => (val[y] => val[x])
  <2>1. cD \subseteq P
    BY <1>2 DEF IsClosure
  <2> QED
    BY <2>1
<1>4. \A x, y \in graph.fixed : <<x, y>> \in cFull => (val[y] => val[x])
  <2> SUFFICES ASSUME NEW x \in graph.fixed, NEW y \in graph.fixed, <<x, y>> \in cFull, x # y
               PROVE  <<x, y>> \in cD
    BY <1>3
  <2> QED
    BY DEF Unsupported
<1>5. /\ \A x \in V : <<x, x>> \in cFull
      /\ \A x, y, z \in V : <<x, y>> \in cFull /\ <<y, z>> \in cFull => <<x, z>> \in cFull
      /\ Edges(graph) \subseteq cFull
  BY DEF IsClosure, Preorder, Identity
<1>6. ext \in [V -> BOOLEAN]
  OBVIOUS
<1>7. Extends(ext, val)
  <2> SUFFICES ASSUME NEW x \in graph.fixed PROVE ext[x] = val[x]
    BY DEF Extends
  <2>1. val[x] => ext[x]
    BY <1>1, <1>5
  <2>2. ext[x] => val[x]
    BY <1>1, <1>4
  <2> QED
    BY <2>1, <2>2, <1>1, <1>6
<1>8. Satisfies(ext, Edges(graph))
  <2> SUFFICES ASSUME NEW x \in V, NEW y \in V, <<x, y>> \in Edges(graph), ext[y]
               PROVE  ext[x]
    BY DEF Satisfies
  <2>1. PICK f \in graph.fixed : val[f] /\ <<y, f>> \in cFull
    OBVIOUS
  <2>2. <<x, f>> \in cFull
    BY <2>1, <1>1, <1>5
  <2> QED
    BY <2>1, <2>2
<1> QED
  BY <1>6, <1>7, <1>8 DEF Solvable

(* A rejected one: a caller whose regions hold the point exactly when the  *)
(* declared facts make them outlive verdict[2] leaves the body no choice.  *)
LEMMA RejectedIsUnsolvable ==
  ASSUME graph \in Graphs,
         IsClosure(cD, graph.declared), IsClosure(cFull, Edges(graph)),
         NEW r \in graph.fixed, NEW s \in Unsupported(r)
  PROVE  \E val \in Callers : ~ Solvable(val)
<1> DEFINE val == [x \in graph.fixed |-> <<x, s>> \in cD]
<1>1. /\ graph.fixed \subseteq V /\ graph.declared \subseteq graph.fixed \X graph.fixed
      /\ s \in graph.fixed /\ <<r, s>> \in cFull /\ <<r, s>> \notin cD
      /\ r \in V /\ s \in V
  BY GraphFacts DEF Unsupported
<1>2. /\ \A x \in V : <<x, x>> \in cD
      /\ \A x, y, z \in V : <<x, y>> \in cD /\ <<y, z>> \in cD => <<x, z>> \in cD
      /\ graph.declared \subseteq cD
  BY DEF IsClosure, Preorder, Identity
<1>3. val \in Callers
  <2>1. \A x, y \in graph.fixed : <<x, y>> \in graph.declared => (val[y] => val[x])
    BY <1>1, <1>2
  <2>2. val \in [graph.fixed -> BOOLEAN]
    OBVIOUS
  <2> HIDE DEF val
  <2> QED
    BY <2>1, <2>2, Zenon DEF Callers
<1>4. ASSUME NEW ext \in [V -> BOOLEAN], Extends(ext, val), Satisfies(ext, Edges(graph))
      PROVE  FALSE
  <2> DEFINE Q == {e \in V \X V : ext[e[2]] => ext[e[1]]}
  <2>1. Q \in Preorders(Edges(graph))
    <3>1. Identity(V) \subseteq Q
      BY DEF Identity
    <3>2. \A x, y, z \in V : <<x, y>> \in Q /\ <<y, z>> \in Q => <<x, z>> \in Q
      OBVIOUS
    <3>3. Edges(graph) \subseteq Q
      <4>1. \A x, y \in V : <<x, y>> \in Edges(graph) => <<x, y>> \in Q
        BY <1>4 DEF Satisfies
      <4> QED
        BY <4>1, GraphFacts, CellByCell
    <3> QED
      BY <3>1, <3>2, <3>3 DEF Preorders, Preorder
  <2>2. <<r, s>> \in Q
    BY <2>1, <1>1 DEF IsClosure
  <2>3. ext[s] => ext[r]
    BY <2>2, <1>1
  <2>4. /\ ext[s] = val[s] /\ ext[r] = val[r]
        /\ val[s] = (<<s, s>> \in cD) /\ val[r] = (<<r, s>> \in cD)
    BY <1>4, <1>1 DEF Extends
  <2> QED
    BY <2>3, <2>4, <1>1, <1>2
<1> QED
  BY <1>3, <1>4 DEF Solvable

(* For graphs of any size, acceptance means that the body can be typed     *)
(* under every choice of lifetimes the declarations allow, and rejection   *)
(* that some allowed choice breaks it (VerdictCorrect).                    *)
THEOREM VerdictIsCorrect == Spec => []VerdictCorrect
<1>1. SolverInv => VerdictCorrect
  <2> SUFFICES ASSUME SolverInv, phase = "done"
               PROVE  verdict = <<>> <=> \A val \in Callers : Solvable(val)
    BY DEF VerdictCorrect
  <2>1. graph \in Graphs /\ IsClosure(cD, graph.declared) /\ IsClosure(cFull, Edges(graph))
    BY DEF SolverInv, TypeOK, ClosuresCorrect
  <2>2. CASE verdict = <<>>
    <3>1. \A r \in graph.fixed : Unsupported(r) = {}
      BY <2>2 DEF SolverInv, CheckInv
    <3> QED
      BY <2>1, <2>2, <3>1, AcceptedIsSolvable
  <2>3. CASE verdict # <<>>
    <3>1. verdict[1] \in graph.fixed /\ verdict[2] \in Unsupported(verdict[1])
      BY <2>3 DEF SolverInv, CheckInv
    <3> QED
      BY <2>1, <2>3, <3>1, RejectedIsUnsolvable
  <2> QED
    BY <2>2, <2>3
<1> QED
  BY <1>1, SolverCorrect, PTL

-----------------------------------------------------------------------------
(* If no required edge lay on a chain from r to s, the cells of c_full     *)
(* that are in c_d or off those chains would be a preorder over all edges, *)
(* and c_full, the least one, would not relate r and s.                    *)
LEMMA ChainHasRequiredEdge ==
  ASSUME graph \in Graphs,
         IsClosure(cD, graph.declared), IsClosure(cFull, Edges(graph)),
         cFull \subseteq V \X V,
         NEW r \in V, NEW s \in V, <<r, s>> \in cFull, <<r, s>> \notin cD
  PROVE  \E e \in graph.required : <<r, e[1]>> \in cFull /\ <<e[2], s>> \in cFull
<1> SUFFICES ASSUME \A e \in graph.required : ~ (<<r, e[1]>> \in cFull /\ <<e[2], s>> \in cFull)
             PROVE  FALSE
  OBVIOUS
<1> DEFINE OnChain(x, y) == <<r, x>> \in cFull /\ <<y, s>> \in cFull
           Q == {e \in V \X V : e \in cFull /\ (OnChain(e[1], e[2]) => e \in cD)}
<1>1. /\ Identity(V) \subseteq cD /\ Identity(V) \subseteq cFull
      /\ \A x, y, z \in V : <<x, y>> \in cD /\ <<y, z>> \in cD => <<x, z>> \in cD
      /\ \A x, y, z \in V : <<x, y>> \in cFull /\ <<y, z>> \in cFull => <<x, z>> \in cFull
      /\ graph.declared \subseteq cD /\ Edges(graph) \subseteq cFull
      /\ Edges(graph) \subseteq V \X V /\ Identity(V) \subseteq V \X V
  BY GraphFacts DEF IsClosure, Preorder, Identity
<1>2. Identity(V) \subseteq Q
  BY <1>1
<1>3. \A x, y \in V : <<x, y>> \in Q <=> <<x, y>> \in cFull /\ (OnChain(x, y) => <<x, y>> \in cD)
  OBVIOUS
<1>4. ASSUME NEW x \in V, NEW y \in V, NEW z \in V, <<x, y>> \in Q, <<y, z>> \in Q
      PROVE  <<x, z>> \in Q
  <2>1. <<x, y>> \in cFull /\ <<y, z>> \in cFull /\ <<x, z>> \in cFull
    BY <1>1, <1>3, <1>4
  <2>2. ASSUME OnChain(x, z) PROVE <<x, z>> \in cD
    <3>1. OnChain(x, y) /\ OnChain(y, z)
      BY <2>1, <2>2, <1>1
    <3> QED
      BY <3>1, <1>1, <1>3, <1>4
  <2> QED
    BY <2>1, <2>2, <1>3
<1>5. Edges(graph) \subseteq Q
  <2> SUFFICES ASSUME NEW e \in Edges(graph) PROVE e \in Q
    OBVIOUS
  <2>1. e \in cFull /\ e \in V \X V
    BY <1>1
  <2>2. OnChain(e[1], e[2]) => e \in cD
    BY <1>1 DEF Edges
  <2> QED
    BY <2>1, <2>2
<1>6. Q \in Preorders(Edges(graph))
  BY <1>2, <1>4, <1>5 DEF Preorders, Preorder
<1>7. <<r, s>> \in Q
  BY <1>6 DEF IsClosure
<1>8. OnChain(r, s)
  BY <1>1 DEF Identity
<1> QED
  BY <1>3, <1>7, <1>8

(* Every rejection is attributed to an operation of the body, whose span   *)
(* the diagnostic takes (diag_for_pair).                                   *)
THEOREM RejectionsAreBlamed == Spec => []RejectionIsBlamed
<1>1. SolverInv => RejectionIsBlamed
  <2> SUFFICES ASSUME SolverInv, phase = "done", verdict # <<>>
               PROVE  Blame # {}
    BY DEF RejectionIsBlamed
  <2>1. /\ graph \in Graphs /\ cFull \subseteq V \X V
        /\ IsClosure(cD, graph.declared) /\ IsClosure(cFull, Edges(graph))
    BY DEF SolverInv, TypeOK, ClosuresCorrect
  <2>2. /\ verdict[1] \in V /\ verdict[2] \in V
        /\ <<verdict[1], verdict[2]>> \in cFull /\ <<verdict[1], verdict[2]>> \notin cD
    BY <2>1, GraphFacts DEF SolverInv, CheckInv, Unsupported
  <2>3. \E e \in graph.required :
          <<verdict[1], e[1]>> \in cFull /\ <<e[2], verdict[2]>> \in cFull
    BY <2>1, <2>2, ChainHasRequiredEdge
  <2> QED
    BY <2>3 DEF Blame
<1> QED
  BY <1>1, SolverCorrect, PTL
=============================================================================
