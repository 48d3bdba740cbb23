------------------------------ MODULE Regions ------------------------------
(***************************************************************************)
(* The lifetime solver of borrowck/regions.rs.  A function's region graph  *)
(* has declared edges (its where-clauses, and that 'static outlives every  *)
(* region of the signature) and required ones (what its body does).  The   *)
(* solver closes both edge sets with Floyd-Warshall and rejects the        *)
(* function when the body implies an outlives relation between two regions *)
(* of the signature that the declarations do not.                          *)
(*                                                                         *)
(* A matrix of the code is the set of its true cells.  One step is one     *)
(* iteration of a second-level loop: a row of a round, a row of the check. *)
(***************************************************************************)
EXTENDS Naturals

(* A graph: regions 0..n-1 (0 is 'static), the fixed ones (the signature's *)
(* and 'static), and the two sets of edges <<sup, sub>>.                   *)
CONSTANT Graphs

STATIC == 0

Regions(g) == 0 .. (g.n - 1)

Edges(g) == g.declared \cup g.required

(* populate_signature_regions declares facts about regions of the          *)
(* signature only; the regions of the body come later.                     *)
GraphOK(g) ==
  /\ g.n \in Nat \ {0}
  /\ g.fixed \subseteq Regions(g) /\ STATIC \in g.fixed
  /\ g.declared \subseteq g.fixed \X g.fixed
  /\ g.required \subseteq Regions(g) \X Regions(g)

ASSUME GraphsOK == \A g \in Graphs : GraphOK(g)

VARIABLES
  graph,
  phase,     \* "declared", "full" (the two closures), "check", "done"
  c, k, a,   \* the matrix being closed, its round and the round's next row
  cD, cFull, \* c_d and c_full
  i,         \* the row being checked
  verdict,   \* <<>> (undecided or accepted) or the offending pair
  start      \* history: the matrix when round k began

vars == <<graph, phase, c, k, a, cD, cFull, i, verdict, start>>

V == Regions(graph)

Identity(S) == {<<x, x>> : x \in S}

(* The matrix closure_over starts from. *)
Seed(E) == Identity(V) \cup E

Init ==
  /\ graph \in Graphs
  /\ phase = "declared"
  /\ c = Seed(graph.declared) /\ start = c
  /\ k = 0 /\ a = 0 /\ i = 0
  /\ cD = {} /\ cFull = {}
  /\ verdict = <<>>

Closing == phase \in {"declared", "full"}

(* Mutants of Row: only the fixed regions link others; one row too many. *)
RowFixedOnly ==
  /\ Closing /\ k < graph.n /\ a < graph.n
  /\ c' = c \cup {<<a, b>> : b \in {b \in V : /\ k \in graph.fixed
                                              /\ <<a, k>> \in c /\ <<k, b>> \in c}}
  /\ a' = a + 1
  /\ UNCHANGED <<graph, phase, k, cD, cFull, i, verdict, start>>

RowPastEnd ==
  /\ Closing /\ k < graph.n /\ a <= graph.n
  /\ c' = c \cup {<<a, b>> : b \in {b \in V : <<a, k>> \in c /\ <<k, b>> \in c}}
  /\ a' = a + 1
  /\ UNCHANGED <<graph, phase, k, cD, cFull, i, verdict, start>>

(* The loop over b: row a gains what row k has, if a reaches k. *)
Row ==
  /\ Closing /\ k < graph.n /\ a < graph.n
  /\ c' = c \cup {<<a, b>> : b \in {b \in V : <<a, k>> \in c /\ <<k, b>> \in c}}
  /\ a' = a + 1
  /\ UNCHANGED <<graph, phase, k, cD, cFull, i, verdict, start>>

(* Mutant of NextRound: the same round is repeated. *)
NextRoundRepeats ==
  /\ Closing /\ k < graph.n /\ a = graph.n
  /\ a' = 0
  /\ start' = c
  /\ UNCHANGED <<graph, phase, c, k, cD, cFull, i, verdict>>

NextRound ==
  /\ Closing /\ k < graph.n /\ a = graph.n
  /\ k' = k + 1 /\ a' = 0
  /\ start' = c
  /\ UNCHANGED <<graph, phase, c, cD, cFull, i, verdict>>

(* Mutant of DeclaredClosed: the declared facts are forgotten. *)
DeclaredForgotten ==
  /\ phase = "declared" /\ k = graph.n
  /\ cD' = Identity(V)
  /\ phase' = "full"
  /\ c' = Seed(Edges(graph)) /\ start' = c'
  /\ k' = 0 /\ a' = 0
  /\ UNCHANGED <<graph, cFull, i, verdict>>

DeclaredClosed ==
  /\ phase = "declared" /\ k = graph.n
  /\ cD' = c
  /\ phase' = "full"
  /\ c' = Seed(Edges(graph)) /\ start' = c'
  /\ k' = 0 /\ a' = 0
  /\ UNCHANGED <<graph, cFull, i, verdict>>

FullClosed ==
  /\ phase = "full" /\ k = graph.n
  /\ cFull' = c
  /\ phase' = "check"
  /\ UNCHANGED <<graph, c, k, a, cD, i, verdict, start>>

(* What the body implies of row r beyond the declared facts. *)
Unsupported(r) ==
  {s \in graph.fixed : r # s /\ <<r, s>> \in cFull /\ <<r, s>> \notin cD}

CheckRow ==
  /\ phase = "check" /\ i < graph.n
  /\ \/ /\ i \in graph.fixed /\ Unsupported(i) # {}
        /\ \E j \in Unsupported(i) :
             /\ \A s \in Unsupported(i) : j <= s
             /\ verdict' = <<i, j>>
        /\ phase' = "done"
        /\ UNCHANGED i
     \/ /\ i \notin graph.fixed \/ Unsupported(i) = {}
        /\ i' = i + 1
        /\ UNCHANGED <<phase, verdict>>
  /\ UNCHANGED <<graph, c, k, a, cD, cFull, start>>

Accept ==
  /\ phase = "check" /\ i = graph.n
  /\ phase' = "done"
  /\ UNCHANGED <<graph, c, k, a, cD, cFull, i, verdict, start>>

Next == Row \/ NextRound \/ DeclaredClosed \/ FullClosed \/ CheckRow \/ Accept

(* solve is one call, never preempted. *)
Spec == Init /\ [][Next]_vars /\ WF_vars(Next)

-----------------------------------------------------------------------------
(***************************************************************************)
(* Properties                                                              *)
(***************************************************************************)
TypeOK ==
  /\ graph \in Graphs
  /\ phase \in {"declared", "full", "check", "done"}
  /\ c \subseteq V \X V /\ start \subseteq V \X V
  /\ cD \subseteq V \X V /\ cFull \subseteq V \X V
  /\ k \in 0..graph.n /\ a \in 0..graph.n /\ i \in 0..graph.n
  /\ verdict \in {<<>>} \cup (graph.fixed \X graph.fixed)

Preorder(R) ==
  /\ Identity(V) \subseteq R
  /\ \A x, y, z \in V : <<x, y>> \in R /\ <<y, z>> \in R => <<x, z>> \in R

Preorders(E) == {R \in SUBSET (V \X V) : Preorder(R) /\ E \subseteq R}

IsClosure(R, E) ==
  /\ E \subseteq R /\ Preorder(R)
  /\ \A Q \in Preorders(E) : R \subseteq Q

(* The rounds work in place, and a row may read a row k that the round has *)
(* already rewritten.  All the same a row that is done holds start's cells *)
(* and those that go through k, and start is transitive through every      *)
(* region below k.                                                         *)
Goal == IF phase = "declared" THEN graph.declared ELSE Edges(graph)

RoundInv ==
  Closing =>
    /\ Seed(Goal) \subseteq start
    /\ \A Q \in Preorders(Goal) : start \subseteq Q
    /\ \A m \in 0..(k - 1) : \A x, y \in V :
         <<x, m>> \in start /\ <<m, y>> \in start => <<x, y>> \in start
    /\ k < graph.n =>
         \A x, y \in V :
           <<x, y>> \in c <=> \/ <<x, y>> \in start
                              \/ x < a /\ <<x, k>> \in start /\ <<k, y>> \in start
    /\ k = graph.n => c = start

(* The two matrices are the least preorders that contain their edges. *)
ClosuresCorrect ==
  /\ phase # "declared" => IsClosure(cD, graph.declared)
  /\ phase \in {"check", "done"} => IsClosure(cFull, Edges(graph))

(* The rows passed hold nothing unsupported. *)
CheckInv ==
  /\ Closing => i = 0
  /\ phase # "done" => verdict = <<>>
  /\ phase = "check" => \A r \in 0..(i - 1) : r \in graph.fixed => Unsupported(r) = {}
  /\ phase = "done" =>
       IF verdict = <<>> THEN \A r \in graph.fixed : Unsupported(r) = {}
       ELSE /\ verdict[1] \in graph.fixed
            /\ verdict[2] \in Unsupported(verdict[1])

(***************************************************************************)
(* What a verdict means.  The caller picks the fixed regions, subject to   *)
(* the declared facts; the body's own regions can then be chosen.  A value *)
(* of a region says whether it contains one arbitrary program point, and   *)
(* sup outlives sub when it contains every point of sub.                   *)
(***************************************************************************)
Satisfies(val, E) == \A x, y \in V : <<x, y>> \in E => (val[y] => val[x])

Callers == {val \in [graph.fixed -> BOOLEAN] :
              \A x, y \in graph.fixed : <<x, y>> \in graph.declared => (val[y] => val[x])}

Extends(ext, val) == \A x \in graph.fixed : ext[x] = val[x]

Solvable(val) == \E ext \in [V -> BOOLEAN] : Extends(ext, val) /\ Satisfies(ext, Edges(graph))

(* The function is accepted exactly when, whatever lifetimes the caller    *)
(* picks within the declared facts, the body's regions have a solution.    *)
VerdictCorrect ==
  phase = "done" => (verdict = <<>> <=> \A val \in Callers : Solvable(val))

(* Every rejection can be attributed: diag_for_pair finds a required edge  *)
(* on a chain between the two regions, and never falls back on its         *)
(* placeholder span.                                                       *)
Blame ==
  {e \in graph.required : <<verdict[1], e[1]>> \in cFull /\ <<e[2], verdict[2]>> \in cFull}

RejectionIsBlamed == phase = "done" /\ verdict # <<>> => Blame # {}

(* The three nested loops end. *)
Terminates == <>(phase = "done")
=============================================================================
