------------------------------ MODULE Borrows ------------------------------
(***************************************************************************)
(* borrowck/borrows.rs: a forward worklist over the sets of active         *)
(* borrows, run once liveness is known.  A BorrowSet is the sequence of    *)
(* the code's vector: two entries may be of the same borrow (its reference *)
(* was copied), and the order decides which of them survives a merge.  The *)
(* worklist is the code's stack: the result depends on the order of visits.*)
(***************************************************************************)
EXTENDS Liveness, FiniteSets

VARIABLES
  work,         \* work: the stack of blocks to visit
  cur, pos,     \* the block being walked (0: none) and its next statement
  active,       \* state: <<[loan, dest], ...>>, dest the local that carries it
  borrowsOut,   \* block_out
  errors,       \* errors: where each was reported, and why
  carriers      \* history: [id, dest] of every borrow active at some block's end

borrowVars == <<work, cur, pos, active, borrowsOut, errors, carriers>>
vars == <<cfg, liveVars, borrowVars>>

(***************************************************************************)
(* BorrowSet                                                               *)
(***************************************************************************)
Entries(A) == {A[i] : i \in 1..Len(A)}

Ids(A) == {e.loan.id : e \in Entries(A)}

(* The entries of B whose region A does not name, in their order, after    *)
(* those of A.                                                             *)
UnionWith(A, B) ==
  LET union[i \in 0..Len(B)] ==
        IF i = 0 THEN A
        ELSE LET acc == union[i - 1]
             IN  IF B[i].loan.id \in Ids(acc) THEN acc ELSE Append(acc, B[i])
  IN  union[Len(B)]

UnionAll(Bs) ==
  LET union[i \in 0..Len(Bs)] ==
        IF i = 0 THEN <<>> ELSE LET acc == union[i - 1] IN UnionWith(acc, Bs[i])
  IN  union[Len(Bs)]

(* equal: lengths and regions only. *)
SameBorrows(A, B) == Len(A) = Len(B) /\ Ids(A) \subseteq Ids(B)

(* The entries that the locals L carry, in their order. *)
CarriedBy(A, L) ==
  LET kept[i \in 0..Len(A)] ==
        IF i = 0 THEN <<>>
        ELSE LET acc == kept[i - 1] IN IF A[i].dest \in L THEN Append(acc, A[i]) ELSE acc
  IN  kept[Len(A)]

Prune(A, live) == CarriedBy(A, live)

(***************************************************************************)
(* One statement                                                           *)
(***************************************************************************)
(* The borrows of the locals s reads that its destination can carry on. *)
Carried(c, s, A) ==
  IF Root(s.dest) \in c.refs THEN CarriedBy(A, Sources(s) \ {Root(s.dest)}) ELSE <<>>

(* The state after the borrows of s were added, before pruning. *)
WithNew(c, s, A) ==
  IF s.loans # {} THEN Append(A, [loan |-> CHOOSE n \in s.loans : TRUE, dest |-> Root(s.dest)])
  ELSE LET from == Carried(c, s, A)
       IN  A \o [i \in 1..Len(from) |-> [loan |-> from[i].loan, dest |-> Root(s.dest)]]

(* check_borrow, check_move and check_read_shared, against the state       *)
(* before the statement.                                                   *)
ReadConflicts(s, A) ==
  {w \in {"borrow", "move", "read"} :
     \E e \in Entries(A) :
       \/ w = "borrow" /\ \E n \in s.loans : Overlaps(e.loan.pl, n.pl) /\ (n.mut \/ e.loan.mut)
       \/ w = "move" /\ \E r \in s.reads : r.k = "move" /\ Overlaps(e.loan.pl, r.pl)
       \/ w = "read" /\ e.loan.mut
                     /\ \E r \in s.reads : r.k # "move" /\ Overlaps(e.loan.pl, r.pl)}

(* Mutant of Conflicts: a write is not checked. *)
ConflictsNoWrite(c, s, A) == ReadConflicts(s, A)

(* check_write, against the state with the statement's own borrows. *)
Conflicts(c, s, A) ==
  ReadConflicts(s, A)
  \cup {w \in {"write"} : \E e \in Entries(WithNew(c, s, A)) : Overlaps(e.loan.pl, s.dest)}

(***************************************************************************)
(* The worklist                                                            *)
(***************************************************************************)
(* The borrows of the predecessors, in the order of their block ids. *)
Merge(c, out, b) ==
  IF b = c.entry THEN <<>>
  ELSE UnionAll([a \in 1..c.n |-> IF a \in Preds(c, b) THEN out[a] ELSE <<>>])

(* Mutant of Push: on_work is not consulted. *)
PushAgain(w, succ) == w \o succ

Push(w, succ) ==
  LET pushed[i \in 0..Len(succ)] ==
        IF i = 0 THEN w
        ELSE LET acc == pushed[i - 1]
             IN  IF succ[i] \in {acc[j] : j \in 1..Len(acc)} THEN acc ELSE Append(acc, succ[i])
  IN  pushed[Len(succ)]

BorrowInit ==
  /\ work = [b \in 1..cfg.n |-> b]
  /\ cur = 0 /\ pos = 0
  /\ active = <<>>
  /\ borrowsOut = [b \in Blocks(cfg) |-> <<>>]
  /\ errors = {} /\ carriers = {}

(* work.pop(), and the merge of the predecessors' out-states. *)
Pop ==
  /\ LivenessDone /\ cur = 0 /\ work # <<>>
  /\ cur' = work[Len(work)]
  /\ work' = SubSeq(work, 1, Len(work) - 1)
  /\ pos' = 1
  /\ active' = Merge(cfg, borrowsOut, cur')
  /\ UNCHANGED <<borrowsOut, errors, carriers>>

AtEnd == pos = End(cfg, cur)

(* apply_stmt, then the prune by what is live after the statement. *)
Step ==
  /\ cur # 0 /\ ~ AtEnd
  /\ LET s == cfg.stmts[cur][pos] IN
       /\ errors' = errors \cup {[at |-> <<cur, pos>>, why |-> w] : w \in Conflicts(cfg, s, active)}
       /\ active' = Prune(WithNew(cfg, s, active), LiveBefore(cfg, cur, pos + 1, liveOut[cur]))
  /\ pos' = pos + 1
  /\ UNCHANGED <<work, cur, borrowsOut, carriers>>

(* Mutant of Commit: the successors are requeued without a change. *)
CommitAlways ==
  /\ cur # 0 /\ AtEnd
  /\ carriers' = carriers \cup {[id |-> e.loan.id, dest |-> e.dest] : e \in Entries(active)}
  /\ borrowsOut' = [borrowsOut EXCEPT ![cur] = active]
  /\ work' = Push(work, cfg.succ[cur])
  /\ cur' = 0
  /\ UNCHANGED <<pos, active, errors>>

(* An out-state with other regions is stored, and the successors requeued. *)
Commit ==
  /\ cur # 0 /\ AtEnd
  /\ carriers' = carriers \cup {[id |-> e.loan.id, dest |-> e.dest] : e \in Entries(active)}
  /\ IF SameBorrows(active, borrowsOut[cur])
     THEN UNCHANGED <<work, borrowsOut>>
     ELSE /\ borrowsOut' = [borrowsOut EXCEPT ![cur] = active]
          /\ work' = Push(work, cfg.succ[cur])
  /\ cur' = 0
  /\ UNCHANGED <<pos, active, errors>>

Init == LiveInit /\ BorrowInit

CheckNext == (Pop \/ Step \/ Commit) /\ UNCHANGED <<cfg, liveVars>>

Next == (LiveNext /\ UNCHANGED borrowVars) \/ CheckNext

(* Two sequential calls, never preempted. *)
Spec == Init /\ [][Next]_vars /\ WF_vars(Next)

Checked == LivenessDone /\ cur = 0 /\ work = <<>>

-----------------------------------------------------------------------------
LoansOf(c) ==
  UNION {UNION {c.stmts[b][i].loans : i \in 1..Len(c.stmts[b])} : b \in Blocks(c)}

BorrowSets(c) == Seq([loan : LoansOf(c), dest : c.locals])

(* The stack of blocks never holds one twice (on_work), and the borrows    *)
(* known at any point are loans of the function, carried by its locals.    *)
BorrowTypeOK ==
  /\ LiveTypeOK
  /\ work \in Seq(Blocks(cfg)) /\ \A i, j \in 1..Len(work) : work[i] = work[j] => i = j
  /\ cur \in Blocks(cfg) \cup {0}
  /\ cur # 0 => pos \in 1..End(cfg, cur)
  /\ active \in BorrowSets(cfg)
  /\ borrowsOut \in [Blocks(cfg) -> BorrowSets(cfg)]
  /\ carriers \subseteq [id : {n.id : n \in LoansOf(cfg)}, dest : cfg.locals]

(* At the end of every visit of every block, one local carries a borrow:   *)
(* the same one whatever the path and the block.  Nothing checks this.     *)
OneCarrier == \A e, f \in carriers : e.id = f.id => e.dest = f.dest

(* While every borrow has one carrier, no visit takes a borrow, or its     *)
(* carrier, from the state stored at the end of a block.                   *)
OutStatesGrow ==
  [][OneCarrier' => \A b \in Blocks(cfg) :
       Entries(borrowsOut[b]) \subseteq Entries(borrowsOut'[b])]_vars

(* The merge keeps, of the entries of one region, only the first, and      *)
(* equal compares regions only.  As long as every borrow has one carrier,  *)
(* that loses nothing, and the worklist empties.                           *)
Settles == <>(Checked \/ ~ OneCarrier)

(* borrows.rs:3 calls the analysis a forward dataflow over the lattice of  *)
(* sets of active borrows: such an iteration comes to an end.              *)
AlwaysSettles == <>Checked
=============================================================================
