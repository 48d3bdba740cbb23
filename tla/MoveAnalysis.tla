---------------------------- MODULE MoveAnalysis ----------------------------
(***************************************************************************)
(* The move/init dataflow of borrowck/moves.rs: a worklist iteration that  *)
(* computes which places are moved out of at every program point, reports  *)
(* the uses it rejects, then replays every block once to record the status *)
(* of each binding at its StorageDead (the input of drop-flag synthesis).  *)
(*                                                                         *)
(* A MoveSet is the total function that maps a place without an entry to   *)
(* "Init".  One step is one effect of a block; the order of the entries in *)
(* the code's vector is abstracted (it only selects the wording of an      *)
(* error and, in the snapshot, one of several overlapping entries).        *)
(***************************************************************************)
EXTENDS Cfg

VARIABLES
  cfg,        \* the graph being analysed, never changed
  phase,      \* "flow" (the worklist loop), "snap" (compute_moved_locals), "done"
  work,       \* work: the stack of blocks to visit
  cur, pos,   \* the block being walked (0: none) and its next effect
  state,      \* state: the MoveSet threaded through that block
  blockIn, blockOut,   \* block_in, block_out
  errors,     \* errors: where each was reported, and why
  sites,      \* move_sites: {[node, name]}
  movedLocals,\* moved_locals: <<[local, status], ...>>
  before      \* history: the state before each effect at the block's latest visit

flowVars == <<work, blockIn, blockOut, errors, sites, before>>
vars == <<cfg, phase, work, cur, pos, state, blockIn, blockOut, errors, sites,
          movedLocals, before>>

(***************************************************************************)
(* MoveSet                                                                 *)
(***************************************************************************)
Moves == {"Moved", "MaybeMoved", "Uninit"}
Status == Moves \cup {"Init"}
MoveSets(c) == [c.places -> Status]
Empty(c) == [p \in c.places |-> "Init"]

Present(m) == {p \in DOMAIN m : m[p] # "Init"}

MaxStatus(s, t) ==
  IF "Moved" \in {s, t} THEN "Moved"
  ELSE IF s = t THEN s ELSE "MaybeMoved"

(* Mutant of Mark: a second mark of the same place drops its entry. *)
MarkForgets(m, p, s) ==
  [q \in DOMAIN m |->
     IF q = p THEN (IF m[p] = "Init" THEN s ELSE "Init")
     ELSE IF IsPrefixOf(p, q) THEN "Init" ELSE m[q]]

(* mark: descendants of p are subsumed, p itself takes the larger status. *)
Mark(m, p, s) ==
  [q \in DOMAIN m |->
     IF q = p THEN (IF m[p] = "Init" THEN s ELSE MaxStatus(m[p], s))
     ELSE IF IsPrefixOf(p, q) THEN "Init" ELSE m[q]]

(* init: an assignment clears p and its descendants, never an ancestor. *)
InitPlace(m, p) == [q \in DOMAIN m |-> IF IsPrefixOf(p, q) THEN "Init" ELSE m[q]]

Merge(m1, m2) ==
  [p \in DOMAIN m1 |-> IF m1[p] = m2[p] THEN m1[p] ELSE "MaybeMoved"]

(* Mutants of MergeAll: a place stays moved only if it is moved on every   *)
(* path; statuses that differ become Moved.                                *)
MergeAllMust(c, out, B) ==
  [p \in c.places |->
     IF \A a1, a2 \in B : out[a1][p] = out[a2][p]
     THEN IF B = {} THEN "Init" ELSE out[CHOOSE a \in B : TRUE][p]
     ELSE "Init"]

MergeAllMoved(c, out, B) ==
  [p \in c.places |->
     IF \A a1, a2 \in B : out[a1][p] = out[a2][p]
     THEN IF B = {} THEN "Init" ELSE out[CHOOSE a \in B : TRUE][p]
     ELSE "Moved"]

(* The left fold of Merge over the predecessors' out-states, in closed form. *)
MergeAll(c, out, B) ==
  [p \in c.places |->
     IF \A a1, a2 \in B : out[a1][p] = out[a2][p]
     THEN IF B = {} THEN "Init" ELSE out[CHOOSE a \in B : TRUE][p]
     ELSE "MaybeMoved"]

Readable(m, p) == \A q \in Present(m) : ~ Overlaps(q, p)

(***************************************************************************)
(* The effect of one operation of a block, and the errors it reports.      *)
(***************************************************************************)
ThroughRawDeref(c, p) ==
  /\ \E i \in 2..Len(p) : p[i] = "*"
  /\ c.decl[Root(p)].ty = "raw"

TraversesBorrow(c, p) ==
  Len(p) = 2 /\ p[2] # "*" /\ c.decl[Root(p)].ty = "ref"

Named(c, l) == c.decl[l].name # ""

Effect(c, op, m) ==
  CASE op.k = "move"   -> IF ThroughRawDeref(c, op.pl) THEN m
                          ELSE Mark(m, op.pl, "Moved")
    [] op.k = "init"   -> InitPlace(m, op.pl)
    [] op.k = "uninit" -> Mark(m, op.pl, "Uninit")
    [] OTHER           -> m

(* apply_stmt_state_only: the replay has no exemption for raw pointers. *)
ReplayEffect(op, m) ==
  CASE op.k = "move"   -> Mark(m, op.pl, "Moved")
    [] op.k = "init"   -> InitPlace(m, op.pl)
    [] op.k = "uninit" -> Mark(m, op.pl, "Uninit")
    [] OTHER           -> m

Reads(op) == op.k \in {"move", "copy", "borrow", "disc", "drop"}

Errors(c, op, m) ==
  {e \in {"moved", "behind-borrow", "part-of-drop"} :
     \/ e = "moved" /\ Reads(op) /\ ~ Readable(m, op.pl)
     \/ /\ e = "behind-borrow" /\ op.k = "move"
        /\ TraversesBorrow(c, op.pl) /\ ~ ThroughRawDeref(c, op.pl)
     \/ /\ e = "part-of-drop" /\ op.k = "move"
        /\ ~ IsLocal(op.pl) /\ c.decl[Root(op.pl)].ty = "drop"}

Sites(c, op) ==
  {[node |-> op.node, name |-> c.decl[l].name] :
     l \in {r \in {Root(op.pl)} : /\ op.k = "move" /\ IsLocal(op.pl)
                                  /\ op.node # 0 /\ Named(c, r)}}

(***************************************************************************)
(* The worklist                                                            *)
(***************************************************************************)
OnWork(w) == {w[i] : i \in 1..Len(w)}

Push(w, b) == IF b \in OnWork(w) THEN w ELSE Append(w, b)

(* Mutant of Requeue: the else arm is forgotten. *)
RequeueFirst(w, succ) == IF Len(succ) = 0 THEN w ELSE Push(w, succ[1])

Requeue(w, succ) ==
  CASE Len(succ) = 0 -> w
    [] Len(succ) = 1 -> Push(w, succ[1])
    [] OTHER         -> Push(Push(w, succ[1]), succ[2])

InState(b) ==
  IF b = cfg.entry THEN Empty(cfg) ELSE MergeAll(cfg, blockOut, Preds(cfg, b))

Init ==
  /\ cfg \in Cfgs
  /\ phase = "flow"
  /\ work = [b \in 1..cfg.n |-> b]
  /\ cur = 0 /\ pos = 0
  /\ state = Empty(cfg)
  /\ blockIn = [b \in Blocks(cfg) |-> Empty(cfg)]
  /\ blockOut = [b \in Blocks(cfg) |-> Empty(cfg)]
  /\ errors = {} /\ sites = {}
  /\ movedLocals = <<>>
  /\ before = [b \in Blocks(cfg) |-> [i \in Points(cfg, b) |-> Empty(cfg)]]

(* work.pop(), and the merge of the predecessors' out-states. *)
Pop ==
  /\ phase = "flow" /\ cur = 0 /\ work # <<>>
  /\ cur' = work[Len(work)]
  /\ work' = SubSeq(work, 1, Len(work) - 1)
  /\ pos' = 1
  /\ state' = InState(cur')
  /\ blockIn' = [blockIn EXCEPT ![cur'] = state']
  /\ before' = [before EXCEPT ![cur'][1] = state']
  /\ UNCHANGED <<cfg, phase, blockOut, errors, sites, movedLocals>>

AtEnd == pos = Len(cfg.ops[cur]) + 1

(* Mutant of Step: an operand is marked before it is checked. *)
StepMarksFirst ==
  /\ phase = "flow" /\ cur # 0 /\ ~ AtEnd
  /\ LET op == cfg.ops[cur][pos] IN
       /\ state' = Effect(cfg, op, state)
       /\ errors' = errors \cup
                      {[at |-> <<cur, pos>>, why |-> w] : w \in Errors(cfg, op, state')}
       /\ sites' = sites \cup Sites(cfg, op)
  /\ pos' = pos + 1
  /\ before' = [before EXCEPT ![cur][pos'] = state']
  /\ UNCHANGED <<cfg, phase, work, cur, blockIn, blockOut, movedLocals>>

(* One effect of apply_block_transfer: check, record, then update. *)
Step ==
  /\ phase = "flow" /\ cur # 0 /\ ~ AtEnd
  /\ LET op == cfg.ops[cur][pos] IN
       /\ errors' = errors \cup
                      {[at |-> <<cur, pos>>, why |-> w] : w \in Errors(cfg, op, state)}
       /\ sites' = sites \cup Sites(cfg, op)
       /\ state' = Effect(cfg, op, state)
  /\ pos' = pos + 1
  /\ before' = [before EXCEPT ![cur][pos'] = state']
  /\ UNCHANGED <<cfg, phase, work, cur, blockIn, blockOut, movedLocals>>

(* Mutant of Commit: the successors are requeued without a change. *)
CommitAlways ==
  /\ phase = "flow" /\ cur # 0 /\ AtEnd
  /\ blockOut' = [blockOut EXCEPT ![cur] = state]
  /\ work' = Requeue(work, cfg.succ[cur])
  /\ cur' = 0
  /\ UNCHANGED <<cfg, phase, pos, state, blockIn, errors, sites, movedLocals, before>>

(* A changed out-state is stored and the successors are requeued. *)
Commit ==
  /\ phase = "flow" /\ cur # 0 /\ AtEnd
  /\ \/ /\ blockOut[cur] = state
        /\ UNCHANGED <<work, blockOut>>
     \/ /\ blockOut[cur] # state
        /\ blockOut' = [blockOut EXCEPT ![cur] = state]
        /\ work' = Requeue(work, cfg.succ[cur])
  /\ cur' = 0
  /\ UNCHANGED <<cfg, phase, pos, state, blockIn, errors, sites, movedLocals, before>>

(***************************************************************************)
(* compute_moved_locals: replay every block in order from its in-state.    *)
(***************************************************************************)
(* Mutant of StartSnapshot: the loop ends with blocks still queued. *)
StartSnapshotEarly ==
  /\ phase = "flow" /\ cur = 0
  /\ phase' = "snap"
  /\ cur' = 1 /\ pos' = 1 /\ state' = blockIn[1]
  /\ UNCHANGED <<cfg, movedLocals, flowVars>>

StartSnapshot ==
  /\ phase = "flow" /\ cur = 0 /\ work = <<>>
  /\ phase' = "snap"
  /\ cur' = 1 /\ pos' = 1 /\ state' = blockIn[1]
  /\ UNCHANGED <<cfg, movedLocals, flowVars>>

Listed(ml, l) == \E i \in 1..Len(ml) : ml[i].local = l

(* Mutant of Record: only an entry for the whole binding counts. *)
RecordExact(op) ==
  LET l == Root(op.pl)
  IN  IF op.k = "dead" /\ Named(cfg, l) /\ op.pl \in Present(state) /\ ~ Listed(movedLocals, l)
      THEN movedLocals' = Append(movedLocals, [local |-> l, status |-> state[op.pl]])
      ELSE UNCHANGED movedLocals

(* StorageDead of a named local: check_readable returns the status of the  *)
(* first overlapping entry; a local already listed is not listed twice.    *)
Record(op) ==
  LET l == Root(op.pl)
      hits == {q \in Present(state) : Overlaps(q, op.pl)}
  IN  IF op.k = "dead" /\ Named(cfg, l) /\ hits # {} /\ ~ Listed(movedLocals, l)
      THEN \E q \in hits :
             movedLocals' = Append(movedLocals, [local |-> l, status |-> state[q]])
      ELSE UNCHANGED movedLocals

SnapStep ==
  /\ phase = "snap" /\ ~ AtEnd
  /\ LET op == cfg.ops[cur][pos] IN
       /\ Record(op)
       /\ state' = ReplayEffect(op, state)
  /\ pos' = pos + 1
  /\ UNCHANGED <<cfg, phase, cur, flowVars>>

SnapNext ==
  /\ phase = "snap" /\ AtEnd
  /\ \/ /\ cur < cfg.n
        /\ cur' = cur + 1 /\ pos' = 1 /\ state' = blockIn[cur']
        /\ UNCHANGED phase
     \/ /\ cur = cfg.n
        /\ phase' = "done"
        /\ cur' = 0
        /\ UNCHANGED <<pos, state>>
  /\ UNCHANGED <<cfg, movedLocals, flowVars>>

Next == Pop \/ Step \/ Commit \/ StartSnapshot \/ SnapStep \/ SnapNext

(* analyze is one sequential call: it is never preempted, so it keeps on stepping. *)
Spec == Init /\ [][Next]_vars /\ WF_vars(Next)

-----------------------------------------------------------------------------
(***************************************************************************)
(* Properties                                                              *)
(***************************************************************************)
Why == {"moved", "behind-borrow", "part-of-drop"}

TypeOK ==
  /\ cfg \in Cfgs
  /\ phase \in {"flow", "snap", "done"}
  /\ work \in Seq(Blocks(cfg))
  /\ cur \in Blocks(cfg) \cup {0}
  /\ pos \in Nat
  /\ cur # 0 => pos \in Points(cfg, cur)
  /\ phase = "snap" => cur # 0
  /\ phase # "flow" => work = <<>>
  /\ state \in MoveSets(cfg)
  /\ blockIn \in [Blocks(cfg) -> MoveSets(cfg)]
  /\ blockOut \in [Blocks(cfg) -> MoveSets(cfg)]
  /\ DOMAIN before = Blocks(cfg)
  /\ \A b \in Blocks(cfg) : before[b] \in [Points(cfg, b) -> MoveSets(cfg)]
  /\ \A e \in errors : \E b \in Blocks(cfg) : \E i \in 1..Len(cfg.ops[b]) :
       \E w \in Why : e = [at |-> <<b, i>>, why |-> w]
  /\ sites \subseteq [node : Nat, name : {cfg.decl[l].name : l \in DOMAIN cfg.decl}]
  /\ movedLocals \in Seq([local : {Root(p) : p \in cfg.places}, status : Moves])

(* Why the loop may stop: a block that is not queued has merged the current *)
(* out-states of its predecessors, and its effects have been applied (up   *)
(* to pos, for the block being walked) and their errors and the sites of   *)
(* their moves recorded since.                                             *)
WalkedTo(b, j) ==
  /\ before[b][1] = blockIn[b]
  /\ \A i \in 1..(j - 1) :
       /\ before[b][i + 1] = Effect(cfg, cfg.ops[b][i], before[b][i])
       /\ \A w \in Errors(cfg, cfg.ops[b][i], before[b][i]) :
            [at |-> <<b, i>>, why |-> w] \in errors
       /\ Sites(cfg, cfg.ops[b][i]) \subseteq sites

FlowInv ==
  \A b \in Blocks(cfg) \ OnWork(work) :
    /\ blockIn[b] = InState(b)
    /\ IF phase = "flow" /\ b = cur
       THEN WalkedTo(b, pos) /\ state = before[b][pos]
       ELSE /\ WalkedTo(b, Len(cfg.ops[b]) + 1)
            /\ blockOut[b] = before[b][Len(cfg.ops[b]) + 1]

(* Why entries and errors last: what each effect made of an earlier visit's *)
(* state is within what it makes of the state now before it, and so is     *)
(* what a block took from its predecessors and what it gave its successors. *)
(* So every error still holds of the state now recorded where it was found. *)
GrowInv ==
  /\ phase = "flow" /\ cur # 0 => state = before[cur][pos]
  /\ \A b \in Blocks(cfg) :
       /\ Present(before[b][1]) \subseteq Present(InState(b))
       /\ \A i \in 1..Len(cfg.ops[b]) :
            /\ Present(before[b][i + 1])
                 \subseteq Present(Effect(cfg, cfg.ops[b][i], before[b][i]))
            /\ \A w \in Why : [at |-> <<b, i>>, why |-> w] \in errors
                 => w \in Errors(cfg, cfg.ops[b][i], before[b][i])
       /\ Present(blockOut[b]) \subseteq Present(before[b][Len(cfg.ops[b]) + 1])

(* A place is definitely gone if it is gone on every path.  The first path *)
(* to a for-loop's body never touches the binding, so the binding is never *)
(* definitely gone where the loop binds it.                                *)
Definite == {"Moved", "Uninit"}

BindInv ==
  \A l \in DOMAIN cfg.decl : \A F \in SUBSET Blocks(cfg) : Untouching(cfg, F, l) =>
    \A b \in F : \A q \in cfg.places : Root(q) = l =>
      /\ before[b][1][q] \notin Definite
      /\ Untouched(cfg, b, l) =>
           /\ \A i \in Points(cfg, b) : before[b][i][q] \notin Definite
           /\ blockOut[b][q] \notin Definite
           /\ phase = "flow" /\ cur = b => state[q] \notin Definite

(* What the replay has done: its state covers the analysis's own (it may   *)
(* know more: a move through a raw pointer), and every StorageDead passed  *)
(* with a move pending on its binding left the binding listed.             *)
Covers(m, S) == \A p \in S : \E q \in Present(m) : IsPrefixOf(q, p)

Replayed(b, i) ==
  \/ phase = "done"
  \/ phase = "snap" /\ (b < cur \/ (b = cur /\ i < pos))

SnapInv ==
  /\ phase = "snap" => Covers(state, Present(before[cur][pos]))
  /\ \A b \in Blocks(cfg) : \A i \in 1..Len(cfg.ops[b]) :
       LET op == cfg.ops[b][i]
       IN  Replayed(b, i) /\ op.k = "dead" /\ Named(cfg, Root(op.pl))
             => \/ Listed(movedLocals, Root(op.pl))
                \/ Readable(before[b][i], op.pl)

(* Only a move through a raw pointer makes the replay's state differ, and  *)
(* the status of an entry is one its binding had at its StorageDead.  A    *)
(* binding has one entry.                                                  *)
SnapStatus ==
  /\ phase = "flow" => movedLocals = <<>>
  /\ phase = "snap" =>
       \A q \in cfg.places :
         cfg.decl[Root(q)].ty # "raw" => state[q] = before[cur][pos][q]
  /\ \A k \in 1..Len(movedLocals) :
       LET l == movedLocals[k].local
       IN  /\ Named(cfg, l)
           /\ \A i \in 1..Len(movedLocals) : movedLocals[i].local = l => i = k
           /\ cfg.decl[l].ty # "raw" =>
                \E b \in Blocks(cfg) : \E i \in 1..Len(cfg.ops[b]) : \E q \in cfg.places :
                  /\ cfg.ops[b][i].k = "dead" /\ Root(cfg.ops[b][i].pl) = l
                  /\ Root(q) = l /\ before[b][i][q] = movedLocals[k].status

(* When the worklist is empty every block agrees with its neighbours: its  *)
(* in-state is the merge of its predecessors' out-states, and its          *)
(* out-state is what its effects make of it.  A block that was not         *)
(* requeued after a predecessor changed would break this.                  *)
Stable(b) ==
  /\ blockIn[b] = InState(b)
  /\ before[b][1] = blockIn[b]
  /\ \A i \in 1..Len(cfg.ops[b]) :
       before[b][i + 1] = Effect(cfg, cfg.ops[b][i], before[b][i])
  /\ blockOut[b] = before[b][Len(cfg.ops[b]) + 1]

FixpointReached == phase # "flow" => \A b \in Blocks(cfg) : Stable(b)

(* Errors are pushed on every visit of a block, the early ones included,   *)
(* and never retracted.  Yet at the end they are exactly the errors of the *)
(* fixpoint: no program is rejected for an intermediate state.             *)
ErrorsAreFinal ==
  phase # "flow" =>
    \A b \in Blocks(cfg) : \A i \in 1..Len(cfg.ops[b]) : \A w \in Why :
      [at |-> <<b, i>>, why |-> w] \in errors
        <=> w \in Errors(cfg, cfg.ops[b][i], before[b][i])

(* An out-state never loses an entry: the iteration only discovers moves.  *)
(* (Statuses do change both ways, see moves.rs:merge.)                     *)
PresenceGrows ==
  [][\A b \in Blocks(cfg) : Present(blockOut[b]) \subseteq Present(blockOut'[b])]_vars

(* The worklist empties and the snapshot completes, on graphs with loops.  *)
Terminates == <>(phase = "done")

(* build.rs says of the bindings of a for-loop, which have no Assign, that *)
(* reads of them in the body work: they are init at their StorageLive.     *)
ForBindingIsInit ==
  phase # "flow" =>
    \A b \in Blocks(cfg) : \A i \in 1..Len(cfg.ops[b]) :
      cfg.ops[b][i].k = "bind" => Readable(before[b][i], cfg.ops[b][i].pl)
=============================================================================
