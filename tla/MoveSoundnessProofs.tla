------------------------ MODULE MoveSoundnessProofs ------------------------
(***************************************************************************)
(* The move analysis is sound: in a function it accepts, no path reads a   *)
(* value that is not there.  The invariant is a cover: every hole of the   *)
(* execution lies at or below an entry of the analysis's state.            *)
(***************************************************************************)
EXTENDS MoveSoundness, MoveAnalysisProofs

(***************************************************************************)
(* Places.                                                                 *)
(***************************************************************************)

LEMMA PrefixTransitive ==
  ASSUME NEW p \in Seq(STRING), NEW q \in Seq(STRING), NEW r \in Seq(STRING),
         IsPrefixOf(p, q), IsPrefixOf(q, r)
  PROVE  IsPrefixOf(p, r)
<1>1. Len(p) \in Nat /\ Len(q) \in Nat /\ Len(r) \in Nat
  BY LenProperties
<1> QED BY <1>1 DEF IsPrefixOf

LEMMA PrefixReflexive ==
  ASSUME NEW p \in Seq(STRING)
  PROVE  IsPrefixOf(p, p)
<1>1. Len(p) \in Nat
  BY LenProperties
<1> QED BY <1>1 DEF IsPrefixOf

(* Two places above a third are comparable. *)
LEMMA PrefixComparable ==
  ASSUME NEW p \in Seq(STRING), NEW q \in Seq(STRING), NEW r \in Seq(STRING),
         IsPrefixOf(p, r), IsPrefixOf(q, r)
  PROVE  Overlaps(p, q)
<1>1. Len(p) \in Nat /\ Len(q) \in Nat /\ Len(r) \in Nat
  BY LenProperties
<1>2. CASE Len(p) <= Len(q)
  BY <1>1, <1>2 DEF IsPrefixOf, Overlaps
<1>3. CASE Len(q) <= Len(p)
  BY <1>1, <1>3 DEF IsPrefixOf, Overlaps
<1> QED BY <1>1, <1>2, <1>3

(* Two places, each the prefix of the other, are the same. *)
LEMMA PrefixAntisymmetric ==
  ASSUME NEW p \in Seq(STRING), NEW q \in Seq(STRING),
         IsPrefixOf(p, q), IsPrefixOf(q, p)
  PROVE  p = q
<1>1. Len(p) \in Nat /\ Len(q) \in Nat
  BY LenProperties
<1>2. Len(p) = Len(q)
  BY <1>1 DEF IsPrefixOf
<1> QED BY <1>2, SeqEqual DEF IsPrefixOf

(***************************************************************************)
(* Covers.                                                                 *)
(***************************************************************************)

(* mark(p) covers everything at or below p, and what was covered before. *)
LEMMA MarkCovers ==
  ASSUME NEW P \in SUBSET Seq(STRING), NEW m \in [P -> Status],
         NEW p \in P, NEW s \in Moves, NEW S \in SUBSET Seq(STRING), Covers(m, S)
  PROVE  Covers(Mark(m, p, s), S \cup {q \in Seq(STRING) : IsPrefixOf(p, q)})
<1>1. p \in Present(Mark(m, p, s))
  BY DEF Mark, Present, MaxStatus, Moves, Status
<1>2. ASSUME NEW q \in Present(m), ~ IsPrefixOf(p, q)
      PROVE  q \in Present(Mark(m, p, s))
  <2>1. q # p
    BY <1>1, <1>2, PrefixReflexive
  <2> QED BY <1>2, <2>1 DEF Mark, Present
<1>3. ASSUME NEW q \in S
      PROVE  \E r \in Present(Mark(m, p, s)) : IsPrefixOf(r, q)
  <2>1. PICK r \in Present(m) : IsPrefixOf(r, q)
    BY DEF Covers
  <2>2. r \in Seq(STRING) /\ p \in Seq(STRING) /\ q \in Seq(STRING)
    BY DEF Present
  <2>3. CASE IsPrefixOf(p, r)
    BY <1>1, <2>1, <2>2, <2>3, PrefixTransitive
  <2> QED BY <1>2, <2>1, <2>3
<1> QED BY <1>1, <1>3 DEF Covers

(* init(p) only uncovers what lies at or below p. *)
LEMMA InitCovers ==
  ASSUME NEW P \in SUBSET Seq(STRING), NEW m \in [P -> Status],
         NEW p \in P, NEW S \in SUBSET Seq(STRING), Covers(m, S)
  PROVE  Covers(InitPlace(m, p), {q \in S : ~ IsPrefixOf(p, q)})
<1> SUFFICES ASSUME NEW q \in S, ~ IsPrefixOf(p, q)
    PROVE  \E r \in Present(InitPlace(m, p)) : IsPrefixOf(r, q)
  BY DEF Covers
<1>1. PICK r \in Present(m) : IsPrefixOf(r, q)
  BY DEF Covers
<1>2. r \in Seq(STRING) /\ p \in Seq(STRING) /\ q \in Seq(STRING)
  BY DEF Present
<1>3. ~ IsPrefixOf(p, r)
  BY <1>1, <1>2, PrefixTransitive
<1>4. r \in Present(InitPlace(m, p))
  BY <1>3 DEF InitPlace, Present
<1> QED BY <1>1, <1>4

(* A readable place has nothing missing at, above or below it. *)
LEMMA ReadableIsWhole ==
  ASSUME NEW P \in SUBSET Seq(STRING), NEW m \in [P -> Status],
         NEW S \in SUBSET Seq(STRING), Covers(m, S),
         NEW p \in Seq(STRING), Readable(m, p)
  PROVE  \A q \in S : ~ Overlaps(q, p)
<1> SUFFICES ASSUME NEW q \in S, Overlaps(q, p) PROVE FALSE
  OBVIOUS
<1>1. PICK r \in Present(m) : IsPrefixOf(r, q)
  BY DEF Covers
<1>2. r \in Seq(STRING) /\ q \in Seq(STRING)
  BY DEF Present
<1>3. CASE IsPrefixOf(q, p)
  <2>1. IsPrefixOf(r, p)
    BY <1>1, <1>2, <1>3, PrefixTransitive
  <2> QED BY <1>1, <2>1 DEF Readable, Overlaps
<1>4. CASE IsPrefixOf(p, q)
  BY <1>1, <1>2, <1>4, PrefixComparable DEF Readable
<1> QED BY <1>3, <1>4 DEF Overlaps

(***************************************************************************)
(* The snapshot's replay.                                                  *)
(***************************************************************************)

(* A place the analysis tracks is a sequence of names. *)
LEMMA PlaceType ==
  ASSUME NEW c \in Cfgs
  PROVE  c.places \in SUBSET Seq(STRING) /\ c.leaves \in SUBSET Seq(STRING)
<1>1. CfgOK(c)
  BY CfgsOK
<1> QED BY <1>1 DEF CfgOK

(* Replaying an effect keeps the cover of the analysis's own state. *)
LEMMA ReplayCovers ==
  ASSUME NEW c \in Cfgs, NEW op, op.pl \in c.places,
         NEW m \in MoveSets(c), NEW n \in MoveSets(c), Covers(m, Present(n))
  PROVE  Covers(ReplayEffect(op, m), Present(Effect(c, op, n)))
<1> DEFINE p == op.pl
<1>1. /\ c.places \in SUBSET Seq(STRING) /\ p \in c.places
      /\ m \in [c.places -> Status] /\ n \in [c.places -> Status]
      /\ Present(n) \in SUBSET Seq(STRING)
      /\ "Moved" \in Moves /\ "Uninit" \in Moves
  BY PlaceType DEF MoveSets, Present, Moves
<1>2. ASSUME NEW s \in Moves
      PROVE  /\ Covers(Mark(m, p, s), Present(Mark(n, p, s)))
             /\ Covers(Mark(m, p, s), Present(n))
  <2>1. Covers(Mark(m, p, s), Present(n) \cup {q \in Seq(STRING) : IsPrefixOf(p, q)})
    BY <1>1, MarkCovers
  <2>2. Present(Mark(n, p, s)) \subseteq Present(n) \cup {p}
    BY <1>1 DEF Present, Mark
  <2>3. p \in {q \in Seq(STRING) : IsPrefixOf(p, q)}
    BY <1>1, PrefixReflexive
  <2> QED BY <2>1, <2>2, <2>3 DEF Covers
<1>3. Covers(InitPlace(m, p), Present(InitPlace(n, p)))
  <2>1. Covers(InitPlace(m, p), {q \in Present(n) : ~ IsPrefixOf(p, q)})
    BY <1>1, InitCovers
  <2>2. Present(InitPlace(n, p)) \subseteq {q \in Present(n) : ~ IsPrefixOf(p, q)}
    BY <1>1 DEF Present, InitPlace
  <2> QED BY <2>1, <2>2 DEF Covers
<1>4. CASE op.k = "move"
  BY <1>1, <1>2, <1>4 DEF Effect, ReplayEffect
<1>5. CASE op.k = "init"
  BY <1>3, <1>5 DEF Effect, ReplayEffect
<1>6. CASE op.k = "uninit"
  BY <1>1, <1>2, <1>6 DEF Effect, ReplayEffect
<1>7. CASE op.k \notin {"move", "init", "uninit"}
  BY <1>7 DEF Effect, ReplayEffect
<1> QED BY <1>4, <1>5, <1>6, <1>7

(* A move set covers itself. *)
LEMMA SelfCovers ==
  ASSUME NEW c \in Cfgs, NEW m \in MoveSets(c)
  PROVE  Covers(m, Present(m))
<1>1. Present(m) \subseteq Seq(STRING)
  BY PlaceType DEF MoveSets, Present
<1> QED BY <1>1, PrefixReflexive DEF Covers

(* What is readable for the replay is readable for the analysis. *)
LEMMA ReplayReadable ==
  ASSUME NEW c \in Cfgs, NEW m \in MoveSets(c), NEW n \in MoveSets(c),
         Covers(m, Present(n)), NEW p \in c.places, Readable(m, p)
  PROVE  Readable(n, p)
<1>1. /\ c.places \in SUBSET Seq(STRING) /\ p \in Seq(STRING)
      /\ m \in [c.places -> Status] /\ Present(n) \in SUBSET Seq(STRING)
  BY PlaceType DEF MoveSets, Present
<1>2. \A q \in Present(n) : ~ Overlaps(q, p)
  BY <1>1, ReadableIsWhole
<1> QED BY <1>2 DEF Readable

(* Listing a binding lists it, and keeps the others. *)
LEMMA RecordListed ==
  ASSUME TypeOK, NEW op \in [k : OpKinds, pl : cfg.places, node : Nat], Record(op)
  PROVE  /\ \A l : Listed(movedLocals, l) => Listed(movedLocals', l)
         /\ op.k = "dead" /\ Named(cfg, Root(op.pl)) =>
              Listed(movedLocals', Root(op.pl)) \/ Readable(state, op.pl)
<1> DEFINE E == [local : {Root(p) : p \in cfg.places}, status : Moves]
           hits == {q \in Present(state) : Overlaps(q, op.pl)}
<1>1. movedLocals \in Seq(E)
  BY DEF TypeOK
<1>2. hits = {} => Readable(state, op.pl)
  BY DEF Readable
<1>3. CASE UNCHANGED movedLocals /\ (op.k = "dead" /\ Named(cfg, Root(op.pl))
               => hits = {} \/ Listed(movedLocals, Root(op.pl)))
  BY <1>2, <1>3
<1>4. CASE \E q \in hits :
             movedLocals' = Append(movedLocals, [local |-> Root(op.pl), status |-> state[q]])
  <2>1. PICK q \in hits :
          movedLocals' = Append(movedLocals, [local |-> Root(op.pl), status |-> state[q]])
    BY <1>4
  <2>2. state[q] \in Moves
    BY DEF TypeOK, MoveSets, Present, Status
  <2>3. PICK e \in E : e = [local |-> Root(op.pl), status |-> state[q]]
    BY <2>2
  <2>4. movedLocals' = Append(movedLocals, e) /\ e.local = Root(op.pl)
    BY <2>1, <2>3
  <2>5. /\ Len(movedLocals') = Len(movedLocals) + 1 /\ Len(movedLocals) \in Nat
        /\ \A i \in 1..Len(movedLocals) : movedLocals'[i] = movedLocals[i]
        /\ movedLocals'[Len(movedLocals) + 1] = e
    BY <1>1, <2>4, AppendProperties, LenProperties
  <2>6. /\ 1..Len(movedLocals) \subseteq 1..Len(movedLocals')
        /\ Len(movedLocals) + 1 \in 1..Len(movedLocals')
    BY <2>5
  <2> QED BY <2>4, <2>5, <2>6 DEF Listed
<1> HIDE DEF hits
<1> QED BY <1>3, <1>4 DEF Record, hits

(* Once the worklist is empty, the history is the fixpoint's. *)
LEMMA HistoryIsFixpoint ==
  ASSUME TypeOK, FlowInv, work = <<>>, phase # "flow" \/ cur = 0, NEW b \in Blocks(cfg)
  PROVE  /\ blockIn[b] = InState(b) /\ before[b][1] = blockIn[b]
         /\ \A i \in 1..Len(cfg.ops[b]) :
              /\ before[b][i + 1] = Effect(cfg, cfg.ops[b][i], before[b][i])
              /\ \A w \in Errors(cfg, cfg.ops[b][i], before[b][i]) :
                   [at |-> <<b, i>>, why |-> w] \in errors
              /\ Sites(cfg, cfg.ops[b][i]) \subseteq sites
         /\ blockOut[b] = before[b][Len(cfg.ops[b]) + 1]
         /\ \A i \in Points(cfg, b) : before[b][i] \in MoveSets(cfg)
<1>1. b \notin OnWork(work) /\ b # 0
  BY DEF OnWork, Blocks
<1>2. Len(cfg.ops[b]) \in Nat
  BY CfgFacts DEF TypeOK
<1>3. (Len(cfg.ops[b]) + 1) - 1 = Len(cfg.ops[b])
  BY <1>2
<1>4. \A i \in Points(cfg, b) : before[b][i] \in MoveSets(cfg)
  BY DEF TypeOK
<1> QED BY <1>1, <1>3, <1>4 DEF FlowInv, WalkedTo

LEMMA SnapStepLemma ==
  ASSUME TypeOK, FlowInv, SnapInv, [Next]_vars
  PROVE  SnapInv'
<1>0. /\ cfg \in Cfgs /\ cfg.n \in Nat \ {0}
      /\ \A b \in Blocks(cfg) : Len(cfg.ops[b]) \in Nat /\ 1 \in Points(cfg, b)
  BY CfgFacts DEF TypeOK
<1>1. CASE Pop \/ Step \/ Commit
  <2>1. phase' = "flow"
    BY <1>1 DEF Pop, Step, Commit
  <2> QED BY <2>1 DEF SnapInv, Replayed
<1>2. CASE StartSnapshot
  <2>1. /\ phase' = "snap" /\ cur' = 1 /\ pos' = 1 /\ state' = blockIn[1]
        /\ cfg' = cfg /\ before' = before /\ 1 \in Blocks(cfg)
    BY <1>0, <1>2 DEF StartSnapshot, flowVars, Blocks
  <2>2. before[1][1] = blockIn[1] /\ before[1][1] \in MoveSets(cfg)
    BY <1>0, <1>2, <2>1, HistoryIsFixpoint DEF StartSnapshot
  <2>3. Covers(state', Present(before'[cur'][pos']))
    BY <1>0, <2>1, <2>2, SelfCovers
  <2>4. \A b \in Blocks(cfg) : \A i \in 1..Len(cfg.ops[b]) : ~ Replayed(b, i)'
    BY <1>0, <2>1 DEF Replayed, Blocks
  <2> QED BY <2>1, <2>3, <2>4 DEF SnapInv
<1>3. CASE SnapStep
  <2> DEFINE op == cfg.ops[cur][pos]
  <2>1. /\ phase = "snap" /\ work = <<>> /\ cur \in Blocks(cfg)
        /\ pos \in 1..Len(cfg.ops[cur])
    BY <1>0, <1>3 DEF SnapStep, AtEnd, TypeOK, Points
  <2>2. /\ op \in [k : OpKinds, pl : cfg.places, node : Nat]
        /\ pos \in Points(cfg, cur) /\ pos + 1 \in Points(cfg, cur) /\ pos \in Nat
    BY <1>0, <2>1, OpType
  <2>3. /\ before[cur][pos + 1] = Effect(cfg, op, before[cur][pos])
        /\ before[cur][pos] \in MoveSets(cfg)
    BY <2>1, <2>2, HistoryIsFixpoint
  <2>4. /\ state \in MoveSets(cfg) /\ Covers(state, Present(before[cur][pos]))
    BY <2>1 DEF TypeOK, SnapInv
  <2>5. /\ cfg' = cfg /\ phase' = "snap" /\ cur' = cur /\ pos' = pos + 1
        /\ before' = before /\ Record(op) /\ state' = ReplayEffect(op, state)
    BY <1>3 DEF SnapStep, flowVars
  <2>6. Covers(state', Present(before'[cur'][pos']))
    BY <1>0, <2>2, <2>3, <2>4, <2>5, ReplayCovers
  <2>7. /\ \A l : Listed(movedLocals, l) => Listed(movedLocals', l)
        /\ op.k = "dead" /\ Named(cfg, Root(op.pl)) =>
             Listed(movedLocals', Root(op.pl)) \/ Readable(state, op.pl)
    BY <2>2, <2>5, RecordListed
  <2>8. Readable(state, op.pl) => Readable(before[cur][pos], op.pl)
    BY <1>0, <2>2, <2>3, <2>4, ReplayReadable
  <2>9. ASSUME NEW b \in Blocks(cfg), NEW i \in 1..Len(cfg.ops[b]),
               Replayed(b, i)', cfg.ops[b][i].k = "dead",
               Named(cfg, Root(cfg.ops[b][i].pl))
        PROVE  \/ Listed(movedLocals', Root(cfg.ops[b][i].pl))
               \/ Readable(before[b][i], cfg.ops[b][i].pl)
    <3>1. CASE b = cur /\ i = pos
      BY <2>7, <2>8, <2>9, <3>1
    <3>2. CASE ~ (b = cur /\ i = pos)
      <4>1. Replayed(b, i)
        BY <2>1, <2>2, <2>5, <2>9, <3>2 DEF Replayed
      <4>2. \/ Listed(movedLocals, Root(cfg.ops[b][i].pl))
            \/ Readable(before[b][i], cfg.ops[b][i].pl)
        BY <2>9, <4>1 DEF SnapInv
      <4> QED BY <2>7, <4>2
    <3> QED BY <3>1, <3>2
  <2> QED BY <2>5, <2>6, <2>9 DEF SnapInv, Listed, Readable, Named
<1>4. CASE SnapNext
  <2>1. /\ phase = "snap" /\ work = <<>> /\ cur \in Blocks(cfg) /\ cur \in Nat
        /\ pos = Len(cfg.ops[cur]) + 1
        /\ cfg' = cfg /\ before' = before /\ movedLocals' = movedLocals
    BY <1>4 DEF SnapNext, AtEnd, TypeOK, flowVars, Blocks
  <2>2. /\ phase' = "snap" => cur' = cur + 1 /\ pos' = 1
        /\ phase' = "done" => cur = cfg.n
        /\ phase' \in {"snap", "done"}
    BY <1>4, <2>1 DEF SnapNext
  <2>3. phase' = "snap" => Covers(state', Present(before'[cur'][pos']))
    <3> SUFFICES ASSUME phase' = "snap" PROVE Covers(state', Present(before'[cur'][pos']))
      OBVIOUS
    <3>1. cur' \in Blocks(cfg) /\ pos' = 1 /\ state' = blockIn[cur']
      BY <1>0, <1>4, <2>1 DEF SnapNext, Blocks
    <3>2. before[cur'][1] = blockIn[cur'] /\ before[cur'][1] \in MoveSets(cfg)
      BY <1>0, <2>1, <3>1, HistoryIsFixpoint
    <3> QED BY <1>0, <2>1, <3>1, <3>2, SelfCovers
  <2>4. ASSUME NEW b \in Blocks(cfg), NEW i \in 1..Len(cfg.ops[b]), Replayed(b, i)'
        PROVE  Replayed(b, i)
    <3>1. b \in 1..cfg.n /\ i <= Len(cfg.ops[b]) /\ Len(cfg.ops[b]) \in Nat /\ i \in Nat
      BY <1>0 DEF Blocks
    <3>2. b <= cur
      <4>1. CASE phase' = "snap"
        BY <1>0, <2>1, <2>2, <2>4, <3>1, <4>1 DEF Replayed
      <4>2. CASE phase' = "done"
        BY <2>2, <3>1, <4>2
      <4> QED BY <2>2, <4>1, <4>2
    <3> QED BY <2>1, <3>1, <3>2 DEF Replayed
  <2> QED BY <2>1, <2>3, <2>4 DEF SnapInv, Listed, Readable, Named
<1>5. CASE UNCHANGED vars
  BY <1>5 DEF vars, SnapInv, Replayed, Listed, Readable, Named
<1> QED BY <1>1, <1>2, <1>3, <1>4, <1>5 DEF Next

(***************************************************************************)
(* The execution.                                                          *)
(***************************************************************************)

(* An effect that is allowed keeps the cover of the holes it leaves. *)
LEMMA ExecCovers ==
  ASSUME cfg \in Cfgs, holes \subseteq cfg.leaves, NEW op, op.pl \in cfg.places,
         NEW m \in MoveSets(cfg), Covers(m, holes)
  PROVE  Covers(Effect(cfg, op, m), HoleEffect(op))
<1> DEFINE p == op.pl
<1>1. /\ cfg.places \in SUBSET Seq(STRING) /\ p \in cfg.places
      /\ cfg.leaves \subseteq Seq(STRING) /\ holes \in SUBSET Seq(STRING)
      /\ m \in [cfg.places -> Status] /\ "Moved" \in Moves /\ "Uninit" \in Moves
  BY PlaceType DEF MoveSets, Moves
<1>2. ASSUME NEW s \in Moves
      PROVE  Covers(Mark(m, p, s), holes \cup Under(p))
  <2>1. Covers(Mark(m, p, s), holes \cup {q \in Seq(STRING) : IsPrefixOf(p, q)})
    BY <1>1, MarkCovers
  <2>2. Under(p) \subseteq {q \in Seq(STRING) : IsPrefixOf(p, q)}
    BY <1>1 DEF Under
  <2> QED BY <2>1, <2>2 DEF Covers
<1>3. Covers(InitPlace(m, p), holes \ Under(p))
  <2>1. Covers(InitPlace(m, p), {q \in holes : ~ IsPrefixOf(p, q)})
    BY <1>1, InitCovers
  <2>2. holes \ Under(p) \subseteq {q \in holes : ~ IsPrefixOf(p, q)}
    BY DEF Under
  <2> QED BY <2>1, <2>2 DEF Covers
<1>4. CASE op.k = "move"
  BY <1>1, <1>2, <1>4 DEF Effect, HoleEffect
<1>5. CASE op.k = "init"
  BY <1>3, <1>5 DEF Effect, HoleEffect
<1>6. CASE op.k = "uninit"
  BY <1>1, <1>2, <1>6 DEF Effect, HoleEffect
<1>7. CASE op.k \notin {"move", "init", "uninit"}
  <2>1. HoleEffect(op) \subseteq holes
    BY <1>7 DEF HoleEffect
  <2>2. Effect(cfg, op, m) = m
    BY <1>7 DEF Effect
  <2> QED BY <2>1, <2>2 DEF Covers
<1> QED BY <1>4, <1>5, <1>6, <1>7

SoundInv == TypeOK /\ FlowInv /\ SnapInv /\ RunTypeOK /\ RunInv

LEMMA SoundInitLemma == SoundInit => SoundInv
<1> SUFFICES ASSUME SoundInit PROVE SoundInv
  OBVIOUS
<1>1. TypeOK /\ FlowInv
  BY InitType, FlowInit DEF SoundInit
<1>2. SnapInv
  BY DEF SoundInit, Init, SnapInv, Replayed
<1>3. RunTypeOK /\ RunInv
  BY DEF SoundInit, RunTypeOK, RunInv, Running
<1> QED BY <1>1, <1>2, <1>3 DEF SoundInv

(* The analysis never steps once the execution has started. *)
LEMMA AnalysisStep ==
  ASSUME SoundInv, [Next]_vars, UNCHANGED runVars
  PROVE  SoundInv'
<1>1. TypeOK' /\ FlowInv'
  BY TypeStep, FlowPop, FlowStep, FlowCommit, FlowRest DEF SoundInv, Next
<1>2. SnapInv'
  BY SnapStepLemma DEF SoundInv
<1>3. phase = "done" => UNCHANGED vars
  BY DEF Next, Pop, Step, Commit, StartSnapshot, SnapStep, SnapNext
<1>4. cfg' = cfg
  BY DEF Next, Pop, Step, Commit, StartSnapshot, SnapStep, SnapNext, vars
<1>5. RunTypeOK'
  BY <1>3, <1>4 DEF SoundInv, RunTypeOK, Running, runVars, vars
<1>6. RunInv'
  BY <1>3 DEF SoundInv, RunTypeOK, RunInv, Running, runVars, vars, Covers, Present
<1> QED BY <1>1, <1>2, <1>5, <1>6 DEF SoundInv

(* The facts about the program point an execution has reached. *)
LEMMA RunFacts ==
  ASSUME SoundInv, Running
  PROVE  /\ cfg \in Cfgs /\ phase = "done" /\ errors = {} /\ work = <<>>
         /\ pc[1] \in Blocks(cfg) /\ pc[2] \in Points(cfg, pc[1])
         /\ Len(cfg.ops[pc[1]]) \in Nat
         /\ AtOp => pc[2] \in 1..Len(cfg.ops[pc[1]]) /\ CurrentOp.pl \in cfg.places
                    /\ pc[2] + 1 \in Points(cfg, pc[1]) /\ pc[2] \in Nat
         /\ ~ AtOp => pc[2] = Len(cfg.ops[pc[1]]) + 1
         /\ before[pc[1]][pc[2]] \in MoveSets(cfg)
         /\ holes \subseteq cfg.leaves /\ Covers(before[pc[1]][pc[2]], holes)
<1>1. /\ cfg \in Cfgs /\ phase = "done" /\ errors = {} /\ work = <<>>
      /\ pc[1] \in Blocks(cfg) /\ pc[2] \in Points(cfg, pc[1])
      /\ holes \subseteq cfg.leaves /\ Covers(before[pc[1]][pc[2]], holes)
      /\ before[pc[1]][pc[2]] \in MoveSets(cfg)
  BY DEF SoundInv, RunTypeOK, RunInv, TypeOK
<1>2. Len(cfg.ops[pc[1]]) \in Nat
  BY <1>1, CfgFacts
<1>3. /\ AtOp => pc[2] \in 1..Len(cfg.ops[pc[1]])
      /\ ~ AtOp => pc[2] = Len(cfg.ops[pc[1]]) + 1
  BY <1>1, <1>2 DEF AtOp, Points
<1>4. AtOp => /\ CurrentOp.pl \in cfg.places
              /\ pc[2] + 1 \in Points(cfg, pc[1]) /\ pc[2] \in Nat
  BY <1>1, <1>3, OpType DEF CurrentOp
<1> QED BY <1>1, <1>2, <1>3, <1>4

LEMMA LaunchStep ==
  ASSUME SoundInv, Launch, UNCHANGED vars
  PROVE  RunTypeOK' /\ RunInv'
<1>1. cfg.entry \in Blocks(cfg) /\ 1 \in Points(cfg, cfg.entry)
  BY CfgFacts DEF SoundInv, TypeOK
<1>2. pc' = <<cfg.entry, 1>> /\ holes' = {} /\ phase = "done" /\ errors = {}
  BY DEF Launch
<1> QED BY <1>1, <1>2 DEF RunTypeOK, RunInv, Covers, vars

LEMMA ExecStep ==
  ASSUME SoundInv, Exec, UNCHANGED vars
  PROVE  RunTypeOK' /\ RunInv'
<1>1. Running /\ AtOp
  BY DEF Exec, AtOp
<1>2. /\ pc' = <<pc[1], pc[2] + 1>> /\ holes' = HoleEffect(CurrentOp)
      /\ cfg' = cfg /\ before' = before /\ phase' = phase /\ errors' = errors
  BY DEF Exec, vars
<1>3. before[pc[1]][pc[2] + 1] = Effect(cfg, CurrentOp, before[pc[1]][pc[2]])
  BY <1>1, RunFacts, HistoryIsFixpoint DEF SoundInv, CurrentOp
<1>4. Covers(before[pc[1]][pc[2] + 1], holes')
  BY <1>1, <1>2, <1>3, RunFacts, ExecCovers
<1>5. holes' \subseteq cfg.leaves
  BY <1>1, <1>2, RunFacts DEF HoleEffect, Under
<1>6. pc[1] \in Blocks(cfg) /\ pc[2] + 1 \in Points(cfg, pc[1])
  BY <1>1, RunFacts
<1>7. RunTypeOK'
  BY <1>1, <1>2, <1>5, <1>6, RunFacts DEF RunTypeOK
<1> QED BY <1>2, <1>4, <1>7 DEF RunInv

LEMMA JumpStep ==
  ASSUME SoundInv, Jump, UNCHANGED vars
  PROVE  RunTypeOK' /\ RunInv'
<1>1. Running /\ ~ AtOp
  BY DEF Jump
<1>2. PICK b \in Succs(cfg, pc[1]) : pc' = <<b, 1>>
  BY DEF Jump
<1>3. /\ holes' = holes /\ cfg' = cfg /\ before' = before /\ phase' = phase
      /\ errors' = errors
  BY DEF Jump, vars
<1>4. cfg.succ[pc[1]] \in Seq(Blocks(cfg)) /\ cfg.entry \notin Succs(cfg, pc[1])
  BY <1>1, RunFacts, CfgFacts
<1>5. b \in Blocks(cfg) /\ b # cfg.entry /\ pc[1] \in Preds(cfg, b)
  BY <1>1, <1>2, <1>4, ElementOfSeq, RunFacts DEF Succs, Preds
<1>6. /\ blockOut[pc[1]] = before[pc[1]][pc[2]]
      /\ before[b][1] = InState(b)
  BY <1>1, <1>5, RunFacts, HistoryIsFixpoint DEF SoundInv
<1>7. \A a \in Preds(cfg, b) : blockOut[a] \in MoveSets(cfg)
  BY DEF SoundInv, TypeOK, Preds
<1>8. InState(b) = MergeAll(cfg, blockOut, Preds(cfg, b))
  BY <1>5 DEF InState
<1>9. Present(before[pc[1]][pc[2]]) \subseteq Present(before[b][1])
  BY <1>5, <1>6, <1>7, <1>8, MergeAllPresence
<1>10. Covers(before[b][1], holes)
  BY <1>1, <1>9, RunFacts DEF Covers
<1>11. 1 \in Points(cfg, b)
  BY <1>1, <1>5, RunFacts, CfgFacts
<1>12. RunTypeOK'
  BY <1>1, <1>2, <1>3, <1>5, <1>11, RunFacts DEF RunTypeOK
<1> QED BY <1>2, <1>3, <1>10, <1>12 DEF RunInv

LEMMA SoundStep == SoundInv /\ [SoundNext]_<<vars, runVars>> => SoundInv'
<1> SUFFICES ASSUME SoundInv, [SoundNext]_<<vars, runVars>> PROVE SoundInv'
  OBVIOUS
<1>1. CASE [Next]_vars /\ UNCHANGED runVars
  BY <1>1, AnalysisStep
<1>2. CASE (Launch \/ Exec \/ Jump) /\ UNCHANGED vars
  <2>1. TypeOK' /\ FlowInv'
    BY <1>2, TypeStep, FlowRest DEF SoundInv
  <2>2. SnapInv'
    BY <1>2, SnapStepLemma DEF SoundInv
  <2> QED BY <1>2, <2>1, <2>2, LaunchStep, ExecStep, JumpStep DEF SoundInv
<1> QED BY <1>1, <1>2 DEF SoundNext

THEOREM SoundCorrect == SoundSpec => []SoundInv
<1> QED BY SoundInitLemma, SoundStep, PTL DEF SoundSpec

(* No path of an accepted function uses a value that is not there. *)
THEOREM Soundness == SoundSpec => []NoUseAfterMove
<1>1. ASSUME SoundInv PROVE NoUseAfterMove
  <2> SUFFICES ASSUME AtOp, Reads(CurrentOp)
      PROVE  \A l \in holes : ~ Overlaps(l, CurrentOp.pl)
    BY DEF NoUseAfterMove
  <2> DEFINE m == before[pc[1]][pc[2]]
  <2>0. Running
    BY DEF AtOp
  <2>1. \A w \in Errors(cfg, CurrentOp, m) : [at |-> <<pc[1], pc[2]>>, why |-> w] \in errors
    BY <1>1, <2>0, RunFacts, HistoryIsFixpoint DEF SoundInv, CurrentOp
  <2>2. "moved" \notin Errors(cfg, CurrentOp, m)
    BY <1>1, <2>0, <2>1, RunFacts
  <2>3. Readable(m, CurrentOp.pl)
    BY <2>2 DEF Errors
  <2>4. /\ cfg.places \in SUBSET Seq(STRING) /\ holes \in SUBSET Seq(STRING)
        /\ m \in [cfg.places -> Status] /\ CurrentOp.pl \in Seq(STRING)
        /\ Covers(m, holes)
    BY <1>1, <2>0, RunFacts, PlaceType DEF MoveSets
  <2> HIDE DEF m
  <2> QED BY <2>3, <2>4, ReadableIsWhole
<1> QED BY <1>1, SoundCorrect, PTL

(* A binding that codegen drops unconditionally is whole at its scope end. *)
LEMMA UnlistedWhole == SoundInv => UnlistedIsWhole
<1> SUFFICES ASSUME SoundInv, NEW l \in DOMAIN cfg.decl, AtScopeEnd(l), ~ Listed(movedLocals, l)
    PROVE  Under(<<l>>) \cap holes = {}
  BY DEF UnlistedIsWhole
<1> DEFINE m == before[pc[1]][pc[2]]
<1>1. Running /\ AtOp /\ CurrentOp.k = "dead" /\ CurrentOp.pl = <<l>> /\ Named(cfg, l)
  BY DEF AtScopeEnd, AtOp
<1>2. Root(CurrentOp.pl) = l
  BY <1>1 DEF Root
<1>3. Readable(m, CurrentOp.pl)
  BY <1>1, <1>2, RunFacts DEF SoundInv, SnapInv, Replayed, CurrentOp
<1>4. /\ cfg.places \in SUBSET Seq(STRING) /\ holes \in SUBSET Seq(STRING)
      /\ m \in [cfg.places -> Status] /\ CurrentOp.pl \in Seq(STRING)
      /\ Covers(m, holes)
  BY <1>1, RunFacts, PlaceType DEF MoveSets
<1> HIDE DEF m
<1>5. \A q \in holes : ~ Overlaps(q, CurrentOp.pl)
  BY <1>3, <1>4, ReadableIsWhole
<1> QED BY <1>1, <1>5 DEF Under, Overlaps

(* The same over every behaviour of the analysis and the execution. *)
THEOREM UnlistedSound == SoundSpec => []UnlistedIsWhole
<1> QED BY UnlistedWhole, SoundCorrect, PTL

(***************************************************************************)
(* Definite entries.  An entry that is Moved or Uninit, not MaybeMoved,    *)
(* stands for a hole on every path.                                        *)
(***************************************************************************)

(* What the graphs say of places and scopes. *)
LEMMA ShapeFacts ==
  ASSUME NEW c \in Cfgs
  PROVE  /\ \A p \in c.places : /\ p \in Seq(STRING) /\ Len(p) \in Nat /\ Len(p) >= 1
                                /\ Root(p) \in DOMAIN c.decl
                                /\ \E q \in c.leaves : IsPrefixOf(p, q)
         /\ \A p \in c.leaves : p \in Seq(STRING)
         /\ ScopesOK(c)
<1>1. CfgOK(c)
  BY CfgsOK
<1>2. ASSUME NEW p \in c.places PROVE Len(p) \in Nat /\ Len(p) >= 1
  <2>1. p \in Seq(STRING) /\ p # <<>>
    BY <1>1 DEF CfgOK
  <2> QED BY <2>1, LenProperties, EmptySeq
<1> QED BY <1>1, <1>2 DEF CfgOK

(* A place and what lies at, above or below it have the same root. *)
LEMMA PrefixRoot ==
  ASSUME NEW p \in Seq(STRING), NEW q \in Seq(STRING), Len(p) >= 1, IsPrefixOf(p, q)
  PROVE  Root(p) = Root(q)
<1>1. Len(p) \in Nat /\ 1 \in 1..Len(p)
  BY LenProperties
<1> QED BY <1>1 DEF IsPrefixOf, Root

(* An effect on a place of another binding changes nothing. *)
LEMMA OtherBinding ==
  ASSUME NEW c \in Cfgs, NEW op, op.pl \in c.places, NEW m \in MoveSets(c),
         NEW q \in c.places, Root(q) # Root(op.pl)
  PROVE  Effect(c, op, m)[q] = m[q] /\ ReplayEffect(op, m)[q] = m[q]
<1>1. q # op.pl /\ ~ IsPrefixOf(op.pl, q)
  BY ShapeFacts, PrefixRoot
<1>2. DOMAIN m = c.places
  BY DEF MoveSets
<1>3. /\ \A s : Mark(m, op.pl, s)[q] = m[q]
      /\ InitPlace(m, op.pl)[q] = m[q]
  BY <1>1, <1>2 DEF Mark, InitPlace
<1> QED BY <1>3 DEF Effect, ReplayEffect

(* An effect that marks no place of a binding makes none of them definite. *)
LEMMA UnmarkedEffect ==
  ASSUME NEW c \in Cfgs, NEW op, op.pl \in c.places, NEW m \in MoveSets(c),
         NEW q \in c.places, ~ Marks(op, Root(q)), m[q] \notin Definite
  PROVE  Effect(c, op, m)[q] \notin Definite
<1>1. CASE Root(q) # Root(op.pl)
  BY <1>1, OtherBinding
<1>2. CASE Root(q) = Root(op.pl)
  <2>1. op.k # "move" /\ op.k # "uninit"
    BY <1>2 DEF Marks
  <2>2. DOMAIN m = c.places
    BY DEF MoveSets
  <2>3. InitPlace(m, op.pl)[q] \notin Definite
    BY <2>2 DEF InitPlace, Definite
  <2> QED BY <2>1, <2>3 DEF Effect
<1> QED BY <1>1, <1>2

(* A definite entry of a merge is the same entry in every out-state. *)
LEMMA MergeDefinite ==
  ASSUME NEW c, NEW B, NEW out, NEW q \in c.places, MergeAll(c, out, B)[q] \in Definite,
         NEW a \in B
  PROVE  out[a][q] = MergeAll(c, out, B)[q]
<1>1. (CHOOSE x \in B : TRUE) \in B
  OBVIOUS
<1>2. \A a1, a2 \in B : out[a1][q] = out[a2][q]
  BY DEF MergeAll, Definite
<1> QED BY <1>1, <1>2 DEF MergeAll

LEMMA BindInit == Init => BindInv
<1> SUFFICES ASSUME Init PROVE BindInv
  OBVIOUS
<1>1. \A q \in cfg.places : Empty(cfg)[q] \notin Definite
  BY DEF Empty, Definite
<1>2. cfg \in Cfgs
  BY DEF Init
<1>3. \A b \in Blocks(cfg) : 1 \in Points(cfg, b)
  BY <1>2, CfgFacts
<1>4. \A b \in Blocks(cfg) : /\ blockOut[b] = Empty(cfg)
                             /\ \A i \in Points(cfg, b) : before[b][i] = Empty(cfg)
  BY DEF Init
<1> QED BY <1>1, <1>3, <1>4 DEF BindInv, Init

LEMMA BindStep ==
  ASSUME TypeOK, BindInv, [Next]_vars
  PROVE  BindInv'
<1>0. /\ cfg \in Cfgs /\ cfg' = cfg
      /\ \A b \in Blocks(cfg) : Len(cfg.ops[b]) \in Nat /\ 1 \in Points(cfg, b)
  BY CfgFacts DEF TypeOK, Next, Pop, Step, Commit, StartSnapshot, SnapStep, SnapNext, vars
<1> SUFFICES ASSUME NEW l \in DOMAIN cfg.decl, NEW F \in SUBSET Blocks(cfg),
                    Untouching(cfg, F, l), NEW b \in F,
                    NEW q \in cfg.places, Root(q) = l
    PROVE  /\ before'[b][1][q] \notin Definite
           /\ Untouched(cfg, b, l) =>
                /\ \A i \in Points(cfg, b) : before'[b][i][q] \notin Definite
                /\ blockOut'[b][q] \notin Definite
                /\ phase' = "flow" /\ cur' = b => state'[q] \notin Definite
  BY <1>0 DEF BindInv
<1>1. /\ before[b][1][q] \notin Definite
      /\ Untouched(cfg, b, l) =>
           /\ \A i \in Points(cfg, b) : before[b][i][q] \notin Definite
           /\ blockOut[b][q] \notin Definite
           /\ phase = "flow" /\ cur = b => state[q] \notin Definite
  BY DEF BindInv
<1>2. CASE Pop
  <2>1. /\ cur' = work[Len(work)] /\ state' = InState(cur') /\ blockOut' = blockOut
        /\ before' = [before EXCEPT ![cur'][1] = state']
    BY <1>2 DEF Pop
  <2>2. cur' \in Blocks(cfg)
    BY <1>2, <2>1, PopProperties DEF Pop, TypeOK
  <2>3. state' \in MoveSets(cfg)
    BY <2>1, <2>2, InStateType
  <2>4. /\ \A a \in Blocks(cfg) : a # cur' => before'[a] = before[a]
        /\ \A i \in Points(cfg, cur') : i # 1 => before'[cur'][i] = before[cur'][i]
        /\ before'[cur'][1] = state'
    BY <1>0, <2>1, <2>2, <2>3, BeforeType DEF TypeOK
  <2>5. CASE b # cur'
    BY <1>1, <2>1, <2>4, <2>5
  <2>6. CASE b = cur'
    <3>1. state'[q] \notin Definite
      <4>1. CASE b = cfg.entry
        BY <2>1, <2>6, <4>1 DEF InState, Empty, Definite
      <4>2. CASE b # cfg.entry /\ Preds(cfg, b) = {}
        <5>1. state' = MergeAll(cfg, blockOut, {})
          BY <2>1, <2>6, <4>2 DEF InState
        <5>2. MergeAll(cfg, blockOut, {})[q] = "Init"
          BY DEF MergeAll
        <5> QED BY <5>1, <5>2 DEF Definite
      <4>3. CASE b # cfg.entry /\ Preds(cfg, b) # {}
        <5>1. PICK a \in Preds(cfg, b) \cap F : Untouched(cfg, a, l)
          BY <4>3 DEF Untouching
        <5>2. blockOut[a][q] \notin Definite
          BY <5>1 DEF BindInv
        <5>3. state' = MergeAll(cfg, blockOut, Preds(cfg, b))
          BY <2>1, <2>6, <4>3 DEF InState
        <5> QED BY <5>1, <5>2, <5>3, MergeDefinite
      <4> QED BY <4>1, <4>2, <4>3
    <3>2. \A i \in Points(cfg, b) :
            before'[b][i] = state' \/ before'[b][i] = before[b][i]
      BY <2>4, <2>6
    <3> QED BY <1>1, <2>1, <2>4, <2>6, <3>1, <3>2
  <2> QED BY <2>5, <2>6
<1>3. CASE Step
  <2> DEFINE op == cfg.ops[cur][pos]
  <2>1. /\ cur \in Blocks(cfg) /\ pos \in 1..Len(cfg.ops[cur]) /\ phase = "flow"
    BY <1>0, <1>3 DEF Step, TypeOK, AtEnd, Points
  <2>2. /\ op.pl \in cfg.places /\ pos \in Nat /\ pos + 1 \in Points(cfg, cur)
    BY <1>0, <2>1, OpType
  <2>3. /\ state' = Effect(cfg, op, state) /\ state \in MoveSets(cfg)
        /\ state' \in MoveSets(cfg)
    BY <1>3, EffectType DEF Step, TypeOK
  <2>4. /\ blockOut' = blockOut /\ cur' = cur
        /\ before' = [before EXCEPT ![cur][pos + 1] = state']
    BY <1>3 DEF Step
  <2>5. /\ \A a \in Blocks(cfg) : a # cur => before'[a] = before[a]
        /\ \A i \in Points(cfg, cur) : i # pos + 1 => before'[cur][i] = before[cur][i]
        /\ before'[cur][pos + 1] = state'
    BY <2>1, <2>2, <2>3, <2>4, BeforeType DEF TypeOK
  <2>6. before'[b][1] = before[b][1]
    <3>1. 1 # pos + 1
      BY <2>1
    <3> QED BY <1>0, <2>2, <2>5, <3>1
  <2>7. CASE b # cur
    BY <1>1, <2>4, <2>5, <2>7
  <2>8. CASE b = cur /\ ~ Untouched(cfg, b, l)
    BY <1>1, <2>6, <2>8
  <2>9. CASE b = cur /\ Untouched(cfg, b, l)
    <3>1. ~ Marks(op, l)
      BY <2>1, <2>9 DEF Untouched
    <3>2. state[q] \notin Definite
      BY <1>1, <2>1, <2>9
    <3>3. state'[q] \notin Definite
      BY <1>0, <2>2, <2>3, <3>1, <3>2, UnmarkedEffect
    <3>4. \A i \in Points(cfg, b) :
            before'[b][i] = state' \/ before'[b][i] = before[b][i]
      BY <2>5, <2>9
    <3> QED BY <1>1, <2>4, <2>6, <2>9, <3>3, <3>4
  <2> QED BY <2>7, <2>8, <2>9
<1>4. CASE Commit
  <2>1. /\ phase = "flow" /\ cur \in Blocks(cfg) /\ cur' = 0 /\ before' = before
        /\ blockOut' = blockOut \/ blockOut' = [blockOut EXCEPT ![cur] = state]
    BY <1>4 DEF Commit, TypeOK
  <2>2. b # 0
    BY DEF Blocks
  <2>3. blockOut'[b] = blockOut[b] \/ (b = cur /\ blockOut'[b] = state)
    BY <2>1 DEF TypeOK
  <2> QED BY <1>1, <2>1, <2>2, <2>3
<1>5. CASE StartSnapshot \/ SnapStep \/ SnapNext
  <2>1. before' = before /\ blockOut' = blockOut /\ phase' # "flow"
    BY <1>5 DEF StartSnapshot, SnapStep, SnapNext, flowVars
  <2> QED BY <1>1, <2>1
<1>6. CASE UNCHANGED vars
  BY <1>1, <1>6 DEF vars
<1> QED BY <1>2, <1>3, <1>4, <1>5, <1>6 DEF Next

(* The entries of moved_locals have the status their binding had. *)
LEMMA StatusStep ==
  ASSUME TypeOK, FlowInv, SnapStatus, [Next]_vars
  PROVE  SnapStatus'
<1>0. /\ cfg \in Cfgs /\ cfg' = cfg
      /\ \A b \in Blocks(cfg) : Len(cfg.ops[b]) \in Nat /\ 1 \in Points(cfg, b)
  BY CfgFacts DEF TypeOK, Next, Pop, Step, Commit, StartSnapshot, SnapStep, SnapNext, vars
<1>1. CASE Pop \/ Step \/ Commit
  <2>1. phase' = "flow" /\ movedLocals' = <<>>
    BY <1>1 DEF Pop, Step, Commit, SnapStatus
  <2> QED BY <2>1 DEF SnapStatus
<1>2. CASE StartSnapshot
  <2>1. /\ phase' = "snap" /\ cur' = 1 /\ pos' = 1 /\ state' = blockIn[1]
        /\ before' = before /\ movedLocals' = <<>> /\ 1 \in Blocks(cfg)
    BY <1>0, <1>2, CfgFacts DEF StartSnapshot, flowVars, Blocks, SnapStatus
  <2>2. before[1][1] = blockIn[1]
    BY <1>2, <2>1, HistoryIsFixpoint DEF StartSnapshot
  <2> QED BY <1>0, <2>1, <2>2 DEF SnapStatus
<1>3. CASE SnapStep
  <2> DEFINE op == cfg.ops[cur][pos]
  <2>1. /\ phase = "snap" /\ work = <<>> /\ cur \in Blocks(cfg)
        /\ pos \in 1..Len(cfg.ops[cur])
    BY <1>0, <1>3 DEF SnapStep, AtEnd, TypeOK, Points
  <2>2. /\ op \in [k : OpKinds, pl : cfg.places, node : Nat]
        /\ pos \in Points(cfg, cur) /\ pos \in Nat
    BY <1>0, <2>1, OpType
  <2>3. /\ before[cur][pos + 1] = Effect(cfg, op, before[cur][pos])
        /\ before[cur][pos] \in MoveSets(cfg) /\ state \in MoveSets(cfg)
    BY <2>1, <2>2, HistoryIsFixpoint DEF TypeOK
  <2>4. /\ phase' = "snap" /\ cur' = cur /\ pos' = pos + 1
        /\ before' = before /\ Record(op) /\ state' = ReplayEffect(op, state)
    BY <1>3 DEF SnapStep, flowVars
  <2>5. \A q \in cfg.places : cfg.decl[Root(q)].ty # "raw" => state[q] = before[cur][pos][q]
    BY <2>1 DEF SnapStatus
  <2>6. ASSUME NEW q \in cfg.places, cfg.decl[Root(q)].ty # "raw"
        PROVE  state'[q] = before'[cur'][pos'][q]
    <3>1. CASE Root(q) # Root(op.pl)
      BY <1>0, <2>2, <2>3, <2>4, <2>5, <2>6, <3>1, OtherBinding
    <3>2. CASE Root(q) = Root(op.pl)
      <4>1. ReplayEffect(op, state)[q] = Effect(cfg, op, before[cur][pos])[q]
        <5>1. ~ ThroughRawDeref(cfg, op.pl)
          BY <2>6, <3>2 DEF ThroughRawDeref
        <5>2. DOMAIN state = cfg.places /\ DOMAIN before[cur][pos] = cfg.places
          BY <2>3 DEF MoveSets
        <5>3. /\ \A s : Mark(state, op.pl, s)[q] = Mark(before[cur][pos], op.pl, s)[q]
              /\ InitPlace(state, op.pl)[q] = InitPlace(before[cur][pos], op.pl)[q]
              /\ state[q] = before[cur][pos][q]
          BY <2>5, <2>6, <5>2 DEF Mark, InitPlace
        <5> HIDE DEF op
        <5> QED BY <5>1, <5>3 DEF Effect, ReplayEffect
      <4> QED BY <2>3, <2>4, <4>1
    <3> QED BY <3>1, <3>2
  <2> DEFINE E == [local : {Root(p) : p \in cfg.places}, status : Moves]
             Had(ml, k) ==
               /\ Named(cfg, ml[k].local)
               /\ cfg.decl[ml[k].local].ty # "raw" =>
                    \E b \in Blocks(cfg) : \E i \in 1..Len(cfg.ops[b]) : \E q \in cfg.places :
                      /\ cfg.ops[b][i].k = "dead" /\ Root(cfg.ops[b][i].pl) = ml[k].local
                      /\ Root(q) = ml[k].local /\ before[b][i][q] = ml[k].status
             Once(ml) ==
               \A k, j \in 1..Len(ml) : ml[j].local = ml[k].local => j = k
  <2>7. /\ movedLocals \in Seq(E) /\ \A k \in 1..Len(movedLocals) : Had(movedLocals, k)
        /\ Once(movedLocals)
    BY DEF TypeOK, SnapStatus
  <2>8. Once(movedLocals') /\ \A k \in 1..Len(movedLocals') : Had(movedLocals', k)
    <3>1. CASE UNCHANGED movedLocals
      BY <2>7, <3>1
    <3>2. CASE ~ UNCHANGED movedLocals
      <4>1. PICK q \in Present(state) :
              /\ Overlaps(q, op.pl) /\ op.k = "dead" /\ Named(cfg, Root(op.pl))
              /\ ~ Listed(movedLocals, Root(op.pl))
              /\ movedLocals' = Append(movedLocals,
                                       [local |-> Root(op.pl), status |-> state[q]])
        BY <2>4, <3>2 DEF Record
      <4>2. q \in cfg.places /\ state[q] \in Moves
        BY <2>3 DEF MoveSets, Present, Status
      <4>3. Root(q) = Root(op.pl)
        BY <1>0, <2>2, <4>1, <4>2, ShapeFacts, PrefixRoot DEF Overlaps
      <4>4. PICK e \in E : e = [local |-> Root(op.pl), status |-> state[q]]
        BY <2>2, <4>2
      <4>5. /\ Len(movedLocals') = Len(movedLocals) + 1 /\ Len(movedLocals) \in Nat
            /\ \A i \in 1..Len(movedLocals) : movedLocals'[i] = movedLocals[i]
            /\ movedLocals'[Len(movedLocals) + 1] = e
        BY <2>7, <4>1, <4>4, AppendProperties, LenProperties
      <4>6. cfg.decl[e.local].ty # "raw" => before[cur][pos][q] = e.status
        BY <2>5, <4>2, <4>3, <4>4
      <4>7. e.local = Root(op.pl)
        BY <4>4
      <4>8. Had(movedLocals', Len(movedLocals) + 1)
        BY <2>1, <4>1, <4>2, <4>3, <4>5, <4>6, <4>7
      <4>9. \A k \in 1..Len(movedLocals) : Had(movedLocals', k)
        BY <2>7, <4>5
      <4>10. \A k \in 1..Len(movedLocals') : k \in 1..Len(movedLocals) \/ k = Len(movedLocals) + 1
        BY <4>5
      <4>11. \A k \in 1..Len(movedLocals) : movedLocals[k].local # Root(op.pl)
        BY <4>1 DEF Listed
      <4>12. Once(movedLocals')
        BY <2>7, <4>5, <4>7, <4>10, <4>11
      <4> HIDE DEF Had, Once
      <4> QED BY <4>8, <4>9, <4>10, <4>12
    <3> QED BY <3>1, <3>2
  <2> QED BY <1>0, <2>4, <2>6, <2>8 DEF SnapStatus
<1>4. CASE SnapNext
  <2>1. /\ phase = "snap" /\ work = <<>> /\ cur \in Blocks(cfg)
        /\ before' = before /\ movedLocals' = movedLocals /\ phase' \in {"snap", "done"}
    BY <1>4 DEF SnapNext, TypeOK, flowVars
  <2>2. phase' = "snap" => state' = before'[cur'][pos']
    <3> SUFFICES ASSUME phase' = "snap" PROVE state' = before'[cur'][pos']
      OBVIOUS
    <3>1. cur' \in Blocks(cfg) /\ pos' = 1 /\ state' = blockIn[cur']
      BY <1>0, <1>4, <2>1, CfgFacts DEF SnapNext, Blocks
    <3>2. before[cur'][1] = blockIn[cur']
      BY <2>1, <3>1, HistoryIsFixpoint
    <3> QED BY <2>1, <3>1, <3>2
  <2> QED BY <1>0, <2>1, <2>2 DEF SnapStatus
<1>5. CASE UNCHANGED vars
  BY <1>5 DEF vars, SnapStatus
<1> QED BY <1>1, <1>2, <1>3, <1>4, <1>5 DEF Next

(* Leaves below places of different bindings are different. *)
LEMMA UnderRoot ==
  ASSUME cfg \in Cfgs, NEW p \in cfg.places
  PROVE  /\ \A l \in Under(p) : Root(l) = Root(p)
         /\ Under(p) # {}
<1>1. /\ p \in Seq(STRING) /\ Len(p) >= 1 /\ \A q \in cfg.leaves : q \in Seq(STRING)
      /\ \E q \in cfg.leaves : IsPrefixOf(p, q)
  BY ShapeFacts
<1>2. \A l \in cfg.leaves : IsPrefixOf(p, l) => Root(l) = Root(p)
  BY <1>1, PrefixRoot
<1> QED BY <1>1, <1>2 DEF Under

(* One effect of the execution: what it makes definite it empties, and what *)
(* it fills is not definite.                                               *)
LEMMA DefiniteExec ==
  ASSUME SoundInv, BindInv, DefiniteInv, Exec, UNCHANGED vars
  PROVE  DefiniteInv'
<1> DEFINE b == pc[1]
           m == before[b][pc[2]]
           op == CurrentOp
<1>1. /\ Running /\ AtOp /\ pc' = <<b, pc[2] + 1>> /\ holes' = HoleEffect(op)
      /\ cfg' = cfg /\ before' = before
  BY DEF Exec, AtOp, vars
<1>2. /\ cfg \in Cfgs /\ b \in Blocks(cfg) /\ pc[2] \in 1..Len(cfg.ops[b])
      /\ op.pl \in cfg.places /\ m \in MoveSets(cfg) /\ holes \subseteq cfg.leaves
  BY <1>1, RunFacts
<1>3. before[b][pc[2] + 1] = Effect(cfg, op, m)
  BY <1>1, <1>2, RunFacts, HistoryIsFixpoint DEF SoundInv, CurrentOp
<1>4. SUFFICES ASSUME NEW q \in cfg.places, Owning(Root(q)), ~ Refilled(Root(q)),
                      Effect(cfg, op, m)[q] \in Definite
      PROVE  Under(q) \cap HoleEffect(op) # {}
  BY <1>1, <1>3 DEF DefiniteInv, Owning, Refilled, Under
<1>5. m[q] \in Definite => Under(q) \cap holes # {}
  BY <1>1, <1>4 DEF DefiniteInv
<1>6. DOMAIN m = cfg.places /\ m \in [cfg.places -> Status]
  BY <1>2 DEF MoveSets
<1> HIDE DEF m, op
<1>7. CASE Root(q) # Root(op.pl)
  <2>1. Effect(cfg, op, m)[q] = m[q]
    BY <1>2, <1>7, OtherBinding
  <2>2. \A l \in Under(q) : l \notin Under(op.pl)
    BY <1>2, <1>7, UnderRoot
  <2>3. Under(q) \cap holes \subseteq HoleEffect(op)
    BY <2>2 DEF HoleEffect
  <2> QED BY <1>4, <1>5, <2>1, <2>3
<1>8. CASE Root(q) = Root(op.pl) /\ Marks(op, Root(q))
  <2>1. \/ op.k = "move" \/ op.k = "uninit"
    BY <1>8 DEF Marks
  <2>2. ~ ThroughRawDeref(cfg, op.pl)
    BY <1>4, <1>8 DEF ThroughRawDeref, Owning
  <2>3. HoleEffect(op) = holes \cup Under(op.pl)
    BY <2>1, <2>2 DEF HoleEffect
  <2>4. PICK s \in {"Moved", "Uninit"} : Effect(cfg, op, m) = Mark(m, op.pl, s)
    BY <2>1, <2>2 DEF Effect
  <2>5. CASE q = op.pl
    BY <1>2, <2>3, <2>5, UnderRoot
  <2>6. CASE q # op.pl
    <3>1. m[q] \in Definite
      BY <1>4, <1>6, <2>4, <2>6 DEF Mark, Definite
    <3> QED BY <1>5, <2>3, <3>1
  <2> QED BY <2>5, <2>6
<1>9. CASE Root(q) = Root(op.pl) /\ op.k = "init"
  <2>1. IsLocal(op.pl)
    <3>1. op = cfg.ops[b][pc[2]]
      BY DEF op, CurrentOp
    <3> QED BY <1>2, <1>4, <1>9, <3>1 DEF Refilled
  <2>2. IsPrefixOf(op.pl, q)
    <3>1. Len(op.pl) = 1 /\ Len(q) >= 1
      BY <1>2, <2>1, ShapeFacts DEF IsLocal
    <3> QED BY <1>9, <3>1 DEF IsPrefixOf, Root
  <2>3. Effect(cfg, op, m)[q] = "Init"
    BY <1>6, <1>9, <2>2 DEF Effect, InitPlace
  <2> QED BY <1>4, <2>3 DEF Definite
<1>10. CASE Root(q) = Root(op.pl) /\ op.k = "bind"
  <2>1. op = cfg.ops[b][pc[2]]
    BY DEF op, CurrentOp
  <2>2. pc[2] = 1 /\ FirstIteration(cfg, b, Root(q))
    BY <1>2, <1>10, <2>1, ShapeFacts DEF ScopesOK
  <2>3. PICK F \in SUBSET Blocks(cfg) : b \in F /\ Untouching(cfg, F, Root(q))
    BY <2>2 DEF FirstIteration
  <2>4. Root(q) \in DOMAIN cfg.decl
    BY <1>2, ShapeFacts
  <2>5. m[q] \notin Definite
    BY <2>2, <2>3, <2>4 DEF BindInv, m
  <2> QED BY <1>4, <1>10, <2>5 DEF Effect
<1>11. CASE Root(q) = Root(op.pl) /\ op.k \notin {"move", "uninit", "init", "bind"}
  <2>1. HoleEffect(op) = holes /\ Effect(cfg, op, m) = m
    BY <1>11 DEF HoleEffect, Effect
  <2> QED BY <1>4, <1>5, <2>1
<1> QED BY <1>7, <1>8, <1>9, <1>10, <1>11 DEF Marks

(* At a join an entry stays definite only if the block just left has it. *)
LEMMA DefiniteJump ==
  ASSUME SoundInv, DefiniteInv, Jump, UNCHANGED vars
  PROVE  DefiniteInv'
<1>1. Running /\ ~ AtOp
  BY DEF Jump
<1>2. PICK b \in Succs(cfg, pc[1]) : pc' = <<b, 1>>
  BY DEF Jump
<1>3. holes' = holes /\ cfg' = cfg /\ before' = before
  BY DEF Jump, vars
<1>4. cfg.succ[pc[1]] \in Seq(Blocks(cfg)) /\ cfg.entry \notin Succs(cfg, pc[1])
  BY <1>1, RunFacts, CfgFacts
<1>5. b \in Blocks(cfg) /\ b # cfg.entry /\ pc[1] \in Preds(cfg, b)
  BY <1>1, <1>2, <1>4, ElementOfSeq, RunFacts DEF Succs, Preds
<1>6. /\ blockOut[pc[1]] = before[pc[1]][pc[2]]
      /\ before[b][1] = InState(b)
  BY <1>1, <1>5, RunFacts, HistoryIsFixpoint DEF SoundInv
<1>7. InState(b) = MergeAll(cfg, blockOut, Preds(cfg, b))
  BY <1>5 DEF InState
<1>8. \A q \in cfg.places : before[b][1][q] \in Definite
        => before[pc[1]][pc[2]][q] \in Definite
  BY <1>5, <1>6, <1>7, MergeDefinite
<1> QED BY <1>1, <1>2, <1>3, <1>8 DEF DefiniteInv, Owning, Refilled, Under

DefiniteCert == SoundInv /\ BindInv /\ SnapStatus /\ DefiniteInv

LEMMA DefiniteStep == DefiniteCert /\ [SoundNext]_<<vars, runVars>> => DefiniteCert'
<1> SUFFICES ASSUME DefiniteCert, [SoundNext]_<<vars, runVars>> PROVE DefiniteCert'
  OBVIOUS
<1>1. SoundInv /\ TypeOK /\ FlowInv /\ BindInv /\ SnapStatus /\ DefiniteInv
  BY DEF DefiniteCert, SoundInv
<1>2. SoundInv'
  BY <1>1, SoundStep
<1>3. [Next]_vars
  BY DEF SoundNext
<1>4. BindInv' /\ SnapStatus'
  BY <1>1, <1>3, BindStep, StatusStep
<1>5. DefiniteInv'
  <2>1. CASE Next /\ UNCHANGED runVars
    <3>1. CASE Running
      <4>1. phase = "done"
        BY <1>1, <3>1, RunFacts
      <4>2. FALSE
        BY <2>1, <4>1 DEF Next, Pop, Step, Commit, StartSnapshot, SnapStep, SnapNext
      <4> QED BY <4>2
    <3>2. CASE ~ Running
      BY <2>1, <3>2 DEF DefiniteInv, Running, runVars
    <3> QED BY <3>1, <3>2
  <2>2. CASE Launch /\ UNCHANGED vars
    <3>1. /\ phase = "done" /\ pc' = <<cfg.entry, 1>> /\ before' = before /\ cfg' = cfg
          /\ cfg \in Cfgs
      BY <1>1, <2>2 DEF Launch, vars, TypeOK
    <3>2. work = <<>> /\ cfg.entry \in Blocks(cfg)
      BY <1>1, <3>1, CfgFacts DEF TypeOK
    <3>3. before[cfg.entry][1] = Empty(cfg)
      BY <1>1, <3>1, <3>2, HistoryIsFixpoint DEF InState
    <3>4. \A q \in cfg.places : Empty(cfg)[q] \notin Definite
      BY DEF Empty, Definite
    <3> QED BY <3>1, <3>3, <3>4 DEF DefiniteInv
  <2>3. CASE Exec /\ UNCHANGED vars
    BY <1>1, <2>3, DefiniteExec
  <2>4. CASE Jump /\ UNCHANGED vars
    BY <1>1, <2>4, DefiniteJump
  <2>5. CASE UNCHANGED <<vars, runVars>>
    BY <1>1, <2>5 DEF vars, runVars, DefiniteInv, Owning, Refilled, Under, Running
  <2> QED BY <2>1, <2>2, <2>3, <2>4, <2>5 DEF SoundNext
<1> QED BY <1>2, <1>4, <1>5 DEF DefiniteCert

THEOREM DefiniteCorrect == SoundSpec => []DefiniteCert
<1>1. SoundInit => DefiniteCert
  <2> SUFFICES ASSUME SoundInit PROVE DefiniteCert
    OBVIOUS
  <2>1. SoundInv /\ BindInv
    BY SoundInitLemma, BindInit DEF SoundInit
  <2>2. SnapStatus /\ DefiniteInv
    BY DEF SoundInit, Init, SnapStatus, DefiniteInv, Running
  <2> QED BY <2>1, <2>2 DEF DefiniteCert
<1> QED BY <1>1, DefiniteStep, PTL DEF SoundSpec

(* A binding whose drop codegen omits has lost a part on every path: the   *)
(* one StorageDead of the binding is where its entry was recorded.         *)
THEOREM DefiniteSound == SoundSpec => []DefiniteIsMoved
<1>1. ASSUME DefiniteCert PROVE DefiniteIsMoved
  <2> SUFFICES ASSUME NEW l \in DOMAIN cfg.decl, AtScopeEnd(l), Owning(l), ~ Refilled(l),
                      NEW k \in 1..Len(movedLocals),
                      movedLocals[k].local = l, movedLocals[k].status # "MaybeMoved"
      PROVE  Under(<<l>>) \cap holes # {}
    BY DEF DefiniteIsMoved
  <2>1. SoundInv /\ TypeOK /\ SnapStatus /\ DefiniteInv
    BY <1>1 DEF DefiniteCert, SoundInv
  <2>2. /\ Running /\ AtOp /\ CurrentOp.k = "dead" /\ Root(CurrentOp.pl) = l
    BY DEF AtScopeEnd, AtOp, Root
  <2>3. /\ cfg \in Cfgs /\ pc[1] \in Blocks(cfg) /\ pc[2] \in 1..Len(cfg.ops[pc[1]])
    BY <2>1, <2>2, RunFacts
  <2>4. cfg.decl[l].ty # "raw"
    BY DEF Owning
  <2>a. PICK b \in Blocks(cfg) : \E i \in 1..Len(cfg.ops[b]) : \E q \in cfg.places :
          /\ cfg.ops[b][i].k = "dead" /\ Root(cfg.ops[b][i].pl) = l
          /\ Root(q) = l /\ before[b][i][q] = movedLocals[k].status
    BY <2>1, <2>4 DEF SnapStatus
  <2>b. PICK i \in 1..Len(cfg.ops[b]) : \E q \in cfg.places :
          /\ cfg.ops[b][i].k = "dead" /\ Root(cfg.ops[b][i].pl) = l
          /\ Root(q) = l /\ before[b][i][q] = movedLocals[k].status
    BY <2>a
  <2>5. PICK q \in cfg.places :
          /\ cfg.ops[b][i].k = "dead" /\ Root(cfg.ops[b][i].pl) = l
          /\ Root(q) = l /\ before[b][i][q] = movedLocals[k].status
    BY <2>b
  <2>6. b = pc[1] /\ i = pc[2]
    BY <2>2, <2>3, <2>5, ShapeFacts DEF ScopesOK, CurrentOp
  <2>7. movedLocals[k].status \in Definite
    <3>1. movedLocals[k] \in [local : {Root(p) : p \in cfg.places}, status : Moves]
      BY <2>1, ElementOfSeq DEF TypeOK
    <3> QED BY <3>1 DEF Moves, Definite
  <2>8. Under(q) \cap holes # {}
    BY <2>1, <2>2, <2>5, <2>6, <2>7 DEF DefiniteInv
  <2>9. Under(q) \subseteq Under(<<l>>)
    <3>1. \A r \in Under(q) : Root(r) = l /\ r \in Seq(STRING)
      BY <2>3, <2>5, UnderRoot, ShapeFacts DEF Under
    <3>2. \A r \in Under(q) : Len(r) \in Nat /\ Len(r) >= 1
      <4> SUFFICES ASSUME NEW r \in Under(q) PROVE Len(r) \in Nat /\ Len(r) >= 1
        OBVIOUS
      <4>1. Len(q) \in Nat /\ Len(q) >= 1 /\ Len(q) <= Len(r)
        BY <2>3, ShapeFacts DEF Under, IsPrefixOf
      <4> QED BY <3>1, <4>1, LenProperties
    <3>3. Len(<<l>>) = 1 /\ <<l>>[1] = l
      OBVIOUS
    <3> QED BY <3>1, <3>2, <3>3 DEF Under, IsPrefixOf, Root
  <2> QED BY <2>8, <2>9
<1> QED BY <1>1, DefiniteCorrect, PTL
=============================================================================
