------------------------- MODULE MoveAnalysisProofs -------------------------
(***************************************************************************)
(* The worklist keeps its types, and the invariant that makes its result a *)
(* fixpoint: a block that is not queued has seen all of its predecessors'  *)
(* moves, and its out-state and errors follow from its in-state.           *)
(***************************************************************************)
EXTENDS MoveAnalysis, TLAPS, SequenceTheorems

(***************************************************************************)
(* Move sets.                                                              *)
(***************************************************************************)

(* mark and init (moves.rs) return move sets over the same places. *)
LEMMA MarkType ==
  ASSUME NEW S, NEW m \in [S -> Status], NEW p, NEW s \in Moves
  PROVE  /\ Mark(m, p, s) \in [S -> Status]
         /\ InitPlace(m, p) \in [S -> Status]
<1>1. \A a, b \in Status : MaxStatus(a, b) \in Status
  BY DEF MaxStatus, Status, Moves
<1>2. s \in Status /\ "Init" \in Status
  BY DEF Status
<1>3. \A q \in S : m[q] \in Status
  OBVIOUS
<1>4. Mark(m, p, s) \in [S -> Status]
  <2>1. ASSUME NEW q \in S
        PROVE  (IF q = p THEN (IF m[p] = "Init" THEN s ELSE MaxStatus(m[p], s))
                ELSE IF IsPrefixOf(p, q) THEN "Init" ELSE m[q]) \in Status
    BY <1>1, <1>2, <1>3, <2>1
  <2>2. DOMAIN m = S
    OBVIOUS
  <2> QED BY <2>1, <2>2 DEF Mark
<1>5. InitPlace(m, p) \in [S -> Status]
  BY <1>2, <1>3 DEF InitPlace
<1> QED BY <1>4, <1>5

(* The transfer function of one effect, and of its replay, are total. *)
LEMMA EffectType ==
  ASSUME NEW c, NEW op, NEW m \in MoveSets(c)
  PROVE  /\ Effect(c, op, m) \in MoveSets(c)
         /\ ReplayEffect(op, m) \in MoveSets(c)
<1>1. m \in [c.places -> Status] /\ "Moved" \in Moves /\ "Uninit" \in Moves
  BY DEF MoveSets, Moves
<1>2. /\ Mark(m, op.pl, "Moved") \in [c.places -> Status]
      /\ Mark(m, op.pl, "Uninit") \in [c.places -> Status]
      /\ InitPlace(m, op.pl) \in [c.places -> Status]
  BY <1>1, MarkType
<1> QED BY <1>1, <1>2 DEF Effect, ReplayEffect, MoveSets

(* MergeAll is the fold of Merge, in any order: one more out-state is one   *)
(* more Merge.                                                             *)
LEMMA MergeAllIsFold ==
  ASSUME NEW c, NEW out, NEW B, NEW b, b \notin B,
         \A a \in B \cup {b} : out[a] \in MoveSets(c)
  PROVE  /\ MergeAll(c, out, {b}) = out[b]
         /\ B # {} => MergeAll(c, out, B \cup {b}) = Merge(MergeAll(c, out, B), out[b])
<1>0. DOMAIN out[b] = c.places /\ out[b] = [p \in c.places |-> out[b][p]]
  BY DEF MoveSets
<1>1. MergeAll(c, out, {b}) = out[b]
  <2>1. ASSUME NEW p \in c.places PROVE MergeAll(c, out, {b})[p] = out[b][p]
    BY DEF MergeAll
  <2>2. MergeAll(c, out, {b}) = [p \in c.places |-> MergeAll(c, out, {b})[p]]
    BY DEF MergeAll
  <2> QED BY <1>0, <2>1, <2>2
<1>2. ASSUME B # {}
      PROVE  MergeAll(c, out, B \cup {b}) = Merge(MergeAll(c, out, B), out[b])
  <2>1. ASSUME NEW p \in c.places
        PROVE  MergeAll(c, out, B \cup {b})[p] = Merge(MergeAll(c, out, B), out[b])[p]
    <3>1. PICK a \in B : TRUE
      BY <1>2
    <3>2. MergeAll(c, out, B)[p] = IF \A a1, a2 \in B : out[a1][p] = out[a2][p]
                                   THEN out[a][p] ELSE "MaybeMoved"
      <4>1. (CHOOSE x \in B : TRUE) \in B
        BY <3>1
      <4> QED BY <3>1, <4>1 DEF MergeAll
    <3>3. MergeAll(c, out, B \cup {b})[p] =
            IF \A a1, a2 \in B \cup {b} : out[a1][p] = out[a2][p]
            THEN out[a][p] ELSE "MaybeMoved"
      <4>1. (CHOOSE x \in B \cup {b} : TRUE) \in B \cup {b}
        BY <3>1
      <4> QED BY <3>1, <4>1 DEF MergeAll
    <3>4. Merge(MergeAll(c, out, B), out[b])[p] =
            IF MergeAll(c, out, B)[p] = out[b][p] THEN MergeAll(c, out, B)[p] ELSE "MaybeMoved"
      BY DEF Merge, MergeAll
    <3>5. CASE \A a1, a2 \in B : out[a1][p] = out[a2][p]
      <4>1. (\A a1, a2 \in B \cup {b} : out[a1][p] = out[a2][p]) <=> out[a][p] = out[b][p]
        BY <3>1, <3>5
      <4> QED BY <3>2, <3>3, <3>4, <3>5, <4>1
    <3>6. CASE ~ \A a1, a2 \in B : out[a1][p] = out[a2][p]
      BY <3>2, <3>3, <3>4, <3>6
    <3> QED BY <3>5, <3>6
  <2> QED BY <2>1 DEF MergeAll, Merge
<1> QED BY <1>1, <1>2

(* The merge of out-states is a move set that keeps each of their entries. *)
LEMMA MergeAllPresence ==
  ASSUME NEW c, NEW B, NEW out, \A a \in B : out[a] \in MoveSets(c)
  PROVE  /\ MergeAll(c, out, B) \in MoveSets(c)
         /\ \A a \in B : Present(out[a]) \subseteq Present(MergeAll(c, out, B))
<1>0. \A a \in B : out[a] \in [c.places -> Status] /\ DOMAIN out[a] = c.places
  BY DEF MoveSets
<1>a. B # {} => (CHOOSE a \in B : TRUE) \in B
  OBVIOUS
<1>1. MergeAll(c, out, B) \in MoveSets(c)
  <2>1. ASSUME NEW p \in c.places
        PROVE  (IF \A a1, a2 \in B : out[a1][p] = out[a2][p]
                THEN IF B = {} THEN "Init" ELSE out[CHOOSE a \in B : TRUE][p]
                ELSE "MaybeMoved") \in Status
    <3>1. B # {} => out[CHOOSE a \in B : TRUE][p] \in Status
      BY <1>0, <1>a
    <3>2. "Init" \in Status /\ "MaybeMoved" \in Status
      BY DEF Status, Moves
    <3> QED BY <3>1, <3>2
  <2> QED BY <2>1 DEF MergeAll, MoveSets
<1>2. ASSUME NEW a \in B, NEW p \in Present(out[a])
      PROVE  p \in Present(MergeAll(c, out, B))
  <2>1. p \in c.places /\ out[a][p] # "Init"
    BY <1>0 DEF Present
  <2>2. MergeAll(c, out, B)[p] # "Init"
    <3>1. CASE \A a1, a2 \in B : out[a1][p] = out[a2][p]
      <4>1. out[CHOOSE x \in B : TRUE][p] = out[a][p]
        BY <3>1, <1>a
      <4> QED BY <4>1, <2>1, <3>1 DEF MergeAll
    <3>2. CASE ~ \A a1, a2 \in B : out[a1][p] = out[a2][p]
      BY <2>1, <3>2 DEF MergeAll
    <3> QED BY <3>1, <3>2
  <2>3. DOMAIN MergeAll(c, out, B) = c.places
    BY DEF MergeAll
  <2> QED BY <2>1, <2>2, <2>3 DEF Present
<1> QED BY <1>1, <1>2

(***************************************************************************)
(* The worklist.                                                           *)
(***************************************************************************)

(* Pushing keeps the queue a sequence of blocks and adds the block. *)
LEMMA PushProperties ==
  ASSUME NEW S, NEW w \in Seq(S), NEW b \in S
  PROVE  Push(w, b) \in Seq(S) /\ OnWork(Push(w, b)) = OnWork(w) \cup {b}
<1>1. CASE b \in OnWork(w)
  BY <1>1 DEF Push
<1>2. CASE b \notin OnWork(w)
  <2>1. Push(w, b) = Append(w, b)
    BY <1>2 DEF Push
  <2>2. /\ Append(w, b) \in Seq(S) /\ Len(Append(w, b)) = Len(w) + 1
        /\ \A i \in 1..Len(w) : Append(w, b)[i] = w[i]
        /\ Append(w, b)[Len(w) + 1] = b
    BY AppendProperties
  <2>3. 1..(Len(w) + 1) = (1..Len(w)) \cup {Len(w) + 1}
    BY LenProperties
  <2>4. OnWork(Append(w, b)) = OnWork(w) \cup {b}
    BY <2>2, <2>3 DEF OnWork
  <2> QED BY <2>1, <2>2, <2>4
<1> QED BY <1>1, <1>2

(* Requeueing the successors of a block adds exactly them. *)
LEMMA RequeueProperties ==
  ASSUME NEW S, NEW w \in Seq(S), NEW s \in Seq(S), Len(s) <= 2
  PROVE  /\ Requeue(w, s) \in Seq(S)
         /\ OnWork(Requeue(w, s)) = OnWork(w) \cup {s[i] : i \in 1..Len(s)}
<1>0. s \in [1..Len(s) -> S] /\ Len(s) \in Nat
  BY LenProperties
<1>1. CASE Len(s) = 0
  <2>1. 1..Len(s) = {}
    BY <1>1
  <2>2. Requeue(w, s) = w
    BY <1>1 DEF Requeue
  <2> QED BY <2>1, <2>2
<1>2. CASE Len(s) = 1
  <2>1. 1..Len(s) = {1}
    BY <1>2
  <2>2. PICK x \in S : x = s[1]
    BY <1>0, <2>1
  <2>3. Requeue(w, s) = Push(w, x)
    BY <1>2, <2>2 DEF Requeue
  <2>4. Push(w, x) \in Seq(S) /\ OnWork(Push(w, x)) = OnWork(w) \cup {x}
    BY PushProperties
  <2> QED BY <2>1, <2>2, <2>3, <2>4
<1>3. CASE Len(s) = 2
  <2>1. 1..Len(s) = {1, 2}
    BY <1>3
  <2>2. PICK x \in S : x = s[1]
    BY <1>0, <2>1
  <2>3. PICK y \in S : y = s[2]
    BY <1>0, <2>1
  <2>4. Requeue(w, s) = Push(Push(w, x), y)
    BY <1>3, <2>2, <2>3 DEF Requeue
  <2>5. PICK v \in Seq(S) : v = Push(w, x) /\ OnWork(v) = OnWork(w) \cup {x}
    BY PushProperties
  <2>6. Push(v, y) \in Seq(S) /\ OnWork(Push(v, y)) = OnWork(v) \cup {y}
    BY PushProperties
  <2> QED BY <2>1, <2>2, <2>3, <2>4, <2>5, <2>6
<1> QED BY <1>0, <1>1, <1>2, <1>3

(* Popping removes at most the popped block. *)
LEMMA PopProperties ==
  ASSUME NEW S, NEW w \in Seq(S), w # <<>>
  PROVE  /\ w[Len(w)] \in S
         /\ SubSeq(w, 1, Len(w) - 1) \in Seq(S)
         /\ OnWork(w) \subseteq OnWork(SubSeq(w, 1, Len(w) - 1)) \cup {w[Len(w)]}
<1>a. Len(w) \in Nat
  BY LenProperties
<1>b. Len(w) # 0
  BY EmptySeq
<1>1. Len(w) \in Nat /\ Len(w) # 0
  BY <1>a, <1>b
<1>2. w \in [1..Len(w) -> S]
  BY LenProperties
<1>3. PICK n \in Nat : Len(w) = n + 1
  BY <1>1
<1>4. n = Len(w) - 1 /\ 1 \in Int /\ n \in Int
  BY <1>3
<1>5. \A i \in 1..n : w[i] \in S
  BY <1>2, <1>3
<1>6. SubSeq(w, 1, n) \in Seq(S)
  BY <1>4, <1>5, SubSeqProperties
<1>7. Len(SubSeq(w, 1, n)) = IF 1 <= n THEN n - 1 + 1 ELSE 0
  BY <1>4, <1>5, SubSeqProperties
<1>8. \A i \in 1..(n - 1 + 1) : SubSeq(w, 1, n)[i] = w[1 + i - 1]
  BY <1>4, <1>5, SubSeqProperties
<1>9. PICK v \in Seq(S) : v = SubSeq(w, 1, n)
  BY <1>6
<1>10. Len(v) = n
  BY <1>7, <1>9
<1>11. \A i \in 1..n : v[i] = w[i]
  BY <1>8, <1>9
<1>12. \A i \in 1..Len(w) : i = Len(w) \/ i \in 1..n
  BY <1>3
<1>13. OnWork(w) \subseteq OnWork(v) \cup {w[Len(w)]}
  BY <1>10, <1>11, <1>12 DEF OnWork
<1>14. w[Len(w)] \in S
  BY <1>1, <1>2
<1> QED BY <1>4, <1>9, <1>13, <1>14

(***************************************************************************)
(* Type correctness.                                                       *)
(***************************************************************************)

(* What the assumption on the graphs says about one operation. *)
LEMMA OpType ==
  ASSUME NEW c \in Cfgs, NEW b \in Blocks(c), NEW i \in 1..Len(c.ops[b])
  PROVE  /\ c.ops[b][i] \in [k : OpKinds, pl : c.places, node : Nat]
         /\ Root(c.ops[b][i].pl) \in DOMAIN c.decl
         /\ i \in Points(c, b) /\ i + 1 \in Points(c, b) /\ i \in Nat
<1>1. CfgOK(c)
  BY CfgsOK
<1>2. c.ops[b] \in Seq([k : OpKinds, pl : c.places, node : Nat])
  BY <1>1 DEF CfgOK
<1>3. Len(c.ops[b]) \in Nat
  BY <1>2, LenProperties
<1>4. c.ops[b][i] \in [k : OpKinds, pl : c.places, node : Nat]
  BY <1>2, ElementOfSeq
<1>5. Root(c.ops[b][i].pl) \in DOMAIN c.decl
  BY <1>1, <1>4 DEF CfgOK
<1> QED BY <1>3, <1>4, <1>5 DEF Points

(* What it says about the blocks: 1..n is a queue, successors are blocks. *)
LEMMA CfgFacts ==
  ASSUME NEW c \in Cfgs
  PROVE  /\ c.n \in Nat \ {0} /\ c.entry \in Blocks(c)
         /\ \A b \in Blocks(c) :
              /\ c.succ[b] \in Seq(Blocks(c)) /\ Len(c.succ[b]) <= 2
              /\ Len(c.ops[b]) \in Nat /\ 1 \in Points(c, b)
              /\ c.entry \notin Succs(c, b)
<1>1. CfgOK(c)
  BY CfgsOK
<1>2. ASSUME NEW b \in Blocks(c)
      PROVE  Len(c.ops[b]) \in Nat
  <2>1. c.ops[b] \in Seq([k : OpKinds, pl : c.places, node : Nat])
    BY <1>1 DEF CfgOK
  <2> QED BY <2>1, LenProperties
<1>3. \A b \in Blocks(c) : 1 \in Points(c, b)
  BY <1>2 DEF Points
<1> QED BY <1>1, <1>2, <1>3 DEF CfgOK

(* The empty move set, and the initial worklist. *)
LEMMA InitType == Init => TypeOK
<1> SUFFICES ASSUME Init PROVE TypeOK
  OBVIOUS
<1>1. cfg \in Cfgs
  BY DEF Init
<1>2. cfg.n \in Nat
  BY <1>1, CfgFacts
<1>3. Empty(cfg) \in MoveSets(cfg)
  BY DEF Empty, MoveSets, Status
<1>4. work \in Seq(Blocks(cfg))
  <2>1. work \in [1..cfg.n -> Blocks(cfg)]
    BY DEF Init, Blocks
  <2> QED BY <1>2, <2>1, SeqDef
<1>5. movedLocals \in Seq([local : {Root(p) : p \in cfg.places}, status : Moves])
  BY EmptySeq DEF Init
<1> QED BY <1>1, <1>3, <1>4, <1>5 DEF Init, TypeOK

(* Replacing one state of the history keeps its type. *)
LEMMA BeforeType ==
  ASSUME NEW c, NEW bf, NEW a \in Blocks(c), NEW j, NEW m \in MoveSets(c),
         DOMAIN bf = Blocks(c),
         \A b \in Blocks(c) : bf[b] \in [Points(c, b) -> MoveSets(c)]
  PROVE  LET new == [bf EXCEPT ![a][j] = m]
         IN  /\ DOMAIN new = Blocks(c)
             /\ \A b \in Blocks(c) : new[b] \in [Points(c, b) -> MoveSets(c)]
             /\ \A b \in Blocks(c) : b # a => new[b] = bf[b]
             /\ \A i \in Points(c, a) : i # j => new[a][i] = bf[a][i]
             /\ j \in Points(c, a) => new[a][j] = m
  OBVIOUS

(* The in-state of a block is a move set. *)
LEMMA InStateType ==
  ASSUME TypeOK, NEW b \in Blocks(cfg)
  PROVE  InState(b) \in MoveSets(cfg)
<1>1. Empty(cfg) \in MoveSets(cfg)
  BY DEF Empty, MoveSets, Status
<1>2. \A a \in Preds(cfg, b) : blockOut[a] \in MoveSets(cfg)
  BY DEF TypeOK, Preds
<1>3. MergeAll(cfg, blockOut, Preds(cfg, b)) \in MoveSets(cfg)
  BY <1>2, MergeAllPresence
<1> QED BY <1>1, <1>3 DEF InState

(* Recording a binding keeps moved_locals a sequence of entries. *)
LEMMA RecordType ==
  ASSUME TypeOK, NEW op \in [k : OpKinds, pl : cfg.places, node : Nat], Record(op)
  PROVE  movedLocals' \in Seq([local : {Root(p) : p \in cfg.places}, status : Moves])
<1> DEFINE E == [local : {Root(p) : p \in cfg.places}, status : Moves]
           hits == {q \in Present(state) : Overlaps(q, op.pl)}
<1>1. movedLocals \in Seq(E)
  BY DEF TypeOK
<1>2. CASE UNCHANGED movedLocals
  BY <1>1, <1>2
<1>3. CASE \E q \in hits :
             movedLocals' = Append(movedLocals, [local |-> Root(op.pl), status |-> state[q]])
  <2>1. PICK q \in hits :
          movedLocals' = Append(movedLocals, [local |-> Root(op.pl), status |-> state[q]])
    BY <1>3
  <2>2. state \in [cfg.places -> Status]
    BY DEF TypeOK, MoveSets
  <2>3. state[q] \in Moves
    BY <2>2 DEF Present, Status
  <2>4. PICK e \in E : e = [local |-> Root(op.pl), status |-> state[q]]
    BY <2>3
  <2>5. Append(movedLocals, e) \in Seq(E)
    BY <1>1, AppendProperties
  <2> QED BY <2>1, <2>4, <2>5
<1> HIDE DEF hits
<1> QED BY <1>2, <1>3 DEF Record, hits

LEMMA TypeStep == TypeOK /\ [Next]_vars => TypeOK'
<1> SUFFICES ASSUME TypeOK, [Next]_vars PROVE TypeOK'
  OBVIOUS
<1>0. /\ cfg \in Cfgs
      /\ cfg.n \in Nat \ {0}
      /\ \A b \in Blocks(cfg) : Len(cfg.ops[b]) \in Nat /\ 1 \in Points(cfg, b)
  BY CfgFacts DEF TypeOK
<1>1. CASE Pop
  <2>1. work \in Seq(Blocks(cfg)) /\ work # <<>>
    BY <1>1 DEF Pop, TypeOK
  <2>2. cur' \in Blocks(cfg) /\ work' \in Seq(Blocks(cfg))
    BY <1>1, <2>1, PopProperties DEF Pop
  <2>3. state' \in MoveSets(cfg)
    BY <1>1, <2>2, InStateType DEF Pop
  <2>4. blockIn' \in [Blocks(cfg) -> MoveSets(cfg)]
    BY <1>1, <2>2, <2>3 DEF Pop, TypeOK
  <2>5. /\ DOMAIN before' = Blocks(cfg)
        /\ \A b \in Blocks(cfg) : before'[b] \in [Points(cfg, b) -> MoveSets(cfg)]
    BY <1>1, <2>2, <2>3, BeforeType DEF Pop, TypeOK
  <2>6. pos' \in Nat /\ pos' \in Points(cfg, cur')
    BY <1>0, <1>1, <2>2 DEF Pop
  <2> QED BY <1>1, <2>2, <2>3, <2>4, <2>5, <2>6 DEF Pop, TypeOK
<1>2. CASE Step
  <2>1. cur \in Blocks(cfg) /\ pos \in Points(cfg, cur)
    BY <1>2 DEF Step, TypeOK
  <2>2. pos \in 1..Len(cfg.ops[cur])
    BY <1>0, <1>2, <2>1 DEF Step, AtEnd, Points
  <2> DEFINE op == cfg.ops[cur][pos]
  <2>3. /\ op \in [k : OpKinds, pl : cfg.places, node : Nat]
        /\ Root(op.pl) \in DOMAIN cfg.decl
        /\ pos + 1 \in Points(cfg, cur) /\ pos \in Nat
    BY <1>0, <2>1, <2>2, OpType
  <2>4. state' \in MoveSets(cfg)
    BY <1>2, EffectType DEF Step, TypeOK
  <2>5. /\ DOMAIN before' = Blocks(cfg)
        /\ \A b \in Blocks(cfg) : before'[b] \in [Points(cfg, b) -> MoveSets(cfg)]
    BY <1>2, <2>1, <2>4, BeforeType DEF Step, TypeOK
  <2>6. \A e \in errors' : \E b \in Blocks(cfg) : \E i \in 1..Len(cfg.ops[b]) :
          \E w \in Why : e = [at |-> <<b, i>>, why |-> w]
    <3>1. errors' = errors \cup
            {[at |-> <<cur, pos>>, why |-> w] : w \in Errors(cfg, op, state)}
      BY <1>2 DEF Step
    <3>2. Errors(cfg, op, state) \subseteq Why
      BY DEF Errors, Why
    <3> SUFFICES ASSUME NEW e \in errors'
                 PROVE  \E b \in Blocks(cfg) : \E i \in 1..Len(cfg.ops[b]) :
                          \E w \in Why : e = [at |-> <<b, i>>, why |-> w]
      OBVIOUS
    <3>3. CASE e \in errors
      BY <3>3 DEF TypeOK
    <3>4. CASE e \notin errors
      <4>1. PICK w \in Why : e = [at |-> <<cur, pos>>, why |-> w]
        BY <3>1, <3>2, <3>4
      <4> QED BY <2>1, <2>2, <4>1
    <3> QED BY <3>3, <3>4
  <2>7. sites' \subseteq [node : Nat, name : {cfg.decl[l].name : l \in DOMAIN cfg.decl}]
    <3>1. sites' = sites \cup Sites(cfg, op)
      BY <1>2 DEF Step
    <3>2. Sites(cfg, op)
            \subseteq [node : Nat, name : {cfg.decl[l].name : l \in DOMAIN cfg.decl}]
      BY <2>3 DEF Sites
    <3> QED BY <3>1, <3>2 DEF TypeOK
  <2>8. pos' \in Nat /\ pos' \in Points(cfg, cur)
    BY <1>2, <2>3 DEF Step
  <2> QED BY <1>2, <2>1, <2>4, <2>5, <2>6, <2>7, <2>8 DEF Step, TypeOK
<1>3. CASE Commit
  <2>1. cur \in Blocks(cfg)
    BY <1>3 DEF Commit, TypeOK
  <2>2. blockOut' \in [Blocks(cfg) -> MoveSets(cfg)]
    BY <1>3, <2>1 DEF Commit, TypeOK
  <2>3. work' \in Seq(Blocks(cfg))
    <3>1. cfg.succ[cur] \in Seq(Blocks(cfg)) /\ Len(cfg.succ[cur]) <= 2
      BY <1>0, <2>1, CfgFacts
    <3>2. work \in Seq(Blocks(cfg))
      BY DEF TypeOK
    <3>3. Requeue(work, cfg.succ[cur]) \in Seq(Blocks(cfg))
      BY <3>1, <3>2, RequeueProperties
    <3> QED BY <1>3, <3>2, <3>3 DEF Commit
  <2> QED BY <1>3, <2>2, <2>3 DEF Commit, TypeOK
<1>4. CASE StartSnapshot
  <2>1. 1 \in Blocks(cfg)
    BY <1>0 DEF Blocks
  <2>2. state' \in MoveSets(cfg)
    BY <1>4, <2>1 DEF StartSnapshot, TypeOK
  <2> QED BY <1>0, <1>4, <2>1, <2>2 DEF StartSnapshot, TypeOK, flowVars
<1>5. CASE SnapStep
  <2>1. cur \in Blocks(cfg) /\ pos \in Points(cfg, cur)
    BY <1>5 DEF SnapStep, TypeOK
  <2>2. pos \in 1..Len(cfg.ops[cur])
    BY <1>0, <1>5, <2>1 DEF SnapStep, AtEnd, Points
  <2> DEFINE op == cfg.ops[cur][pos]
  <2>3. /\ op \in [k : OpKinds, pl : cfg.places, node : Nat]
        /\ pos + 1 \in Points(cfg, cur) /\ pos \in Nat
    BY <1>0, <2>1, <2>2, OpType
  <2>4. state' \in MoveSets(cfg)
    BY <1>5, EffectType DEF SnapStep, TypeOK
  <2>5. movedLocals' \in Seq([local : {Root(p) : p \in cfg.places}, status : Moves])
    BY <1>5, <2>3, RecordType DEF SnapStep
  <2>6. pos' \in Nat /\ pos' \in Points(cfg, cur)
    BY <1>5, <2>3 DEF SnapStep
  <2> QED BY <1>5, <2>4, <2>5, <2>6 DEF SnapStep, TypeOK, flowVars
<1>6. CASE SnapNext
  <2>1. cur \in Blocks(cfg)
    BY <1>6 DEF SnapNext, TypeOK
  <2>2. CASE cur < cfg.n /\ cur' = cur + 1 /\ pos' = 1 /\ state' = blockIn[cur']
             /\ UNCHANGED phase
    <3>1. cur' \in Blocks(cfg)
      BY <1>0, <2>1, <2>2 DEF Blocks
    <3>2. state' \in MoveSets(cfg)
      BY <2>2, <3>1 DEF TypeOK
    <3>3. cur' # 0 /\ pos' \in Nat /\ pos' \in Points(cfg, cur')
      BY <1>0, <2>2, <3>1 DEF Blocks
    <3> QED BY <1>6, <2>2, <3>1, <3>2, <3>3 DEF SnapNext, TypeOK, flowVars
  <2>3. CASE cur = cfg.n /\ phase' = "done" /\ cur' = 0 /\ UNCHANGED <<pos, state>>
    BY <1>6, <2>3 DEF SnapNext, TypeOK, flowVars
  <2> QED BY <1>6, <2>2, <2>3 DEF SnapNext
<1>7. CASE UNCHANGED vars
  BY <1>7 DEF vars, TypeOK
<1> QED BY <1>1, <1>2, <1>3, <1>4, <1>5, <1>6, <1>7 DEF Next

(* The analysis keeps its types: in particular every queued block exists,  *)
(* the walk never leaves its block, every recorded status is a move.       *)
THEOREM TypeCorrect == Spec => []TypeOK
<1>1. Init => TypeOK
  BY InitType
<1>2. TypeOK /\ [Next]_vars => TypeOK'
  BY TypeStep
<1> QED BY <1>1, <1>2, PTL DEF Spec

(***************************************************************************)
(* The fixpoint.                                                           *)
(***************************************************************************)

(* Initially every block is queued. *)
LEMMA FlowInit == Init => FlowInv
<1> SUFFICES ASSUME Init PROVE FlowInv
  OBVIOUS
<1>1. cfg \in Cfgs
  BY DEF Init
<1>2. cfg.n \in Nat
  BY <1>1, CfgFacts
<1>3. work \in Seq(Nat) /\ Len(work) = cfg.n
  BY <1>2 DEF Init
<1>4. Blocks(cfg) \subseteq OnWork(work)
  BY <1>2, <1>3 DEF Init, Blocks, OnWork
<1> QED BY <1>4 DEF FlowInv

(* A block with the same history, in-state and out-states is still walked. *)
LEMMA WalkedStable ==
  ASSUME NEW b, NEW j, WalkedTo(b, j),
         cfg' = cfg, before'[b] = before[b], blockIn'[b] = blockIn[b],
         errors \subseteq errors', sites \subseteq sites'
  PROVE  WalkedTo(b, j)'
  BY DEF WalkedTo

LEMMA FlowPop ==
  ASSUME TypeOK, FlowInv, Pop
  PROVE  FlowInv'
<1>1. work \in Seq(Blocks(cfg)) /\ work # <<>> /\ cfg \in Cfgs
  BY DEF Pop, TypeOK
<1>2. cur' \in Blocks(cfg) /\ OnWork(work) \subseteq OnWork(work') \cup {cur'}
  BY <1>1, PopProperties DEF Pop
<1>3. 1 \in Points(cfg, cur') /\ cur' # 0
  BY <1>1, <1>2, CfgFacts DEF Blocks
<1>4. state' \in MoveSets(cfg)
  BY <1>2, InStateType DEF Pop
<1>5. /\ \A b \in Blocks(cfg) : b # cur' => before'[b] = before[b]
      /\ before'[cur'][1] = state'
  BY <1>2, <1>3, <1>4, BeforeType DEF Pop, TypeOK
<1>6. /\ blockIn'[cur'] = state'
      /\ \A b \in Blocks(cfg) : b # cur' => blockIn'[b] = blockIn[b]
  BY <1>2 DEF Pop, TypeOK
<1>7. /\ cfg' = cfg /\ phase' = "flow" /\ blockOut' = blockOut /\ errors' = errors
      /\ sites' = sites /\ pos' = 1 /\ cur = 0 /\ phase = "flow"
      /\ \A b : InState(b)' = InState(b)
  BY DEF Pop, InState
<1>8. SUFFICES ASSUME NEW b \in Blocks(cfg), b \notin OnWork(work')
      PROVE  /\ blockIn'[b] = InState(b)
             /\ IF b = cur'
                THEN WalkedTo(b, 1)' /\ state' = before'[b][1]
                ELSE /\ WalkedTo(b, Len(cfg.ops[b]) + 1)'
                     /\ blockOut[b] = before'[b][Len(cfg.ops[b]) + 1]
  BY <1>7 DEF FlowInv
<1>9. CASE b = cur'
  <2>1. state' = InState(b)
    BY <1>9 DEF Pop
  <2>2. 1..(1 - 1) = {}
    OBVIOUS
  <2>3. WalkedTo(b, 1)'
    BY <1>5, <1>6, <1>9, <2>2 DEF WalkedTo
  <2> QED BY <1>5, <1>6, <1>9, <2>1, <2>3
<1>10. CASE b # cur'
  <2>1. b \notin OnWork(work) /\ b # cur
    BY <1>2, <1>7, <1>8, <1>10 DEF Blocks
  <2>2. /\ blockIn[b] = InState(b)
        /\ WalkedTo(b, Len(cfg.ops[b]) + 1)
        /\ blockOut[b] = before[b][Len(cfg.ops[b]) + 1]
    BY <2>1 DEF FlowInv
  <2>3. before'[b] = before[b] /\ blockIn'[b] = blockIn[b]
    BY <1>5, <1>6, <1>10
  <2>4. WalkedTo(b, Len(cfg.ops[b]) + 1)'
    BY <1>7, <2>2, <2>3, WalkedStable
  <2> QED BY <1>10, <2>2, <2>3, <2>4
<1> QED BY <1>9, <1>10

LEMMA FlowStep ==
  ASSUME TypeOK, FlowInv, Step
  PROVE  FlowInv'
<1>1. cur \in Blocks(cfg) /\ pos \in Points(cfg, cur) /\ cfg \in Cfgs
  BY DEF Step, TypeOK
<1>2. pos \in 1..Len(cfg.ops[cur]) /\ Len(cfg.ops[cur]) \in Nat
  BY <1>1, CfgFacts DEF Step, AtEnd, Points
<1> DEFINE op == cfg.ops[cur][pos]
<1>3. pos + 1 \in Points(cfg, cur) /\ pos \in Nat
  BY <1>1, <1>2, OpType
<1>4. state' = Effect(cfg, op, state) /\ state' \in MoveSets(cfg)
  BY EffectType DEF Step, TypeOK
<1>5. /\ \A b \in Blocks(cfg) : b # cur => before'[b] = before[b]
      /\ \A i \in Points(cfg, cur) : i # pos + 1 => before'[cur][i] = before[cur][i]
      /\ before'[cur][pos + 1] = state'
  BY <1>1, <1>3, <1>4, BeforeType DEF Step, TypeOK
<1>6. /\ cfg' = cfg /\ phase' = "flow" /\ phase = "flow" /\ cur' = cur
      /\ blockOut' = blockOut /\ blockIn' = blockIn /\ work' = work
      /\ pos' = pos + 1 /\ errors \subseteq errors'
      /\ sites' = sites \cup Sites(cfg, op)
      /\ \A w \in Errors(cfg, op, state) : [at |-> <<cur, pos>>, why |-> w] \in errors'
      /\ \A b : InState(b)' = InState(b)
  BY DEF Step, InState
<1>7. SUFFICES ASSUME NEW b \in Blocks(cfg), b \notin OnWork(work)
      PROVE  /\ blockIn[b] = InState(b)
             /\ IF b = cur
                THEN WalkedTo(b, pos)' /\ state' = before'[b][pos + 1]
                ELSE /\ WalkedTo(b, Len(cfg.ops[b]) + 1)'
                     /\ blockOut[b] = before'[b][Len(cfg.ops[b]) + 1]
  BY <1>6 DEF FlowInv
<1>8. CASE b = cur
  <2>1. blockIn[cur] = InState(cur) /\ WalkedTo(cur, pos) /\ state = before[cur][pos]
    BY <1>6, <1>7, <1>8 DEF FlowInv
  <2>2. before'[cur][1] = blockIn'[cur]
    <3>1. 1 \in Points(cfg, cur) /\ 1 # pos + 1
      BY <1>1, <1>2, CfgFacts
    <3> QED BY <1>5, <1>6, <2>1, <3>1 DEF WalkedTo
  <2>3. ASSUME NEW i \in 1..((pos + 1) - 1)
        PROVE  /\ before'[cur][i + 1] = Effect(cfg, cfg.ops[cur][i], before'[cur][i])
               /\ \A w \in Errors(cfg, cfg.ops[cur][i], before'[cur][i]) :
                    [at |-> <<cur, i>>, why |-> w] \in errors'
               /\ Sites(cfg, cfg.ops[cur][i]) \subseteq sites'
    <3>1. i \in Points(cfg, cur) /\ i # pos + 1
      BY <1>2, <1>3 DEF Points
    <3>2. before'[cur][i] = before[cur][i]
      BY <1>5, <3>1
    <3>3. CASE i = pos
      BY <1>4, <1>5, <1>6, <2>1, <3>2, <3>3
    <3>4. CASE i # pos
      <4>1. i \in 1..(pos - 1) /\ i + 1 \in Points(cfg, cur) /\ i + 1 # pos + 1
        BY <1>2, <1>3, <3>4 DEF Points
      <4>2. before'[cur][i + 1] = before[cur][i + 1]
        BY <1>5, <4>1
      <4> QED BY <1>6, <2>1, <3>2, <4>1, <4>2 DEF WalkedTo
    <3> QED BY <3>3, <3>4
  <2>4. WalkedTo(b, pos)'
    BY <1>6, <1>8, <2>2, <2>3 DEF WalkedTo
  <2> QED BY <1>5, <1>8, <2>1, <2>4
<1>9. CASE b # cur
  <2>1. /\ blockIn[b] = InState(b)
        /\ WalkedTo(b, Len(cfg.ops[b]) + 1)
        /\ blockOut[b] = before[b][Len(cfg.ops[b]) + 1]
    BY <1>7, <1>9 DEF FlowInv
  <2>2. before'[b] = before[b]
    BY <1>5, <1>9
  <2>3. WalkedTo(b, Len(cfg.ops[b]) + 1)'
    BY <1>6, <2>1, <2>2, WalkedStable
  <2> QED BY <1>9, <2>1, <2>2, <2>3
<1> QED BY <1>8, <1>9

LEMMA FlowCommit ==
  ASSUME TypeOK, FlowInv, Commit
  PROVE  FlowInv'
<1>1. /\ cur \in Blocks(cfg) /\ cfg \in Cfgs /\ work \in Seq(Blocks(cfg))
      /\ cur # 0 /\ phase = "flow" /\ pos = Len(cfg.ops[cur]) + 1
  BY DEF Commit, TypeOK, AtEnd
<1>2. cfg.succ[cur] \in Seq(Blocks(cfg)) /\ Len(cfg.succ[cur]) <= 2
  BY <1>1, CfgFacts
<1>3. /\ cfg' = cfg /\ phase' = "flow" /\ cur' = 0
      /\ blockIn' = blockIn /\ before' = before /\ errors' = errors /\ sites' = sites
  BY <1>1 DEF Commit
<1>4. /\ OnWork(work) \subseteq OnWork(work')
      /\ \A b \in Blocks(cfg) : b # cur => blockOut'[b] = blockOut[b]
      /\ blockOut'[cur] = state
      /\ blockOut' = blockOut \/ Succs(cfg, cur) \subseteq OnWork(work')
  <2>1. CASE blockOut[cur] = state /\ UNCHANGED <<work, blockOut>>
    BY <2>1
  <2>2. CASE /\ blockOut' = [blockOut EXCEPT ![cur] = state]
             /\ work' = Requeue(work, cfg.succ[cur])
    <3>1. OnWork(work') = OnWork(work) \cup Succs(cfg, cur)
      BY <1>1, <1>2, <2>2, RequeueProperties DEF Succs
    <3>2. DOMAIN blockOut = Blocks(cfg)
      BY DEF TypeOK
    <3> QED BY <1>1, <2>2, <3>1, <3>2
  <2> QED BY <2>1, <2>2 DEF Commit
<1>5. SUFFICES ASSUME NEW b \in Blocks(cfg), b \notin OnWork(work')
      PROVE  /\ blockIn[b] = InState(b)'
             /\ WalkedTo(b, Len(cfg.ops[b]) + 1)'
             /\ blockOut'[b] = before[b][Len(cfg.ops[b]) + 1]
  BY <1>3 DEF FlowInv, Blocks
<1>6. b \notin OnWork(work)
  BY <1>4, <1>5
<1>7. blockIn[b] = InState(b)
  BY <1>6 DEF FlowInv
<1>8. InState(b)' = InState(b)
  <2>1. CASE blockOut' = blockOut
    BY <1>3, <2>1 DEF InState
  <2>2. CASE Succs(cfg, cur) \subseteq OnWork(work')
    <3>1. cur \notin Preds(cfg, b)
      BY <1>5, <2>2 DEF Preds
    <3>2. \A a \in Preds(cfg, b) : blockOut'[a] = blockOut[a]
      BY <1>4, <3>1 DEF Preds
    <3>3. MergeAll(cfg, blockOut', Preds(cfg, b)) = MergeAll(cfg, blockOut, Preds(cfg, b))
      <4>1. Preds(cfg, b) # {} => (CHOOSE a \in Preds(cfg, b) : TRUE) \in Preds(cfg, b)
        OBVIOUS
      <4> QED BY <3>2, <4>1 DEF MergeAll
    <3> QED BY <1>3, <3>3 DEF InState
  <2> QED BY <1>4, <2>1, <2>2
<1>9. /\ WalkedTo(b, Len(cfg.ops[b]) + 1)
      /\ blockOut'[b] = before[b][Len(cfg.ops[b]) + 1]
  <2>1. CASE b = cur
    BY <1>1, <1>4, <1>6, <2>1 DEF FlowInv
  <2>2. CASE b # cur
    BY <1>4, <1>6, <2>2 DEF FlowInv
  <2> QED BY <2>1, <2>2
<1>10. WalkedTo(b, Len(cfg.ops[b]) + 1)'
  BY <1>3, <1>9, WalkedStable
<1> QED BY <1>7, <1>8, <1>9, <1>10

(* The snapshot does not touch what the invariant is about; when it starts *)
(* no block is being walked.                                               *)
LEMMA FlowRest ==
  ASSUME TypeOK, FlowInv,
         StartSnapshot \/ SnapStep \/ SnapNext \/ UNCHANGED vars
  PROVE  FlowInv'
<1>1. /\ cfg' = cfg /\ UNCHANGED flowVars
      /\ \A b : InState(b)' = InState(b)
  BY DEF StartSnapshot, SnapStep, SnapNext, vars, flowVars, InState
<1>2. CASE UNCHANGED vars
  BY <1>2 DEF FlowInv, vars, InState, WalkedTo, OnWork
<1>3. CASE StartSnapshot \/ SnapStep \/ SnapNext
  <2>1. phase' # "flow" /\ (phase # "flow" \/ cur = 0)
    BY <1>3 DEF StartSnapshot, SnapStep, SnapNext
  <2>2. SUFFICES ASSUME NEW b \in Blocks(cfg), b \notin OnWork(work)
        PROVE  /\ blockIn[b] = InState(b)
               /\ WalkedTo(b, Len(cfg.ops[b]) + 1)'
               /\ blockOut[b] = before[b][Len(cfg.ops[b]) + 1]
    BY <1>1, <2>1 DEF FlowInv, flowVars
  <2>3. b # 0
    BY DEF Blocks
  <2>4. /\ blockIn[b] = InState(b)
        /\ WalkedTo(b, Len(cfg.ops[b]) + 1)
        /\ blockOut[b] = before[b][Len(cfg.ops[b]) + 1]
    BY <2>1, <2>2, <2>3 DEF FlowInv
  <2>5. WalkedTo(b, Len(cfg.ops[b]) + 1)'
    BY <1>1, <2>4, WalkedStable DEF flowVars
  <2> QED BY <2>4, <2>5
<1> QED BY <1>2, <1>3

(* The inductive invariant of the worklist. *)
THEOREM FlowCorrect == Spec => [](TypeOK /\ FlowInv)
<1>1. Init => TypeOK /\ FlowInv
  BY InitType, FlowInit
<1>2. TypeOK /\ FlowInv /\ [Next]_vars => (TypeOK /\ FlowInv)'
  BY TypeStep, FlowPop, FlowStep, FlowCommit, FlowRest DEF Next
<1> QED BY <1>1, <1>2, PTL DEF Spec

(* When the loop ends, every block agrees with its neighbours. *)
THEOREM FixpointCorrect == Spec => []FixpointReached
<1>1. ASSUME TypeOK, FlowInv PROVE FixpointReached
  <2> SUFFICES ASSUME phase # "flow", NEW b \in Blocks(cfg) PROVE Stable(b)
    BY DEF FixpointReached
  <2>1. b \notin OnWork(work)
    BY <1>1 DEF TypeOK, OnWork
  <2>2. Len(cfg.ops[b]) \in Nat
    BY <1>1, CfgFacts DEF TypeOK
  <2>3. (Len(cfg.ops[b]) + 1) - 1 = Len(cfg.ops[b])
    BY <2>2
  <2> QED BY <1>1, <2>1, <2>3 DEF FlowInv, WalkedTo, Stable
<1> QED BY <1>1, FlowCorrect, PTL

(***************************************************************************)
(* Entries and errors are never taken back.                                *)
(***************************************************************************)

(* What an entry-wise larger state keeps: each effect leaves a larger one, *)
(* and rejects whatever was rejected before.                               *)
LEMMA EffectMonotone ==
  ASSUME NEW c, NEW op, op.pl \in c.places,
         NEW m \in MoveSets(c), NEW n \in MoveSets(c), Present(m) \subseteq Present(n)
  PROVE  /\ Present(Effect(c, op, m)) \subseteq Present(Effect(c, op, n))
         /\ Errors(c, op, m) \subseteq Errors(c, op, n)
<1> DEFINE p == op.pl
<1>1. m \in [c.places -> Status] /\ n \in [c.places -> Status]
  BY DEF MoveSets
<1>2. ASSUME NEW s \in {"Moved", "Uninit"}
      PROVE  Present(Mark(m, p, s)) \subseteq Present(Mark(n, p, s))
  <2>1. s # "Init" /\ \A t : t # "Init" => MaxStatus(t, s) # "Init"
    BY DEF MaxStatus
  <2> SUFFICES ASSUME NEW q \in Present(Mark(m, p, s)) PROVE q \in Present(Mark(n, p, s))
    OBVIOUS
  <2>2. q \in c.places
    BY <1>1 DEF Present, Mark
  <2>3. CASE q = p
    BY <1>1, <2>1, <2>2, <2>3 DEF Present, Mark
  <2>4. CASE q # p
    BY <1>1, <2>2, <2>4 DEF Present, Mark
  <2> QED BY <2>3, <2>4
<1>3. Present(InitPlace(m, p)) \subseteq Present(InitPlace(n, p))
  BY <1>1 DEF Present, InitPlace
<1>4. Present(Effect(c, op, m)) \subseteq Present(Effect(c, op, n))
  BY <1>2, <1>3 DEF Effect
<1>5. Errors(c, op, m) \subseteq Errors(c, op, n)
  BY DEF Errors, Readable
<1> QED BY <1>4, <1>5

(* Larger out-states merge to a larger in-state. *)
LEMMA MergeMonotone ==
  ASSUME NEW c, NEW B, NEW out, NEW new,
         \A a \in B : out[a] \in MoveSets(c) /\ new[a] \in MoveSets(c),
         \A a \in B : Present(out[a]) \subseteq Present(new[a])
  PROVE  Present(MergeAll(c, out, B)) \subseteq Present(MergeAll(c, new, B))
<1> SUFFICES ASSUME NEW p \in Present(MergeAll(c, out, B))
    PROVE  p \in Present(MergeAll(c, new, B))
  OBVIOUS
<1>1. p \in c.places /\ MergeAll(c, out, B)[p] # "Init"
  BY DEF Present, MergeAll
<1>2. \E a \in B : out[a][p] # "Init"
  <2> SUFFICES ASSUME \A a \in B : out[a][p] = "Init" PROVE FALSE
    OBVIOUS
  <2>1. B # {} => (CHOOSE a \in B : TRUE) \in B
    OBVIOUS
  <2>2. MergeAll(c, out, B)[p] = "Init"
    BY <1>1, <2>1 DEF MergeAll
  <2> QED BY <1>1, <2>2
<1>3. PICK a \in B : p \in Present(out[a])
  BY <1>1, <1>2 DEF Present, MoveSets
<1>4. p \in Present(new[a])
  BY <1>3
<1> QED BY <1>4, MergeAllPresence

(* Initially nothing is present and nothing is reported. *)
LEMMA GrowInit == Init => GrowInv
<1> SUFFICES ASSUME Init PROVE GrowInv
  OBVIOUS
<1>1. cfg \in Cfgs /\ errors = {} /\ cur = 0
  BY DEF Init
<1>2. ASSUME NEW b \in Blocks(cfg)
      PROVE  /\ blockOut[b] = Empty(cfg)
             /\ \A i \in Points(cfg, b) : before[b][i] = Empty(cfg)
             /\ 1 \in Points(cfg, b) /\ Len(cfg.ops[b]) + 1 \in Points(cfg, b)
             /\ \A i \in 1..Len(cfg.ops[b]) : i + 1 \in Points(cfg, b)
  BY <1>1, CfgFacts DEF Init, Points
<1>3. Present(Empty(cfg)) = {}
  BY DEF Present, Empty
<1> QED BY <1>1, <1>2, <1>3 DEF GrowInv

(* One state of the history grows: what the states before and after it are *)
(* related by still holds, whichever was computed first.                   *)
LEMMA GrowHistory ==
  ASSUME TypeOK, GrowInv, cfg' = cfg, blockOut' = blockOut,
         NEW a \in Blocks(cfg), NEW j \in Points(cfg, a), NEW m \in MoveSets(cfg),
         before' = [before EXCEPT ![a][j] = m],
         Present(before[a][j]) \subseteq Present(m),
         j = 1 => Present(m) \subseteq Present(InState(a)),
         j # 1 => Present(m) \subseteq Present(Effect(cfg, cfg.ops[a][j - 1], before[a][j - 1])),
         \A b \in Blocks(cfg) : \A i \in 1..Len(cfg.ops[b]) : \A w \in Why :
           [at |-> <<b, i>>, why |-> w] \in errors'
             => \/ [at |-> <<b, i>>, why |-> w] \in errors
                \/ w \in Errors(cfg, cfg.ops[b][i], before[b][i]),
         (phase = "flow" /\ cur # 0)' => state' = before'[cur'][pos']
  PROVE  GrowInv'
<1>0. cfg \in Cfgs /\ \A b \in Blocks(cfg) : Len(cfg.ops[b]) \in Nat
  BY CfgFacts DEF TypeOK
<1>1. /\ \A b \in Blocks(cfg) : b # a => before'[b] = before[b]
      /\ \A i \in Points(cfg, a) : i # j => before'[a][i] = before[a][i]
      /\ before'[a][j] = m
      /\ \A b \in Blocks(cfg) : before'[b] \in [Points(cfg, b) -> MoveSets(cfg)]
  BY BeforeType DEF TypeOK
<1>2. \A b \in Blocks(cfg) : \A i \in Points(cfg, b) :
        Present(before[b][i]) \subseteq Present(before'[b][i])
  BY <1>1
<1>3. \A b : InState(b)' = InState(b)
  BY DEF InState
<1> SUFFICES ASSUME NEW b \in Blocks(cfg)
    PROVE  /\ Present(before'[b][1]) \subseteq Present(InState(b))
           /\ \A i \in 1..Len(cfg.ops[b]) :
                /\ Present(before'[b][i + 1])
                     \subseteq Present(Effect(cfg, cfg.ops[b][i], before'[b][i]))
                /\ \A w \in Why : [at |-> <<b, i>>, why |-> w] \in errors'
                     => w \in Errors(cfg, cfg.ops[b][i], before'[b][i])
           /\ Present(blockOut[b]) \subseteq Present(before'[b][Len(cfg.ops[b]) + 1])
  BY <1>3 DEF GrowInv
<1>4. /\ Present(before[b][1]) \subseteq Present(InState(b))
      /\ Present(blockOut[b]) \subseteq Present(before[b][Len(cfg.ops[b]) + 1])
  BY DEF GrowInv
<1>5. Present(before'[b][1]) \subseteq Present(InState(b))
  <2>1. 1 \in Points(cfg, b)
    BY <1>0 DEF Points
  <2> QED BY <1>1, <1>4, <2>1
<1>6. Present(blockOut[b]) \subseteq Present(before'[b][Len(cfg.ops[b]) + 1])
  <2>1. Len(cfg.ops[b]) + 1 \in Points(cfg, b)
    BY <1>0 DEF Points
  <2> QED BY <1>2, <1>4, <2>1
<1>7. ASSUME NEW i \in 1..Len(cfg.ops[b])
      PROVE  /\ Present(before'[b][i + 1])
                  \subseteq Present(Effect(cfg, cfg.ops[b][i], before'[b][i]))
             /\ \A w \in Why : [at |-> <<b, i>>, why |-> w] \in errors'
                  => w \in Errors(cfg, cfg.ops[b][i], before'[b][i])
  <2> DEFINE op == cfg.ops[b][i]
  <2>1. op.pl \in cfg.places /\ i \in Points(cfg, b) /\ i + 1 \in Points(cfg, b) /\ i \in Nat
    BY <1>0, OpType
  <2>2. /\ before[b][i] \in MoveSets(cfg) /\ before'[b][i] \in MoveSets(cfg)
        /\ Present(before[b][i]) \subseteq Present(before'[b][i])
    BY <1>1, <1>2, <2>1 DEF TypeOK
  <2>3. /\ Present(Effect(cfg, op, before[b][i])) \subseteq Present(Effect(cfg, op, before'[b][i]))
        /\ Errors(cfg, op, before[b][i]) \subseteq Errors(cfg, op, before'[b][i])
    BY <2>1, <2>2, EffectMonotone
  <2>4. /\ Present(before[b][i + 1]) \subseteq Present(Effect(cfg, op, before[b][i]))
        /\ \A w \in Why : [at |-> <<b, i>>, why |-> w] \in errors
             => w \in Errors(cfg, op, before[b][i])
    BY DEF GrowInv
  <2>5. Present(before'[b][i + 1]) \subseteq Present(Effect(cfg, op, before[b][i]))
    <3>1. CASE b = a /\ i + 1 = j
      <4>1. j # 1 /\ j - 1 = i
        BY <2>1, <3>1
      <4> QED BY <1>1, <3>1, <4>1
    <3>2. CASE ~ (b = a /\ i + 1 = j)
      BY <1>1, <2>1, <2>4, <3>2
    <3> QED BY <3>1, <3>2
  <2> QED BY <2>3, <2>4, <2>5
<1> QED BY <1>5, <1>6, <1>7

LEMMA GrowStep ==
  ASSUME TypeOK, GrowInv, [Next]_vars
  PROVE  /\ GrowInv'
         /\ \A b \in Blocks(cfg) : Present(blockOut[b]) \subseteq Present(blockOut'[b])
<1>0. /\ cfg \in Cfgs
      /\ \A b \in Blocks(cfg) : Len(cfg.ops[b]) \in Nat /\ 1 \in Points(cfg, b)
  BY CfgFacts DEF TypeOK
<1>1. CASE Pop
  <2>1. work \in Seq(Blocks(cfg)) /\ work # <<>>
    BY <1>1 DEF Pop, TypeOK
  <2>2. cur' \in Blocks(cfg) /\ 1 \in Points(cfg, cur')
    BY <1>0, <1>1, <2>1, PopProperties DEF Pop
  <2>3. state' = InState(cur') /\ state' \in MoveSets(cfg)
    BY <1>1, <2>2, InStateType DEF Pop
  <2>4. Present(before[cur'][1]) \subseteq Present(state')
    BY <2>2, <2>3 DEF GrowInv
  <2>5. /\ cfg' = cfg /\ blockOut' = blockOut /\ errors' = errors /\ pos' = 1
        /\ before' = [before EXCEPT ![cur'][1] = state']
    BY <1>1 DEF Pop
  <2>6. state' = before'[cur'][pos']
    BY <2>2, <2>3, <2>5, BeforeType DEF TypeOK
  <2>7. GrowInv'
    BY <2>2, <2>3, <2>4, <2>5, <2>6, GrowHistory
  <2> QED BY <2>5, <2>7
<1>2. CASE Step
  <2> DEFINE op == cfg.ops[cur][pos]
  <2>1. cur \in Blocks(cfg) /\ pos \in 1..Len(cfg.ops[cur]) /\ phase = "flow" /\ cur # 0
    BY <1>0, <1>2 DEF Step, TypeOK, AtEnd, Points
  <2>2. /\ op.pl \in cfg.places /\ pos \in Nat
        /\ pos \in Points(cfg, cur) /\ pos + 1 \in Points(cfg, cur)
    BY <1>0, <2>1, OpType
  <2>3. state = before[cur][pos] /\ state' = Effect(cfg, op, state)
    BY <1>2, <2>1 DEF GrowInv, Step
  <2>4. state' \in MoveSets(cfg)
    BY <2>3, EffectType DEF TypeOK
  <2>5. Present(before[cur][pos + 1]) \subseteq Present(state')
    BY <2>1, <2>3 DEF GrowInv
  <2>6. /\ cfg' = cfg /\ blockOut' = blockOut /\ cur' = cur /\ pos' = pos + 1
        /\ before' = [before EXCEPT ![cur][pos + 1] = state']
        /\ errors' = errors \cup {[at |-> <<cur, pos>>, why |-> w] : w \in Errors(cfg, op, state)}
    BY <1>2 DEF Step
  <2>7. state' = before'[cur'][pos']
    BY <2>1, <2>2, <2>4, <2>6, BeforeType DEF TypeOK
  <2>8. ASSUME NEW b \in Blocks(cfg), NEW i \in 1..Len(cfg.ops[b]), NEW w \in Why,
               [at |-> <<b, i>>, why |-> w] \in errors',
               [at |-> <<b, i>>, why |-> w] \notin errors
        PROVE  w \in Errors(cfg, cfg.ops[b][i], before[b][i])
    <3>1. PICK v \in Errors(cfg, op, state) :
            [at |-> <<b, i>>, why |-> w] = [at |-> <<cur, pos>>, why |-> v]
      BY <2>6, <2>8
    <3>2. <<b, i>> = <<cur, pos>> /\ w = v
      BY <3>1
    <3> QED BY <2>3, <3>1, <3>2
  <2>9. pos + 1 # 1 /\ (pos + 1) - 1 = pos
    BY <2>1
  <2>10. Present(state') \subseteq Present(Effect(cfg, cfg.ops[cur][(pos + 1) - 1],
                                                  before[cur][(pos + 1) - 1]))
    BY <2>3, <2>9
  <2> HIDE DEF op
  <2>11. GrowInv'
    BY <2>1, <2>2, <2>4, <2>5, <2>6, <2>7, <2>8, <2>9, <2>10, GrowHistory
  <2> QED BY <2>6, <2>11
<1>3. CASE Commit
  <2>1. /\ cur \in Blocks(cfg) /\ phase = "flow" /\ cur # 0
        /\ pos = Len(cfg.ops[cur]) + 1
        /\ cfg' = cfg /\ cur' = 0 /\ before' = before /\ errors' = errors
    BY <1>3 DEF Commit, TypeOK, AtEnd
  <2>2. state = before[cur][Len(cfg.ops[cur]) + 1] /\ state \in MoveSets(cfg)
    BY <2>1 DEF GrowInv, TypeOK
  <2>3. /\ blockOut'[cur] = state
        /\ \A b \in Blocks(cfg) : b # cur => blockOut'[b] = blockOut[b]
    BY <1>3, <2>1 DEF Commit, TypeOK
  <2>4. \A b \in Blocks(cfg) : Present(blockOut[b]) \subseteq Present(blockOut'[b])
    BY <2>1, <2>2, <2>3 DEF GrowInv
  <2>5. ASSUME NEW b \in Blocks(cfg)
        PROVE  Present(InState(b)) \subseteq Present(InState(b)')
    <3>1. \A a \in Preds(cfg, b) :
            /\ blockOut[a] \in MoveSets(cfg) /\ blockOut'[a] \in MoveSets(cfg)
            /\ Present(blockOut[a]) \subseteq Present(blockOut'[a])
      BY <2>2, <2>3, <2>4 DEF TypeOK, Preds
    <3>2. Present(MergeAll(cfg, blockOut, Preds(cfg, b)))
            \subseteq Present(MergeAll(cfg, blockOut', Preds(cfg, b)))
      BY <3>1, MergeMonotone
    <3> QED BY <2>1, <3>2 DEF InState
  <2>6. GrowInv'
    BY <2>1, <2>2, <2>3, <2>5 DEF GrowInv
  <2> QED BY <2>4, <2>6
<1>4. CASE StartSnapshot \/ SnapStep \/ SnapNext
  <2>1. phase' # "flow" /\ cfg' = cfg /\ before' = before /\ errors' = errors
        /\ blockOut' = blockOut
    BY <1>4 DEF StartSnapshot, SnapStep, SnapNext, flowVars
  <2> QED BY <2>1 DEF GrowInv, InState
<1>5. CASE UNCHANGED vars
  BY <1>5 DEF vars, GrowInv, InState
<1> QED BY <1>1, <1>2, <1>3, <1>4, <1>5 DEF Next

(* Entries and errors last, at every step of the analysis. *)
THEOREM GrowCorrect == Spec => [](TypeOK /\ FlowInv /\ GrowInv)
<1>1. Init => GrowInv
  BY GrowInit
<1>2. TypeOK /\ GrowInv /\ [Next]_vars => GrowInv'
  BY GrowStep
<1> QED BY <1>1, <1>2, FlowCorrect, PTL DEF Spec

(* An out-state never loses an entry: the iteration only discovers moves   *)
(* (the status of an entry may change both ways).                          *)
THEOREM PresenceOnlyGrows == Spec => PresenceGrows
<1>1. TypeOK /\ GrowInv /\ [Next]_vars
        => [\A b \in Blocks(cfg) : Present(blockOut[b]) \subseteq Present(blockOut'[b])]_vars
  BY GrowStep
<1> QED BY <1>1, GrowCorrect, PTL DEF Spec, PresenceGrows

(* The errors reported on the way to the fixpoint, although never taken     *)
(* back, are exactly those of the fixpoint.                                *)
THEOREM ErrorsCorrect == Spec => []ErrorsAreFinal
<1>1. ASSUME TypeOK, FlowInv, GrowInv PROVE ErrorsAreFinal
  <2> SUFFICES ASSUME phase # "flow", NEW b \in Blocks(cfg),
                      NEW i \in 1..Len(cfg.ops[b]), NEW w \in Why
      PROVE  [at |-> <<b, i>>, why |-> w] \in errors
               <=> w \in Errors(cfg, cfg.ops[b][i], before[b][i])
    BY DEF ErrorsAreFinal
  <2>1. b \notin OnWork(work) /\ Len(cfg.ops[b]) \in Nat
    BY <1>1, CfgFacts DEF TypeOK, OnWork
  <2>2. (Len(cfg.ops[b]) + 1) - 1 = Len(cfg.ops[b])
    BY <2>1
  <2>3. \A v \in Errors(cfg, cfg.ops[b][i], before[b][i]) : [at |-> <<b, i>>, why |-> v] \in errors
    BY <1>1, <2>1, <2>2 DEF FlowInv, WalkedTo
  <2> QED BY <1>1, <2>3 DEF GrowInv
<1> QED BY <1>1, GrowCorrect, PTL
=============================================================================
