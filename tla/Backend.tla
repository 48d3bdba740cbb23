------------------------------ MODULE Backend -------------------------------
(* The back end from a checked crate to its run (src/codegen.rs, emit): the  *)
(* instances are expanded, every function is lowered and emitted, and the    *)
(* module runs its entry on the machine. What the run shows is held to what  *)
(* the source means.                                                         *)
EXTENDS Codegen, WasmMachine

\* What the entry of each crate means (Reference).
CONSTANT Meanings

VARIABLES
    meaning,   \* what the crate's entry means
    emitted,   \* the functions emitted so far, by wasm index
    slots,     \* the functions whose address was taken, by table slot
    pool       \* the string literals placed so far

vars == <<instanceVars, machineVars, meaning, emitted, slots, pool>>

Init ==
    /\ InstancesInit
    /\ meaning = Meanings[Crates[unit].entry]
    /\ emitted = <<>> /\ slots = <<>> /\ pool = <<>>
    /\ funcs = <<>> /\ elems = <<>> /\ mem = <<>> /\ globals = <<PageEnd, StrPoolBase>>
    /\ frames = <<>> /\ trace = <<>> /\ status = "compiling"

Idle == UNCHANGED machineVars
Emitted == Len(emitted)

Expand ==
    /\ status = "compiling" /\ Emitted = 0 /\ InstancesNext
    /\ Idle /\ UNCHANGED <<meaning, emitted, slots, pool>>

\* The reserved index of the empty drop follows the crate's own functions.
NoopIdx == Len(Entries) + 1
NoopDrop == Func("", <<"i32">>, <<>>, <<"i32">>, <<>>)

Signature(m) ==
    FuncType(SretParam(m) \o FlattenAll(m.params),
             IF ReturnsEnum(m) THEN <<"i32">> ELSE FlattenRType(m.ret))

\* The slots of the frame: where each binding kept in it starts and ends.
SlotsOf(m, g) ==
    [b \in {c \in DOMAIN m.locals : g.lay.storage[c].k = "Memory"} |->
        [off |-> g.lay.storage[b].off, bytes |-> ByteSizeOf(m.locals[b].ty)]]

\* What emission says of a function: why it was refused, or its frame.
Report(why, frame, at) == [why |-> why, frame |-> frame, at |-> at]

\* One function: lowered, laid out and emitted; drops it needs that were not
\* expanded join the table.
EmitOne(f, env) ==
    \E m \in {LowerToMono(f, env, Entries, table)} :
        IF ~m.ok
        THEN /\ emitted' = Append(emitted, Report(m.body, 0, <<>>))
             /\ UNCHANGED <<funcs, table, slots, pool>>
        ELSE \E g \in {EmitFunctionConcrete(m, Entries, table, slots, pool)} :
             \E sig \in {Signature(m)} :
                /\ emitted' = Append(emitted, Report(g.why, g.lay.frame, SlotsOf(m, g)))
                /\ funcs' = Append(funcs, Func(f, sig.params, sig.results, g.vts, g.code))
                /\ table' = g.table /\ slots' = g.slots /\ pool' = g.pool

OnlyEmits == UNCHANGED <<unit, walked, cursor, meaning, elems, mem, globals, frames, trace, status>>

\* The crate's own functions first; then the instances by position, so that
\* entries added during emission are emitted too.
EmitEntry == Emitted < Len(Entries)
EmitInstance == Emitted \in NoopIdx .. (NoopIdx + Len(table) - 1)
NextToEmit ==
    IF EmitEntry THEN [fn |-> Entries[Emitted + 1], env |-> <<>>]
    ELSE LET e == table[Emitted - NoopIdx + 1] IN [fn |-> e.fn, env |-> BuildEnv(e.fn, e.args)]

EmitFunction ==
    /\ status = "compiling" /\ (Expanded \/ Emitted > 0) /\ (EmitEntry \/ EmitInstance)
    /\ \E next \in {NextToEmit} : EmitOne(next.fn, next.env)
    /\ OnlyEmits

(* Mutant of EmitNoop: the empty drop is not emitted at its index. *)
EmitNoopNowhere ==
    /\ status = "compiling" /\ Emitted = Len(Entries)
    /\ emitted' = Append(emitted, Report("", 0, <<>>))
    /\ OnlyEmits /\ UNCHANGED <<funcs, table, slots, pool>>

EmitNoop ==
    /\ status = "compiling" /\ Emitted = Len(Entries)
    /\ emitted' = Append(emitted, Report("", 0, <<>>))
    /\ funcs' = Append(funcs, NoopDrop)
    /\ OnlyEmits /\ UNCHANGED <<table, slots, pool>>

AllEmitted == Emitted = NoopIdx + Len(table)

\* The heap starts after the string pool.
Start ==
    /\ status = "compiling" /\ AllEmitted
    /\ \A i \in DOMAIN emitted : emitted[i].why = ""
    /\ elems' = slots
    /\ globals' = <<PageEnd, StrPoolBase + PoolSize(pool)>>
    /\ LET f == CHOOSE i \in DOMAIN Entries : Entries[i] = Crates[unit].entry
       IN  frames' = <<[fn |-> f, pc |-> 1, stack |-> <<>>, labels |-> <<>>, sp |-> PageEnd,
                        locals |-> [i \in DOMAIN funcs[f].vts |-> ZeroOf(funcs[f].vts[i])]]>>
    /\ status' = "running"
    /\ UNCHANGED <<funcs, mem, trace, instanceVars, meaning, emitted, slots, pool>>

Execute == MachineStep /\ UNCHANGED <<instanceVars, meaning, emitted, slots, pool>>

Ended == status \in {"returned", "panicked"} /\ UNCHANGED vars

Next == Expand \/ EmitFunction \/ EmitNoop \/ Start \/ Execute

\* The machine goes on executing until the run ends.
Spec == Init /\ [][Next \/ Ended]_vars /\ WF_vars(Execute)

-----------------------------------------------------------------------------
(* Properties *)

\* The program counter of every active call is in its function or at its
\* end, its locals keep the types the function declares for them, and the
\* stack pointer stays within the page.
BackendTypeOK ==
    /\ unit \in DOMAIN Crates
    /\ walked \in 0 .. Len(Entries) /\ cursor \in 0 .. Len(table)
    /\ status \in {"compiling", "running", "returned", "panicked"}
    /\ globals[1] \in 0 .. PageEnd
    /\ \A i \in DOMAIN frames :
         LET f == frames[i]
         IN  /\ f.fn \in DOMAIN funcs /\ f.pc \in 1 .. (Len(funcs[f.fn].code) + 1)
             /\ TypesOf(f.locals) = funcs[f.fn].vts

\* Every instance that lowering or emission looks up has been found by the
\* expansion, and nothing the lowering produces is refused (src/mono.rs:1140,
\* src/codegen.rs:1634).
NothingMissing == \A i \in DOMAIN emitted : emitted[i].why = ""

\* The index a call carries is the index at which its callee is emitted,
\* although it is handed out before and the table still grows while functions
\* are emitted (src/mono.rs, MonoTable; src/codegen.rs, emit).
IndexesHold ==
    /\ \A i \in DOMAIN funcs \cap DOMAIN Entries : funcs[i].name = Entries[i]
    /\ \A k \in DOMAIN table :
         LET i == LookupIdx(Entries, table, table[k].fn, table[k].args)
         IN  i \in DOMAIN funcs => funcs[i].name = table[k].fn

\* The emitted code is valid: every instruction finds operands of the number
\* and the types it takes, every structure and every function ends with the
\* values it promises, and an indirect call finds the signature it names.
ValidCode == Running => ~Invalid

\* A function gives back the stack it took, its temporaries included, however
\* it is left (src/codegen.rs:1511, :1757).
StackGivenBack == [][Len(frames') < Len(frames) => globals'[1] = Top.sp]_vars

\* A store hits the stack that was taken or the heap that was allocated: not
\* the string pool, not the memory between the two, not past the page.
Owned(a) == \/ a \in (StrPoolBase + PoolSize(pool)) .. (globals[2] - 1)
            \/ a \in globals[1] .. (PageEnd - 1)
NoStrayWrite ==
    [][\A a \in DOMAIN mem' : (a \in DOMAIN mem /\ mem'[a] = mem[a]) \/ Owned(a)]_vars

Promise == INSTANCE ObservedRun WITH seen <- trace, outcome <- status

\* The run shows the observed calls of the source, drops included, in order
\* and no others, ends as the source ends, and does end.
ImplementsSource == Promise!Spec
=============================================================================
