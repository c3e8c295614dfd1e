------------------------------ MODULE Analysis ------------------------------
(***************************************************************************)
(* qed-analysis on one program, and the program it describes running       *)
(* beside it.  Cfg::build grows the no-return set until it is stable,      *)
(* discover finds the layout, the dispatch arms and the facts of each      *)
(* success edge, and then a run of the program on some input is compared   *)
(* with all that the analysis says.                                        *)
(***************************************************************************)
EXTENDS Dispatch

CONSTANTS
  Jobs,           \* the programs: [code, entry, v3, inputs]
  MaxDepth,       \* frames of the machine; a deeper call faults
  AnyWord,        \* what an operation nothing is known of may yield
  SyscallReach    \* positions of the input a syscall may write to

Bytes == 0 .. ByteValues - 1
ASSUME AnalysisAssumption ==
  /\ MaxDepth \in Nat \ {0} /\ StackTop + MaxDepth <= InputStart
  /\ AnyWord \subseteq Words /\ AnyWord # {}

\* An instruction as the decoder delivers it; t is a number in every instruction.
Decoded(ins) ==
  /\ ins.op \in {"mov", "movr", "ld", "add", "and", "alu", "jcc", "st"} => ins.d \in Regs
  /\ ins.op \in {"movr", "ld"} => ins.s \in Regs
  /\ ins.op \in {"mov", "st", "jcc"} => ins.imm \in Int
  /\ ins.op \in {"add", "and"} =>
       ins.reg \in BOOLEAN /\ (IF ins.reg THEN ins.s \in Regs ELSE ins.imm \in Int)
  /\ ins.op \in {"ld", "st"} => ins.w \in {"byte", "dword"} /\ ins.off \in -MaxOff .. MaxOff
  /\ ins.op = "jcc" => /\ ins.cmp \in {"eq", "ne", "gt", "any"} /\ ins.bits \in {32, 64}
                       /\ ins.reg \in BOOLEAN /\ (ins.reg => ins.s \in Regs)
  /\ ins.t \in Int
ASSUME JobAssumption ==
  \A j \in Jobs :
    /\ j.code \in Seq(Range(j.code)) /\ \A i \in DOMAIN j.code : Decoded(j.code[i])
    /\ j.entry \in PCs(j) /\ j.inputs \subseteq Seq(Bytes)

VARIABLES job,
          noret, fns, edges, witness, graph, bindings, theorems, phase,   \* the analysis
          pc, frames, regs, input,                       \* the machine
          input0, def, from, taken, halt                 \* the run's history

analysis == <<noret, fns, edges, witness, graph, bindings, theorems, phase>>
machine == <<pc, frames, regs, input, input0, def, from, taken, halt>>
vars == <<job, analysis, machine>>

NoWitness == [heads |-> {}, done |-> {}, steps |-> <<>>]
\* frames: the functions being run, outermost first, each with the PC its
\* caller resumes at and the callee-saved registers.  def: what defined r0
\* last in the frame.
Init ==
  /\ job \in Jobs
  /\ noret = {} /\ fns = << >> /\ edges = {} /\ witness = NoWitness
  /\ graph = << >> /\ bindings = << >> /\ theorems = << >> /\ phase = "building"
  /\ pc = job.entry /\ frames = <<[fn |-> job.entry, back |-> NoTarget, r6 |-> 0]>>
  /\ regs = [r \in Regs |-> CASE r = 1 -> InputStart [] r = 10 -> StackTop [] OTHER -> 0]
  /\ input = <<>> /\ input0 = <<>>
  /\ def = <<"init">> /\ from = NoTarget /\ taken = {} /\ halt = "no"

\* One round of the loop of Cfg::build; outcomes and the panic chains are
\* computed from the result.
Refine ==
  /\ phase = "building"
  /\ fns' = Bodies(job, noret)
  /\ noret' = HasNoExit(job, fns')
  /\ IF noret' = noret
       THEN /\ phase' = "built"
            /\ edges' = ExitEdges(job, noret', fns')
            /\ witness' = NoReturnWitness(job, noret', fns')
            /\ graph' = GraphSucc(job, witness'.heads)
       ELSE UNCHANGED <<edges, witness, graph, phase>>
  /\ UNCHANGED <<job, bindings, theorems, machine>>

\* discover on the finished graph, or the error of a graph that cannot be built.
SuccessEdges == {e.from : e \in {x \in edges : IsSuccess(x)}}
DiscoverBindings ==
  /\ phase = "built"
  /\ bindings' = IF GraphError(job, witness.heads) THEN << >> ELSE Discover(job, graph, SuccessEdges)
  /\ phase' = "discovered"
  /\ UNCHANGED <<job, noret, fns, edges, witness, graph, theorems, machine>>

\* generate_from_bindings, for the edges discovery supports.
Found == {e \in DOMAIN bindings : bindings[e].kind = "found"}
Generate ==
  /\ phase = "discovered"
  /\ theorems' = [e \in Found |-> EdgeTheorem(job, graph, bindings[e], e)]
  /\ phase' = "generated"
  /\ UNCHANGED <<job, noret, fns, edges, witness, graph, bindings, machine>>
----------------------------------------------------------------------------
(* The machine. *)

\* A run starts on one of the inputs.
Load ==
  /\ phase = "generated" /\ phase' = "running"
  /\ input' \in job.inputs /\ input0' = input'
  /\ UNCHANGED <<job, noret, fns, edges, witness, graph, bindings, theorems, pc, frames, regs, def, from, taken, halt>>

Here == At(job, pc)
Running == phase = "running" /\ halt = "no"
Depth == Len(frames)
TopFrame == frames[Depth]
Stay == UNCHANGED <<job, analysis, input0>>
Goto(q) == pc' = q /\ from' = pc /\ taken' = IF Depth = 1 THEN taken \cup {<<pc, q>>} ELSE taken
Halt(how) == halt' = how /\ UNCHANGED <<pc, frames, regs, input, def, from, taken>> /\ Stay
Fetched(ops) == Running /\ pc \in PCs(job) /\ Here.op \in ops

\* Memory is the stack, which holds anything, and the input.
Mapped(a, n) == a >= InputStart /\ a + n <= InputStart + Len(input)
InStack(a) == StackStart <= a /\ a < InputStart
ReadInput(mem, o, w) == IF w = "byte" THEN mem[o + 1] ELSE mem[o + 1] + ByteValues * mem[o + 2]
StoredByte(v, i) == IF i = 0 THEN v % ByteValues ELSE (v \div ByteValues) % ByteValues
Put(mem, o, w, v) ==
  [x \in DOMAIN mem |-> IF x - 1 \in o .. o + WidthBytes(w) - 1 THEN StoredByte(v, x - 1 - o) ELSE mem[x]]

\* A register write; r10 is read-only.
SetR(d, v) == regs' = IF d = 10 THEN regs ELSE [regs EXCEPT ![d] = v]
Define == def' = IF R0Write(job, pc) = <<"none">> THEN def ELSE R0Write(job, pc)

Address == (regs[IF Here.op = "ld" THEN Here.s ELSE Here.d] + Here.off) % Modulus
Faults(ins) == ins.op \in {"ld", "st"} /\ ~ Mapped(Address, WidthBytes(ins.w)) /\ ~ InStack(Address)
RightHand == IF Here.reg THEN regs[Here.s] ELSE Here.imm % Modulus
Results ==
  CASE Here.op = "mov" -> {Here.imm % Modulus}
    [] Here.op = "movr" -> {regs[Here.s]}
    [] Here.op = "add" -> {(regs[Here.d] + RightHand) % Modulus}
    [] Here.op = "and" -> {BitAnd(regs[Here.d], RightHand) % Modulus}
    [] Here.op = "ld" -> IF InStack(Address) THEN AnyWord ELSE {ReadInput(input, Address - InputStart, Here.w)}
    [] OTHER -> AnyWord
Compute ==
  /\ Fetched({"mov", "movr", "add", "and", "ld", "alu"}) /\ ~ Faults(Here)
  /\ \E v \in Results : SetR(Here.d, v)
  /\ Define /\ Goto(pc + 1)
  /\ UNCHANGED <<frames, input, halt>> /\ Stay
NoEffect ==
  /\ Fetched({"nop"}) /\ Goto(pc + 1)
  /\ UNCHANGED <<frames, regs, input, def, halt>> /\ Stay
Store ==
  /\ Fetched({"st"}) /\ ~ Faults(Here)
  /\ input' = IF InStack(Address) THEN input ELSE Put(input, Address - InputStart, Here.w, Here.imm)
  /\ Goto(pc + 1)
  /\ UNCHANGED <<frames, regs, def, halt>> /\ Stay

\* A comparison of the low half only is a V3 instruction; "any" stands for one
\* of values nothing is known of.
Low(v, bits) == IF bits = 32 THEN v % ByteValues ELSE v
Compare(cmp, x, y) == CASE cmp = "eq" -> x = y [] cmp = "ne" -> x # y [] cmp = "gt" -> x > y
Outcomes ==
  LET ins == Here
      y == IF ins.reg THEN regs[ins.s] ELSE ins.imm % Modulus
  IN  IF ins.op = "ja" THEN {ins.t}
      ELSE IF ins.cmp = "any" THEN {ins.t, pc + 1}
      ELSE IF Compare(ins.cmp, Low(regs[ins.d], ins.bits), Low(y, ins.bits)) THEN {ins.t} ELSE {pc + 1}
Jump ==
  /\ Fetched({"ja", "jcc"}) /\ Here.t \in PCs(job)
  /\ \E q \in Outcomes : Goto(q)
  /\ UNCHANGED <<frames, regs, input, def, halt>> /\ Stay

\* A call pushes a frame; an indirect one may go anywhere.
Enter(t) ==
  /\ Depth < MaxDepth
  /\ frames' = Append(frames, [fn |-> t, back |-> pc + 1, r6 |-> regs[6]])
  /\ regs' = [regs EXCEPT ![10] = @ + 1]
  /\ pc' = t /\ from' = pc
  /\ UNCHANGED <<input, def, taken, halt>> /\ Stay
Call == Fetched({"call"}) /\ Here.t \in PCs(job) /\ Enter(Here.t)
Callx == Fetched({"callx"}) /\ \E t \in Entries(job) : Enter(t)
\* A syscall keeps r6 to r10; it may write to the input.
Rewritten ==
  {[i \in DOMAIN input |-> IF i \in DOMAIN c THEN c[i] ELSE input[i]] :
     c \in [SyscallReach \cap DOMAIN input -> Bytes]}
Syscall ==
  /\ Fetched({"sys"})
  /\ IF Here.name \in NoReturnSyscalls THEN Halt("panic")
     ELSE /\ \E v \in AnyWord : regs' = [r \in Regs |-> IF r <= 5 THEN (IF r = 0 THEN v ELSE 0) ELSE regs[r]]
          /\ input' \in Rewritten
          /\ Define /\ Goto(pc + 1)
          /\ UNCHANGED <<frames, halt>> /\ Stay
\* exit returns to the caller, whose r0 is now the call's result, or ends the
\* program.
Return ==
  /\ Fetched({"exit"}) /\ Depth > 1
  /\ frames' = Front(frames) /\ pc' = TopFrame.back /\ from' = TopFrame.back - 1
  /\ regs' = [regs EXCEPT ![6] = TopFrame.r6, ![10] = @ - 1]
  /\ def' = IF At(job, TopFrame.back - 1).op = "call" THEN <<"call", TopFrame.fn>> ELSE <<"computed">>
  /\ taken' = IF Depth = 2 THEN taken \cup {<<TopFrame.back - 1, TopFrame.back>>} ELSE taken
  /\ UNCHANGED <<input, halt>> /\ Stay
ProgramExit == Fetched({"exit"}) /\ Depth = 1 /\ Halt("exit")
\* Everything that has no successor: past the end, no such target, too deep, an
\* access outside memory.
Fault ==
  /\ Running
  /\ \/ pc \notin PCs(job)
     \/ Fetched({"ja", "jcc", "call"}) /\ Here.t \notin PCs(job)
     \/ Fetched({"call", "callx"}) /\ Depth = MaxDepth
     \/ Fetched({"ld", "st"}) /\ Faults(Here)
  /\ Halt("fault")
Done == halt # "no" /\ UNCHANGED vars

Step == Compute \/ NoEffect \/ Store \/ Jump \/ Call \/ Callx \/ Syscall \/ Return \/ ProgramExit \/ Fault
Next == Refine \/ DiscoverBindings \/ Generate \/ Load \/ Step \/ Done
\* The loop of Cfg::build and the interpreter both go on until they stop: weak
\* fairness of Next, one of whose steps is enabled as long as halt = "no".
Spec == Init /\ [][Next]_vars /\ (<>[](halt = "no") => []<><<Next>>_vars)
----------------------------------------------------------------------------
(* Properties. *)

\* The partition is sound: a run of a function stays inside the body Cfg::build
\* computed for it, whatever its calls do before they return, and a function in
\* the no-return set is never returned from (cfg.rs: "a function is noreturn
\* when no exit is reachable once calls into noreturn functions are treated as
\* terminal").
PartitionIsSound ==
  Running /\ pc \in PCs(job) /\ TopFrame.fn \in DOMAIN fns =>
    pc \in fns[TopFrame.fn] /\ (Here.op = "exit" => TopFrame.fn \notin noret)

\* The exit of the program is reached along an edge outcomes lists, r0 was
\* defined last by one of the definitions it gives for that edge, and on a
\* success edge r0 is zero.
ExitIsClassified ==
  halt = "exit" /\ from # NoTarget =>
    \E e \in edges : /\ e.from = from
                     /\ def \in e.r0 \cup {<<"init">>}
                     /\ IsSuccess(e) => regs[0] = 0

\* The path checker's theorems exclude programs that reach an indirect call.
NoIndirectCall == ReachableCallx(job, fns) = {}
AtTop == phase = "running" /\ Depth = 1 /\ pc \in PCs(job) /\ NoIndirectCall

\* A branch Graph::guards lists for a success edge is passed by every run that
\* reaches the edge, and only on the side listed ("Guards every run from the
\* entrypoint passes").
GuardsArePassed ==
  AtTop /\ ~ GraphError(job, witness.heads) /\ pc \in SuccessEdges =>
    \A g \in Guards(job, graph, job.entry, pc) :
      <<g.pc, g.on>> \in taken /\ \A q \in PCs(job) \ {g.on} : <<g.pc, q>> \notin taken

\* A head of the no-return witness ends in a panic: a run inside one does not loop.
HeadsPanic == (Running /\ TopFrame.fn \in witness.heads) ~> (halt \in {"panic", "fault"})

Holds(a) == ReadInput(input0, a.off, "dword") = a.value
Denotes(v, x) ==
  CASE v[1] = "top" -> TRUE
    [] v[1] = "const" -> x = v[2]
    [] v[1] = "inptr" -> x = InputStart + v[2]
    [] v[1] = "fp" -> x = StackTop
    [] v[1] = "inload" -> x = ReadInput(input0, v[3], v[2])
\* The abstract state of a PC is true of every run that gets there from an input
\* in which the assumed lengths hold: registers denote what the map says of the
\* initial input, and bytes outside the written ranges are the initial ones.
AbstractMapHolds ==
  AtTop => \A e \in Found :
    LET b == bindings[e]
    IN  (\A i \in DOMAIN b.assumed : Holds(b.assumed[i])) =>
          /\ b.map[pc] # NoState
          /\ \A r \in Regs : Denotes(b.map[pc].regs[r], regs[r])
          /\ b.map[pc].written.known =>
               \A i \in DOMAIN input :
                 input[i] # input0[i] => \E o \in b.map[pc].written.ranges : i - 1 \in o .. o + Dword - 1

\* A length that discovery calls checked is checked: a run at the edge started
\* from an input with that length, if the earlier lengths are the assumed ones
\* (dispatch.rs: "Every path to the edge passes one of these data_len == value
\* checks").
CheckedLengthsHold ==
  AtTop => \A e \in Found \cap {pc} :
    \A i \in DOMAIN bindings[e].assumed :
      bindings[e].assumed[i].checked /\ (\A j \in 1 .. i - 1 : Holds(bindings[e].assumed[j]))
        => Holds(bindings[e].assumed[i])

Value(v) ==
  CASE v[1] = "const" -> v[2]
    [] v[1] = "inptr" -> InputStart + v[2]
    [] v[1] = "fp" -> StackTop
    [] v[1] = "inload" -> ReadInput(input0, v[3], v[2])
FactHolds(f) == f.op # "any" => Compare(f.op, Value(f.dv), Value(f.sv)) = f.taken
\* The theorem generate_from_bindings states for a success edge is true of every
\* run at the edge: the guards of the edge hold of the initial input and so do,
\* for one of its routes, those of the route; an account it names as a signer
\* signed, and a key it says was compared is the stored key.
ReadableHolds ==
  AtTop => \A e \in DOMAIN theorems \cap {pc} :
    LET th == theorems[e]
    IN  (\A i \in DOMAIN th.lengths : Holds(th.lengths[i])) =>
          /\ \A f \in th.dom : FactHolds(f)
          /\ \E r \in th.routes :
               /\ \A f \in r.facts : FactHolds(f)
               /\ \A n \in r.signers : input0[th.regions[n].h + 2] # 0
               /\ \A k \in r.keys : \A x \in 1 .. KeyLimbs * Dword :
                    input0[th.regions[k.account].h + KeyAt + x] = input0[k.base + x]
=============================================================================
