------------------------------- MODULE Walker -------------------------------
(***************************************************************************)
(* walk_and_exec (qedlift/src/exec/walk.rs) and what lift_one does with    *)
(* its result: the walk follows a trace or the static control flow,        *)
(* executes each instruction symbolically, and starts again with larger    *)
(* retry plans until no pass asks for more.  An accepted walk becomes the  *)
(* theorem  pre ==> post  over the walked instructions, and a witness      *)
(* shows that pre can be satisfied.                                        *)
(*                                                                         *)
(* mem, seen and truthful are history variables: the memory of a concrete  *)
(* execution of the same instructions, as the provenance of every byte,    *)
(* the accesses made, and whether every symbolic load agreed with it.      *)
(***************************************************************************)
EXTENDS SymStep, FiniteSets, TLC

CONSTANTS
  Jobs,         \* [code, traced, trace, disc, arm, entry, v3]: what is lifted
  MaxAttempts,  \* walk retries before the lift is given up (8 in the code)
  StaticCap,    \* steps of a static walk (1024 in the code)
  MaxFrames     \* call frames (64 in the code)

ASSUME BoundsAssumption == MaxAttempts \in Nat \ {0} /\ StaticCap \in Nat /\ MaxFrames \in Nat

\* An instruction as the decoder delivers it.  r10 is read-only (RegFile.set): no
\* instruction of a verified program has it as its destination.
Decoded(ins) ==
  /\ ins.op \in Ops
  /\ ins.op \in {"ldx", "st", "stx"} => ins.w \in Widths /\ ins.off \in Int
  /\ ins.op \in {"ldx", "stx", "movr", "alu"} => ins.s \in 0 .. 10
  /\ ins.op \in {"st", "stx", "jcc", "callx"} => ins.d \in 0 .. 10
  /\ ins.op \in {"ldx", "mov", "movr", "add", "sub", "alu"} => ins.d \in 0 .. 9
  /\ ins.op \in {"st", "mov", "add", "sub"} => ins.imm \in Int
  /\ ins.op = "alu" => ins.kind \in AluKinds
  /\ ins.op \in {"jcc", "ja", "call"} => ins.t \in Nat
ASSUME JobAssumption ==
  \A j \in Jobs :
    /\ j.code \in Seq(Range(j.code)) /\ \A i \in DOMAIN j.code : Decoded(j.code[i])
    /\ j.trace \in Seq(Nat) /\ j.entry \in Nat /\ j.arm \in Int /\ j.arm >= -1
    /\ j.traced \in BOOLEAN /\ j.v3 \in BOOLEAN

VARIABLES job, attempts, hot, splits, s, pc, cur, steps, block, calls, fault, status, err,
          mem, seen, truthful
plans == <<attempts, hot, splits>>
position == <<pc, cur, steps>>
emitted == <<block, calls, fault>>
ghosts == <<mem, seen, truthful>>
vars == <<job, plans, s, position, emitted, status, err, ghosts>>

NoArm == -1
Init ==
  /\ job \in Jobs
  /\ attempts = 0 /\ hot = <<>> /\ splits = {}
  /\ s = WithRetryPlans(<<>>, {})
  /\ pc = 0 /\ cur = 1 /\ steps = 0
  /\ block = <<>> /\ calls = <<>> /\ fault = "none"
  /\ status = "begin" /\ err = "none"
  /\ mem = <<>> /\ seen = <<>> /\ truthful = TRUE
----------------------------------------------------------------------------
(* The concrete bytes that a symbolic value stands for.                     *)

\* The bytes at an address expression, and those of an atom whose root still has layers.
TrueSpan(e, off, len) ==
  LET lo == LayerSum(e, off)
  IN  IF RootOf(e)[1] = "const" THEN [root |-> <<"absolute">>, lo |-> lo + RootOf(e)[2], hi |-> lo + RootOf(e)[2] + len]
      ELSE [root |-> RootOf(e), lo |-> lo, hi |-> lo + len]
FullSpan(span) ==
  IF span.root[1] = "add" THEN TrueSpan(span.root, span.lo, span.hi - span.lo) ELSE span

VarAtom(pre, v) == pre[SelectInSeq(pre, LAMBDA a : a.value = v)]
\* Below the reductions to a byte: the expression whose lowest byte it is.  A walked
\* instruction wraps a value at most once.
Inner(v) == IF v[1] = "mod" THEN v[2] ELSE IF v[1] = "combo" THEN v[2][1] ELSE v
Innermost(v) == LET below[n \in 0 .. steps + 1] == IF n = 0 THEN v ELSE Inner(below[n - 1]) IN below[steps + 1]
PlainByte(pre, v, j) ==
  CASE v[1] = "mem" -> IF j >= Bytes[v[2]] THEN <<"zero">>
                       ELSE LET t == FullSpan(VarAtom(pre, v).span) IN <<"init", t.root, t.lo + j>>
    [] v[1] = "const" -> <<"imm", v[2], j>>
    [] v[1] = "imm" -> IF j >= Bytes[v[3]] THEN <<"zero">> ELSE <<"imm", v[2], j>>
    [] v[1] = "byte" -> IF j = 0 THEN v[2] ELSE <<"zero">>
    [] v[1] = "fill" -> <<"fill", v[2]>>
    [] v[1] = "sys" -> <<"sys", v[2], v[3] + j>>
    [] OTHER -> <<"of", v, j>>
ByteOf(pre, v, j) ==
  IF v[1] = "combo" THEN PlainByte(pre, Innermost(v[2][j + 1]), 0)
  ELSE IF v[1] = "mod" /\ j > 0 THEN <<"zero">>
  ELSE PlainByte(pre, Innermost(v), j)

ByteAt(m, root, a) == IF <<root, a>> \in DOMAIN m THEN m[<<root, a>>] ELSE <<"init", root, a>>
SetBytes(m, span, f(_)) == [a \in {<<span.root, x>> : x \in span.lo .. span.hi - 1} |-> f(a[2] - span.lo)] @@ m

\* The accesses of one instruction, in order: [span, w].
Accesses(ins, q) ==
  CASE ins.op = "ldx" -> <<[span |-> TrueSpan(q.regs[ins.s], ins.off, Bytes[ins.w]), w |-> FALSE]>>
    [] ins.op \in {"st", "stx"} -> <<[span |-> TrueSpan(q.regs[ins.d], ins.off, Bytes[ins.w]), w |-> TRUE]>>
    [] OTHER -> <<>>

Stored(ins, q, j) ==
  ByteOf(q.pre, IF ins.op = "st" THEN Const(ins.imm) ELSE q.regs[ins.s], j)
GhostMem(ins, q) ==
  IF ins.op \in {"st", "stx"}
    THEN SetBytes(mem, TrueSpan(q.regs[ins.d], ins.off, Bytes[ins.w]), LAMBDA j : Stored(ins, q, j))
    ELSE mem

\* What a load put in the register is what the bytes in memory are.
LoadAgrees(ins, q) ==
  LET span == TrueSpan(s.regs[ins.s], ins.off, Bytes[ins.w])
  IN  ins.op = "ldx" => \A j \in 0 .. Bytes[ins.w] - 1 :
        ByteOf(q.pre, q.regs[ins.d], j) = ByteAt(mem, span.root, span.lo + j)

\* What a syscall does to memory: [span, from] per written region.
SysWrites(name, q, p) ==
  LET n == BlobLen(q.regs[3])
      fill == IF ConstOf(q.regs[2]) = NoConst THEN <<"raw", q.regs[2]>> ELSE <<"fill", ConstOf(q.regs[2])>>
      src == TrueSpan(q.regs[2], 0, n)
      from(e, len, f(_)) == SetBytes(mem, TrueSpan(e, 0, len), f)
  IN  CASE name = "sol_memset_" -> from(q.regs[1], n, LAMBDA j : ByteOf(q.pre, fill, j))
        [] name \in {"sol_memcpy_", "sol_memmove_"} ->
             from(q.regs[1], n, LAMBDA j : ByteAt(mem, src.root, src.lo + j))
        [] name = "sol_memcmp_" -> from(q.regs[4], 4, LAMBDA j : <<"sys", p, j>>)
        [] name = "sol_get_sysvar" -> from(q.regs[2], 17, LAMBDA j : <<"sys", p, j>>)
        [] name = "sol_sha256" -> from(q.regs[3], 32, LAMBDA j : <<"sys", p, j>>)
        [] name = "sol_create_program_address" -> from(q.regs[4], 32, LAMBDA j : <<"sys", p, j>>)
        [] OTHER -> mem
----------------------------------------------------------------------------
(* The trace cursor.                                                        *)

Next1 == IF cur < Len(job.trace) THEN job.trace[cur + 1] ELSE End
WalkCap == IF job.traced THEN Len(job.trace) + 8 ELSE StaticCap
Fail(kind) == status' = "error" /\ err' = kind

\* The head of the retry loop: a fresh state, and the position where it starts.
\* Mutant of GiveUp: the plans are thrown away and the lift starts over.
MutGiveUp ==
  /\ status = "begin" /\ attempts >= MaxAttempts
  /\ attempts' = 0 /\ hot' = <<>> /\ splits' = {}
  /\ UNCHANGED <<job, s, position, emitted, status, err, ghosts>>
GiveUp ==
  /\ status = "begin" /\ attempts >= MaxAttempts
  /\ Fail("NotConverged")
  /\ UNCHANGED <<job, plans, s, position, emitted, ghosts>>
BeginPass ==
  /\ status = "begin" /\ attempts < MaxAttempts
  /\ attempts' = attempts + 1
  /\ s' = WithRetryPlans(hot, splits)
  /\ block' = <<>> /\ calls' = <<>> /\ fault' = "none"
  /\ mem' = <<>> /\ seen' = <<>> /\ truthful' = TRUE
  /\ cur' = 1 /\ steps' = 0
  /\ UNCHANGED <<job, hot, splits>>
  /\ \/ /\ job.traced
        /\ \/ job.trace = <<>>
           \/ job.arm # NoArm /\ job.arm \notin Range(job.trace)
        /\ Fail("TraceInput") /\ UNCHANGED pc
     \/ /\ job.traced /\ job.trace # <<>> /\ (job.arm # NoArm => job.arm \in Range(job.trace))
        /\ pc' = job.trace[1] /\ status' = "walking" /\ UNCHANGED err
     \/ /\ ~ job.traced
        /\ pc' = (IF job.arm # NoArm THEN job.arm ELSE job.entry)
        /\ status' = "walking" /\ UNCHANGED err

\* The pc of the next instruction, when there is one.
TraceOver == job.traced /\ cur > Len(job.trace)
Here == IF job.traced THEN job.trace[cur] ELSE pc
InCode == ~ TraceOver /\ Here < Len(job.code)
Ins == job.code[Here + 1]
Walking == status = "walking" /\ steps < WalkCap

StepLimit ==
  /\ status = "walking" /\ steps >= WalkCap
  /\ Fail("WalkerSteps")
  /\ UNCHANGED <<job, plans, s, position, emitted, ghosts>>

\* The walk ends: past the trace, past the code, or at the outermost exit.
Terminal == IF InCode THEN Ins.op = "exit" /\ s.stack = <<>> ELSE TRUE
EndWalk ==
  /\ Walking /\ Terminal
  /\ steps' = steps + 1 /\ pc' = (IF TraceOver THEN pc ELSE Here)
  /\ status' = "walked"
  /\ UNCHANGED <<job, plans, s, cur, emitted, err, ghosts>>

Running == Walking /\ ~ Terminal

\* exit of a callee
NestedExit ==
  /\ Running /\ Ins.op = "exit"
  /\ LET back == Last(s.stack).pc + 1
     IN  /\ block' = Append(block, Here)
         /\ calls' = Append(calls, [pc |-> Here, cites |-> {}])
         /\ s' = PopFrame(s)
         /\ steps' = steps + 1
         /\ IF job.traced /\ Next1 # back
              THEN Fail("TraceInput") /\ UNCHANGED <<cur, pc>>
            ELSE /\ cur' = (IF job.traced THEN cur + 1 ELSE cur)
                 /\ pc' = (IF job.traced THEN Here ELSE back)
                 /\ UNCHANGED <<status, err>>
  /\ UNCHANGED <<job, plans, fault, ghosts>>

\* A call that does not come back ends the walk in a fault; it is no part of
\* the block.
Faults ==
  /\ Ins.op = "sys"
  /\ \/ Ins.name \in Aborts
     \/ job.traced /\ Ins.name \in Oobs /\ Next1 # Here + 1
FaultEnd ==
  /\ Running /\ Faults
  /\ fault' = (IF Ins.name \in Aborts THEN "abort" ELSE "oob")
  /\ steps' = steps + 1 /\ pc' = Here
  /\ status' = "walked"
  /\ UNCHANGED <<job, plans, s, cur, block, calls, err, ghosts>>

\* A traced syscall: the trace comes back to the next pc.
IsTracedSyscall == job.traced /\ Ins.op = "sys" /\ ~ Faults /\ Next1 = Here + 1
AfterSyscall(r) ==
  /\ s' = r.s /\ steps' = steps + 1 /\ pc' = Here
  /\ IF r.err # "none"
       THEN Fail(r.err) /\ UNCHANGED <<cur, block, calls, mem>>
     ELSE /\ block' = Append(block, Here)
          /\ calls' = Append(calls, [pc |-> Here, cites |-> {}])
          /\ cur' = cur + 1
          /\ mem' = SysWrites(Ins.name, s, Here)
          /\ UNCHANGED <<status, err>>
Syscall ==
  /\ Running /\ IsTracedSyscall
  /\ AfterSyscall(DispatchSyscall(s, Here, Ins.name))
  /\ UNCHANGED <<job, plans, fault, seen, truthful>>

\* callx: the address has to be a constant that names an instruction.
Address(e) == LayerSum(e, 0) + (IF RootOf(e)[1] = "const" THEN RootOf(e)[2] ELSE 0)
CallxAddr == Address(s.regs[Ins.d])
CallxError ==
  IF ~ (job.v3 /\ Ins.op = "callx") THEN "none"
  ELSE IF Len(s.stack) >= MaxFrames THEN "CallDepthExceeded"
  ELSE IF RootOf(s.regs[Ins.d])[1] # "const" THEN "SymbolicOperand"
  ELSE IF CallxAddr \notin 0 .. Len(job.code) - 1 THEN "CallUnresolved"
  ELSE IF job.traced /\ Next1 # CallxAddr THEN "TraceInput" ELSE "none"

\* Where a static walk goes on.
StaticNext(taken) ==
  CASE Ins.op = "ja" \/ (Ins.op = "jcc" /\ taken) -> Ins.t
    [] Ins.op = "call" -> Ins.t
    [] Ins.op = "callx" /\ job.v3 -> CallxAddr
    [] OTHER -> Here + 1
StaticError ==
  CASE job.traced -> "none"
    [] Ins.op = "sys" -> IF job.v3 /\ Ins.name \notin KnownSyscalls THEN "SyscallUnmodeled" ELSE CallImmError(Ins.name)
    [] OTHER -> "none"

\* Any other instruction: prepare the specification call, execute, check that
\* every reserved name was used, and go on.
Taken ==
  IF Ins.op # "jcc" THEN FALSE ELSE IF job.traced THEN TraceTaken(Next1, Here) ELSE StaticTaken(Ins, job.disc)
\* A callx asks for its target in the code region.
Prepared ==
  IF job.v3 /\ Ins.op = "callx"
    THEN PushClause(s, [root |-> <<"callx">>, lo |-> CallxAddr, hi |-> CallxAddr + 1], FALSE) ELSE s
StepError(callx, r) ==
  IF callx # "none" THEN callx
  ELSE IF job.traced /\ Ins.op = "jcc" /\ TraceMismatch(Next1, Ins, Here) THEN "TraceInput"
  ELSE IF r.err # "none" THEN r.err
  ELSE IF r.s.reserved # <<>> THEN "UnusedReservation"
  ELSE StaticError
Continue(spec, r) ==
  /\ s' = TakeAliases(r.s, Here)
  /\ calls' = (IF spec.some THEN Append(calls, [pc |-> Here, cites |-> spec.cites]) ELSE calls)
  /\ cur' = (IF job.traced THEN cur + 1 ELSE cur)
  /\ pc' = (IF job.traced THEN Here ELSE StaticNext(Taken))
  /\ mem' = GhostMem(Ins, s)
  /\ seen' = seen \o Accesses(Ins, s)
  /\ truthful' = (truthful /\ LoadAgrees(Ins, r.s))
  /\ UNCHANGED <<status, err>>
AfterStep(spec, r, fail) ==
  IF fail # "none"
    THEN Fail(fail) /\ pc' = Here /\ UNCHANGED <<s, cur, calls, mem, seen, truthful>>
    ELSE Continue(spec, r)
Stepped(spec, r) == AfterStep(spec, r, StepError(CallxError, r))
WithSpec(spec) == Stepped(spec, Step(spec.s, Ins, Here, Taken))
Execute ==
  /\ Running /\ Ins.op # "exit" /\ ~ Faults /\ ~ IsTracedSyscall
  /\ steps' = steps + 1
  /\ block' = Append(block, Here)
  /\ WithSpec(SpecCallFor(Prepared, Ins, Here, job.v3))
  /\ UNCHANGED <<job, plans, fault>>
----------------------------------------------------------------------------
(* After the walk.                                                          *)

Retry ==
  /\ status = "walked" /\ RetryPlan(s) # "Ready"
  /\ splits' = (IF RetryPlan(s) = "BlobSplits" THEN MergeBlobSplits(splits, s.newSplits) ELSE splits)
  /\ hot' = (IF RetryPlan(s) = "HotRegions" THEN MergeHotRegions(hot, s.newHot) ELSE hot)
  /\ status' = "begin"
  /\ UNCHANGED <<job, attempts, s, position, emitted, err, ghosts>>
RefuseOverlap ==
  /\ status = "walked" /\ RetryPlan(s) = "Ready" /\ s.overlap
  /\ Fail("ByteAliasing")
  /\ UNCHANGED <<job, plans, s, position, emitted, ghosts>>
Accept ==
  /\ status = "walked" /\ RetryPlan(s) = "Ready" /\ ~ s.overlap
  /\ status' = "accepted"
  /\ UNCHANGED <<job, plans, s, position, emitted, err, ghosts>>

\* build_code_req renders every walked instruction.
CodeReqError == {CodeMapError(job.code[p + 1], job.v3) : p \in Range(block)} \ {"none"}

\* build_sat_witness: every root is given a base far from the others, and the
\* atoms must not meet there.  Atoms of the return-data buffer are not compared.
\* Variables, constants, masks of a variable and combinations of fresh variables can
\* always be given a base.
WitnessRoot(span) == RootOf(span.root)
Combos(atoms) == {r \in {WitnessRoot(atoms[i].span) : i \in 1 .. Len(atoms)} : r[1] = "combo"}
Steerable(atoms, root) ==
  \/ root[1] \in {"reg", "mem", "const", "absolute"}
  \/ root[1] = "mask" /\ root[2][1] \in {"reg", "mem"}
  \/ /\ root[1] = "combo" /\ \A i \in 1 .. 8 : IsVar(root[2][i])
     /\ \A c \in Combos(atoms) \ {root} : Range(c[2]) \cap Range(root[2]) = {}
\* Any other root is used where it evaluates, as one without variables does, or is
\* solved for; whether that succeeds depends on operators and values left out here (SymAlu
\* has them).  A quotient by a register is only text and never evaluates.
Opaque(root) == root[1] = "raw" /\ root[2][1] = "divreg"
\* An alignment mask leaves the base of a variable as it is.
WitnessSpan(span) ==
  LET full == FullSpan(span)
  IN  IF full.root[1] = "mask" /\ full.root[2][1] \in {"reg", "mem"} THEN [full EXCEPT !.root = full.root[2]] ELSE full
Clash(a, b) ==
  a.span # ReturnDataSpan /\ b.span # ReturnDataSpan /\ Overlaps(WitnessSpan(a.span), WitnessSpan(b.span))
\* Mutant of AnyClash: the witness does not compare footprints.
MutAnyClash(atoms) == FALSE
AnyClash(atoms) == \E i, j \in 1 .. Len(atoms) : i < j /\ Clash(atoms[i], atoms[j])
WitnessRoots(q) == {WitnessRoot(q.pre[i].span) : i \in {j \in 1 .. Len(q.pre) : q.pre[j].span # ReturnDataSpan}}
AllPlaced(q) == \A r \in WitnessRoots(q) : Steerable(q.pre, r)
SatWitness(q) ==
  /\ \A r \in WitnessRoots(q) : ~ Opaque(r)
  /\ ~ q.unsized /\ ~ AnyClash(q.pre)

Emit ==
  /\ status = "accepted" /\ CodeReqError = {} /\ SatWitness(s)
  /\ status' = "emitted"
  /\ UNCHANGED <<job, plans, s, position, emitted, err, ghosts>>
RefuseCode ==
  /\ status = "accepted" /\ CodeReqError # {}
  /\ Fail(CHOOSE e \in CodeReqError : TRUE)
  /\ UNCHANGED <<job, plans, s, position, emitted, ghosts>>
RefuseWitness ==
  /\ status = "accepted" /\ CodeReqError = {} /\ ~ (SatWitness(s) /\ AllPlaced(s))
  /\ Fail("WitnessFailed")
  /\ UNCHANGED <<job, plans, s, position, emitted, ghosts>>

Ended == status \in {"emitted", "error"}
Finished == Ended /\ UNCHANGED vars

Next ==
  \/ GiveUp \/ BeginPass \/ StepLimit \/ EndWalk \/ NestedExit \/ FaultEnd \/ Syscall \/ Execute
  \/ Retry \/ RefuseOverlap \/ Accept \/ Emit \/ RefuseCode \/ RefuseWitness \/ Finished

\* The walk is one loop of one thread: while it has not ended it goes on.  This is
\* WF_vars(Next), with ENABLED <<Next>>_vars written out as ~ Ended.
Spec == Init /\ [][Next]_vars /\ (<>[](~ Ended) => []<><<Next>>_vars)
----------------------------------------------------------------------------
(* Properties.                                                              *)

\* post_atoms: the atoms of the precondition, with what they hold at the end.
PostAtoms(q) ==
  [i \in 1 .. Len(q.pre) |->
     LET a == q.pre[i]
         c == SelectInSeq(q.cells, LAMBDA x : CellSpan(x) = a.span)
         b == SelectInSeq(q.post, LAMBDA x : Span(x.at, 0, x.v.len).root = a.span.root /\ Span(x.at, 0, 1).lo = a.span.lo)
     IN  IF a.value[1] = "mem" THEN [span |-> a.span, value |-> q.cells[c].value]
         ELSE IF a.value[1] = "blob" /\ b # 0
                THEN [span |-> [a.span EXCEPT !.hi = a.span.lo + q.post[b].v.len], value |-> q.post[b].v.of]
                ELSE a]

\* What an atom of the postcondition says of its j-th byte; a blob that no
\* syscall wrote holds what it held before.
PostByte(q, a, j) ==
  CASE a.value[1] = "blob" -> <<"init", FullSpan(a.span).root, FullSpan(a.span).lo + j>>
    [] a.value[1] = "copy" -> <<"init", FullSpan(a.value[2]).root, FullSpan(a.value[2]).lo + j>>
    [] OTHER -> ByteOf(q.pre, a.value, j)

Accepted == status \in {"accepted", "emitted"}
NoSyscalls == \A p \in Range(block) : job.code[p + 1].op \notin {"sys", "callx"}

\* An emitted theorem is true of an execution of the same instructions: every load of the
\* walk found the bytes that earlier stores left there, whatever the widths and the
\* renderings of the addresses (lookup_cell_aliased, read_mem, write_mem), and every
\* cell and blob of the postcondition holds the bytes the execution leaves at that
\* address.
LiftIsTrue ==
  status = "emitted" =>
    /\ truthful
    /\ \A i \in 1 .. Len(s.pre) :
         LET a == PostAtoms(s)[i]
             t == FullSpan(a.span)
         IN  a.span = ReturnDataSpan \/
             \A j \in 0 .. t.hi - t.lo - 1 : PostByte(s, a, j) = ByteAt(mem, t.root, t.lo + j)

ShareAByte(a, b) == a.root = b.root /\ (a.lo .. a.hi - 1) \cap (b.lo .. b.hi - 1) # {}

\* No theorem is emitted over a precondition whose memory atoms share a byte
\* (soundness audit H8: it would hold vacuously).  The return-data buffer is no memory.
NoVacuousLift ==
  status = "emitted" =>
    \A i, j \in 1 .. Len(s.pre) :
      i < j /\ s.pre[i].span # ReturnDataSpan /\ s.pre[j].span # ReturnDataSpan
        => ~ ShareAByte(FullSpan(s.pre[i].span), FullSpan(s.pre[j].span))

\* The region requirement has one clause for each access of the walk, in order, at the
\* same address and for the same size and right: no store is checked as a load, and no
\* store of a discarded shape is lost.  One kind of clause is at another address: that of
\* a byte access which an earlier rendering of the same byte serves names the first byte
\* of the cells of that access, up to seven before it (the clause drops the delta of the
\* byte cell, state.rs:648 and 747, against the comment at 642).
IsClauseFor(c, t) ==
  /\ c.root = t.root /\ c.hi - c.lo = t.hi - t.lo
  /\ c.lo = t.lo \/ (t.hi - t.lo = 1 /\ t.lo - c.lo \in 1 .. 7)
EveryAccessHasItsClause ==
  Accepted /\ NoSyscalls =>
    /\ Len(s.rr) = Len(seen)
    /\ \A i \in 1 .. Len(seen) : s.rr[i].w = seen[i].w /\ IsClauseFor(FullSpan(s.rr[i].span), seen[i].span)

\* What the specification calls cite exists: variables are owned by an atom of
\* the precondition; equations, path conditions, divisors and the bounds of reloaded
\* values are hypotheses, a bound on the value and the width it is cited for.
Declared(c) ==
  CASE c[1] = "var" -> \E i \in 1 .. Len(s.pre) : s.pre[i].value = c[2]
    [] c[1] = "lt" -> \E i \in 1 .. Len(s.pre) : s.pre[i].value = c[2]
    [] c[1] = "h_branch" -> c[2] < Len(s.branches)
    [] OTHER -> c \in Range(s.hyps)
CitationsExist ==
  Accepted => \A i \in 1 .. Len(calls) : \A c \in calls[i].cites : Declared(c)

\* An accepted walk is a path of the program.  A conditional jump goes to its target or
\* falls through, a return goes to the instruction after its call, with the frame pointer
\* back once every call has returned, and a callx goes to the address in its register.
\* Straight-line code goes on behind itself and ja and call to their targets: in a static
\* walk always, in a traced one if the trace does, for there the walker takes the next
\* pc of the trace without a look (walk.rs:391-394).  The calls that are open are found
\* from the walked instructions alone; a traced call by hash that does not go on behind
\* itself has entered a function, wherever the trace says.
At(i) == job.code[block[i] + 1]
Goes(i, p) == i < Len(block) => block[i + 1] = p
Opens(i) == At(i).op \in {"call", "callx"} \/ (At(i).op = "sys" /\ ~ Goes(i, block[i] + 1))
Across(open, i) ==
  IF Opens(i) THEN Append(open, block[i]) ELSE IF At(i).op = "exit" THEN Front(open) ELSE open
OpenBefore[i \in 1 .. Len(block)] == IF i = 1 THEN <<>> ELSE Across(OpenBefore[i - 1], i - 1)
Straight == {"ldx", "stx", "st", "add", "sub", "mov", "movr", "alu"}
TraceRuns ==
  job.traced => \A k \in 1 .. Len(job.trace) - 1 :
    LET p == job.trace[k]
    IN  p < Len(job.code) =>
          /\ job.code[p + 1].op \in Straight => job.trace[k + 1] = p + 1
          /\ job.code[p + 1].op \in {"ja", "call"} => job.trace[k + 1] = job.code[p + 1].t
Follows(i, open) ==
  /\ At(i).op = "jcc" => Goes(i, At(i).t) \/ Goes(i, block[i] + 1)
  /\ At(i).op = "exit" => open # <<>> /\ Goes(i, Last(open) + 1)
  /\ At(i).op \in Straight /\ TraceRuns => Goes(i, block[i] + 1)
  /\ At(i).op \in {"ja", "call"} /\ TraceRuns => Goes(i, At(i).t)
\* Behind a callx: what its register held is in the new frame if a call saves it.
HeldBefore(q, d) == IF d \in 6 .. 10 THEN Last(q.stack).saved[d] ELSE q.regs[d]
CallxIsFollowed ==
  status = "walking" /\ job.v3 /\ block # <<>> /\ At(Len(block)).op = "callx"
    => ~ TraceOver /\ Here = Address(HeldBefore(s, At(Len(block)).d))
WalkIsAPath ==
  /\ Accepted =>
       /\ \A i \in 1 .. Len(block) : Follows(i, OpenBefore[i])
       /\ s.stack = <<>> => s.regs[10] = InitReg(10)
  /\ CallxIsFollowed

\* Every walked instruction has its specification call, in the order of the walk; the
\* one exception is sub64 imm, which step executes and spec_call_for does not know.
CallsUpTo(i) == Cardinality({j \in 1 .. i : At(j).op # "sub"})
CallsFollowBlock ==
  status = "emitted" =>
    /\ Len(calls) = CallsUpTo(Len(block))
    /\ \A i \in 1 .. Len(block) : At(i).op # "sub" => calls[CallsUpTo(i)].pc = block[i]

\* Every lift ends, with a theorem or a diagnostic.
LiftEnds == <>Ended

=============================================================================
