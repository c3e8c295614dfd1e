------------------------------ MODULE SymStep -------------------------------
(***************************************************************************)
(* One instruction of qedlift's walk: its effect on the symbolic state     *)
(* (exec/step.rs), the specification call that the proof of the step cites *)
(* (spec_call.rs), the branch decision (exec/control.rs) and the rendering *)
(* of the instruction in the program's code map (isa.rs).                  *)
(*                                                                         *)
(* Instructions are records; op names a family:                            *)
(*   ldx w d s off   stx w d off s   st w d off imm                        *)
(*   add d imm       sub d imm       mov d imm       movr d s              *)
(*   alu d s kind    kind in AluKinds, the result is opaque (and64 with an *)
(*                   alignment mask keeps its operand under "mask")        *)
(*   jcc cond bits d imm t   ja t    call t   sys name   callx d   exit    *)
(***************************************************************************)
EXTENDS SymSyscalls

CONSTANT Modulus32   \* what a 32-bit comparison keeps (2^32 in the code)

AluKinds == {"imm64", "mask64", "reg64", "imm32", "reg32", "divreg"}
Ops == {"ldx", "stx", "st", "add", "sub", "mov", "movr", "alu", "jcc", "ja", "call", "sys", "callx", "exit", "bad"}

Done(s) == [s |-> s, err |-> "none"]
Failed(s, kind) == [s |-> s, err |-> kind]
Hyp(s, h) == [s EXCEPT !.hyps = Append(@, h)]
----------------------------------------------------------------------------
(* step                                                                     *)

\* A value that is not a variable of the precondition has no bound of its own: a
\* reload of it takes one as a hypothesis, that the value is below 2^64 (or the
\* width of the load).  A dword of combined bytes gets none.
IsVar(v) == v[1] = "mem"
Loaded(r, ins, pc) ==
  LET bound == ins.w # "B" /\ ~ IsVar(r.v) /\ ~ (ins.w = "D" /\ r.v[1] = "combo")
      h == IF bound THEN Hyp(r.s, <<"hReloadLt", pc, r.v, ins.w>>) ELSE r.s
  IN  [h EXCEPT !.regs[ins.d] = IF ins.w = "B" THEN <<"mod", r.v>> ELSE r.v]
LoadStep(s, ins, pc) == Loaded(ReadMem(s, s.regs[ins.s], ins.off, ins.w), ins, pc)

\* Only the byte form reduces the value it stores.
StoreRegStep(s, ins) ==
  LET v == s.regs[ins.s]
  IN  WriteMem(s, s.regs[ins.d], ins.off, ins.w, IF ins.w = "B" THEN <<"mod", v>> ELSE v)
StoreImmStep(s, ins) ==
  WriteMem(s, s.regs[ins.d], ins.off, ins.w,
           IF ins.w = "B" THEN <<"mod", Const(ins.imm)>> ELSE <<"imm", ins.imm, ins.w>>)

\* mov64, lddw, and add64 and sub64 with an immediate keep their structure.
MoveStep(s, ins) ==
  [s EXCEPT !.regs[ins.d] =
     CASE ins.op = "mov" -> Const(ins.imm)
       [] ins.op = "movr" -> s.regs[ins.s]
       [] ins.op = "add" -> Layer(@, "wrap", ins.imm)
       [] ins.op = "sub" -> Layer(@, "sub", ins.imm)]

Alu64Step(s, ins) ==
  [s EXCEPT !.regs[ins.d] =
     IF ins.kind = "mask64" THEN <<"mask", @>>
     ELSE <<"raw", <<ins.kind, @, IF ins.kind = "reg64" THEN s.regs[ins.s] ELSE "imm">>>>]
Alu32Step(s, ins) ==
  [s EXCEPT !.regs[ins.d] =
     <<"raw", <<ins.kind, @, IF ins.kind = "reg32" THEN s.regs[ins.s] ELSE "imm">>>>]
\* Division by a register assumes a divisor other than zero.
DivRegStep(s, ins, pc) ==
  LET h == Hyp(s, <<"hnz", pc>>)
  IN  [h EXCEPT !.regs[ins.d] = <<"raw", <<ins.kind, @, s.regs[ins.s]>>>>]

\* A conditional jump records which way it went.
BranchStep(s, ins, taken) ==
  [s EXCEPT !.branches = Append(@, [cond |-> ins.cond, bits |-> ins.bits, d |-> s.regs[ins.d],
                                    imm |-> ins.imm, taken |-> taken])]

\* call_local and callx push r6..r10 and move the frame pointer.
CallStep(s, pc) ==
  [s EXCEPT !.stack = Append(@, [pc |-> pc, saved |-> [r \in 6 .. 10 |-> s.regs[r]]]),
            !.regs[10] = Layer(@, "nat", 4096)]

Step(s, ins, pc, taken) ==
  CASE ins.op = "ldx" -> Done(LoadStep(s, ins, pc))
    [] ins.op = "stx" -> Done(StoreRegStep(s, ins))
    [] ins.op = "st" -> Done(StoreImmStep(s, ins))
    [] ins.op \in {"mov", "movr", "add", "sub"} -> Done(MoveStep(s, ins))
    [] ins.op = "alu" ->
         Done(CASE ins.kind \in {"imm64", "mask64", "reg64"} -> Alu64Step(s, ins)
                [] ins.kind \in {"imm32", "reg32"} -> Alu32Step(s, ins)
                [] ins.kind = "divreg" -> DivRegStep(s, ins, pc))
    [] ins.op = "jcc" -> Done(BranchStep(s, ins, taken))
    [] ins.op = "ja" -> Done(s)
    [] ins.op \in {"call", "sys", "callx"} -> Done(CallStep(s, pc))
    [] OTHER -> Failed(s, "OpcodeUnmodeled")

\* exit of a nested call: the saved registers come back.
PopFrame(s) ==
  LET f == Last(s.stack)
  IN  [s EXCEPT !.stack = Front(@), !.regs = [r \in DOMAIN @ |-> IF r \in 6 .. 10 THEN f.saved[r] ELSE @[r]]]
----------------------------------------------------------------------------
(* spec_call_for: the line `have h_<pc> := ...`, as the set of hypotheses    *)
(* and variables it cites.  It is built from the state before the step and  *)
(* reserves the names the step will allocate.                               *)

Cited(s, cites) == [s |-> s, some |-> TRUE, cites |-> cites]
NoSpec(s) == [s |-> s, some |-> FALSE, cites |-> {}]
AliasCite(hit, pc) == IF hit.i # 0 /\ hit.aliased THEN {<<"h_alias", pc>>} ELSE {}

\* The byte-level form: one argument per byte slot.
CiteFound(acc, e, off, pc, i) ==
  IF i = 0
    THEN [acc EXCEPT !.s = Reserve(@), !.cites = @ \cup {<<"var", <<"mem", "B", acc.s.next>>>>}, !.k = @ + 1]
  ELSE IF RenderedAs(acc.s.cells[i], e, off, acc.k) THEN [acc EXCEPT !.k = @ + 1]
  ELSE [acc EXCEPT !.cites = @ \cup {<<"h_alias", pc, acc.n>>}, !.n = @ + 1, !.k = @ + 1]
CiteSlot(acc, e, off, pc) == CiteFound(acc, e, off, pc, SlotIndex(acc.s, CanonAddr(e, off), acc.k))
CiteTwo(acc, e, off, pc) == CiteSlot(CiteSlot(acc, e, off, pc), e, off, pc)
CiteFour(acc, e, off, pc) == CiteTwo(CiteTwo(acc, e, off, pc), e, off, pc)
CiteWord(s, e, off, pc) == CiteFour([s |-> s, cites |-> {}, n |-> 0, k |-> 0], e, off, pc)
CiteDword(s, e, off, pc) == CiteFour(CiteWord(s, e, off, pc), e, off, pc)
CiteBytes(out) == Cited(out.s, out.cites)

\* A cell known or new; a load above a byte also cites a bound of the value.
CiteCell(s, e, off, w, bounded, pc) ==
  LET hit == LookupCell(s, e, off, w)
      v == s.cells[hit.i].value
      fresh == <<"mem", w, s.next>>
      bound(x) == IF ~ bounded THEN {} ELSE IF IsVar(x) THEN {<<"lt", x, w>>} ELSE {<<"hReloadLt", pc, x, w>>}
  IN  IF hit.i # 0 THEN Cited(s, AliasCite(hit, pc) \cup bound(v))
      ELSE Cited(Reserve(s), {<<"var", fresh>>} \cup bound(fresh))

CiteLoad(s, ins, pc) ==
  LET e == s.regs[ins.s]
  IN  IF ins.w = "D" /\ ins.d # ins.s /\ HotCovers(s, Span(e, ins.off, 8))
        THEN CiteBytes(CiteDword(s, e, ins.off, pc)) ELSE CiteCell(s, e, ins.off, ins.w, ins.w # "B", pc)
CiteStoreReg(s, ins, pc) == CiteCell(s, s.regs[ins.d], ins.off, ins.w, FALSE, pc)
CiteStoreImm(s, ins, pc) ==
  LET e == s.regs[ins.d]
  IN  IF ins.w = "W" /\ HotCovers(s, Span(e, ins.off, 4))
        THEN CiteBytes(CiteWord(s, e, ins.off, pc)) ELSE CiteCell(s, e, ins.off, ins.w, FALSE, pc)

\* There is no arm for sub64 with an immediate.
CiteMove(s, ins) == IF ins.op = "sub" THEN NoSpec(s) ELSE Cited(s, {})
CiteAlu64(s) == Cited(s, {})
CiteAlu32(s) == Cited(s, {})
CiteDivReg(s, pc) == Cited(s, {<<"hnz", pc>>})
\* The jump cites the path hypothesis that its step is about to record.
\* (Mutant: jumps have no specification.)
MutCiteJump(s) == NoSpec(s)
CiteJump(s) == Cited(s, {<<"h_branch", Len(s.branches)>>})
\* V3 selects the 32-bit comparison before any arm for the legacy opcodes.
CiteJump32(s) == Cited(s, {<<"h_branch", Len(s.branches)>>})
CiteCall(s) == Cited(s, {})
CiteExit(s) == Cited(s, {})

SpecCallFor(s, ins, pc, v3) ==
  CASE ins.op = "ldx" -> CiteLoad(s, ins, pc)
    [] ins.op = "stx" -> CiteStoreReg(s, ins, pc)
    [] ins.op = "st" -> CiteStoreImm(s, ins, pc)
    [] ins.op \in {"mov", "movr", "add", "sub"} -> CiteMove(s, ins)
    [] ins.op = "alu" -> (CASE ins.kind \in {"imm64", "mask64", "reg64"} -> CiteAlu64(s)
                            [] ins.kind \in {"imm32", "reg32"} -> CiteAlu32(s)
                            [] ins.kind = "divreg" -> CiteDivReg(s, pc))
    [] ins.op = "jcc" /\ v3 /\ ins.bits = 32 -> CiteJump32(s)
    [] ins.op = "jcc" /\ ~ (v3 /\ ins.bits = 32) -> CiteJump(s)
    [] ins.op \in {"call", "sys"} \/ (ins.op = "callx" /\ v3) -> CiteCall(s)
    [] ins.op = "ja" -> Cited(s, {})
    [] ins.op = "exit" -> CiteExit(s)
    [] OTHER -> NoSpec(s)
----------------------------------------------------------------------------
(* resolve_branch_taken: the trace decides, or the discriminator of the arm. *)

Low32(x) == x % Modulus32
NoDisc == -1
End == -1
TraceTaken(next, pc) == next # pc + 1
\* Mutant of TraceMismatch: the trace is believed.
MutTraceMismatch(next, ins, pc) == FALSE
TraceMismatch(next, ins, pc) == TraceTaken(next, pc) /\ next # End /\ next # ins.t
StaticTaken(ins, disc) ==
  /\ disc # NoDisc
  /\ CASE ins.cond = "eq" /\ ins.bits = 64 -> ins.imm = disc
       [] ins.cond = "eq" /\ ins.bits = 32 -> Low32(ins.imm) = Low32(disc)
       [] ins.cond = "ne" -> ins.imm # disc
       [] ins.cond = "gt" -> disc > ins.imm
       [] OTHER -> FALSE

\* insn_to_lean_full: the instructions that have no rendering in the code map.
CodeMapError(ins, v3) ==
  CASE ins.op = "bad" \/ (ins.op = "callx" /\ ~ v3) -> "OpcodeUnmodeled"
    [] ins.op = "sys" /\ v3 /\ ins.name \notin KnownSyscalls -> "CallUnresolved"
    [] OTHER -> "none"
=============================================================================
