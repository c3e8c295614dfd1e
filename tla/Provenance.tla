----------------------------- MODULE Provenance -----------------------------
(***************************************************************************)
(* success_proofs/provenance.rs: what each register holds in terms of the  *)
(* program's initial input, by abstract interpretation over the successor  *)
(* graph, given input words that are assumed to hold.                      *)
(*                                                                         *)
(* The data instructions, all of flow "seq":                               *)
(*   mov d imm   movr d s   ld w d s off   st w d off imm                  *)
(*   add d imm   add d s    and d imm   and d s                            *)
(*   alu d (anything else)  nop                                            *)
(* A dword is scaled down to Dword bytes.                                  *)
(***************************************************************************)
EXTENDS ControlFlow

CONSTANTS
  ByteValues,   \* values of a byte
  Modulus,      \* registers and addresses are below it (2^64)
  MaxOff,       \* offsets of instructions lie between -MaxOff and MaxOff (16 bits)
  StackStart,   \* nothing is mapped below it
  StackTop,     \* r10 in the entry function
  InputStart,   \* INPUT_START, above the stack
  FpReach,      \* 0x1000: a store this far above the frame pointer stays in the stack
  BitAnd(_, _)     \* bitwise conjunction of words

ASSUME LayoutAssumption ==
  /\ ByteValues \in Nat \ {0} /\ Modulus \in Nat /\ MaxOff \in Nat /\ FpReach \in Nat
  /\ ByteValues * ByteValues <= Modulus    \* a dword fits in a register
  /\ StackStart \in Nat /\ StackTop \in Nat /\ InputStart \in Nat
  /\ MaxOff <= StackStart /\ MaxOff <= StackTop
  /\ StackTop + FpReach < InputStart /\ InputStart < Modulus
Words == 0 .. Modulus - 1
ASSUME AndAssumption == \A x, y \in Words : BitAnd(x, y) \in Words

Dword == 2
MaxOffset == Modulus - 1 - Dword
FuelPerInsn == 40

Regs == {0, 1, 2, 3, 6, 10}
WidthBytes(w) == IF w = "byte" THEN 1 ELSE Dword

Top == <<"top">>
K(n) == <<"const", n % Modulus>>
InPtr(o) == <<"inptr", o>>
Fp == <<"fp">>
InLoad(w, o) == <<"inload", w, o>>
Unknown == -1

\* What may have been written of the input: ranges, or anything at all.
Anywhere == [known |-> FALSE, ranges |-> {}]
Initial == [regs |-> [r \in Regs |-> CASE r = 1 -> InPtr(0) [] r = 10 -> Fp [] OTHER -> Top],
            written |-> [known |-> TRUE, ranges |-> {}]]

\* AVal::known and AVal::of_known; asm is a sequence of [off, value] for dwords.
Known(v, asm) ==
  CASE v[1] = "const" -> v[2]
    [] v[1] = "inptr" -> InputStart + v[2]
    [] v[1] = "inload" ->
         LET found == {i \in DOMAIN asm : asm[i].off = v[3] /\ v[2] = "dword"}
         IN  IF found = {} THEN Unknown ELSE asm[Min(found)].value
    [] OTHER -> Unknown
OfKnown(ptr, r) == IF ptr /\ r >= InputStart THEN InPtr(r - InputStart) ELSE K(r)

\* AState::set: r10 is never written.
SetReg(a, d, v) ==
  IF d = 10 THEN a
  ELSE [regs |-> [r \in Regs |-> IF r = d THEN v ELSE a.regs[r]], written |-> a.written]

\* AState::join and AState::le
Join(a, b) ==
  [regs |-> [r \in Regs |-> IF a.regs[r] = b.regs[r] THEN a.regs[r] ELSE Top],
   written |-> IF a.written.known /\ b.written.known
                 THEN [known |-> TRUE, ranges |-> a.written.ranges \cup b.written.ranges]
                 ELSE Anywhere]
Le(a, b) ==
  /\ \A r \in Regs : b.regs[r] = Top \/ a.regs[r] = b.regs[r]
  /\ b.written.known => a.written.known /\ a.written.ranges \subseteq b.written.ranges

InRange(o) == o >= 0 /\ o <= MaxOffset
\* Mutant of LoadValue: what the program has stored before is not looked at.
MutLoadValue(a, ins) ==
  LET base == a.regs[ins.s]
  IN  IF base[1] = "inptr" /\ InRange(base[2] + ins.off) THEN InLoad(ins.w, base[2] + ins.off) ELSE Top
\* A load of the untouched input is pinned, with the widest access in mind.
LoadValue(a, ins) ==
  LET base == a.regs[ins.s]
      o == base[2] + ins.off
  IN  IF base[1] = "inptr" /\ a.written.known
      THEN IF InRange(o) /\ \A x \in a.written.ranges : o + Dword <= x \/ x + Dword <= o
             THEN InLoad(ins.w, o) ELSE Top
      ELSE Top
Touched(a, ranges) == [regs |-> a.regs, written |-> [known |-> TRUE, ranges |-> ranges]]
\* A store is recorded as Dword bytes, whatever its width.
AfterStore(a, ins) ==
  LET base == a.regs[ins.d]
  IN  IF base = Fp /\ ins.off <= FpReach THEN a
      ELSE IF base[1] = "inptr" /\ InRange(base[2] + ins.off)
             THEN IF a.written.known THEN Touched(a, a.written.ranges \cup {base[2] + ins.off}) ELSE a
             ELSE [regs |-> a.regs, written |-> Anywhere]
\* ADD and AND, with an immediate or a register, fold operands that are known, the
\* assumed words included; the result points into the input when an operand does.
FoldOperand(a, ins) == IF ins.reg THEN a.regs[ins.s] ELSE K(ins.imm)
Folded(a, ins, asm) ==
  LET x == Known(a.regs[ins.d], asm)
      y == Known(FoldOperand(a, ins), asm)
  IN  IF x = Unknown \/ y = Unknown THEN Top
      ELSE OfKnown(a.regs[ins.d][1] = "inptr" \/ FoldOperand(a, ins)[1] = "inptr",
                   IF ins.op = "add" THEN (x + y) % Modulus ELSE BitAnd(x, y) % Modulus)
Forget(a, rs) == [regs |-> [r \in Regs |-> IF r \in rs THEN Top ELSE a.regs[r]], written |-> Anywhere]

\* AState::step
AbsStep(a, job, p, asm) ==
  LET ins == At(job, p)
  IN  CASE ins.op \in {"add", "and"} -> SetReg(a, ins.d, Folded(a, ins, asm))
        [] Kind(job, p) = "call" -> Forget(a, Regs \cap 0 .. 5)
        [] Kind(job, p) = "syscall" -> Forget(a, Regs \cap 0 .. 9)
        [] ins.op = "mov" -> SetReg(a, ins.d, K(ins.imm))
        [] ins.op = "movr" -> SetReg(a, ins.d, a.regs[ins.s])
        [] ins.op = "ld" -> SetReg(a, ins.d, LoadValue(a, ins))
        [] ins.op = "st" -> AfterStore(a, ins)
        [] ins.op = "alu" -> SetReg(a, ins.d, Top)
        [] OTHER -> a

\* Successors in the order of the graph: the target of a branch, then what follows.
InOrder(job, succ, p) ==
  IF Kind(job, p) = "branch" THEN <<Target(job, p), p + 1>> ELSE SetToSeq(succ[p])

\* map_with.  A PC nothing is known of yet has no state.
NoState == [regs |-> <<>>, written |-> Anywhere]
AVals == {Top, Fp} \cup {"const", "inptr"} \X Nat \cup {"inload"} \X {"byte", "dword"} \X Nat
AStates == [regs : [Regs -> AVals], written : [known : BOOLEAN, ranges : SUBSET Nat]]
Worklists(job) == [map : [PCs(job) -> AStates \cup {NoState}], work : Seq(PCs(job)), fuel : Nat]

Absorb(w, q, out) ==
  LET joined == IF w.map[q] = NoState THEN out ELSE Join(w.map[q], out)
  IN  IF w.map[q] = joined THEN w
      ELSE [w EXCEPT !.map[q] = joined, !.work = <<q>> \o @]
Process(job, succ, asm, w, p) ==
  LET out == AbsStep(w.map[p], job, p, asm)
  IN  FoldLeft(LAMBDA acc, q : Absorb(acc, q, out), [w EXCEPT !.work = Tail(@), !.fuel = @ - 1],
               InOrder(job, succ, p))
Worklist(job, succ, asm, first) ==
  LET run[w \in Worklists(job)] ==
        IF w.work = <<>> \/ w.fuel = 0 THEN w ELSE run[Process(job, succ, asm, w, Head(w.work))]
  IN  run[first]

\* The check of a map: it describes the start, and it is a post-fixpoint.
IsPostFixpoint(job, succ, asm, map) ==
  /\ map[job.entry] # NoState /\ Le(Initial, map[job.entry])
  /\ \A p \in PCs(job) : map[p] # NoState =>
       \A q \in succ[p] : map[q] # NoState /\ Le(AbsStep(map[p], job, p, asm), map[q])
\* The map, or the error of one that is none.
Judge(job, succ, asm, w) == [ok |-> w.work = <<>> /\ IsPostFixpoint(job, succ, asm, w.map), map |-> w.map]
AbstractMap(job, succ, asm) ==
  Judge(job, succ, asm,
        Worklist(job, succ, asm,
                 [map |-> [p \in PCs(job) |-> IF p = job.entry THEN Initial ELSE NoState],
                  work |-> <<job.entry>>, fuel |-> FuelPerInsn * Len(job.code)]))
=============================================================================
