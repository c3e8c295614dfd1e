------------------------------- MODULE SymAlu -------------------------------
(***************************************************************************)
(* What qedlift's expressions mean.  A register is followed twice: as the  *)
(* machine computes it (SVM/SBPF/Execute.lean) and as the expression that  *)
(* step keeps of it (exec/step.rs), which eval_expr and solve_expr (core.  *)
(* rs) evaluate and invert for the satisfiability witness (emit.rs).       *)
(* Conditional jumps leave a path hypothesis (branch.rs).                  *)
(*                                                                         *)
(* Words are Bits wide in place of 64, Half in place of 32, and a byte has *)
(* ByteBits bits.                                                          *)
(***************************************************************************)
EXTENDS Integers, Sequences, FiniteSets, TLC, Bitwise, SequencesExt

CONSTANTS Bits, Half, ByteBits, Inputs, Imms, MaxSteps, FirstBases, Spacing

M64 == 2 ^ Bits
M32 == 2 ^ Half
Registers == {1, 2, 10}

\* held is the history of exprs: the register files before the present one.
VARIABLES regs, exprs, env, path, held, n
vars == <<regs, exprs, env, path, held, n>>

\* toU64 and toSigned64, and the 32-bit form of the latter.
ToU64(k) == k % M64
Signed(x, mod) == IF x < mod \div 2 THEN x ELSE x - mod
ToSigned64(x) == Signed(x, M64)

ImmOps == {"add", "sub", "and", "lsh", "rsh", "or", "xor", "mul", "div", "mod", "arsh", "arsh32", "mov"}
RegOps == {"add", "sub", "mul", "or", "and", "xor", "lsh", "rsh", "arsh", "arsh32", "mov"}
UnaryOps == {"neg", "le16", "le32", "be16", "be32", "be64"}
Conds == {"eq", "ne", "gt", "ge", "lt", "le", "sgt", "sge", "slt", "sle", "set"}
----------------------------------------------------------------------------
(* The machine.                                                             *)

\* An arithmetic right shift as Execute.lean writes it: the sign fills the high bits.
MachineArsh(a, s, mod) ==
  IF a < mod \div 2 THEN shiftR(a, s)
  ELSE (shiftR(a, s) | ((mod - 1) - (mod \div (2 ^ s) - 1))) % mod

\* endianValue: the low bytes, in the other order when big-endian.
Byte(x, i) == shiftR(x, ByteBits * i) % (2 ^ ByteBits)
MachineEndian(x, bits, big) ==
  LET low == x % (2 ^ bits)
      at[i \in 0 .. bits \div ByteBits] == IF i = 0 THEN 0 ELSE at[i - 1] * (2 ^ ByteBits) + Byte(low, i - 1)
  IN  IF big THEN at[bits \div ByteBits] ELSE low

Exec(op, a, b) ==
  CASE op = "add" -> (a + b) % M64
    [] op = "sub" -> (a + M64 - (b % M64)) % M64
    [] op = "mul" -> (a * b) % M64
    [] op = "div" -> (a \div b) % M64
    [] op = "mod" -> a % b
    [] op = "or" -> (a | b) % M64
    [] op = "and" -> (a & b) % M64
    [] op = "xor" -> (a ^^ b) % M64
    [] op = "lsh" -> (a * 2 ^ (b % Bits)) % M64
    [] op = "rsh" -> shiftR(a, b % Bits)
    [] op = "arsh" -> MachineArsh(a, b % Bits, M64)
    [] op = "arsh32" -> MachineArsh(a % M32, b % Half, M32)
    [] op = "mov" -> b
    [] op = "neg" -> (M64 - (a % M64)) % M64
    [] op = "le16" -> MachineEndian(a, Half \div 2, FALSE)
    [] op = "le32" -> MachineEndian(a, Half, FALSE)
    [] op = "be16" -> MachineEndian(a, Half \div 2, TRUE)
    [] op = "be32" -> MachineEndian(a, Half, TRUE)
    [] op = "be64" -> MachineEndian(a, Bits, TRUE)

\* jump32Holds, on the low halves.
Jump32Holds(cond, x, y) ==
  LET a == x % M32
      b == y % M32
      sa == Signed(a, M32)
      sb == Signed(b, M32)
  IN  CASE cond = "eq" -> a = b [] cond = "ne" -> a # b [] cond = "gt" -> a > b [] cond = "ge" -> a >= b
        [] cond = "lt" -> a < b [] cond = "le" -> a <= b [] cond = "sgt" -> sa > sb [] cond = "sge" -> sa >= sb
        [] cond = "slt" -> sa < sb [] cond = "sle" -> sa <= sb [] cond = "set" -> (a & b) # 0

\* Where jeq .. jset and jmp32 go.
Goes(class, cond, a, b) ==
  LET sa == ToSigned64(a)
      sb == ToSigned64(b)
  IN  CASE class = 32 -> Jump32Holds(cond, a, b)
        [] cond = "eq" -> a = b [] cond = "ne" -> a # b [] cond = "gt" -> a > b [] cond = "ge" -> a >= b
        [] cond = "lt" -> a < b [] cond = "le" -> a <= b [] cond = "sgt" -> sa > sb [] cond = "sge" -> sa >= sb
        [] cond = "slt" -> sa < sb [] cond = "sle" -> sa <= sb [] cond = "set" -> (a & b) # 0
----------------------------------------------------------------------------
(* Expressions.                                                             *)

None == -1
Map2(x, y, v) == IF x = None \/ y = None THEN None ELSE v

\* Mutant of ArshValue: the shift ignores the sign.
MutArshValue(x, shift, bits) == shiftR(x % (2 ^ bits), shift % bits)
\* arsh_value and the byte swaps, as Rust computes them.
ArshValue(x, shift, bits) ==
  LET low == x % (2 ^ bits) IN (Signed(low, 2 ^ bits) \div 2 ^ (shift % bits)) % (2 ^ bits)
SwapBytes(x, bits) ==
  LET k == bits \div ByteBits
      sum[i \in 0 .. k] == IF i = 0 THEN 0 ELSE sum[i - 1] + Byte(x, i - 1) * 2 ^ (ByteBits * (k - i))
  IN  sum[k]

\* The value a closed operation is folded to.
Fold(op, x, y) ==
  CASE op = "or" -> x | y
    [] op = "and" -> x & y
    [] op = "xor" -> x ^^ y
    [] op = "lsh" -> (x * 2 ^ (y % Bits)) % M64
    [] op = "rsh" -> shiftR(x, y % Bits)
    [] op = "mul" -> (x * y) % M64
    [] op = "div" -> IF y = 0 THEN 0 ELSE x \div y
    [] op = "mod" -> IF y = 0 THEN x ELSE x % y
    [] op = "neg" -> (- x) % M64
    [] op = "arsh" -> ArshValue(x, y, Bits)
    [] op = "arsh32" -> ArshValue(x, y, Half)
    [] op = "le16" -> x % 2 ^ (Half \div 2)
    [] op = "le32" -> x % M32
    [] op = "be16" -> SwapBytes(x % 2 ^ (Half \div 2), Half \div 2)
    [] op = "be32" -> SwapBytes(x % M32, Half)
    [] op = "be64" -> SwapBytes(x, Bits)

\* eval_expr, None when a variable has no value or the term is opaque.
RECURSIVE EvalExpr(_, _)
EvalExpr(e, env0) ==
  CASE e[1] = "var" -> IF e[2] \in DOMAIN env0 THEN env0[e[2]] ELSE None
    [] e[1] = "imm" -> ToU64(e[2])
    [] e[1] \in {"rawconst"} -> e[5]
    [] e[1] = "raw" -> None
    [] e[1] = "combo" ->
         LET v(i) == EvalExpr(e[2][i], env0)
             sum[i \in 0 .. Len(e[2])] == IF i = 0 THEN 0 ELSE sum[i - 1] + v(i) * 2 ^ (ByteBits * (i - 1))
         IN  IF \E i \in 1 .. Len(e[2]) : v(i) = None THEN None ELSE sum[Len(e[2])] % M64
    [] OTHER ->
         LET x == EvalExpr(e[2], env0)
             y == EvalExpr(e[3], env0)
         IN  IF x = None \/ y = None THEN None
             ELSE CASE e[1] = "add" -> (x + y) % M64
                    [] e[1] = "sub" -> (x - y) % M64
                    [] e[1] = "mul" -> (x * y) % M64
                    [] e[1] = "nat" -> IF x + y >= M64 THEN None ELSE x + y
                    [] e[1] = "and" -> x & y
                    [] e[1] = "lsh" -> (x * 2 ^ (y % Bits)) % M64
                    [] e[1] = "rsh" -> shiftR(x, y % Bits)

Solved(ok, env0) == [ok |-> ok, env |-> env0]
\* Mutant of SolveExpr: a variable that has a value already is given another one.
MutSolveExpr(e, target, env0) ==
  LET of(b) == Byte(target, (CHOOSE i \in DOMAIN e[2] : e[2][i][2] = b) - 1)
  IN  CASE e[1] = "var" -> Solved(TRUE, (e[2] :> target) @@ env0)
        [] e[1] = "combo" -> Solved(TRUE, [b \in {x[2] : x \in {e[2][i] : i \in DOMAIN e[2]}} |-> of(b)] @@ env0)
        [] OTHER -> Solved(FALSE, env0)
\* solve_expr: the one variable without a value gets the one that yields target.
RECURSIVE SolveExpr(_, _, _)
SolveExpr(e, target, env0) ==
  LET here == EvalExpr(e, env0)
      x == EvalExpr(e[2], env0)
      y == EvalExpr(e[3], env0)
      known == IF here # None THEN Solved(here = target, env0) ELSE Solved(FALSE, env0)
      bytes[i \in 0 .. Len(e[2])] ==
        IF i = 0 THEN Solved(TRUE, env0)
        ELSE IF ~ bytes[i - 1].ok THEN bytes[i - 1] ELSE SolveExpr(e[2][i], Byte(target, i - 1), bytes[i - 1].env)
  IN  CASE here # None \/ e[1] \in {"raw", "rawconst", "imm", "mul", "lsh", "rsh"} -> known
        [] e[1] = "var" -> Solved(TRUE, (e[2] :> target) @@ env0)
        [] e[1] = "combo" ->
             LET out == bytes[Len(e[2])] IN Solved(out.ok /\ EvalExpr(e, out.env) = target, out.env)
        [] e[1] = "add" /\ x # None -> SolveExpr(e[3], (target - x) % M64, env0)
        [] e[1] = "add" /\ y # None -> SolveExpr(e[2], (target - y) % M64, env0)
        [] e[1] = "sub" /\ y # None -> SolveExpr(e[2], (target + y) % M64, env0)
        [] e[1] = "sub" /\ x # None -> SolveExpr(e[3], (x - target) % M64, env0)
        [] e[1] = "nat" /\ x # None -> IF target >= x THEN SolveExpr(e[3], target - x, env0) ELSE Solved(FALSE, env0)
        [] e[1] = "nat" /\ y # None -> IF target >= y THEN SolveExpr(e[2], target - y, env0) ELSE Solved(FALSE, env0)
        [] e[1] = "and" /\ (target & y) = target -> SolveExpr(e[2], target, env0)
        [] OTHER -> Solved(FALSE, env0)

\* canon_root_expr: the layers of constants are stripped; a constant has no root.
RECURSIVE CanonRootExpr(_)
CanonRootExpr(e) ==
  CASE e[1] \in {"add", "sub", "nat"} /\ e[3][1] = "imm" -> CanonRootExpr(e[2])
    [] e[1] \in {"add", "nat"} /\ e[2][1] = "imm" -> CanonRootExpr(e[3])
    [] OTHER -> e

\* build_sat_witness, over the addresses of the atoms in their order: variable roots
\* get a base each, then every other root that cannot be evaluated yet is steered to
\* the next one.  given holds the roots and their bases.
Base(first, w) == (first + Spacing * Cardinality(w.given)) % M64
Give(w, root, env0, first) == [ok |-> TRUE, env |-> env0, given |-> w.given \cup {<<root, Base(first, w)>>}]
PlaceVariable(w, root, first) ==
  IF root[1] # "var" \/ root[2] \in DOMAIN w.env THEN w ELSE Give(w, root, (root[2] :> Base(first, w)) @@ w.env, first)
Steer(w, root, first) ==
  LET out == SolveExpr(root, Base(first, w), w.env)
  IN  IF ~ w.ok \/ root[1] \in {"var", "imm"} \/ EvalExpr(root, w.env) # None THEN w
      ELSE IF out.ok THEN Give(w, root, out.env, first) ELSE [w EXCEPT !.ok = FALSE]
Witness(addrs, first) ==
  LET roots == [i \in DOMAIN addrs |-> CanonRootExpr(addrs[i])]
      start == [ok |-> TRUE, env |-> << >>, given |-> {}]
      placed == FoldLeft(LAMBDA w, root : PlaceVariable(w, root, first), start, roots)
      steered == FoldLeft(LAMBDA w, root : Steer(w, root, first), placed, roots)
  IN  [steered EXCEPT !.env = @ @@ [v \in DOMAIN env \ DOMAIN @ |-> 0]]
----------------------------------------------------------------------------
(* step                                                                     *)

\* Register forms keep add, sub and mul; immediate forms also and and shifts.
Structured(op, form) ==
  op \in {"add", "sub"} \/ (form = "reg" /\ op = "mul") \/ (form = "imm" /\ op \in {"and", "lsh", "rsh"})
RawValue(op, a, b) == Map2(EvalExpr(a, << >>), EvalExpr(b, << >>), Fold(op, EvalExpr(a, << >>), EvalExpr(b, << >>)))
Result(op, form, a, b) ==
  IF op = "mov" THEN b
  ELSE IF Structured(op, form) THEN <<op, a, b>>
  ELSE IF EvalExpr(a, << >>) = None \/ EvalExpr(b, << >>) = None THEN <<"raw", op, a, b>>
  ELSE <<"rawconst", op, a, b, RawValue(op, a, b)>>

Write(d, v, e) ==
  regs' = [regs EXCEPT ![d] = v] /\ exprs' = [exprs EXCEPT ![d] = e] /\ held' = Append(held, exprs)
Within == n < MaxSteps /\ n' = n + 1

\* Division by a constant zero faults; every other operation goes on.
AluImm(op, d, k) ==
  /\ Within /\ (op \in {"div", "mod"} => ToU64(k) # 0)
  /\ Write(d, Exec(op, regs[d], ToU64(k)), Result(op, "imm", exprs[d], <<"imm", k>>))
  /\ UNCHANGED <<env, path>>
AluReg(op, d, r) ==
  /\ Within
  /\ Write(d, Exec(op, regs[d], regs[r]), Result(op, "reg", exprs[d], exprs[r]))
  /\ UNCHANGED <<env, path>>
AluUnary(op, d) ==
  /\ Within
  /\ Write(d, Exec(op, regs[d], 0), Result(op, "unary", exprs[d], <<"imm", 0>>))
  /\ UNCHANGED <<env, path>>

\* call_local: the frame pointer moves by a plain addition.
Frame ==
  /\ Within
  /\ Write(10, regs[10] + 2, <<"nat", exprs[10], <<"imm", 2>>>>)
  /\ UNCHANGED <<env, path>>

\* lean_hyp: what a jump of this kind that went this way says of its operands, v and
\* s, the latter toU64 of an immediate.
\* (Mutant: jsge is rendered without its signs.)
MutLeanHyp(class, cond, taken, v, s) ==
  IF class = 64 /\ cond = "sge" THEN IF taken THEN v >= s ELSE ~ (v >= s) ELSE Goes(class, cond, v, s) = taken
LeanHyp(class, cond, taken, v, s) ==
  LET sv == ToSigned64(v)
      ss == ToSigned64(s)
  IN  CASE class = 32 -> Jump32Holds(cond, v, s) = taken
        [] cond = "eq" -> IF taken THEN v = s ELSE v # s
        [] cond = "ne" -> IF taken THEN v # s ELSE v = s
        [] cond = "gt" -> IF taken THEN v > s ELSE ~ (v > s)
        [] cond = "ge" -> IF taken THEN v >= s ELSE ~ (v >= s)
        [] cond = "lt" -> IF taken THEN v < s ELSE ~ (v < s)
        [] cond = "le" -> IF taken THEN v <= s ELSE ~ (v <= s)
        [] cond = "sgt" -> IF taken THEN sv > ss ELSE ~ (sv > ss)
        [] cond = "sge" -> IF taken THEN sv >= ss ELSE ~ (sv >= ss)
        [] cond = "slt" -> IF taken THEN sv < ss ELSE ~ (sv < ss)
        [] cond = "sle" -> IF taken THEN sv <= ss ELSE ~ (sv <= ss)
        [] cond = "set" -> IF taken THEN (v & s) # 0 ELSE ~ ((v & s) # 0)

\* A run ends with a conditional jump or after MaxSteps operations.
Jump(class, cond, d, b, eb) ==
  /\ n < MaxSteps /\ n' = MaxSteps
  /\ path' = path \cup {[class |-> class, cond |-> cond, d |-> exprs[d], s |-> eb, taken |-> Goes(class, cond, regs[d], b)]}
  /\ UNCHANGED <<regs, exprs, env, held>>

Var(x) == <<"var", x>>
\* Hot loads leave the combinations of their byte cells in registers; two of them may
\* share bytes.
Width == Bits \div ByteBits
Combo(from) == <<"combo", [i \in 1 .. Width |-> Var(<<"b", from + i>>)]>>
ByteEnv(x) == [b \in {<<"b", i>> : i \in 1 .. Width + Width \div 2} |-> Byte(x, b[2] - 1)]
Init ==
  /\ \E x, y \in Inputs :
       \/ /\ regs = [r \in Registers |-> IF r = 1 THEN x ELSE y]
          /\ exprs = [r \in Registers |-> Var(<<"r", r>>)]
          /\ env = [v \in {<<"r", r>> : r \in Registers} |-> regs[v[2]]]
       \/ LET bytes == x + M64 * y
              at(from) == shiftR(bytes, ByteBits * from) % M64
          IN  /\ regs = (1 :> at(0) @@ 2 :> at(Width \div 2) @@ 10 :> y)
              /\ exprs = (1 :> Combo(0) @@ 2 :> Combo(Width \div 2) @@ 10 :> <<"imm", y>>)
              /\ env = ByteEnv(bytes)
  /\ path = {} /\ held = << >> /\ n = 0
Next ==
  \/ \E op \in ImmOps, k \in Imms : AluImm(op, 1, k)
  \/ \E op \in RegOps, r \in Registers : AluReg(op, 1, r)
  \/ \E op \in UnaryOps : AluUnary(op, 1)
  \/ Frame
  \/ \E class \in {64, 32}, cond \in Conds :
       \/ \E k \in Imms : Jump(class, cond, 1, ToU64(k), <<"imm", k>>)
       \/ \E r \in Registers : Jump(class, cond, 1, regs[r], exprs[r])
  \/ n = MaxSteps /\ UNCHANGED vars
Spec == Init /\ [][Next]_vars
----------------------------------------------------------------------------
(* Properties.                                                              *)

\* eval_expr mirrors the machine: under the values that the program started with, an
\* expression that can be evaluated evaluates to what the register holds, after any
\* sequence of operations.
EvalMirrorsMachine ==
  \A r \in Registers : LET v == EvalExpr(exprs[r], env) IN v # None => v = regs[r]

\* The satisfiability witness places what it steers: for any two accesses, the second
\* one now, if all derived roots can be solved one after the other in the one
\* assignment, then every root that was given a base evaluates to it under the final
\* assignment.  A later root, which may share variables with an earlier one, takes no
\* value back.  (A jump changes no expression.)
Accesses ==
  {<<a, b>> : a \in UNION {{x[r] : r \in Registers} : x \in Range(held) \cup {exprs}}, b \in {exprs[r] : r \in Registers}}
SolvedMeansEvaluated ==
  path = {} =>
    \A addrs \in Accesses, first \in FirstBases :
      LET w == Witness(addrs, first)
      IN  w.ok => \A g \in w.given : EvalExpr(g[1], w.env) = g[2]

\* The path hypotheses of a walk hold in the run whose branches it followed, and
\* those of the other direction do not, so that the theorem is about this path and no
\* other.
PathHypothesesHold ==
  \A h \in path :
    LET a == EvalExpr(h.d, env)
        b == EvalExpr(h.s, env)
    IN  a # None /\ b # None =>
          LeanHyp(h.class, h.cond, h.taken, a, b) /\ ~ LeanHyp(h.class, h.cond, ~ h.taken, a, b)
=============================================================================
