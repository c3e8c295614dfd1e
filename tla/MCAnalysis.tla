----------------------------- MODULE MCAnalysis -----------------------------
(***************************************************************************)
(* Two families of programs.  The short ones are all programs of five      *)
(* instructions over small choices for each place, with an entry function  *)
(* in front of its helpers or behind them.  The long ones are a program    *)
(* that checks its input the way a compiled one does (number of accounts,  *)
(* data length, signer, stored key, discriminator), with the instruction   *)
(* at one place replaced.                                                  *)
(***************************************************************************)
EXTENDS Analysis, Bitwise

MCAnd(x, y) == x & y

Mov(d, k) == [op |-> "mov", d |-> d, imm |-> k, t |-> -1]
Movr(d, s) == [op |-> "movr", d |-> d, s |-> s, t |-> -1]
Ld(w, d, s, o) == [op |-> "ld", w |-> w, d |-> d, s |-> s, off |-> o, t |-> -1]
St(w, d, o, k) == [op |-> "st", w |-> w, d |-> d, off |-> o, imm |-> k, t |-> -1]
Add(d, k) == [op |-> "add", d |-> d, reg |-> FALSE, imm |-> k, t |-> -1]
AddR(d, s) == [op |-> "add", d |-> d, reg |-> TRUE, s |-> s, t |-> -1]
Mask(d, k) == [op |-> "and", d |-> d, reg |-> FALSE, imm |-> k, t |-> -1]
MaskR(d, s) == [op |-> "and", d |-> d, reg |-> TRUE, s |-> s, t |-> -1]
Alu(d) == [op |-> "alu", d |-> d, t |-> -1]
Nop == [op |-> "nop", t |-> -1]
Ja(t) == [op |-> "ja", t |-> t]
Jimm(c, d, k, t) == [op |-> "jcc", cmp |-> c, d |-> d, reg |-> FALSE, imm |-> k, s |-> 0, bits |-> 64, t |-> t]
Jreg(c, d, s, t) == [op |-> "jcc", cmp |-> c, d |-> d, reg |-> TRUE, imm |-> 0, s |-> s, bits |-> 64, t |-> t]
Jcc(t) == Jimm("any", 3, 0, t)
Cl(t) == [op |-> "call", t |-> t]
Sys(n) == [op |-> "sys", name |-> n, t |-> -1]
Cx == [op |-> "callx", t |-> -1]
Ex == [op |-> "exit", t |-> -1]

Body == {Nop, Mov(0, 0), Jcc(3), Jcc(0), Cl(4), Cl(3), Ja(9), Sys("other"), Ex}
Helper == {Ex, Mov(0, 1), Sys("sol_panic_"), Sys("abort"), Cl(4), Cl(9), Jcc(2), Ja(3)}
Short(code, entry, v) == [code |-> code, entry |-> entry, v3 |-> v, inputs |-> {<<0, 0>>}]
FrontJobs == {Short(<<a, b, c, d, e>>, 0, v) :
            a \in {Nop, Mov(0, 1), Jcc(2), Cl(3)}, b \in Body, c \in {Ex, Mov(0, 0), Cx}, d \in Helper,
            e \in {Ex, Sys("sol_panic_"), Alu(0)}, v \in BOOLEAN}
BackJobs == {Short(<<d, e, a, b, Ex>>, 2, TRUE) :
            d \in {Jcc(1), Nop, Cl(1)}, e \in {Sys("sol_panic_"), Cl(0), Ex, Jcc(0)},
            a \in {Jcc(4), Mov(0, 1), Mov(0, 0), Cl(0)}, b \in {Cl(0), Cl(1), Mov(0, 0), Jcc(2)}}

\* The input: 1 account at 2 with key 1, 2, 3, 1, four bytes of data at 10 that
\* hold a key, the instruction data at 20.
InputWith(count, signer, len, limb0, limb1, disc) ==
  <<count, 0, 3, signer, 1, 2, 3, 1, 0, len, 1, limb0, 3, limb1, 0, 0, 0, 0, 1, 0, disc, 0>>
Inputs == {InputWith(x[1], x[2], x[3], x[4], x[5], x[6]) :
             x \in {y \in {0, 1} \X {0, 1} \X {0, 1} \X {0, 2} \X {0, 1} \X {0, 1, 2} :
                      Cardinality({i \in 1 .. 5 : y[i] # <<1, 1, 1, 2, 1>>[i]}) <= IF y[6] = 0 THEN 0 ELSE 1}}
Err == 15
Good == 17
Checked == <<
  Ld("dword", 2, 1, 0),  Jimm("ne", 2, 1, Err),       \* 0: the number of accounts
  Ld("dword", 3, 1, 8),  Jimm("ne", 3, 4, Err),       \* 2: the data length
  Ld("byte", 2, 1, 3),   Jimm("eq", 2, 0, Err),       \* 4: the signer flag
  Ld("dword", 2, 1, 4),  Ld("dword", 3, 1, 10), Jreg("ne", 2, 3, Err),    \* 6: the key
  Ld("dword", 2, 1, 6),  Ld("dword", 3, 1, 12), Jreg("ne", 2, 3, Err),
  Ld("byte", 6, 1, 20),  Jimm("eq", 6, 1, Good), Jimm("eq", 6, 2, Good + 3),  \* 12: dispatch
  Mov(0, 1), Ex,
  Ld("byte", 2, 1, 21), Jimm("ne", 2, 0, Err), Ja(21), Ld("byte", 3, 1, 3), Mov(0, 0), Ex,    \* 17: two handlers
  Mov(6, 1), St("byte", 1, 3, 1), Ex >>                                   \* 23: a function
Common(p) ==
  {Nop, Sys("other"), Cl(23), St("byte", 1, 3, 1), St("dword", 1, 10, 0), Ja(p + 2),
   Jimm("ne", 2, 0, Err), Jimm("eq", 2, 1, Good), Jimm("ne", 3, 4, p + 2), Jreg("eq", 2, 3, p + 2)}
Rare(p) ==
  {Movr(2, 3), Add(1, 2), Add(3, 1), Mask(3, 12), AddR(1, 3), AddR(3, 1), AddR(3, 3),
   MaskR(3, 1), MaskR(1, 3), Alu(2), Cl(24), Cx, Sys("abort"), St("byte", 1, 7, 0),
   St("dword", 10, 0, 0), St("byte", 3, 60, 0), Ld("byte", 2, 1, 20), Ld("dword", 2, 10, 0), Ld("byte", 2, 1, 100),
   Ja(0), Ja(40), Jimm("ne", 2, 2, Good), Jimm("gt", 3, 3, p + 1), Jimm("eq", 3, 4, p + 2), Jreg("eq", 2, 3, Good)}
Replaced == UNION {{p} \X Common(p) : p \in 0 .. Good + 3} \cup UNION {{p} \X Rare(p) : p \in {4, 9, 17}}
LongJobs == {[code |-> [Checked EXCEPT ![x[1] + 1] = x[2]], entry |-> 0, v3 |-> TRUE, inputs |-> Inputs] : x \in Replaced}
MCJobs == FrontJobs \cup BackJobs \cup LongJobs

\* The data length is compared in its low half only.
Jmp32Jobs == {[code |-> [Checked EXCEPT ![4].bits = 32], entry |-> 0, v3 |-> TRUE, inputs |-> Inputs]}
=============================================================================
