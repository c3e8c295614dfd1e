------------------------------ MODULE MCWalker ------------------------------
(***************************************************************************)
(* Programs for the walker: every short program over a few loads and       *)
(* stores, and hand-written ones for control flow and syscalls.            *)
(***************************************************************************)
EXTENDS Walker

Ldx(w, d, r, off) == [op |-> "ldx", w |-> w, d |-> d, s |-> r, off |-> off]
Stx(w, d, off, r) == [op |-> "stx", w |-> w, d |-> d, off |-> off, s |-> r]
St(w, d, off, c) == [op |-> "st", w |-> w, d |-> d, off |-> off, imm |-> c]
Add(d, k) == [op |-> "add", d |-> d, imm |-> k]
Sub(d, k) == [op |-> "sub", d |-> d, imm |-> k]
Mov(d, k) == [op |-> "mov", d |-> d, imm |-> k]
Movr(d, r) == [op |-> "movr", d |-> d, s |-> r]
Alu(d, r, kind) == [op |-> "alu", d |-> d, s |-> r, kind |-> kind]
Jcc(c, bits, d, k, t) == [op |-> "jcc", cond |-> c, bits |-> bits, d |-> d, imm |-> k, t |-> t]
Ja(t) == [op |-> "ja", t |-> t]
Call(t) == [op |-> "call", t |-> t]
Sys(n) == [op |-> "sys", name |-> n]
Callx(d) == [op |-> "callx", d |-> d]
Exit == [op |-> "exit"]
Bad == [op |-> "bad"]

Static(code) == [code |-> code, traced |-> FALSE, trace |-> <<>>, disc |-> NoDisc, arm |-> NoArm,
                 entry |-> 0, v3 |-> FALSE]
Line(code) == [Static(code) EXCEPT !.traced = TRUE, !.trace = [i \in 1 .. Len(code) |-> i - 1]]
Traced(code, trace) == [Static(code) EXCEPT !.traced = TRUE, !.trace = trace]

\* Mixed widths at neighbouring addresses, through two renderings of one base.
Accs == {Ldx("B", 2, 1, 3), Ldx("D", 2, 1, 0), Ldx("D", 3, 1, 4), Ldx("W", 2, 1, 4), Ldx("B", 3, 6, 1),
         Stx("B", 1, 3, 2), Stx("D", 1, 0, 3), St("W", 1, 0, 7), St("W", 6, 0, 9), Ldx("D", 4, 6, -4),
         Stx("D", 10, -8, 2), Ldx("D", 4, 10, -8)}
Prelude == <<Movr(6, 1), Add(6, 4)>>
AccessJobs == {Static(Prelude \o p \o <<Exit>>) : p \in UNION {[1 .. n -> Accs] : n \in 1 .. 3}}

\* Syscalls and accesses on the regions below r6, r7 and r8, in any order.
Memset(r, fill, n) == <<Movr(1, r), Mov(2, fill), Mov(3, n), Sys("sol_memset_")>>
Copy(name, d, r) == <<Movr(1, d), Movr(2, r), Mov(3, 16), Sys(name)>>
Memcmp == <<Movr(1, 6), Movr(2, 7), Mov(3, 16), Movr(4, 8), Sys("sol_memcmp_")>>
Sysvar(id, n) == <<Mov(1, id), Movr(2, 8), Mov(3, 0), Mov(4, n), Sys("sol_get_sysvar")>>
Slice(r, ptr) == <<St("D", r, 0, ptr), St("D", r, 8, 4), Movr(1, r), Mov(2, 1)>>
Sha == Slice(9, 500) \o <<Movr(3, 8), Sys("sol_sha256")>>
Pda == Slice(9, 600) \o <<Movr(3, 7), Movr(4, 8), Sys("sol_create_program_address")>>
Log == <<Movr(1, 6), Mov(2, 4), Sys("sol_log_")>>
ReturnData == <<Movr(1, 6), Mov(2, 4), Sys("sol_set_return_data")>>
Blocks == {Memset(6, 0, 16), Memset(6, 1, 16), Memset(6, 0, 24), Memset(7, 1, 4), Copy("sol_memcpy_", 7, 6), Copy("sol_memmove_", 8, 7),
           Memcmp, Sysvar(1000, 17), Sha, Pda, Log, <<Sys("sol_log_64_")>>,
           <<Ldx("D", 5, 6, 8)>>, <<Ldx("D", 5, 6, 16)>>, <<Stx("D", 6, 8, 5)>>, <<Ldx("W", 5, 8, 0)>>,
           <<Ldx("B", 5, 8, 16)>>}
Refusals == {Sysvar(1001, 17), Sysvar(1000, 40), Sysvar(999, 17), <<Movr(1, 6), Sys("sol_get_sysvar")>>,
             <<Mov(2, 2), Sys("sol_sha256")>>, <<Sys("sol_sha256")>>,
             <<Ldx("D", 5, 9, 0), Ldx("D", 5, 9, 8), Movr(1, 9), Mov(2, 1), Sys("sol_sha256")>>,
             <<Sys("sol_keccak256")>>, <<Sys("sol_unknown")>>,
             <<Movr(1, 6), Movr(3, 7), Sys("sol_memset_")>>, ReturnData}
SyscallJobs == {Line(p \o <<Exit>>) : p \in Refusals \cup Blocks \cup {b \o c : b, c \in Blocks}
                                         \cup {b \o c \o d : b, c, d \in
                                                 {x \in Blocks : Len(x) = 1} \cup {Memset(6, 0, 24), Memset(6, 0, 16)}}}

\* Control flow, static and traced.
CallCode == <<Mov(6, 1), Call(4), Stx("D", 10, -8, 6), Exit, Mov(6, 2), Stx("D", 10, -8, 6), Call(8), Exit,
              Alu(7, 6, "reg64"), Exit>>
CallTrace == <<0, 1, 4, 5, 6, 8, 9, 7, 2, 3>>
BranchCode == <<Ldx("B", 2, 1, 0), Jcc("eq", 64, 2, 3, 5), Jcc("ne", 32, 2, 3, 4), Exit, Ja(3),
                Alu(3, 2, "divreg"), Jcc("gt", 64, 2, 1, 8), Jcc("lt", 64, 2, 1, 3), Alu(4, 2, "imm32"), Alu(4, 3, "reg32"),
                Alu(4, 3, "imm64"), Exit>>
CallxCode(a) == <<Mov(3, a), Callx(3), Exit, Callx(3), Exit>>
Plain == <<Mov(0, 0), Exit>>
MaskCode == <<Alu(1, 1, "mask64"), Ldx("D", 2, 1, 0), Exit>>
V3(j) == [j EXCEPT !.v3 = TRUE]
ControlJobs ==
  {Static(CallCode), Traced(CallCode, CallTrace), Traced(CallCode, <<0, 1, 4, 5, 6, 8, 9, 2, 3>>),
   Static(BranchCode), [Static(BranchCode) EXCEPT !.disc = 3], [Static(BranchCode) EXCEPT !.disc = 1],
   [Static(BranchCode) EXCEPT !.arm = 5], [Traced(BranchCode, <<0, 1, 2, 4, 3>>) EXCEPT !.arm = 4],
   [Traced(BranchCode, <<0, 1, 2, 3>>) EXCEPT !.arm = 5],
   Traced(BranchCode, <<0, 1, 5, 6, 8, 9, 10, 11>>), Traced(BranchCode, <<0, 1, 5, 6, 7, 3>>),
   Traced(BranchCode, <<0, 1, 4, 3>>), Traced(BranchCode, <<0, 1>>), Traced(Plain, <<>>), Traced(Plain, <<0, 1>>),
   Static(<<Mov(0, 0)>>), Static(<<Ja(0)>>),
   V3(Static(CallxCode(3))), V3(Static(CallxCode(4))), V3(Traced(CallxCode(4), <<0, 1, 4, 2>>)), V3(Traced(CallxCode(4), <<0, 1, 3>>)),
   V3(Static(CallxCode(9))), V3(Static(<<Callx(3), Exit>>)), Static(CallxCode(4)),
   Static(<<Bad, Exit>>), Static(<<Sys("abort"), Exit>>), Static(<<Mov(0, 0), Sys("sol_panic_")>>),
   Traced(<<Sys("sol_sha256"), Exit>>, <<0>>), Static(<<Sys("sol_sha256"), Exit>>), Static(<<Sys("sol_keccak256"), Exit>>),
   Static(<<Sys("sol_unknown"), Exit>>), V3(Static(<<Sys("sol_unknown"), Exit>>)), Static(MaskCode),
   Static(<<Ldx("B", 2, 1, 0), Ldx("B", 3, 2, 0), Exit>>),
   Traced(<<Sys("sol_unknown"), Exit, Mov(0, 1), Exit>>, <<0, 2, 3, 1>>),
   V3(Static(<<Mov(6, 3), Callx(6), Exit, Exit>>)),
   \* traces that leave straight-line code, and jump from ja and call elsewhere
   Traced(<<Mov(0, 0), Mov(0, 1), Mov(0, 2), Exit>>, <<0, 2, 3>>), Traced(<<Ja(2), Exit, Exit>>, <<0, 1>>),
   Traced(<<Call(3), Exit, Exit, Exit>>, <<0, 2, 1>>),
   \* addresses without variables, and a quotient
   Static(<<Mov(1, 4096), Alu(1, 1, "mask64"), Ldx("D", 2, 1, 0), Ldx("W", 3, 1, 8), Exit>>),
   Static(<<Mov(1, 4096), Alu(1, 1, "imm64"), Stx("D", 1, 0, 2), Ldx("B", 3, 1, 1), Exit>>),
   Static(<<Mov(2, 3), Alu(1, 2, "divreg"), Ldx("D", 2, 1, 0), Exit>>)}

\* Chains of pointers, with mixed widths behind each.
PointerJobs ==
  {Static(a \o <<Ldx("D", 2, 1, 16)>> \o b \o <<Exit>>) :
     a \in {<<>>, <<Ldx("B", 3, 1, 0), Ldx("D", 3, 1, 0)>>},
     b \in {<<Ldx("B", 4, 2, 0), Ldx("D", 4, 2, 0)>>, <<Ldx("B", 4, 2, 0), Ldx("D", 5, 2, 8), Ldx("B", 4, 5, 1), Ldx("D", 4, 5, 0)>>,
            <<Ldx("D", 5, 2, 0), Stx("W", 5, 2, 4), St("W", 5, 0, 1)>>}}
ChainJobs ==
  {Static(<<Ldx("B", 3, 1, 0), Ldx("D", 3, 1, 0), Ldx("D", 2, 1, 16), Ldx("B", 4, 2, 0), Ldx("D", 4, 2, 0),
            Ldx("D", 5, 2, 8), Ldx("B", 4, 5, 1), Ldx("D", 4, 5, 0)>> \o tail \o <<Exit>>) :
     tail \in {<<>>, <<Ldx("D", 6, 5, 8), Ldx("B", 4, 6, 2), Ldx("D", 4, 6, 0)>>}}
RetryJobs == PointerJobs \cup ChainJobs

\* A subtraction, and a trace that runs a loop body twice.
OtherJobs ==
  {Static(<<Sub(1, 8), Exit>>), Traced(<<Add(2, 1), Jcc("ne", 64, 2, 3, 0), Exit>>, <<0, 1, 0, 1, 2>>)}
\* Forms that the stepper serves from byte cells while the spec call names a wide
\* cell: a pointer load into its own base, and a store of a reloaded immediate; and
\* the reload of a spilled byte combination, whose bound is cited and not recorded.
FormJobs ==
  {Static(<<Ldx("B", 3, 1, 1), Ldx("D", 1, 1, 0), Exit>>),
   Static(<<St("W", 1, 100, 7), Ldx("W", 3, 1, 100), Stx("W", 1, 4, 3), Ldx("D", 2, 1, 0), Exit>>),
   Static(<<Ldx("B", 3, 1, 1), Ldx("D", 2, 1, 0), Stx("D", 10, -8, 2), Ldx("D", 4, 10, -8), Exit>>)}
WalkJobs == AccessJobs \cup SyscallJobs \cup ControlJobs \cup RetryJobs \cup OtherJobs

=============================================================================
