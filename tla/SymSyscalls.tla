---------------------------- MODULE SymSyscalls -----------------------------
(***************************************************************************)
(* The effect of a traced syscall on the symbolic state (qedlift/src/      *)
(* syscalls.rs) and the table that names the syscalls (exec/               *)
(* syscall_registry.rs).  An emitter reads its argument registers, refuses *)
(* shapes it has no specification for, owns the regions the syscall reads  *)
(* and writes as atoms, and records what they hold afterwards.             *)
(***************************************************************************)
EXTENDS SymState

CONSTANTS
  RoRegion,   \* addresses of the read-only region where a sysvar id may lie
  RentIds     \* those of them that hold the rent sysvar's id

\* SYSCALLS: which lookups a row takes part in.
Effects == {"sol_memset_", "sol_get_sysvar", "sol_log_", "sol_log_64_", "sol_memcpy_",
            "sol_memmove_", "sol_memcmp_", "sol_set_return_data", "sol_sha256",
            "sol_create_program_address"}
Aborts == {"abort", "sol_panic_", "sol_invoke_signed_rust", "sol_invoke_signed_c"}
Oobs == {"sol_set_return_data", "sol_sha256", "sol_create_program_address",
         "sol_secp256k1_recover", "sol_get_clock_sysvar", "sol_get_rent_sysvar"}
OtherKnown == {"sol_keccak256", "sol_log_data", "sol_get_return_data"}
KnownSyscalls == Effects \cup Aborts \cup Oobs \cup OtherKnown
Modeled == Effects \cup {"sol_invoke_signed_rust", "sol_invoke_signed_c"}

\* classify_call_imm, as the error an untraced call ends with.
CallImmError(name) ==
  IF name \in Modeled THEN "SyscallUntraced"
  ELSE IF name \in KnownSyscalls THEN "SyscallUnmodeled" ELSE "CallUnresolved"

Emitted(s) == [s |-> s, err |-> "none"]
Refused(s, kind) == [s |-> s, err |-> kind]

\* Atoms for one to three regions [at, len, key], in order, with their footprints.
Own(s, r) ==
  NoteAccess(PushAtom(s, r.at, 0, r.len, <<"blob", r.key>>), r.at, 0, r.len, <<r.key, r.at>>)
Own2(s, q, r) == Own(Own(s, q), r)
Own3(s, p, q, r) == Own(Own2(s, p, q), r)
Region(e, n, key) == [at |-> e, len |-> n, key |-> key]
\* Clauses [at, len, w], grouped or each on its own.
Clauses(s, cs, grouped) ==
  [s EXCEPT !.rr = @ \o [i \in 1 .. Len(cs) |->
     Clause(Span(cs[i].at, 0, cs[i].len), cs[i].w, grouped /\ i > 1)]]
Reads(e, n) == [at |-> e, len |-> n, w |-> FALSE]
Writes(e, n) == [at |-> e, len |-> n, w |-> TRUE]
Return0(s) == [s EXCEPT !.regs[0] = Const(0)]

\* A region of symbolic length is accounted for with one byte.
BlobLen(e) == IF ConstOf(e) = NoConst \/ ConstOf(e) < 1 THEN 1 ELSE ConstOf(e)

\* The size of a blob is recorded for the witness, which needs a constant.
RecordSize(s, e) == [s EXCEPT !.unsized = @ \/ ConstOf(e) = NoConst]

\* byte_blob_post / bytes32_post: keyed by the rendered address, last write wins.
SetPost(post, at, v) == SelectSeq(post, LAMBDA p : p.at # at) \o <<[at |-> at, v |-> v]>>
----------------------------------------------------------------------------
\* The dword cells already owned at the end of the blob, the last one first.
TailCells(s, e, len) ==
  LET at(k) == SelectInSeq(s.cells, LAMBDA c : c.width = "D" /\ CellSpan(c) = Span(e, len - 8 * k, 8))
      found(k) == len >= 8 * k + 1 /\ at(k) # 0
  IN  IF ~ found(1) THEN <<>> ELSE IF ~ found(2) THEN <<at(1)>> ELSE <<at(1), at(2)>>

SetCells(s, at, v) ==
  [s EXCEPT !.cells = [i \in 1 .. Len(@) |->
     IF \E k \in 1 .. Len(at) : at[k] = i THEN [@[i] EXCEPT !.value = v] ELSE @[i]]]

\* emit_sol_memset: the blob is owned whole, or without the dwords at its tail
\* that are owned already; a planned tail split turns the tail into a cell.
PlannedTails(s, span) == {q.n : q \in {p \in s.splits : p.root = span.root /\ p.lo = span.lo}}
OwnedTails(s, r1, len) ==
  IF ConstOf(s.regs[3]) # NoConst /\ ConstOf(s.regs[2]) # NoConst THEN TailCells(s, r1, len) ELSE <<>>
MemsetWith(s, pc, r1, len, fill, sized, span, plan, tails) ==
  LET split == tails = <<>> /\ plan # {} /\ fill # NoConst
      n == IF split THEN CHOOSE x \in plan : TRUE ELSE len - 8 * Len(tails)
      word == <<"fill", fill>>
      owned == PushAtom(Allocate(PushClause(s, span, TRUE)), r1, 0, len - 8 * Len(tails), <<"blob", pc>>)
      noted == NoteAccess([owned EXCEPT !.blobs = IF sized THEN Append(@, span) ELSE @],
                          r1, 0, n, <<"memset", r1>>)
      cut == IF split
               THEN PushCell(NoteAccess(noted, r1, n, 8, <<"blobtail", r1>>), r1, n, 0, "D", word)
               ELSE SetCells(noted, tails, word)
      value == IF fill = NoConst THEN <<"raw", s.regs[2]>> ELSE word
  IN  Emitted(Return0([RecordSize(cut, s.regs[3]) EXCEPT !.post = SetPost(@, r1, [len |-> n, of |-> value])]))
MemsetAt(s, pc, len, span) ==
  MemsetWith(s, pc, s.regs[1], len, ConstOf(s.regs[2]), ConstOf(s.regs[3]) # NoConst, span,
             PlannedTails(s, span), OwnedTails(s, s.regs[1], len))
EmitMemset(s, pc) == MemsetAt(s, pc, BlobLen(s.regs[3]), Span(s.regs[1], 0, BlobLen(s.regs[3])))

\* emit_sol_memcmp: two regions read, the result in a word cell at r4.
EmitMemcmp(s, pc) ==
  LET len == BlobLen(s.regs[3])
      out == s.regs[4]
      a == Allocate(Clauses(s, <<Reads(s.regs[1], len), Reads(s.regs[2], len), Writes(out, 4)>>, FALSE))
      v == <<"mem", "W", FreshName(a)>>
      owned == Own2(Allocate(a), Region(s.regs[1], len, "memcmpP1"), Region(s.regs[2], len, "memcmpP2"))
      cell == PushCell(PushAtom(owned, out, 0, 4, v), out, 0, 0, "W", <<"sys", pc, 0>>)
  IN  Emitted(Return0(NoteAccess(RecordSize(cell, s.regs[3]), out, 0, 4, <<"memcmpOut", out>>)))

\* emit_sol_get_sysvar: only the 17 bytes of the rent sysvar, as three cells.
SysvarCell(acc, pc, out, off, w) ==
  NoteAccess(PushCell(PushAtom(Allocate(acc), out, off, Bytes[w], <<"mem", w, FreshName(acc)>>),
                      out, off, 0, w, <<"sys", pc, off>>),
             out, off, Bytes[w], <<"sysvarOut", out, off>>)
SysvarCells(s, pc, out) ==
  SysvarCell(SysvarCell(SysvarCell(s, pc, out, 0, "D"), pc, out, 8, "D"), pc, out, 16, "B")
EmitGetSysvar(s, pc) ==
  LET id == ConstOf(s.regs[1])
      out == s.regs[2]
      owned == Own(Allocate(Clauses(s, <<Reads(<<"sysvars">>, 1), Writes(out, 17), Reads(s.regs[1], 32)>>, TRUE)),
                   Region(s.regs[1], 32, "sysvarId"))
      named == [SysvarCells(owned, pc, out) EXCEPT !.hyps = @ \o [k \in 1 .. 5 |-> <<"h_sysvar", pc, k>>]]
  IN  IF NoConst \in {id, ConstOf(s.regs[3]), ConstOf(s.regs[4])}
        THEN Refused(s, "SymbolicOperand")
      ELSE IF id \notin RoRegion \/ id \notin RentIds \/ s.regs[3] # Const(0) \/ s.regs[4] # Const(17)
        THEN Refused(s, "UnsupportedConstruct")
      ELSE Emitted(Return0(named))

\* emit_sol_log and emit_sol_log_64
EmitLog(s, pc) ==
  Emitted(Return0(Allocate(PushClause(s, Span(s.regs[1], 0, BlobLen(s.regs[2])), FALSE))))
EmitLog64(s, pc) == Emitted(Return0(Allocate(s)))

\* emit_sol_memcpy, for memcpy and memmove: the destination holds the source's bytes.
EmitMemcpy(s, pc) ==
  LET len == BlobLen(s.regs[3])
      owned == Own2(Allocate(Clauses(s, <<Reads(s.regs[2], len), Writes(s.regs[1], len)>>, FALSE)),
                    Region(s.regs[2], len, "memcpySrc"), Region(s.regs[1], len, "memcpyDst"))
  IN  Emitted(Return0([RecordSize(owned, s.regs[3]) EXCEPT !.post = SetPost(@, s.regs[1],
        [len |-> len, of |-> <<"copy", Span(s.regs[2], 0, len)>>])]))

\* emit_sol_set_return_data: the return-data buffer is an atom of its own.
ReturnDataSpan == [root |-> <<"returndata">>, lo |-> 0, hi |-> 1]
EmitSetReturnData(s, pc) ==
  LET len == BlobLen(s.regs[2])
      owned == Own(Allocate(PushClause(s, Span(s.regs[1], 0, len), FALSE)),
                   Region(s.regs[1], len, "setRetData"))
  IN  Emitted(Return0([RecordSize(owned, s.regs[2]) EXCEPT !.pre = Append(@, [span |-> ReturnDataSpan, value |-> <<"rd", pc>>])]))

\* The slice descriptor of sha256 and create_program_address: one slice, whose
\* pointer and length the program stored as constants.
Absent == -2
WordIn(s, i) ==
  IF i = 0 THEN Absent
  ELSE LET v == s.cells[i].value IN IF v[1] \in {"const", "imm"} THEN v[2] ELSE NoConst
DescriptorWord(s, off) == WordIn(s, LookupCell(s, s.regs[1], off, "D").i)
SliceError(s, words) ==
  IF ConstOf(s.regs[2]) = NoConst THEN "SymbolicOperand"
  ELSE IF s.regs[2] # Const(1) \/ Absent \in words THEN "UnsupportedConstruct"
  ELSE IF NoConst \in words THEN "SymbolicOperand" ELSE "none"
DescriptorError(s) == SliceError(s, {DescriptorWord(s, 0), DescriptorWord(s, 8)})
SliceOf(ptr, len, name) == Region(Const(ptr), IF len < 1 THEN 1 ELSE len, name)
SliceRegion(s, name) == SliceOf(DescriptorWord(s, 0), DescriptorWord(s, 8), name)

\* emit_sol_sha256
OwnSha256(s, slice) ==
  Own2(Allocate(Clauses(s, <<Writes(s.regs[3], 32), Reads(s.regs[1], 16), Reads(slice.at, slice.len)>>, TRUE)),
       slice, Region(s.regs[3], 32, "sha256Out"))
Sha256Of(s, pc, refusal) ==
  IF refusal # "none" THEN Refused(s, refusal)
  ELSE Emitted(Return0([OwnSha256(s, SliceRegion(s, "sha256In")) EXCEPT !.post =
         SetPost(@, s.regs[3], [len |-> 32, of |-> <<"sys", pc, 0>>])]))
EmitSha256(s, pc) == Sha256Of(s, pc, DescriptorError(s))

\* emit_sol_create_program_address
OwnPda(s, slice) ==
  Own3(Allocate(Clauses(s, <<Reads(s.regs[3], 32), Writes(s.regs[4], 32), Reads(s.regs[1], 16),
                             Reads(slice.at, slice.len)>>, TRUE)),
       slice, Region(s.regs[3], 32, "pdaPid"), Region(s.regs[4], 32, "pdaOut"))
PdaOf(s, pc, refusal) ==
  IF refusal # "none" THEN Refused(s, refusal)
  ELSE Emitted(Return0([OwnPda(s, SliceRegion(s, "pdaSeed")) EXCEPT
         !.hyps = @ \o <<<<"hPdaPidSz", FreshName(s)>>, <<"hPdaOffCurve", FreshName(s)>>>>,
         !.post = SetPost(@, s.regs[4], [len |-> 32, of |-> <<"sys", pc, 0>>])]))
EmitCreatePda(s, pc) == PdaOf(s, pc, DescriptorError(s))

\* dispatch_traced_syscall
DispatchSyscall(s, pc, name) ==
  CASE name = "sol_memset_" -> EmitMemset(s, pc)
    [] name = "sol_memcmp_" -> EmitMemcmp(s, pc)
    [] name = "sol_get_sysvar" -> EmitGetSysvar(s, pc)
    [] name = "sol_log_" -> EmitLog(s, pc)
    [] name = "sol_log_64_" -> EmitLog64(s, pc)
    [] name \in {"sol_memcpy_", "sol_memmove_"} -> EmitMemcpy(s, pc)
    [] name = "sol_set_return_data" -> EmitSetReturnData(s, pc)
    [] name = "sol_sha256" -> EmitSha256(s, pc)
    [] name = "sol_create_program_address" -> EmitCreatePda(s, pc)
    [] OTHER -> Refused(s, "SyscallUnmodeled")
=============================================================================
