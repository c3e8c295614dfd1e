------------------------------ MODULE SymState ------------------------------
(***************************************************************************)
(* The symbolic state of qedlift's walker (qedlift/src/state.rs, core.rs): *)
(* registers hold expressions, memory is a list of typed cells, and every  *)
(* new cell adds an atom to the precondition of the theorem being built.   *)
(* Atoms are joined by a separating conjunction, so two atoms that share a *)
(* byte make the precondition unsatisfiable and the theorem vacuous.       *)
(*                                                                         *)
(* Expressions are tuples.  An address expression is a root with constant  *)
(* layers <<"add", root, <<<<kind, k>>, ...>>, sum>>, kind one of wrap,    *)
(* sub and nat, and the sum of the layers; two expressions render alike in *)
(* Lean iff they are equal here.                                           *)
(*   <<"reg", r>>      initial value of register r                         *)
(*   <<"mem", w, i>>   variable oldMem<w>_<i> of a first-touched cell      *)
(*   <<"const", k>>    a constant           <<"mod", e>>    e % 256        *)
(*   <<"imm", c, w>>   an immediate stored with width w                    *)
(*   <<"byte", b>>     one known byte                                      *)
(*   <<"combo", es>>   eight byte cells combined, <<"raw", x>> opaque      *)
(*   <<"sys", p, k>>   bytes k.. of what the syscall at pc p wrote         *)
(***************************************************************************)
EXTENDS Integers, Sequences, SequencesExt

Bytes == [B |-> 1, H |-> 2, W |-> 4, D |-> 8]
Widths == DOMAIN Bytes

InitReg(r) == <<"reg", r>>
Const(k) == <<"const", k>>
Signed(kind, k) == IF kind = "sub" THEN -k ELSE k
Layer(e, kind, k) ==
  IF e[1] = "add" THEN <<"add", e[2], Append(e[3], <<kind, k>>), e[4] + Signed(kind, k)>>
  ELSE <<"add", e, <<<<kind, k>>>>, Signed(kind, k)>>

\* Pcs, lengths and constants are naturals; -1 stands for none.
NoConst == -1
ConstOf(e) == IF e[1] = "const" THEN e[2] ELSE NoConst

\* canon_root_expr: the root below the constant layers, and what they add up to.
RootOf(e) == IF e[1] = "add" THEN e[2] ELSE e
LayerSum(e, off) == IF e[1] = "add" THEN off + e[4] ELSE off

\* canon_addr: the layers are folded over a variable or a constant; over any
\* other root the whole expression stays the root.
FoldedAddr(e, off, root, sum) ==
  IF root[1] \in {"reg", "mem"} THEN <<root, sum>>
  ELSE IF root[1] = "const" THEN <<<<"absolute">>, sum + root[2]>>
  ELSE <<e, off>>
CanonAddr(e, off) == FoldedAddr(e, off, RootOf(e), LayerSum(e, off))

Overlaps(a, b) == a.root = b.root /\ a.lo < b.hi /\ b.lo < a.hi
SpanAt(c, len) == [root |-> c[1], lo |-> c[2], hi |-> c[2] + len]
Span(e, off, len) == SpanAt(CanonAddr(e, off), len)
CellSpan(c) == Span(c.base, c.off + c.delta, Bytes[c.width])
----------------------------------------------------------------------------
(* FreshNames: spec_call_for reserves the names that the step allocates.    *)

Reserve(s) == [s EXCEPT !.next = @ + 1, !.reserved = Append(@, s.next)]
FreshName(s) == IF s.reserved = <<>> THEN s.next ELSE Head(s.reserved)
Allocate(s) ==
  IF s.reserved = <<>> THEN [s EXCEPT !.next = @ + 1] ELSE [s EXCEPT !.reserved = Tail(@)]

\* with_retry_plans: a pass starts from nothing but the plans of earlier passes.
WithRetryPlans(hot, splits) ==
  [regs |-> [r \in 0 .. 10 |-> InitReg(r)], cells |-> <<>>, pre |-> <<>>, spans |-> <<>>,
   overlap |-> FALSE, rr |-> <<>>, next |-> 0, reserved |-> <<>>, stack |-> <<>>,
   post |-> <<>>, hyps |-> <<>>, alias |-> FALSE, slotAliases |-> 0, branches |-> <<>>,
   unsized |-> FALSE, hot |-> hot, newHot |-> <<>>, blobs |-> <<>>, splits |-> splits, newSplits |-> <<>>]

\* note_access: an atom that overlaps one with another key is an error.
NoteSpan(s, span, key) ==
  IF \E i \in 1 .. Len(s.spans) : s.spans[i].key # key /\ Overlaps(span, s.spans[i].span)
    THEN [s EXCEPT !.overlap = TRUE]
    ELSE [s EXCEPT !.spans = Append(@, [span |-> span, key |-> key])]
NoteAccess(s, e, off, len, key) == NoteSpan(s, Span(e, off, len), key)

PushAtom(s, e, off, len, v) ==
  [s EXCEPT !.pre = Append(@, [span |-> Span(e, off, len), value |-> v])]
PushCell(s, e, off, delta, w, v) ==
  [s EXCEPT !.cells = Append(@, [base |-> e, off |-> off, delta |-> delta,
                                 width |-> w, value |-> v])]
\* RegionWalk.push: an access the program's regions have to allow.  A clause
\* with cont belongs to the group of the clause before it.
Clause(span, writable, cont) == [span |-> span, w |-> writable, cont |-> cont]
PushClause(s, span, writable) == [s EXCEPT !.rr = Append(@, Clause(span, writable, FALSE))]
----------------------------------------------------------------------------
(* Byte-granular ("hot") regions.                                           *)

HotCovers(s, span) ==
  \E i \in 1 .. Len(s.hot) :
    s.hot[i].root = span.root /\ s.hot[i].lo <= span.lo /\ span.hi <= s.hot[i].hi
HotIntersects(s, span) == \E i \in 1 .. Len(s.hot) : Overlaps(span, s.hot[i])

\* request_demotion_on_conflict: the union of the access and of every cell it meets.
Conflicts(q, q_w, span, w) == Overlaps(q, span) /\ ~ (q = span /\ q_w = w)
UnionOf(all, root) ==
  [root |-> root, lo |-> CHOOSE l \in {x.lo : x \in all} : \A x \in all : l <= x.lo,
   hi |-> CHOOSE h \in {x.hi : x \in all} : \A x \in all : h >= x.hi]
DemoteWith(s, span, met) ==
  IF met # {} \/ HotIntersects(s, span)
    THEN [s EXCEPT !.newHot = Append(@, UnionOf(met \cup {span}, span.root))] ELSE s
RequestDemotion(s, span, w) ==
  DemoteWith(s, span, {CellSpan(s.cells[i]) : i \in {j \in 1 .. Len(s.cells) :
                         Conflicts(CellSpan(s.cells[j]), s.cells[j].width, span, w)}})

\* merge_hot_regions, one request: the regions it touches grow into it.
MergeHotRegion(hot, new) ==
  LET take(acc, q) ==
        IF q.root = new.root /\ q.lo <= acc.hi /\ acc.lo <= q.hi
          THEN [acc EXCEPT !.lo = IF q.lo < @ THEN q.lo ELSE @, !.hi = IF q.hi > @ THEN q.hi ELSE @]
          ELSE [acc EXCEPT !.kept = Append(@, q)]
      out == FoldLeft(take, [kept |-> <<>>, lo |-> new.lo, hi |-> new.hi], hot)
  IN  Append(out.kept, [root |-> new.root, lo |-> out.lo, hi |-> out.hi])
MergeHotRegions(hot, news) == FoldLeft(MergeHotRegion, hot, news)

\* merge_blob_splits: a later plan for the same blob replaces the earlier one.
SameBlob(q, n) == q.root = n.root /\ q.lo = n.lo
MergeBlobSplits(splits, news) ==
  {q \in splits : \A i \in 1 .. Len(news) : ~ SameBlob(q, news[i])}
    \cup {news[i] : i \in {j \in 1 .. Len(news) : \A k \in j + 1 .. Len(news) : ~ SameBlob(news[j], news[k])}}

FindByte(s, root, at) ==
  SelectInSeq(s.cells, LAMBDA c : c.width = "B" /\ CellSpan(c) = SpanAt(<<root, at>>, 1))

\* The cell is rendered as slot k of the access at (e, off).
RenderedAs(c, e, off, k) == c.base = e /\ c.off = off /\ c.delta = k

\* hot_slot: the byte cell of slot k, materialised on first touch.
KnownSlot(s, e, off, k, i) ==
  [s |-> IF RenderedAs(s.cells[i], e, off, k) THEN s ELSE [s EXCEPT !.slotAliases = @ + 1], i |-> i]
NewSlot(s, e, off, k, v) ==
  [s |-> NoteAccess(PushAtom(PushCell(Allocate(s), e, off, k, "B", v), e, off + k, 1, v),
                    e, off + k, 1, <<"hotbyte", e, off, k>>),
   i |-> Len(s.cells) + 1]
SlotAt(s, e, off, k, i) ==
  IF i # 0 THEN KnownSlot(s, e, off, k, i) ELSE NewSlot(s, e, off, k, <<"mem", "B", FreshName(s)>>)
SlotIndex(s, at, k) == FindByte(s, at[1], at[2] + k)
HotSlot(s, e, off, k) == SlotAt(s, e, off, k, SlotIndex(s, CanonAddr(e, off), k))

\* The slots of a word, and of a dword.
AddSlot(at, h) == [s |-> h.s, at |-> Append(at, h.i)]
NextSlot(acc, e, off) == AddSlot(acc.at, HotSlot(acc.s, e, off, Len(acc.at)))
TwoSlots(acc, e, off) == NextSlot(NextSlot(acc, e, off), e, off)
FourSlots(acc, e, off) == TwoSlots(TwoSlots(acc, e, off), e, off)
WordSlots(s, e, off) == FourSlots([s |-> s, at |-> <<>>], e, off)
DwordSlots(s, e, off) == FourSlots(WordSlots(s, e, off), e, off)

\* read_hot_wide: only dword loads have a byte-level specification.
Combined(h, span) ==
  [s |-> PushClause(h.s, span, FALSE), v |-> <<"combo", [k \in 1 .. 8 |-> h.s.cells[h.at[k]].value]>>]
ReadHotWide(s, e, off, w) ==
  IF w # "D" THEN [s |-> [s EXCEPT !.overlap = TRUE], v |-> <<"raw", "hotUnsupported">>]
  ELSE Combined(DwordSlots(s, e, off), Span(e, off, 8))

\* write_hot_word_imm: the four bytes of the immediate, one cell each.
SetImmBytes(h, c) ==
  [h.s EXCEPT !.cells = [i \in 1 .. Len(@) |->
     IF \E k \in 1 .. 4 : h.at[k] = i
       THEN [@[i] EXCEPT !.value = <<"byte", <<"imm", c, (CHOOSE k \in 1 .. 4 : h.at[k] = i) - 1>>>>] ELSE @[i]]]
WriteHotWordImm(s, e, off, c) == PushClause(SetImmBytes(WordSlots(s, e, off), c), Span(e, off, 4), TRUE)
----------------------------------------------------------------------------
(* Loads and stores.                                                        *)

\* lookup_cell_aliased: the same rendering first, then the same address under
\* another rendering; index 0 when there is no such cell.
LookupCell(s, e, off, w) ==
  LET exact == SelectInSeq(s.cells, LAMBDA c : c.width = w /\ RenderedAs(c, e, off, 0))
  IN  IF exact # 0 THEN [i |-> exact, aliased |-> FALSE]
      ELSE [i |-> SelectInSeq(s.cells, LAMBDA c : c.width = w /\ CellSpan(c) = Span(e, off, Bytes[w])), aliased |-> TRUE]

\* A dword read of the last eight bytes of a memset blob asks for a tail split.
PlanTailSplit(s, span, w) ==
  LET i == SelectInSeq(s.blobs, LAMBDA b : Overlaps(b, span) /\ b.lo <= span.lo /\ span.hi <= b.hi)
      b == s.blobs[i]
  IN  IF /\ w = "D" /\ i # 0 /\ span.hi = b.hi
         /\ ~ \E q \in s.splits : q.root = b.root /\ q.lo = b.lo
        THEN [s EXCEPT !.newSplits = Append(@, [root |-> b.root, lo |-> b.lo, n |-> span.lo - b.lo])]
        ELSE s

\* The first touch of a cell: a fresh variable, its atom and its footprint.
NewCell(s, e, off, w, v) ==
  PushAtom(PushCell(NoteAccess(Allocate(s), e, off, Bytes[w], <<"cell", e, off, w>>), e, off, 0, w, v),
           e, off, Bytes[w], v)
Materialise(s, e, off, w) == NewCell(s, e, off, w, <<"mem", w, FreshName(s)>>)

\* The clause of an access to a known cell: under another rendering it names
\* the base and the offset of the cell.
HitSpan(s, hit, e, off, w) ==
  IF hit.aliased THEN Span(s.cells[hit.i].base, s.cells[hit.i].off, Bytes[w]) ELSE Span(e, off, Bytes[w])

ReadNew(m, span) == [s |-> PushClause(m, span, FALSE), v |-> Last(m.cells).value]
ReadHit(s, e, off, w, hit) ==
  IF hit.i # 0
    THEN [s |-> PushClause([s EXCEPT !.alias = @ \/ hit.aliased], HitSpan(s, hit, e, off, w), FALSE),
          v |-> s.cells[hit.i].value]
    ELSE ReadNew(Materialise(s, e, off, w), Span(e, off, Bytes[w]))
ReadCold(s, e, off, w) == ReadHit(s, e, off, w, LookupCell(s, e, off, w))

\* read_mem
ReadSpan(s, e, off, w, span) ==
  IF HotCovers(s, span) THEN ReadHotWide(PlanTailSplit(s, span, w), e, off, w)
  ELSE ReadCold(RequestDemotion(PlanTailSplit(s, span, w), span, w), e, off, w)
ReadMem(s, e, off, w) ==
  IF w = "B" THEN ReadCold(s, e, off, w) ELSE ReadSpan(s, e, off, w, Span(e, off, Bytes[w]))

\* A store to a cell that is not there reads it first; the clause of that read
\* is replaced by the one of the store.
SetCell(m, e, off, w, v, hit) ==
  PushClause([m EXCEPT !.cells[hit.i].value = v, !.alias = @ \/ hit.aliased], HitSpan(m, hit, e, off, w), TRUE)
SetIn(m, e, off, w, v) == SetCell(m, e, off, w, v, LookupCell(m, e, off, w))
\* Mutants of WriteCold: a store through another rendering is lost, or the clause
\* of the read that materialised the cell stays.
MutWriteAliased(s, e, off, w, v, hit) ==
  IF hit.i # 0 /\ hit.aliased
    THEN PushClause([s EXCEPT !.alias = TRUE], HitSpan(s, hit, e, off, w), TRUE)
    ELSE SetIn(IF hit.i # 0 THEN s ELSE [ReadMem(s, e, off, w).s EXCEPT !.rr = Front(@)], e, off, w, v)
MutWriteKeepsRead(s, e, off, w, v, hit) ==
  SetIn(IF hit.i # 0 THEN s ELSE ReadMem(s, e, off, w).s, e, off, w, v)
WriteCold(s, e, off, w, v, hit) ==
  SetIn(IF hit.i # 0 THEN s ELSE [ReadMem(s, e, off, w).s EXCEPT !.rr = Front(@)], e, off, w, v)

\* write_mem: of the wide stores into a hot region only st.w has a byte-level
\* specification; a store across the edge of one is left to the next pass.
WriteSpan(s, e, off, w, v, span) ==
  IF w # "B" /\ HotCovers(s, span)
    THEN IF w = "W" /\ v[1] = "imm" /\ v[3] = "W" THEN WriteHotWordImm(s, e, off, v[2]) ELSE [s EXCEPT !.overlap = TRUE]
  ELSE IF w # "B" /\ HotIntersects(s, span) THEN RequestDemotion(s, span, w)
  ELSE WriteCold(IF w = "B" THEN s ELSE RequestDemotion(s, span, w), e, off, w, v, LookupCell(s, e, off, w))
WriteMem(s, e, off, w, v) == WriteSpan(s, e, off, w, v, Span(e, off, Bytes[w]))

\* Mutant of TakeAliases: the equations of byte slots are dropped.
MutTakeAliases(s, pc) ==
  [s EXCEPT !.hyps = @ \o (IF s.alias THEN <<<<"h_alias", pc>>>> ELSE <<>>), !.alias = FALSE, !.slotAliases = 0]
\* take_alias_hypotheses: the equations the spec call of this pc rewrites with.
TakeAliases(s, pc) ==
  [s EXCEPT !.hyps = @ \o (IF s.alias THEN <<<<"h_alias", pc>>>> ELSE <<>>)
                       \o [k \in 1 .. s.slotAliases |-> <<"h_alias", pc, k - 1>>],
            !.alias = FALSE, !.slotAliases = 0]

RetryPlan(s) ==
  IF s.newSplits # <<>> THEN "BlobSplits" ELSE IF s.newHot # <<>> THEN "HotRegions" ELSE "Ready"
=============================================================================
