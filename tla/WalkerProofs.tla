---------------------------- MODULE WalkerProofs ----------------------------
(* The shape of what qedlift emits, for every program, trace and retry plan.   *)
EXTENDS Walker, SequenceTheorems, FiniteSetTheorems, NaturalsInduction, TLAPS

-----------------------------------------------------------------------------
(* Lists, and the first index that passes a test.                              *)

IsList(l) == l \in Seq(Range(l))

\* A sequence over any set is a list.
LEMMA ListOf ==
  ASSUME NEW S, NEW l \in Seq(S)
  PROVE  IsList(l) /\ Len(l) \in Nat /\ DOMAIN l = 1 .. Len(l)
<1>1. l \in [1 .. Len(l) -> Range(l)] /\ Len(l) \in Nat
  BY DEF Range
<1> QED
  BY <1>1 DEF IsList

\* A list is a function on its indices.
LEMMA ListFacts ==
  ASSUME NEW l, IsList(l)
  PROVE  Len(l) \in Nat /\ DOMAIN l = 1 .. Len(l)
BY ListOf DEF IsList

\* A function on an initial segment is a list.
LEMMA FunctionList ==
  ASSUME NEW n \in Nat, NEW T, NEW f \in [1 .. n -> T]
  PROVE  IsList(f) /\ Len(f) = n
<1>1. f \in Seq(T) /\ Len(f) = n
  BY SMT
<1> QED
  BY <1>1, ListOf

\* The empty list.
LEMMA NoList == IsList(<<>>) /\ Len(<<>>) = 0
<1>1. <<>> \in Seq({})
  OBVIOUS
<1> QED
  BY <1>1, ListOf

\* What pushing onto a vector does.
LEMMA AppendList ==
  ASSUME NEW l, IsList(l), NEW x
  PROVE  /\ IsList(Append(l, x)) /\ Len(Append(l, x)) = Len(l) + 1 /\ Len(l) \in Nat
         /\ DOMAIN l = 1 .. Len(l) /\ DOMAIN Append(l, x) = 1 .. Len(l) + 1
         /\ \A i \in 1 .. Len(l) : Append(l, x)[i] = l[i]
         /\ Append(l, x)[Len(l) + 1] = x
         /\ Append(l, x) # <<>> /\ Last(Append(l, x)) = x /\ Front(Append(l, x)) = l
<1> DEFINE T == Range(l) \cup {x}
<1>1. l \in Seq(T)
  <2>1. l \in Seq(Range(l))
    BY DEF IsList
  <2> QED
    BY <2>1
<1> HIDE DEF T
<1>2. x \in T
  BY DEF T
<1>3. Append(l, x) \in Seq(T)
  BY <1>1, <1>2
<1>4. IsList(Append(l, x)) /\ Len(l) \in Nat /\ DOMAIN l = 1 .. Len(l)
  BY <1>1, <1>3, ListOf
<1>5. /\ Len(Append(l, x)) = Len(l) + 1 /\ DOMAIN Append(l, x) = 1 .. Len(l) + 1
      /\ \A i \in 1 .. Len(l) : Append(l, x)[i] = l[i]
      /\ Append(l, x)[Len(l) + 1] = x
  BY <1>1, <1>2
<1>6. Append(l, x) # <<>>
  BY <1>4, <1>5
<1>7. Front(Append(l, x)) = l
  <2> DEFINE c == Append(l, x)
  <2>1. c \in Seq(T) /\ Len(c) - 1 = Len(l)
    BY <1>3, <1>4, <1>5
  <2>2. Front(c) \in Seq(T) /\ Len(Front(c)) = Len(l) /\ \A i \in 1 .. Len(l) : Front(c)[i] = c[i]
    BY <2>1, <1>4 DEF Front
  <2> QED
    BY <2>2, <1>1, <1>5, SeqEqual
<1> QED
  BY <1>4, <1>5, <1>6, <1>7 DEF Last

\* A set of indices has a least one.
LEMMA LeastIndex ==
  ASSUME NEW T, T \subseteq Nat, T # {}
  PROVE  Min(T) \in T /\ \A y \in T : Min(T) <= y
<1> DEFINE R == OpToRel(<, Nat)
<1>1. R = {ss \in Nat \X Nat : ss[1] < ss[2]}
  BY DEF OpToRel
<1>2. IsWellFoundedOn(R, Nat)
  BY NatLessThanWellFounded
<1> HIDE DEF R
<1>3. PICK x \in T : \A y \in T : ~(<<y, x>> \in R)
  BY <1>2, WFMin
<1>4. ASSUME NEW y \in T PROVE x <= y
  <2>1. x \in Nat /\ y \in Nat
    OBVIOUS
  <2>2. y < x => <<y, x>> \in {ss \in Nat \X Nat : ss[1] < ss[2]}
    BY <2>1
  <2>3. ~(y < x)
    BY <1>1, <1>3, <2>2, Zenon
  <2> QED
    BY <2>1, <2>3
<1> QED
  BY <1>4, Zenon DEF Min

\* The cells an index may name, and the one chosen.
LEMMA FirstCell ==
  ASSUME NEW q, IsList(q.cells), NEW e, NEW off, NEW w, NEW k
  PROVE  /\ LookupCell(q, e, off, w).i \in 0 .. Len(q.cells)
         /\ LookupCell(q, e, off, w).aliased \in BOOLEAN
         /\ LookupCell(q, e, off, w).i # 0 =>
              LET c == q.cells[LookupCell(q, e, off, w).i]
              IN  /\ c.width = w
                  /\ LookupCell(q, e, off, w).aliased => CellSpan(c) = Span(e, off, Bytes[w])
         /\ (\E i \in 1 .. Len(q.cells) : q.cells[i].width = w /\ RenderedAs(q.cells[i], e, off, 0)) =>
              LookupCell(q, e, off, w).i # 0 /\ ~LookupCell(q, e, off, w).aliased
<1> DEFINE E == {i \in 1 .. Len(q.cells) : q.cells[i].width = w /\ RenderedAs(q.cells[i], e, off, 0)}
           A == {i \in 1 .. Len(q.cells) : q.cells[i].width = w /\ CellSpan(q.cells[i]) = Span(e, off, Bytes[w])}
           x == IF E # {} THEN Min(E) ELSE 0
           y == IF A # {} THEN Min(A) ELSE 0
<1>1. LookupCell(q, e, off, w) = IF x # 0 THEN [i |-> x, aliased |-> FALSE] ELSE [i |-> y, aliased |-> TRUE]
  BY DEF LookupCell, SelectInSeq
<1>2. Len(q.cells) \in Nat
  BY ListFacts
<1>3. E \subseteq Nat /\ A \subseteq Nat
  OBVIOUS
<1>4. E # {} => Min(E) \in E
  BY <1>3, LeastIndex
<1>5. A # {} => Min(A) \in A
  BY <1>3, LeastIndex
<1>6. x \in 0 .. Len(q.cells) /\ (x # 0 => x \in E) /\ (E # {} => x # 0)
  BY <1>2, <1>4
<1>7. y \in 0 .. Len(q.cells) /\ (y # 0 => y \in A)
  BY <1>2, <1>5
<1> HIDE DEF x, y
<1> QED
  BY <1>1, <1>6, <1>7

-----------------------------------------------------------------------------
(* Expressions and spans.                                                      *)

\* The numbers in an expression are integers, and layers are not nested.
Good(v) ==
  /\ v[1] \in {"const", "imm"} => v[2] \in Int
  /\ v[1] = "add" => v[4] \in Int /\ v[2][1] # "add" /\ (v[2][1] = "const" => v[2][2] \in Int)
GoodSpan(sp) == DOMAIN sp = {"root", "lo", "hi"} /\ sp.lo \in Int /\ sp.hi \in Int /\ Good(sp.root)

\* Where an address is, and the key under which the walk files it.
TrueRoot(e) == IF RootOf(e)[1] = "const" THEN <<"absolute">> ELSE RootOf(e)
CanonRoot(e) ==
  IF RootOf(e)[1] \in {"reg", "mem"} THEN RootOf(e)
  ELSE IF RootOf(e)[1] = "const" THEN <<"absolute">> ELSE e

\* Both halves of an address.
LEMMA Addresses ==
  ASSUME NEW e, Good(e), NEW off \in Int
  PROVE  /\ RootOf(e)[1] # "add" /\ LayerSum(e, off) \in Int
         /\ RootOf(e)[1] = "const" => RootOf(e)[2] \in Int
         /\ CanonAddr(e, off)[1] = CanonRoot(e) /\ CanonAddr(e, off)[2] \in Int
         /\ Good(CanonRoot(e))
<1>1. RootOf(e)[1] # "add" /\ LayerSum(e, off) \in Int /\ (RootOf(e)[1] = "const" => RootOf(e)[2] \in Int)
  BY DEF Good, RootOf, LayerSum
<1>2. CanonAddr(e, off)[1] = CanonRoot(e) /\ CanonAddr(e, off)[2] \in Int
  BY <1>1 DEF CanonAddr, FoldedAddr, CanonRoot
<1>3. Good(CanonRoot(e))
  <2>1. CASE RootOf(e)[1] \in {"reg", "mem"}
    BY <2>1 DEF CanonRoot, Good
  <2>2. CASE RootOf(e)[1] = "const"
    BY <2>2 DEF CanonRoot, Good
  <2>3. CASE RootOf(e)[1] \notin {"reg", "mem", "const"}
    BY <2>3 DEF CanonRoot
  <2> QED
    BY <2>1, <2>2, <2>3
<1> QED
  BY <1>1, <1>2, <1>3

\* The span of an access.
LEMMA Spans ==
  ASSUME NEW e, Good(e), NEW off \in Int, NEW len \in Int
  PROVE  /\ GoodSpan(Span(e, off, len)) /\ Span(e, off, len).root = CanonRoot(e)
         /\ Span(e, off, len).hi = Span(e, off, len).lo + len
BY Addresses DEF Span, SpanAt, GoodSpan

\* What a clause or an atom says, once its layers are added up.
LEMMA FullSpans ==
  ASSUME NEW sp, GoodSpan(sp)
  PROVE  /\ DOMAIN FullSpan(sp) = {"root", "lo", "hi"} /\ FullSpan(sp).lo \in Int /\ FullSpan(sp).hi \in Int
         /\ FullSpan(sp).hi - FullSpan(sp).lo = sp.hi - sp.lo
         /\ FullSpan(sp).root = IF sp.root[1] = "add" THEN TrueRoot(sp.root) ELSE sp.root
<1>1. /\ DOMAIN sp = {"root", "lo", "hi"} /\ sp.hi - sp.lo \in Int /\ sp.lo \in Int /\ sp.hi \in Int
      /\ Good(sp.root)
  BY DEF GoodSpan
<1> DEFINE lo == LayerSum(sp.root, sp.lo)
<1>2. lo \in Int /\ (RootOf(sp.root)[1] = "const" => RootOf(sp.root)[2] \in Int)
  BY <1>1, Addresses
<1>3. CASE sp.root[1] # "add"
  BY <1>1, <1>3 DEF FullSpan
<1>4. CASE sp.root[1] = "add" /\ RootOf(sp.root)[1] = "const"
  <2>1. FullSpan(sp) = [root |-> <<"absolute">>, lo |-> lo + RootOf(sp.root)[2],
                        hi |-> lo + RootOf(sp.root)[2] + (sp.hi - sp.lo)]
    BY <1>4 DEF FullSpan, TrueSpan
  <2> HIDE DEF lo
  <2> QED
    BY <1>1, <1>2, <1>4, <2>1 DEF TrueRoot
<1>5. CASE sp.root[1] = "add" /\ RootOf(sp.root)[1] # "const"
  <2>1. FullSpan(sp) = [root |-> RootOf(sp.root), lo |-> lo, hi |-> lo + (sp.hi - sp.lo)]
    BY <1>5 DEF FullSpan, TrueSpan
  <2> HIDE DEF lo
  <2> QED
    BY <1>1, <1>2, <1>5, <2>1 DEF TrueRoot
<1> QED
  BY <1>3, <1>4, <1>5

\* The clause of an access names the bytes that it touches.
LEMMA ClauseIsTrue ==
  ASSUME NEW e, Good(e), NEW off \in Int, NEW len \in Int
  PROVE  FullSpan(Span(e, off, len)) = TrueSpan(e, off, len)
<1> DEFINE sum == LayerSum(e, off)
           sp == Span(e, off, len)
<1>1. /\ RootOf(e)[1] # "add" /\ sum \in Int /\ (RootOf(e)[1] = "const" => RootOf(e)[2] \in Int)
  BY Addresses
<1>2. CASE RootOf(e)[1] \in {"reg", "mem"}
  <2>1. sp = [root |-> RootOf(e), lo |-> sum, hi |-> sum + len]
    BY <1>2 DEF Span, SpanAt, CanonAddr, FoldedAddr
  <2>2. TrueSpan(e, off, len) = [root |-> RootOf(e), lo |-> sum, hi |-> sum + len]
    BY <1>2 DEF TrueSpan
  <2> HIDE DEF sp, sum
  <2> QED
    BY <1>1, <2>1, <2>2 DEF FullSpan, sp
<1>3. CASE RootOf(e)[1] = "const"
  <2>1. sp = [root |-> <<"absolute">>, lo |-> sum + RootOf(e)[2], hi |-> sum + RootOf(e)[2] + len]
    BY <1>3 DEF Span, SpanAt, CanonAddr, FoldedAddr
  <2>2. TrueSpan(e, off, len) = sp
    BY <1>3, <2>1 DEF TrueSpan
  <2>3. sp.root[1] # "add"
    BY <2>1
  <2> HIDE DEF sp, sum
  <2> QED
    BY <2>2, <2>3 DEF FullSpan, sp
<1>4. CASE RootOf(e)[1] \notin {"reg", "mem", "const"}
  <2>1. sp = [root |-> e, lo |-> off, hi |-> off + len]
    BY <1>4 DEF Span, SpanAt, CanonAddr, FoldedAddr
  <2>2. off + len - off = len
    OBVIOUS
  <2>3. CASE e[1] = "add"
    BY <2>1, <2>2, <2>3 DEF FullSpan
  <2>4. CASE e[1] # "add"
    <3>1. TrueSpan(e, off, len) = [root |-> e, lo |-> off, hi |-> off + len]
      BY <1>4, <2>4 DEF TrueSpan, RootOf, LayerSum
    <3> QED
      BY <2>1, <2>4, <3>1 DEF FullSpan
  <2> QED
    BY <2>3, <2>4
<1> QED
  BY <1>2, <1>3, <1>4

\* Where the bytes of an access are, and those d bytes further on.
Shifts(e, off, len, d) ==
  /\ TrueSpan(e, off, len).root = TrueRoot(e) /\ TrueSpan(e, off, len).lo \in Int
  /\ TrueSpan(e, off, len).hi = TrueSpan(e, off, len).lo + len
  /\ TrueSpan(e, off + d, len).lo = TrueSpan(e, off, len).lo + d
LEMMA TrueSpans ==
  ASSUME NEW e, Good(e), NEW off \in Int, NEW len \in Int, NEW d \in Int
  PROVE  Shifts(e, off, len, d)
<1> DEFINE lo == LayerSum(e, off)
<1>1. lo \in Int /\ (RootOf(e)[1] = "const" => RootOf(e)[2] \in Int) /\ (e[1] = "add" => e[4] \in Int)
  BY Addresses DEF Good
<1>2. LayerSum(e, off + d) = lo + d
  BY <1>1 DEF LayerSum
<1>3. \A x : TrueSpan(e, x, len) = IF RootOf(e)[1] = "const"
        THEN [root |-> <<"absolute">>, lo |-> LayerSum(e, x) + RootOf(e)[2], hi |-> LayerSum(e, x) + RootOf(e)[2] + len]
        ELSE [root |-> RootOf(e), lo |-> LayerSum(e, x), hi |-> LayerSum(e, x) + len]
  BY DEF TrueSpan
<1> HIDE DEF lo
<1>4. TrueSpan(e, off, len) = IF RootOf(e)[1] = "const"
        THEN [root |-> <<"absolute">>, lo |-> lo + RootOf(e)[2], hi |-> lo + RootOf(e)[2] + len]
        ELSE [root |-> RootOf(e), lo |-> lo, hi |-> lo + len]
  BY <1>3, Zenon DEF lo
<1>5. TrueSpan(e, off + d, len).lo = TrueSpan(e, off, len).lo + d
  <2>1. TrueSpan(e, off + d, len) = IF RootOf(e)[1] = "const"
          THEN [root |-> <<"absolute">>, lo |-> lo + d + RootOf(e)[2], hi |-> lo + d + RootOf(e)[2] + len]
          ELSE [root |-> RootOf(e), lo |-> lo + d, hi |-> lo + d + len]
    BY <1>2, <1>3, Zenon
  <2> QED
    BY <1>1, <1>4, <2>1
<1> QED
  BY <1>1, <1>4, <1>5 DEF Shifts, TrueRoot

-----------------------------------------------------------------------------
(* The symbolic state.                                                         *)

SymFields ==
  {"regs", "cells", "pre", "spans", "overlap", "rr", "next", "reserved", "stack", "post", "hyps", "alias",
   "slotAliases", "branches", "unsized", "hot", "newHot", "blobs", "splits", "newSplits"}
GoodRegs(r) == DOMAIN r = 0 .. 10 /\ \A x \in 0 .. 10 : Good(r[x])
GoodCell(c) ==
  /\ DOMAIN c = {"base", "off", "delta", "width", "value"}
  /\ Good(c.base) /\ c.off \in Int /\ c.width \in Widths /\ Good(c.value)
  /\ c.delta \in 0 .. 7 /\ (c.width # "B" => c.delta = 0)
GoodCells(c) == IsList(c) /\ \A i \in 1 .. Len(c) : GoodCell(c[i])
GoodAtoms(a) == IsList(a) /\ \A i \in 1 .. Len(a) : GoodSpan(a[i].span)
GoodFrames(f) == IsList(f) /\ \A i \in 1 .. Len(f) : f[i].pc \in Nat /\ \A r \in 6 .. 10 : Good(f[i].saved[r])
GoodBlobs(b) == IsList(b) /\ \A i \in 1 .. Len(b) : GoodSpan(b[i])
GoodSplits(p) == \A x \in p : x.n \in Int
GoodNewSplits(n) == IsList(n) /\ \A i \in 1 .. Len(n) : n[i].n \in Int
Typed(q) ==
  /\ DOMAIN q = SymFields
  /\ GoodRegs(q.regs) /\ GoodCells(q.cells) /\ GoodAtoms(q.pre) /\ GoodFrames(q.stack)
  /\ GoodBlobs(q.blobs) /\ GoodSplits(q.splits) /\ GoodNewSplits(q.newSplits)
  /\ IsList(q.rr) /\ IsList(q.newHot)

\* A request for another pass, or a refusal, is never taken back within a pass.
Asks(q) == q.overlap = TRUE \/ q.newHot # <<>>
Grown(q, r) == r.regs = q.regs /\ r.stack = q.stack /\ r.hot = q.hot /\ (Asks(q) => Asks(r))
Quiet(q, r) == Typed(r) /\ Grown(q, r) /\ r.rr = q.rr

\* Quiet changes compose.
LEMMA QuietTrans ==
  ASSUME NEW q, NEW r, NEW t, Quiet(q, r), Quiet(r, t)
  PROVE  Quiet(q, t)
BY DEF Quiet, Grown

\* No change is one.
LEMMA QuietSame == ASSUME NEW q, Typed(q) PROVE Quiet(q, q)
BY DEF Quiet, Grown

\* The record of a state under each of the updates the walk makes.
LEMMA PutCells ==
  ASSUME NEW q, Typed(q), NEW c, GoodCells(c)
  PROVE  Quiet(q, [q EXCEPT !.cells = c]) /\ [q EXCEPT !.cells = c].cells = c
BY DEF Quiet, Grown, Typed, Asks, SymFields

\* The names in use.
LEMMA AllocateQuiet ==
  ASSUME NEW q, Typed(q)
  PROVE  Quiet(q, Allocate(q)) /\ Allocate(q).cells = q.cells
BY DEF Quiet, Grown, Typed, Asks, SymFields, Allocate

\* Reserving a name changes nothing that an instruction reads.
LEMMA ReserveQuiet ==
  ASSUME NEW q, Typed(q)
  PROVE  Quiet(q, Reserve(q)) /\ Reserve(q).cells = q.cells
BY DEF Quiet, Grown, Typed, Asks, SymFields, Reserve

\* note_access
LEMMA NoteQuiet ==
  ASSUME NEW q, Typed(q), NEW e, NEW off, NEW len, NEW key
  PROVE  Quiet(q, NoteAccess(q, e, off, len, key)) /\ NoteAccess(q, e, off, len, key).cells = q.cells
BY DEF Quiet, Grown, Typed, Asks, SymFields, NoteAccess, NoteSpan

\* A new atom of the precondition.
LEMMA AtomQuiet ==
  ASSUME NEW q, Typed(q), NEW e, Good(e), NEW off \in Int, NEW len \in Int, NEW v
  PROVE  Quiet(q, PushAtom(q, e, off, len, v)) /\ PushAtom(q, e, off, len, v).cells = q.cells
<1> DEFINE a == [span |-> Span(e, off, len), value |-> v]
           p == Append(q.pre, a)
<1>1. GoodSpan(a.span)
  BY Spans
<1> HIDE DEF a
<1>2. GoodAtoms(q.pre)
  BY DEF Typed
<1>3. GoodAtoms(p)
  BY <1>1, <1>2, AppendList DEF GoodAtoms
<1>4. PushAtom(q, e, off, len, v) = [q EXCEPT !.pre = p]
  BY DEF PushAtom, a
<1> HIDE DEF p
<1> QED
  BY <1>3, <1>4 DEF Quiet, Grown, Typed, Asks, SymFields

\* A new cell.
LEMMA CellQuiet ==
  ASSUME NEW q, Typed(q), NEW e, Good(e), NEW off \in Int, NEW delta \in 0 .. 7, NEW w \in Widths,
         NEW v, Good(v), w # "B" => delta = 0
  PROVE  /\ Quiet(q, PushCell(q, e, off, delta, w, v))
         /\ PushCell(q, e, off, delta, w, v).cells =
              Append(q.cells, [base |-> e, off |-> off, delta |-> delta, width |-> w, value |-> v])
<1> DEFINE c == [base |-> e, off |-> off, delta |-> delta, width |-> w, value |-> v]
           p == Append(q.cells, c)
<1>1. GoodCell(c)
  BY DEF GoodCell
<1> HIDE DEF c
<1>2. GoodCells(q.cells)
  BY DEF Typed
<1>3. GoodCells(p)
  BY <1>1, <1>2, AppendList DEF GoodCells
<1>4. PushCell(q, e, off, delta, w, v) = [q EXCEPT !.cells = p]
  BY DEF PushCell, c
<1> HIDE DEF p
<1>5. Quiet(q, [q EXCEPT !.cells = p]) /\ [q EXCEPT !.cells = p].cells = p
  BY <1>3, PutCells
<1> QED
  BY <1>4, <1>5 DEF p, c

\* A clause for the program's regions.
LEMMA ClausePushed ==
  ASSUME NEW q, Typed(q), NEW sp, NEW w
  PROVE  /\ Typed(PushClause(q, sp, w)) /\ Grown(q, PushClause(q, sp, w))
         /\ PushClause(q, sp, w).rr = Append(q.rr, Clause(sp, w, FALSE))
         /\ PushClause(q, sp, w).cells = q.cells
<1> DEFINE p == Append(q.rr, Clause(sp, w, FALSE))
<1>1. IsList(p)
  BY AppendList DEF Typed
<1>2. PushClause(q, sp, w) = [q EXCEPT !.rr = p]
  BY DEF PushClause
<1> HIDE DEF p
<1>3. [q EXCEPT !.rr = p].rr = p
  BY DEF Typed, SymFields
<1> QED
  BY <1>1, <1>2, <1>3 DEF Grown, Typed, Asks, SymFields, p

\* request_demotion_on_conflict
LEMMA DemotionQuiet ==
  ASSUME NEW q, Typed(q), NEW sp, NEW w
  PROVE  Quiet(q, RequestDemotion(q, sp, w)) /\ RequestDemotion(q, sp, w).cells = q.cells
<1>1. ASSUME NEW met PROVE Quiet(q, DemoteWith(q, sp, met)) /\ DemoteWith(q, sp, met).cells = q.cells
  <2> DEFINE p == Append(q.newHot, UnionOf(met \cup {sp}, sp.root))
  <2>1. IsList(p) /\ p # <<>>
    BY AppendList DEF Typed
  <2>2. DemoteWith(q, sp, met) \in {[q EXCEPT !.newHot = p], q}
    BY DEF DemoteWith
  <2> HIDE DEF p
  <2> QED
    BY <2>1, <2>2 DEF Quiet, Grown, Typed, Asks, SymFields
<1> QED
  BY <1>1 DEF RequestDemotion

\* The tail split that a dword read of a blob asks for.
LEMMA SplitQuiet ==
  ASSUME NEW q, Typed(q), NEW sp, GoodSpan(sp), NEW w
  PROVE  Quiet(q, PlanTailSplit(q, sp, w)) /\ PlanTailSplit(q, sp, w).cells = q.cells
<1> DEFINE I == {j \in 1 .. Len(q.blobs) : Overlaps(q.blobs[j], sp) /\ q.blobs[j].lo <= sp.lo /\ sp.hi <= q.blobs[j].hi}
           i == IF I # {} THEN Min(I) ELSE 0
           x == [root |-> q.blobs[i].root, lo |-> q.blobs[i].lo, n |-> sp.lo - q.blobs[i].lo]
           p == Append(q.newSplits, x)
<1>1. IsList(q.blobs) /\ IsList(q.newSplits) /\ Len(q.blobs) \in Nat
  BY ListFacts DEF Typed, GoodBlobs, GoodNewSplits
<1>2. I \subseteq Nat
  OBVIOUS
<1>3. i # 0 => i \in 1 .. Len(q.blobs)
  <2>1. I # {} => Min(I) \in I
    BY <1>2, LeastIndex
  <2> QED
    BY <2>1
<1>4. \/ PlanTailSplit(q, sp, w) = q
      \/ PlanTailSplit(q, sp, w) = [q EXCEPT !.newSplits = p] /\ i # 0
  BY DEF PlanTailSplit, SelectInSeq
<1> HIDE DEF I, i
<1>5. i # 0 => x.n \in Int
  BY <1>3 DEF Typed, GoodBlobs, GoodSpan
<1> HIDE DEF x
<1>6. i # 0 => GoodNewSplits(p)
  BY <1>1, <1>5, AppendList DEF Typed, GoodNewSplits
<1> HIDE DEF p
<1>7. CASE PlanTailSplit(q, sp, w) = q
  BY <1>7, QuietSame
<1>8. CASE PlanTailSplit(q, sp, w) = [q EXCEPT !.newSplits = p] /\ i # 0
  BY <1>6, <1>8 DEF Quiet, Grown, Typed, Asks, SymFields
<1> QED
  BY <1>4, <1>7, <1>8

-----------------------------------------------------------------------------
(* Byte slots.                                                                 *)

\* hot_slot
LEMMA SlotQuiet ==
  ASSUME NEW q, Typed(q), NEW e, Good(e), NEW off \in Int, NEW k \in 0 .. 7
  PROVE  Quiet(q, HotSlot(q, e, off, k).s)
<1>1. ASSUME NEW i PROVE Quiet(q, KnownSlot(q, e, off, k, i).s)
  BY DEF KnownSlot, Quiet, Grown, Typed, Asks, SymFields
<1>2. ASSUME NEW v, Good(v) PROVE Quiet(q, NewSlot(q, e, off, k, v).s)
  <2> DEFINE a == Allocate(q)
             c == PushCell(a, e, off, k, "B", v)
             p == PushAtom(c, e, off + k, 1, v)
             n == NoteAccess(p, e, off + k, 1, <<"hotbyte", e, off, k>>)
  <2>1. Quiet(q, a)
    BY AllocateQuiet
  <2> HIDE DEF a
  <2>2. Quiet(a, c)
    <3>1. Typed(a) /\ "B" \in Widths
      BY <2>1 DEF Quiet, Widths, Bytes
    <3> QED
      BY <1>2, <3>1, CellQuiet
  <2> HIDE DEF c
  <2>3. Quiet(c, p)
    <3>1. Typed(c) /\ off + k \in Int /\ 1 \in Int
      BY <2>2 DEF Quiet
    <3> QED
      BY <3>1, AtomQuiet
  <2> HIDE DEF p
  <2>4. Quiet(p, n)
    BY <2>3, NoteQuiet DEF Quiet
  <2>5. NewSlot(q, e, off, k, v).s = n
    BY DEF NewSlot, n, p, c, a
  <2> HIDE DEF n
  <2> QED
    BY <2>1, <2>2, <2>3, <2>4, <2>5, QuietTrans
<1>3. ASSUME NEW i PROVE Quiet(q, SlotAt(q, e, off, k, i).s)
  <2>1. Good(<<"mem", "B", FreshName(q)>>)
    BY DEF Good
  <2> QED
    BY <1>1, <1>2, <2>1 DEF SlotAt
<1> QED
  BY <1>3 DEF HotSlot

\* The first n slots of one access.
Slotted(q, acc, n) == Quiet(q, acc.s) /\ IsList(acc.at) /\ Len(acc.at) = n

\* The next of them.
LEMMA NextSlotted ==
  ASSUME NEW q, NEW acc, NEW n \in 0 .. 7, Slotted(q, acc, n), NEW e, Good(e), NEW off \in Int
  PROVE  Slotted(q, NextSlot(acc, e, off), n + 1)
<1> DEFINE h == HotSlot(acc.s, e, off, Len(acc.at))
<1>1. Len(acc.at) = n /\ IsList(Append(acc.at, h.i)) /\ Len(Append(acc.at, h.i)) = n + 1
  BY AppendList DEF Slotted
<1>2. Quiet(acc.s, h.s)
  <2>1. Typed(acc.s) /\ Len(acc.at) \in 0 .. 7
    BY <1>1 DEF Slotted, Quiet
  <2> QED
    BY <2>1, SlotQuiet, Zenon
<1>3. NextSlot(acc, e, off) = [s |-> h.s, at |-> Append(acc.at, h.i)]
  BY DEF NextSlot, AddSlot
<1> HIDE DEF h
<1> QED
  BY <1>1, <1>2, <1>3, QuietTrans DEF Slotted

\* All of them.
LEMMA SlotsQuiet ==
  ASSUME NEW q, Typed(q), NEW e, Good(e), NEW off \in Int
  PROVE  Quiet(q, WordSlots(q, e, off).s) /\ Quiet(q, DwordSlots(q, e, off).s)
<1>1. ASSUME NEW acc, NEW n \in {0, 2, 4, 6}, Slotted(q, acc, n) PROVE Slotted(q, TwoSlots(acc, e, off), n + 2)
  <2>1. n \in 0 .. 7 /\ n + 1 \in 0 .. 7 /\ n + 1 + 1 = n + 2
    OBVIOUS
  <2>2. Slotted(q, NextSlot(acc, e, off), n + 1)
    BY <1>1, <2>1, NextSlotted
  <2>3. Slotted(q, NextSlot(NextSlot(acc, e, off), e, off), n + 1 + 1)
    BY <2>1, <2>2, NextSlotted
  <2> QED
    BY <2>1, <2>3 DEF TwoSlots
<1>2. ASSUME NEW acc, NEW n \in {0, 4}, Slotted(q, acc, n) PROVE Slotted(q, FourSlots(acc, e, off), n + 4)
  <2>1. n \in {0, 2, 4, 6} /\ n + 2 \in {0, 2, 4, 6} /\ n + 2 + 2 = n + 4
    OBVIOUS
  <2>2. Slotted(q, TwoSlots(acc, e, off), n + 2)
    BY <1>1, <1>2, <2>1
  <2>3. Slotted(q, TwoSlots(TwoSlots(acc, e, off), e, off), n + 2 + 2)
    BY <1>1, <2>1, <2>2
  <2> QED
    BY <2>1, <2>3 DEF FourSlots
<1>3. Slotted(q, [s |-> q, at |-> <<>>], 0)
  BY QuietSame, NoList DEF Slotted
<1>4. Slotted(q, WordSlots(q, e, off), 4)
  <2>1. 0 \in {0, 4} /\ 0 + 4 = 4
    OBVIOUS
  <2>2. Slotted(q, FourSlots([s |-> q, at |-> <<>>], e, off), 0 + 4)
    BY <1>2, <1>3, <2>1
  <2> QED
    BY <2>1, <2>2 DEF WordSlots
<1>5. Slotted(q, DwordSlots(q, e, off), 4 + 4)
  <2>1. 4 \in {0, 4}
    OBVIOUS
  <2> QED
    BY <1>2, <1>4, <2>1 DEF DwordSlots
<1> QED
  BY <1>4, <1>5 DEF Slotted

-----------------------------------------------------------------------------
(* Loads and stores.                                                           *)

\* One clause for the bytes of the access, or a request.
Claims(q, r, t, w) ==
  \E sp : r.rr = Append(q.rr, Clause(sp, w, FALSE)) /\ IsClauseFor(FullSpan(sp), t)
Accessed(q, r, t, w) == Typed(r) /\ Grown(q, r) /\ (Claims(q, r, t, w) \/ Asks(r))

\* The bytes themselves are.
LEMMA ClauseOfSpan ==
  ASSUME NEW e, Good(e), NEW off \in Int, NEW len \in Int
  PROVE  IsClauseFor(FullSpan(Span(e, off, len)), TrueSpan(e, off, len))
BY ClauseIsTrue DEF IsClauseFor

\* A quiet change before an access changes nothing of it.
LEMMA AccessAfter ==
  ASSUME NEW q, NEW p, NEW r, NEW t, NEW w, Quiet(q, p), Accessed(p, r, t, w)
  PROVE  Accessed(q, r, t, w)
BY DEF Quiet, Accessed, Claims, Grown

\* A clause after quiet changes.
LEMMA ClaimAfter ==
  ASSUME NEW q, NEW p, Quiet(q, p), NEW t, NEW w, NEW sp, IsClauseFor(FullSpan(sp), t)
  PROVE  Accessed(q, PushClause(p, sp, w), t, w)
<1>1. Typed(p) /\ p.rr = q.rr /\ Grown(q, p)
  BY DEF Quiet
<1>2. /\ Typed(PushClause(p, sp, w)) /\ Grown(p, PushClause(p, sp, w))
      /\ PushClause(p, sp, w).rr = Append(p.rr, Clause(sp, w, FALSE))
  BY <1>1, ClausePushed
<1> HIDE DEF PushClause
<1>3. Claims(q, PushClause(p, sp, w), t, w)
  BY <1>1, <1>2 DEF Claims
<1>4. Grown(q, PushClause(p, sp, w))
  BY <1>1, <1>2 DEF Grown
<1> QED
  BY <1>2, <1>3, <1>4 DEF Accessed

\* The widths of an access.
LEMMA WidthFacts == ASSUME NEW w \in Widths PROVE Bytes[w] \in Nat
BY DEF Widths, Bytes

\* The clause of an access to a known cell, under whatever rendering.
LEMMA HitClause ==
  ASSUME NEW q, Typed(q), NEW e, Good(e), NEW off \in Int, NEW w \in Widths,
         LookupCell(q, e, off, w).i # 0
  PROVE  IsClauseFor(FullSpan(HitSpan(q, LookupCell(q, e, off, w), e, off, w)), TrueSpan(e, off, Bytes[w]))
<1> DEFINE hit == LookupCell(q, e, off, w)
           c == q.cells[hit.i]
           n == Bytes[w]
           t == TrueSpan(e, off, n)
           sp == HitSpan(q, hit, e, off, w)
<1>1. /\ hit.i \in 1 .. Len(q.cells) /\ c.width = w
      /\ hit.aliased => CellSpan(c) = Span(e, off, n)
      /\ hit.aliased \in BOOLEAN
  BY FirstCell DEF Typed, GoodCells
<1>2. GoodCell(c)
  BY <1>1 DEF Typed, GoodCells
<1>3. n \in Int /\ (w = "B" => n = 1)
  BY WidthFacts DEF Bytes
<1> HIDE DEF hit, c, n
<1>4. Good(c.base) /\ c.off \in Int /\ c.delta \in 0 .. 7 /\ c.off + c.delta \in Int /\ (w # "B" => c.delta = 0)
  BY <1>1, <1>2 DEF GoodCell
<1>5. CASE hit.aliased
  <2> DEFINE b == TrueSpan(c.base, c.off, n)
             m == TrueSpan(c.base, c.off + c.delta, n)
  <2>1. sp = Span(c.base, c.off, n)
    BY <1>5 DEF HitSpan, c, n
  <2>2. FullSpan(sp) = b
    BY <1>3, <1>4, <2>1, ClauseIsTrue
  <2>3. m = t
    <3>1. Span(c.base, c.off + c.delta, n) = Span(e, off, n)
      BY <1>1, <1>5 DEF CellSpan, n
    <3> QED
      BY <1>3, <1>4, <3>1, ClauseIsTrue
  <2>4. /\ b.root = TrueRoot(c.base) /\ b.lo \in Int /\ b.hi = b.lo + n /\ m.lo = b.lo + c.delta
        /\ m.root = TrueRoot(c.base) /\ m.hi = m.lo + n
    <3>1. n \in Int
      BY <1>3
    <3>2. c.delta \in Int
      BY <1>4
    <3>3. Good(c.base) /\ c.off \in Int /\ c.off + c.delta \in Int
      BY <1>4
    <3>4. Shifts(c.base, c.off, n, c.delta)
      BY <3>1, <3>2, <3>3, TrueSpans
    <3>5. Shifts(c.base, c.off + c.delta, n, c.delta)
      BY <3>1, <3>2, <3>3, TrueSpans
    <3> HIDE DEF b, m
    <3> QED
      BY <3>4, <3>5, Zenon DEF Shifts, b, m
  <2> HIDE DEF b, m, t, sp
  <2>5. b.root = t.root /\ b.hi - b.lo = n /\ t.hi - t.lo = n /\ t.lo - b.lo = c.delta
    BY <1>3, <1>4, <2>3, <2>4
  <2> QED
    BY <1>3, <1>4, <2>2, <2>3, <2>4, <2>5 DEF IsClauseFor, sp, t, hit, n
<1>6. CASE ~hit.aliased
  <2>1. sp = Span(e, off, n)
    BY <1>6 DEF HitSpan, n
  <2>2. IsClauseFor(FullSpan(Span(e, off, n)), t)
    BY <1>3, ClauseOfSpan
  <2> QED
    BY <2>1, <2>2 DEF sp, t, hit, n
<1> QED
  BY <1>1, <1>5, <1>6

\* The first touch of a cell, which a lookup finds from then on.
LEMMA Materialised ==
  ASSUME NEW q, Typed(q), NEW e, Good(e), NEW off \in Int, NEW w \in Widths
  PROVE  LET m == Materialise(q, e, off, w)
         IN  /\ Quiet(q, m) /\ Good(Last(m.cells).value)
             /\ \E i \in 1 .. Len(m.cells) : m.cells[i].width = w /\ RenderedAs(m.cells[i], e, off, 0)
<1> DEFINE v == <<"mem", w, FreshName(q)>>
           a == Allocate(q)
           n == NoteAccess(a, e, off, Bytes[w], <<"cell", e, off, w>>)
           c == [base |-> e, off |-> off, delta |-> 0, width |-> w, value |-> v]
           p == PushCell(n, e, off, 0, w, v)
           m == PushAtom(p, e, off, Bytes[w], v)
<1>1. Good(v) /\ Bytes[w] \in Int /\ 0 \in Int
  BY WidthFacts DEF Good
<1>2. Materialise(q, e, off, w) = m
  BY DEF Materialise, NewCell
<1> HIDE DEF v
<1>3. Quiet(q, a)
  BY AllocateQuiet
<1> HIDE DEF a
<1>4. Quiet(a, n)
  BY <1>3, NoteQuiet DEF Quiet
<1> HIDE DEF n
<1>5. Quiet(n, p) /\ p.cells = Append(n.cells, c)
  BY <1>1, <1>4, CellQuiet DEF Quiet
<1> HIDE DEF p
<1>6. Quiet(p, m) /\ m.cells = p.cells
  BY <1>1, <1>5, AtomQuiet DEF Quiet
<1> HIDE DEF m
<1>7. Quiet(q, m)
  BY <1>3, <1>4, <1>5, <1>6, QuietTrans
<1>8. IsList(n.cells)
  BY <1>4 DEF Quiet, Typed, GoodCells
<1>9. c.width = w /\ RenderedAs(c, e, off, 0) /\ c.value = v
  BY DEF RenderedAs
<1> HIDE DEF c
<1>10. /\ Len(m.cells) = Len(n.cells) + 1 /\ Len(n.cells) \in Nat
       /\ m.cells[Len(n.cells) + 1] = c /\ Last(m.cells) = c
  BY <1>5, <1>6, <1>8, AppendList
<1>11. \E i \in 1 .. Len(m.cells) : m.cells[i].width = w /\ RenderedAs(m.cells[i], e, off, 0)
  BY <1>9, <1>10
<1> QED
  BY <1>1, <1>2, <1>7, <1>9, <1>10, <1>11

\* A load outside the byte-granular regions: its value, its clause, its cell.
LEMMA ColdRead ==
  ASSUME NEW q, Typed(q), NEW e, Good(e), NEW off \in Int, NEW w \in Widths
  PROVE  LET r == ReadCold(q, e, off, w)
         IN  /\ Accessed(q, r.s, TrueSpan(e, off, Bytes[w]), FALSE) /\ Good(r.v)
             /\ Claims(q, r.s, TrueSpan(e, off, Bytes[w]), FALSE)
             /\ LookupCell(r.s, e, off, w).i # 0
<1> DEFINE hit == LookupCell(q, e, off, w)
           r == ReadCold(q, e, off, w)
           sp == HitSpan(q, hit, e, off, w)
<1>1. CASE hit.i # 0
  <2> DEFINE p == [q EXCEPT !.alias = @ \/ hit.aliased]
  <2>1. r = [s |-> PushClause(p, sp, FALSE), v |-> q.cells[hit.i].value]
    BY <1>1 DEF ReadCold, ReadHit
  <2>2. IsClauseFor(FullSpan(sp), TrueSpan(e, off, Bytes[w]))
    BY <1>1, HitClause
  <2>3. Good(q.cells[hit.i].value)
    <3>1. hit.i \in 1 .. Len(q.cells)
      BY <1>1, FirstCell DEF Typed, GoodCells
    <3> QED
      BY <3>1 DEF Typed, GoodCells, GoodCell
  <2> HIDE DEF sp
  <2>4. Quiet(q, p) /\ p.cells = q.cells
    BY DEF Quiet, Grown, Typed, Asks, SymFields
  <2> HIDE DEF p
  <2> DEFINE n == PushClause(p, sp, FALSE)
  <2>5. Accessed(q, n, TrueSpan(e, off, Bytes[w]), FALSE)
    BY <2>2, <2>4, ClaimAfter
  <2>6. n.rr = Append(q.rr, Clause(sp, FALSE, FALSE)) /\ n.cells = q.cells
    <3>1. Typed(p) /\ p.rr = q.rr
      BY <2>4 DEF Quiet
    <3>2. n.rr = Append(p.rr, Clause(sp, FALSE, FALSE)) /\ n.cells = p.cells
      BY <3>1, ClausePushed, Zenon
    <3> QED
      BY <2>4, <3>1, <3>2, Zenon
  <2> HIDE DEF n
  <2>7. Claims(q, n, TrueSpan(e, off, Bytes[w]), FALSE)
    BY <2>2, <2>6, Zenon DEF Claims
  <2>8. LookupCell(n, e, off, w) = LookupCell(q, e, off, w)
    BY <2>6 DEF LookupCell
  <2>9. r.s = n /\ r.v = q.cells[hit.i].value
    BY <2>1 DEF n
  <2> QED
    BY <1>1, <2>3, <2>5, <2>7, <2>8, <2>9, Zenon
<1>2. CASE hit.i = 0
  <2> DEFINE m == Materialise(q, e, off, w)
             t == Span(e, off, Bytes[w])
  <2>1. r = [s |-> PushClause(m, t, FALSE), v |-> Last(m.cells).value]
    BY <1>2 DEF ReadCold, ReadHit, ReadNew
  <2>2. /\ Quiet(q, m) /\ Good(Last(m.cells).value)
        /\ \E i \in 1 .. Len(m.cells) : m.cells[i].width = w /\ RenderedAs(m.cells[i], e, off, 0)
    BY Materialised
  <2>3. IsClauseFor(FullSpan(t), TrueSpan(e, off, Bytes[w]))
    <3>1. Bytes[w] \in Int
      BY WidthFacts
    <3> QED
      BY <3>1, ClauseOfSpan
  <2> HIDE DEF m, t
  <2>4. Accessed(q, PushClause(m, t, FALSE), TrueSpan(e, off, Bytes[w]), FALSE)
    BY <2>2, <2>3, ClaimAfter
  <2>5. PushClause(m, t, FALSE).rr = Append(q.rr, Clause(t, FALSE, FALSE)) /\ PushClause(m, t, FALSE).cells = m.cells
    BY <2>2, ClausePushed DEF Quiet
  <2>6. Claims(q, PushClause(m, t, FALSE), TrueSpan(e, off, Bytes[w]), FALSE)
    BY <2>3, <2>5 DEF Claims
  <2> DEFINE n == PushClause(m, t, FALSE)
  <2>7. IsList(n.cells) /\ \E i \in 1 .. Len(n.cells) : n.cells[i].width = w /\ RenderedAs(n.cells[i], e, off, 0)
    BY <2>2, <2>4, <2>5 DEF Accessed, Typed, GoodCells
  <2> HIDE DEF n
  <2>8. LookupCell(n, e, off, w).i # 0
    BY <2>7, FirstCell
  <2>9. r.s = n /\ r.v = Last(m.cells).value
    BY <2>1 DEF n
  <2> QED
    BY <2>2, <2>4, <2>6, <2>8, <2>9, Zenon DEF n
<1> QED
  BY <1>1, <1>2

\* read_mem, where the byte-granular regions do not cover the access.
LEMMA PlainRead ==
  ASSUME NEW q, Typed(q), NEW e, Good(e), NEW off \in Int, NEW w \in Widths,
         w = "B" \/ ~HotCovers(q, Span(e, off, Bytes[w]))
  PROVE  LET r == ReadMem(q, e, off, w)
         IN  /\ Accessed(q, r.s, TrueSpan(e, off, Bytes[w]), FALSE) /\ Good(r.v)
             /\ Claims(q, r.s, TrueSpan(e, off, Bytes[w]), FALSE)
             /\ LookupCell(r.s, e, off, w).i # 0
<1>1. CASE w = "B"
  <2>1. ReadMem(q, e, off, w) = ReadCold(q, e, off, w)
    BY <1>1 DEF ReadMem
  <2> QED
    BY <2>1, ColdRead, Zenon
<1>2. CASE w # "B"
  <2> DEFINE sp == Span(e, off, Bytes[w])
             p == PlanTailSplit(q, sp, w)
             d == RequestDemotion(p, sp, w)
             r == ReadCold(d, e, off, w)
  <2>1. ReadMem(q, e, off, w) = r
    BY <1>2 DEF ReadMem, ReadSpan
  <2>2. GoodSpan(sp)
    <3>1. Bytes[w] \in Int
      BY WidthFacts
    <3> QED
      BY <3>1, Spans
  <2> HIDE DEF sp
  <2>3. Quiet(q, p)
    BY <2>2, SplitQuiet
  <2> HIDE DEF p
  <2>4. Quiet(p, d)
    BY <2>3, DemotionQuiet DEF Quiet
  <2> HIDE DEF d
  <2>5. Quiet(q, d)
    BY <2>3, <2>4, QuietTrans
  <2>6. /\ Accessed(d, r.s, TrueSpan(e, off, Bytes[w]), FALSE) /\ Good(r.v)
        /\ Claims(d, r.s, TrueSpan(e, off, Bytes[w]), FALSE) /\ LookupCell(r.s, e, off, w).i # 0
    <3>1. Typed(d)
      BY <2>5 DEF Quiet
    <3> QED
      BY <3>1, ColdRead, Zenon
  <2> HIDE DEF r
  <2>7. Accessed(q, r.s, TrueSpan(e, off, Bytes[w]), FALSE)
    BY <2>5, <2>6, AccessAfter
  <2>8. Claims(q, r.s, TrueSpan(e, off, Bytes[w]), FALSE)
    <3>1. d.rr = q.rr
      BY <2>5 DEF Quiet
    <3> QED
      BY <2>6, <3>1, Zenon DEF Claims
  <2> QED
    BY <2>1, <2>6, <2>7, <2>8, Zenon
<1> QED
  BY <1>1, <1>2

\* A refusal is a request.
LEMMA Refusal ==
  ASSUME NEW q, Typed(q)
  PROVE  Typed([q EXCEPT !.overlap = TRUE]) /\ Grown(q, [q EXCEPT !.overlap = TRUE]) /\ Asks([q EXCEPT !.overlap = TRUE])
BY DEF Grown, Typed, Asks, SymFields

\* read_mem
LEMMA Read ==
  ASSUME NEW q, Typed(q), NEW e, Good(e), NEW off \in Int, NEW w \in Widths
  PROVE  LET r == ReadMem(q, e, off, w) IN Accessed(q, r.s, TrueSpan(e, off, Bytes[w]), FALSE) /\ Good(r.v)
<1>1. CASE w = "B" \/ ~HotCovers(q, Span(e, off, Bytes[w]))
  BY <1>1, PlainRead, Zenon
<1>2. CASE w # "B" /\ HotCovers(q, Span(e, off, Bytes[w]))
  <2> DEFINE sp == Span(e, off, Bytes[w])
             p == PlanTailSplit(q, sp, w)
             r == ReadHotWide(p, e, off, w)
  <2>1. ReadMem(q, e, off, w) = r
    BY <1>2 DEF ReadMem, ReadSpan
  <2>2. Bytes[w] \in Int /\ GoodSpan(sp)
    <3>1. Bytes[w] \in Int
      BY WidthFacts
    <3> QED
      BY <3>1, Spans
  <2> HIDE DEF sp
  <2>3. Quiet(q, p) /\ Typed(p)
    BY <2>2, SplitQuiet DEF Quiet
  <2> HIDE DEF p
  <2>4. Accessed(p, r.s, TrueSpan(e, off, Bytes[w]), FALSE) /\ Good(r.v)
    <3>1. CASE w # "D"
      <4>1. r = [s |-> [p EXCEPT !.overlap = TRUE], v |-> <<"raw", "hotUnsupported">>]
        BY <3>1 DEF ReadHotWide
      <4>2. Good(<<"raw", "hotUnsupported">>)
        BY DEF Good
      <4>3. Accessed(p, [p EXCEPT !.overlap = TRUE], TrueSpan(e, off, Bytes[w]), FALSE)
        BY <2>3, Refusal DEF Accessed
      <4>4. r.s = [p EXCEPT !.overlap = TRUE] /\ r.v = <<"raw", "hotUnsupported">>
        BY <4>1
      <4> QED
        BY <4>2, <4>3, <4>4, Zenon
    <3>2. CASE w = "D"
      <4> DEFINE h == DwordSlots(p, e, off)
                 t == Span(e, off, 8)
                 x == [k \in 1 .. 8 |-> h.s.cells[h.at[k]].value]
      <4>1. r = [s |-> PushClause(h.s, t, FALSE), v |-> <<"combo", x>>]
        BY <3>2 DEF ReadHotWide, Combined
      <4>2. Good(<<"combo", x>>)
        BY DEF Good
      <4>3. Quiet(p, h.s)
        BY <2>3, SlotsQuiet
      <4>4. IsClauseFor(FullSpan(t), TrueSpan(e, off, Bytes[w]))
        <5>1. Bytes[w] = 8
          BY <3>2 DEF Bytes
        <5> QED
          BY <5>1, ClauseOfSpan
      <4> HIDE DEF h, t, x
      <4>5. Accessed(p, PushClause(h.s, t, FALSE), TrueSpan(e, off, Bytes[w]), FALSE)
        BY <4>3, <4>4, ClaimAfter
      <4>6. r.s = PushClause(h.s, t, FALSE) /\ r.v = <<"combo", x>>
        BY <4>1
      <4> QED
        BY <4>2, <4>5, <4>6, Zenon
    <3> QED
      BY <3>1, <3>2
  <2> HIDE DEF r
  <2>5. Accessed(q, r.s, TrueSpan(e, off, Bytes[w]), FALSE)
    BY <2>3, <2>4, AccessAfter
  <2> QED
    BY <2>1, <2>4, <2>5, Zenon
<1> QED
  BY <1>1, <1>2

\* A store into a cell that a lookup finds.
LEMMA StoreFound ==
  ASSUME NEW q, Typed(q), NEW e, Good(e), NEW off \in Int, NEW w \in Widths, NEW v, Good(v),
         LookupCell(q, e, off, w).i # 0
  PROVE  Accessed(q, SetIn(q, e, off, w, v), TrueSpan(e, off, Bytes[w]), TRUE)
<1> DEFINE hit == LookupCell(q, e, off, w)
           sp == HitSpan(q, hit, e, off, w)
           c == [q.cells EXCEPT ![hit.i].value = v]
           p == [q EXCEPT !.cells[hit.i].value = v, !.alias = @ \/ hit.aliased]
<1>1. IsClauseFor(FullSpan(sp), TrueSpan(e, off, Bytes[w]))
  BY HitClause
<1>2. SetIn(q, e, off, w, v) = PushClause(p, sp, TRUE)
  BY DEF SetIn, SetCell
<1>3. hit.i \in 1 .. Len(q.cells)
  BY FirstCell DEF Typed, GoodCells
<1> HIDE DEF hit, sp
<1>4. GoodCells(c)
  <2>1. Len(q.cells) \in Nat /\ DOMAIN q.cells = 1 .. Len(q.cells) /\ \A i \in 1 .. Len(q.cells) : GoodCell(q.cells[i])
    BY ListFacts DEF Typed, GoodCells
  <2>2. \A i \in 1 .. Len(q.cells) : GoodCell(c[i])
    BY <1>3, <2>1 DEF GoodCell
  <2>3. c \in [1 .. Len(q.cells) -> Range(c)]
    BY <2>1 DEF Range
  <2> HIDE DEF c
  <2>4. IsList(c) /\ Len(c) = Len(q.cells)
    BY <2>1, <2>3, FunctionList
  <2> QED
    BY <2>2, <2>4 DEF GoodCells
<1>5. p = [q EXCEPT !.cells = c, !.alias = @ \/ hit.aliased]
  BY DEF Typed, SymFields
<1> HIDE DEF p, c
<1>6. Quiet(q, p)
  BY <1>4, <1>5 DEF Quiet, Grown, Typed, Asks, SymFields
<1>7. Accessed(q, PushClause(p, sp, TRUE), TrueSpan(e, off, Bytes[w]), TRUE)
  BY <1>1, <1>6, ClaimAfter
<1> QED
  BY <1>2, <1>7, Zenon

\* A store outside the byte-granular regions: the clause of the read that
\* materialises the cell is taken back.
LEMMA ColdWrite ==
  ASSUME NEW q, Typed(q), NEW e, Good(e), NEW off \in Int, NEW w \in Widths, NEW v, Good(v), NEW hit,
         hit.i # 0 => LookupCell(q, e, off, w).i # 0,
         w = "B" \/ ~HotCovers(q, Span(e, off, Bytes[w]))
  PROVE  Accessed(q, WriteCold(q, e, off, w, v, hit), TrueSpan(e, off, Bytes[w]), TRUE)
<1>1. CASE hit.i # 0
  <2>1. WriteCold(q, e, off, w, v, hit) = SetIn(q, e, off, w, v)
    BY <1>1, Zenon DEF WriteCold
  <2>2. Accessed(q, SetIn(q, e, off, w, v), TrueSpan(e, off, Bytes[w]), TRUE)
    BY <1>1, StoreFound
  <2> QED
    BY <2>1, <2>2, Zenon
<1>2. CASE hit.i = 0
  <2> DEFINE r == ReadMem(q, e, off, w).s
             m == [r EXCEPT !.rr = Front(@)]
  <2>1. WriteCold(q, e, off, w, v, hit) = SetIn(m, e, off, w, v)
    BY <1>2 DEF WriteCold
  <2>2. Typed(r) /\ Grown(q, r) /\ Claims(q, r, TrueSpan(e, off, Bytes[w]), FALSE) /\ LookupCell(r, e, off, w).i # 0
    BY PlainRead, Zenon DEF Accessed
  <2> HIDE DEF r
  <2>3. PICK c : r.rr = Append(q.rr, c)
    BY <2>2 DEF Claims
  <2>4. Front(r.rr) = q.rr /\ IsList(q.rr)
    BY <2>3, AppendList DEF Typed
  <2>5. Quiet(q, m) /\ m.cells = r.cells
    BY <2>2, <2>4 DEF Quiet, Grown, Typed, Asks, SymFields
  <2> HIDE DEF m
  <2>6. LookupCell(m, e, off, w) = LookupCell(r, e, off, w)
    BY <2>5 DEF LookupCell
  <2>7. Accessed(m, SetIn(m, e, off, w, v), TrueSpan(e, off, Bytes[w]), TRUE)
    <3>1. Typed(m) /\ LookupCell(m, e, off, w).i # 0
      BY <2>2, <2>5, <2>6 DEF Quiet
    <3> QED
      BY <3>1, StoreFound
  <2>8. Accessed(q, SetIn(m, e, off, w, v), TrueSpan(e, off, Bytes[w]), TRUE)
    BY <2>5, <2>7, AccessAfter
  <2> QED
    BY <2>1, <2>8, Zenon
<1> QED
  BY <1>1, <1>2

\* Cells with other values.
LEMMA SetValues ==
  ASSUME NEW q, Typed(q), NEW c, DOMAIN c = 1 .. Len(q.cells), IsList(c),
         \A i \in 1 .. Len(q.cells) : c[i] = q.cells[i] \/ \E v : Good(v) /\ c[i] = [q.cells[i] EXCEPT !.value = v]
  PROVE  Quiet(q, [q EXCEPT !.cells = c])
<1>1. Len(q.cells) \in Nat /\ \A i \in 1 .. Len(q.cells) : GoodCell(q.cells[i])
  BY ListFacts DEF Typed, GoodCells
<1>2. Len(c) = Len(q.cells)
  <2>1. Len(c) \in Nat /\ DOMAIN c = 1 .. Len(c)
    BY ListFacts
  <2> QED
    BY <1>1, <2>1
<1>3. \A i \in 1 .. Len(c) : GoodCell(c[i])
  BY <1>1, <1>2 DEF GoodCell
<1>4. GoodCells(c)
  BY <1>3 DEF GoodCells
<1> QED
  BY <1>4, PutCells

\* write_hot_word_imm: the bytes of the immediate.
LEMMA ImmBytesQuiet ==
  ASSUME NEW q, NEW h, Quiet(q, h.s), NEW c
  PROVE  Quiet(q, SetImmBytes(h, c))
<1> DEFINE V(i) == <<"byte", <<"imm", c, (CHOOSE k \in 1 .. 4 : h.at[k] = i) - 1>>>>
           N(i) == IF \E k \in 1 .. 4 : h.at[k] = i THEN [h.s.cells[i] EXCEPT !.value = V(i)] ELSE h.s.cells[i]
           f == [i \in 1 .. Len(h.s.cells) |-> N(i)]
<1>1. Typed(h.s)
  BY DEF Quiet
<1>2. SetImmBytes(h, c) = [h.s EXCEPT !.cells = f]
  BY DEF SetImmBytes
<1>3. ASSUME NEW i PROVE Good(V(i))
  BY DEF Good
<1> HIDE DEF V
<1>4. ASSUME NEW i PROVE N(i) = h.s.cells[i] \/ \E v : Good(v) /\ N(i) = [h.s.cells[i] EXCEPT !.value = v]
  BY <1>3
<1> HIDE DEF N
<1>5. Len(h.s.cells) \in Nat
  BY <1>1, ListFacts DEF Typed, GoodCells
<1>6. /\ DOMAIN f = 1 .. Len(h.s.cells) /\ f \in [1 .. Len(h.s.cells) -> Range(f)]
      /\ \A i \in 1 .. Len(h.s.cells) : f[i] = N(i)
  BY DEF Range
<1> HIDE DEF f
<1>7. IsList(f)
  BY <1>5, <1>6, FunctionList
<1>8. \A i \in 1 .. Len(h.s.cells) :
        f[i] = h.s.cells[i] \/ \E v : Good(v) /\ f[i] = [h.s.cells[i] EXCEPT !.value = v]
  BY <1>4, <1>6, Zenon
<1>9. Quiet(h.s, [h.s EXCEPT !.cells = f])
  BY <1>1, <1>6, <1>7, <1>8, SetValues
<1> QED
  BY <1>2, <1>9, QuietTrans

\* A store across the edge of a byte-granular region asks for another pass.
LEMMA DemotionAsks ==
  ASSUME NEW q, Typed(q), NEW sp, NEW w, HotIntersects(q, sp)
  PROVE  Asks(RequestDemotion(q, sp, w))
<1>1. ASSUME NEW met PROVE Asks(DemoteWith(q, sp, met))
  <2> DEFINE p == Append(q.newHot, UnionOf(met \cup {sp}, sp.root))
  <2>1. p # <<>>
    BY AppendList DEF Typed
  <2>2. DemoteWith(q, sp, met) = [q EXCEPT !.newHot = p]
    BY DEF DemoteWith
  <2> HIDE DEF p
  <2> QED
    BY <2>1, <2>2 DEF Typed, Asks, SymFields
<1> QED
  BY <1>1 DEF RequestDemotion

\* write_mem
LEMMA Written ==
  ASSUME NEW q, Typed(q), NEW e, Good(e), NEW off \in Int, NEW w \in Widths, NEW v, Good(v)
  PROVE  Accessed(q, WriteMem(q, e, off, w, v), TrueSpan(e, off, Bytes[w]), TRUE)
<1> DEFINE sp == Span(e, off, Bytes[w])
           r == WriteMem(q, e, off, w, v)
<1>0. r = WriteSpan(q, e, off, w, v, sp)
  BY DEF WriteMem
<1>1. CASE w # "B" /\ HotCovers(q, sp) /\ w = "W" /\ v[1] = "imm" /\ v[3] = "W"
  <2> DEFINE h == WordSlots(q, e, off)
             m == SetImmBytes(h, v[2])
             t == Span(e, off, 4)
  <2>1. r = PushClause(m, t, TRUE)
    BY <1>0, <1>1 DEF WriteSpan, WriteHotWordImm
  <2>2. Quiet(q, m)
    BY SlotsQuiet, ImmBytesQuiet
  <2>3. IsClauseFor(FullSpan(t), TrueSpan(e, off, Bytes[w]))
    <3>1. Bytes[w] = 4
      BY <1>1 DEF Bytes
    <3> QED
      BY <3>1, ClauseOfSpan
  <2> HIDE DEF m, t
  <2>4. Accessed(q, PushClause(m, t, TRUE), TrueSpan(e, off, Bytes[w]), TRUE)
    BY <2>2, <2>3, ClaimAfter
  <2> QED
    BY <2>1, <2>4, Zenon
<1>2. CASE w # "B" /\ HotCovers(q, sp) /\ ~(w = "W" /\ v[1] = "imm" /\ v[3] = "W")
  <2>1. r = [q EXCEPT !.overlap = TRUE]
    BY <1>0, <1>2 DEF WriteSpan
  <2>2. Accessed(q, [q EXCEPT !.overlap = TRUE], TrueSpan(e, off, Bytes[w]), TRUE)
    BY Refusal DEF Accessed
  <2> QED
    BY <2>1, <2>2, Zenon
<1>3. CASE w # "B" /\ ~HotCovers(q, sp) /\ HotIntersects(q, sp)
  <2>1. r = RequestDemotion(q, sp, w)
    BY <1>0, <1>3 DEF WriteSpan
  <2>2. Accessed(q, RequestDemotion(q, sp, w), TrueSpan(e, off, Bytes[w]), TRUE)
    BY <1>3, DemotionQuiet, DemotionAsks DEF Accessed, Quiet
  <2> QED
    BY <2>1, <2>2, Zenon
<1>4. CASE w # "B" /\ ~HotCovers(q, sp) /\ ~HotIntersects(q, sp)
  <2> DEFINE d == RequestDemotion(q, sp, w)
             hit == LookupCell(q, e, off, w)
  <2>1. r = WriteCold(d, e, off, w, v, hit)
    BY <1>0, <1>4, Zenon DEF WriteSpan
  <2>2. Quiet(q, d) /\ d.cells = q.cells
    BY DemotionQuiet
  <2> HIDE DEF d
  <2>3. Typed(d) /\ d.hot = q.hot
    BY <2>2 DEF Quiet, Grown
  <2>4. ~HotCovers(d, Span(e, off, Bytes[w]))
    BY <1>4, <2>3 DEF HotCovers
  <2>5. LookupCell(d, e, off, w) = hit
    BY <2>2 DEF LookupCell
  <2>6. hit.i # 0 => LookupCell(d, e, off, w).i # 0
    BY <2>5, Zenon
  <2> HIDE DEF hit
  <2>7. Accessed(d, WriteCold(d, e, off, w, v, hit), TrueSpan(e, off, Bytes[w]), TRUE)
    BY <2>3, <2>4, <2>6, ColdWrite
  <2>8. Accessed(q, WriteCold(d, e, off, w, v, hit), TrueSpan(e, off, Bytes[w]), TRUE)
    BY <2>2, <2>7, AccessAfter
  <2> QED
    BY <2>1, <2>8, Zenon
<1>5. CASE w = "B"
  <2> DEFINE hit == LookupCell(q, e, off, w)
  <2>1. r = WriteCold(q, e, off, w, v, hit)
    BY <1>0, <1>5, Zenon DEF WriteSpan
  <2>2. Accessed(q, WriteCold(q, e, off, w, v, hit), TrueSpan(e, off, Bytes[w]), TRUE)
    BY <1>5, ColdWrite
  <2> QED
    BY <2>1, <2>2, Zenon
<1> QED
  BY <1>1, <1>2, <1>3, <1>4, <1>5

-----------------------------------------------------------------------------
(* Instructions.                                                               *)

\* A step that neither accesses memory nor calls.
Plain(q, r) ==
  Typed(r) /\ r.stack = q.stack /\ r.rr = q.rr /\ (Asks(q) => Asks(r)) /\ r.regs[10] = q.regs[10]
\* A step that accesses memory.
Access(q, r, t, w) ==
  /\ Typed(r) /\ r.stack = q.stack /\ (Asks(q) => Asks(r)) /\ r.regs[10] = q.regs[10]
  /\ Claims(q, r, t, w) \/ Asks(r)

\* A write to a register other than the frame pointer.
LEMMA PutReg ==
  ASSUME NEW q, Typed(q), NEW d \in 0 .. 9, NEW x, Good(x)
  PROVE  Plain(q, [q EXCEPT !.regs[d] = x])
<1> DEFINE g == [q.regs EXCEPT ![d] = x]
<1>1. GoodRegs(g) /\ g[10] = q.regs[10]
  BY DEF Typed, GoodRegs
<1>2. [q EXCEPT !.regs[d] = x] = [q EXCEPT !.regs = g]
  OBVIOUS
<1> HIDE DEF g
<1> QED
  BY <1>1, <1>2 DEF Plain, Typed, Asks, SymFields

\* Quiet changes are plain, and plain ones compose.
LEMMA QuietPlain ==
  ASSUME NEW q, NEW r, Quiet(q, r)
  PROVE  Plain(q, r)
BY DEF Quiet, Grown, Plain

\* A plain step after an access.
LEMMA AccessPlain ==
  ASSUME NEW q, NEW p, NEW r, NEW t, NEW w, Access(q, p, t, w), Plain(p, r)
  PROVE  Access(q, r, t, w)
BY DEF Access, Plain, Claims

\* A quiet change before one.
LEMMA QuietAccess ==
  ASSUME NEW q, NEW p, NEW r, NEW t, NEW w, Quiet(q, p), Access(p, r, t, w)
  PROVE  Access(q, r, t, w)
BY DEF Quiet, Grown, Access, Claims

\* A quiet change before a plain one.
LEMMA PlainTrans ==
  ASSUME NEW q, NEW p, NEW r, Plain(q, p), Plain(p, r)
  PROVE  Plain(q, r)
BY DEF Plain

\* An access that leaves the registers alone.
LEMMA AccessedAccess ==
  ASSUME NEW q, NEW r, NEW t, NEW w, Accessed(q, r, t, w)
  PROVE  Access(q, r, t, w)
BY DEF Accessed, Access, Grown

\* A new hypothesis.
LEMMA HypQuiet == ASSUME NEW q, Typed(q), NEW h PROVE Quiet(q, Hyp(q, h))
BY DEF Hyp, Quiet, Grown, Typed, Asks, SymFields

\* take_alias_hypotheses
LEMMA AliasesQuiet == ASSUME NEW q, Typed(q), NEW p PROVE Quiet(q, TakeAliases(q, p))
<1> DEFINE h == q.hyps \o (IF q.alias THEN <<<<"h_alias", p>>>> ELSE <<>>)
                  \o [k \in 1 .. q.slotAliases |-> <<"h_alias", p, k - 1>>]
<1>1. TakeAliases(q, p) = [q EXCEPT !.hyps = h, !.alias = FALSE, !.slotAliases = 0]
  BY DEF TakeAliases
<1> HIDE DEF h
<1> QED
  BY <1>1 DEF Quiet, Grown, Typed, Asks, SymFields

\* Loads.
LEMMA Load ==
  ASSUME NEW q, Typed(q), NEW ins, Decoded(ins), ins.op = "ldx", NEW p
  PROVE  Access(q, LoadStep(q, ins, p), TrueSpan(q.regs[ins.s], ins.off, Bytes[ins.w]), FALSE)
<1>1. ins.w \in Widths /\ ins.off \in Int /\ ins.s \in 0 .. 10 /\ ins.d \in 0 .. 9
  BY DEF Decoded
<1> DEFINE e == q.regs[ins.s]
           r == ReadMem(q, e, ins.off, ins.w)
           b == ins.w # "B" /\ ~ IsVar(r.v) /\ ~ (ins.w = "D" /\ r.v[1] = "combo")
           h == IF b THEN Hyp(r.s, <<"hReloadLt", p, r.v, ins.w>>) ELSE r.s
           x == IF ins.w = "B" THEN <<"mod", r.v>> ELSE r.v
<1>2. Good(e)
  BY <1>1 DEF Typed, GoodRegs
<1>3. LoadStep(q, ins, p) = [h EXCEPT !.regs[ins.d] = x]
  BY DEF LoadStep, Loaded
<1> HIDE DEF e
<1>4. Accessed(q, r.s, TrueSpan(e, ins.off, Bytes[ins.w]), FALSE) /\ Good(r.v)
  BY <1>1, <1>2, Read, Zenon
<1> HIDE DEF r, b
<1>5. Good(<<"mod", r.v>>)
  BY DEF Good
<1>6. Good(x)
  BY <1>4, <1>5, Zenon
<1>7. Quiet(r.s, h)
  BY <1>4, HypQuiet, QuietSame DEF Accessed
<1>8. Typed(h)
  BY <1>7 DEF Quiet
<1> HIDE DEF x, h
<1>9. Plain(h, [h EXCEPT !.regs[ins.d] = x])
  BY <1>1, <1>6, <1>8, PutReg
<1>10. Access(q, r.s, TrueSpan(e, ins.off, Bytes[ins.w]), FALSE)
  BY <1>4, AccessedAccess
<1>11. Plain(r.s, [h EXCEPT !.regs[ins.d] = x])
  BY <1>7, <1>9, QuietPlain, PlainTrans
<1>12. Access(q, [h EXCEPT !.regs[ins.d] = x], TrueSpan(e, ins.off, Bytes[ins.w]), FALSE)
  BY <1>10, <1>11, AccessPlain
<1> QED
  BY <1>3, <1>12, Zenon DEF e

\* Stores.
LEMMA StoreReg ==
  ASSUME NEW q, Typed(q), NEW ins, Decoded(ins), ins.op = "stx"
  PROVE  Access(q, StoreRegStep(q, ins), TrueSpan(q.regs[ins.d], ins.off, Bytes[ins.w]), TRUE)
<1>1. ins.w \in Widths /\ ins.off \in Int /\ ins.s \in 0 .. 10 /\ ins.d \in 0 .. 10
  BY DEF Decoded
<1> DEFINE e == q.regs[ins.d]
           v == IF ins.w = "B" THEN <<"mod", q.regs[ins.s]>> ELSE q.regs[ins.s]
<1>2. Good(e) /\ Good(q.regs[ins.s])
  BY <1>1 DEF Typed, GoodRegs
<1>3. Good(<<"mod", q.regs[ins.s]>>)
  BY DEF Good
<1>4. Good(v)
  BY <1>2, <1>3, Zenon
<1>5. StoreRegStep(q, ins) = WriteMem(q, e, ins.off, ins.w, v)
  BY DEF StoreRegStep
<1> HIDE DEF e, v
<1>6. Accessed(q, WriteMem(q, e, ins.off, ins.w, v), TrueSpan(e, ins.off, Bytes[ins.w]), TRUE)
  BY <1>1, <1>2, <1>4, Written
<1>7. Access(q, WriteMem(q, e, ins.off, ins.w, v), TrueSpan(e, ins.off, Bytes[ins.w]), TRUE)
  BY <1>6, AccessedAccess
<1> QED
  BY <1>5, <1>7, Zenon DEF e

\* Stores of an immediate.
LEMMA StoreImm ==
  ASSUME NEW q, Typed(q), NEW ins, Decoded(ins), ins.op = "st"
  PROVE  Access(q, StoreImmStep(q, ins), TrueSpan(q.regs[ins.d], ins.off, Bytes[ins.w]), TRUE)
<1>1. ins.w \in Widths /\ ins.off \in Int /\ ins.imm \in Int /\ ins.d \in 0 .. 10
  BY DEF Decoded
<1> DEFINE e == q.regs[ins.d]
           v == IF ins.w = "B" THEN <<"mod", Const(ins.imm)>> ELSE <<"imm", ins.imm, ins.w>>
<1>2. Good(e)
  BY <1>1 DEF Typed, GoodRegs
<1>3. Good(<<"mod", Const(ins.imm)>>) /\ Good(<<"imm", ins.imm, ins.w>>)
  BY <1>1 DEF Good
<1>4. Good(v)
  BY <1>3, Zenon
<1>5. StoreImmStep(q, ins) = WriteMem(q, e, ins.off, ins.w, v)
  BY DEF StoreImmStep
<1> HIDE DEF e, v
<1>6. Accessed(q, WriteMem(q, e, ins.off, ins.w, v), TrueSpan(e, ins.off, Bytes[ins.w]), TRUE)
  BY <1>1, <1>2, <1>4, Written
<1>7. Access(q, WriteMem(q, e, ins.off, ins.w, v), TrueSpan(e, ins.off, Bytes[ins.w]), TRUE)
  BY <1>6, AccessedAccess
<1> QED
  BY <1>5, <1>7, Zenon DEF e

\* Constant layers.
LEMMA Layered ==
  ASSUME NEW e, Good(e), NEW kind, NEW k \in Int
  PROVE  Good(Layer(e, kind, k))
<1>1. Signed(kind, k) \in Int
  BY DEF Signed
<1>2. CASE e[1] = "add"
  BY <1>1, <1>2 DEF Layer, Good
<1>3. CASE e[1] # "add"
  BY <1>1, <1>3 DEF Layer, Good
<1> QED
  BY <1>2, <1>3

\* The register forms.
LEMMA Compute ==
  ASSUME NEW q, Typed(q), NEW ins, Decoded(ins), NEW p
  PROVE  /\ ins.op \in {"mov", "movr", "add", "sub"} => Plain(q, MoveStep(q, ins))
         /\ ins.op = "alu" => /\ Plain(q, Alu64Step(q, ins)) /\ Plain(q, Alu32Step(q, ins))
                              /\ Plain(q, DivRegStep(q, ins, p))
<1> SUFFICES ASSUME ins.op \in {"mov", "movr", "add", "sub", "alu"}
             PROVE  /\ ins.op \in {"mov", "movr", "add", "sub"} => Plain(q, MoveStep(q, ins))
                    /\ ins.op = "alu" => /\ Plain(q, Alu64Step(q, ins)) /\ Plain(q, Alu32Step(q, ins))
                                         /\ Plain(q, DivRegStep(q, ins, p))
  OBVIOUS
<1>1. ins.d \in 0 .. 9 /\ Good(q.regs[ins.d])
  BY DEF Decoded, Typed, GoodRegs
<1>2. ASSUME NEW x, Good(x) PROVE Plain(q, [q EXCEPT !.regs[ins.d] = x])
  BY <1>1, <1>2, PutReg
<1>3. CASE ins.op = "mov"
  <2>1. MoveStep(q, ins) = [q EXCEPT !.regs[ins.d] = Const(ins.imm)]
    BY <1>3 DEF MoveStep
  <2>2. Good(Const(ins.imm))
    BY <1>3 DEF Good, Const, Decoded
  <2> QED
    BY <1>2, <1>3, <2>1, <2>2
<1>4. CASE ins.op = "movr"
  <2>1. MoveStep(q, ins) = [q EXCEPT !.regs[ins.d] = q.regs[ins.s]]
    BY <1>4 DEF MoveStep
  <2>2. Good(q.regs[ins.s])
    BY <1>4 DEF Decoded, Typed, GoodRegs
  <2> QED
    BY <1>2, <1>4, <2>1, <2>2
<1>5. CASE ins.op = "add"
  <2> DEFINE x == Layer(q.regs[ins.d], "wrap", ins.imm)
  <2>1. MoveStep(q, ins) = [q EXCEPT !.regs[ins.d] = x]
    BY <1>5 DEF MoveStep
  <2>2. Good(x)
    BY <1>1, <1>5, Layered DEF Decoded
  <2> HIDE DEF x
  <2> QED
    BY <1>2, <1>5, <2>1, <2>2
<1>6. CASE ins.op = "sub"
  <2> DEFINE x == Layer(q.regs[ins.d], "sub", ins.imm)
  <2>1. MoveStep(q, ins) = [q EXCEPT !.regs[ins.d] = x]
    BY <1>6 DEF MoveStep
  <2>2. Good(x)
    BY <1>1, <1>6, Layered DEF Decoded
  <2> HIDE DEF x
  <2> QED
    BY <1>2, <1>6, <2>1, <2>2
<1>7. CASE ins.op = "alu"
  <2>1. ASSUME NEW y PROVE Good(<<"raw", y>>) /\ Good(<<"mask", y>>)
    BY DEF Good
  <2>2. Plain(q, Alu64Step(q, ins))
    <3> DEFINE x == IF ins.kind = "mask64" THEN <<"mask", q.regs[ins.d]>>
                    ELSE <<"raw", <<ins.kind, q.regs[ins.d], IF ins.kind = "reg64" THEN q.regs[ins.s] ELSE "imm">>>>
    <3>1. Alu64Step(q, ins) = [q EXCEPT !.regs[ins.d] = x]
      BY DEF Alu64Step
    <3>2. Good(x)
      BY <2>1
    <3> HIDE DEF x
    <3> QED
      BY <1>2, <3>1, <3>2
  <2>3. Plain(q, Alu32Step(q, ins))
    <3> DEFINE x == <<"raw", <<ins.kind, q.regs[ins.d], IF ins.kind = "reg32" THEN q.regs[ins.s] ELSE "imm">>>>
    <3>1. Alu32Step(q, ins) = [q EXCEPT !.regs[ins.d] = x]
      BY DEF Alu32Step
    <3>2. Good(x)
      BY <2>1
    <3> HIDE DEF x
    <3> QED
      BY <1>2, <3>1, <3>2
  <2>4. Plain(q, DivRegStep(q, ins, p))
    <3> DEFINE h == Hyp(q, <<"hnz", p>>)
               x == <<"raw", <<ins.kind, h.regs[ins.d], q.regs[ins.s]>>>>
    <3>1. DivRegStep(q, ins, p) = [h EXCEPT !.regs[ins.d] = x]
      BY DEF DivRegStep
    <3>2. Good(x)
      BY <2>1
    <3>3. Quiet(q, h)
      BY HypQuiet
    <3> HIDE DEF x, h
    <3>4. Plain(h, [h EXCEPT !.regs[ins.d] = x])
      BY <1>1, <3>2, <3>3, PutReg DEF Quiet
    <3> QED
      BY <3>1, <3>3, <3>4, QuietPlain, PlainTrans
  <2> QED
    BY <1>7, <2>2, <2>3, <2>4
<1> QED
  BY <1>3, <1>4, <1>5, <1>6, <1>7

\* A frame is pushed.
Pushed(q, r, p) ==
  /\ Typed(r) /\ r.rr = q.rr /\ (Asks(q) => Asks(r))
  /\ \E f : r.stack = Append(q.stack, f) /\ f.pc = p /\ f.saved[10] = q.regs[10]

\* call_local and callx.
LEMMA Called ==
  ASSUME NEW q, Typed(q), NEW p \in Nat
  PROVE  Pushed(q, CallStep(q, p), p)
<1> DEFINE f == [pc |-> p, saved |-> [r \in 6 .. 10 |-> q.regs[r]]]
           x == Layer(q.regs[10], "nat", 4096)
           g == [q.regs EXCEPT ![10] = x]
           k == Append(q.stack, f)
           r == [q EXCEPT !.stack = k, !.regs = g]
<1>1. CallStep(q, p) = r
  BY DEF CallStep, Typed, SymFields
<1>2. f.pc = p /\ f.saved[10] = q.regs[10] /\ \A i \in 6 .. 10 : Good(f.saved[i])
  BY DEF Typed, GoodRegs
<1>3. Good(x)
  BY Layered DEF Typed, GoodRegs
<1> HIDE DEF f, x
<1>4. GoodRegs(g)
  BY <1>3 DEF Typed, GoodRegs
<1>5. GoodFrames(k)
  BY <1>2, AppendList DEF Typed, GoodFrames
<1> HIDE DEF g, k
<1>6. Typed(r) /\ r.rr = q.rr /\ (Asks(q) => Asks(r)) /\ r.stack = k
  BY <1>4, <1>5 DEF Typed, Asks, SymFields
<1> HIDE DEF r
<1> QED
  BY <1>1, <1>2, <1>6, Zenon DEF Pushed, k

\* A conditional jump records its condition.
LEMMA Branch == ASSUME NEW q, Typed(q), NEW ins, NEW taken PROVE Plain(q, BranchStep(q, ins, taken))
BY DEF BranchStep, Plain, Typed, Asks, SymFields

\* exit of a nested call.
LEMMA Popped ==
  ASSUME NEW q, Typed(q), q.stack # <<>>
  PROVE  /\ Typed(PopFrame(q)) /\ PopFrame(q).rr = q.rr /\ (Asks(q) => Asks(PopFrame(q)))
         /\ PopFrame(q).stack = Front(q.stack) /\ PopFrame(q).regs[10] = Last(q.stack).saved[10]
<1> DEFINE f == Last(q.stack)
           g == [r \in DOMAIN q.regs |-> IF r \in 6 .. 10 THEN f.saved[r] ELSE q.regs[r]]
           k == Front(q.stack)
           r == [q EXCEPT !.stack = k, !.regs = g]
<1>1. PopFrame(q) = r
  BY DEF PopFrame, Typed, SymFields
<1>2. Len(q.stack) \in Nat /\ DOMAIN q.stack = 1 .. Len(q.stack) /\ Len(q.stack) # 0 /\ q.stack \in Seq(Range(q.stack))
  <2>1. IsList(q.stack)
    BY DEF Typed, GoodFrames
  <2>2. q.stack \in Seq(Range(q.stack))
    BY <2>1 DEF IsList
  <2> QED
    BY <2>1, <2>2, ListFacts, EmptySeq
<1>3. \A i \in 6 .. 10 : Good(f.saved[i])
  BY <1>2 DEF Typed, GoodFrames, Last
<1>4. GoodRegs(g) /\ g[10] = f.saved[10]
  BY <1>3 DEF Typed, GoodRegs
<1>5. /\ k \in Seq(Range(q.stack)) /\ Len(k) = Len(q.stack) - 1
      /\ \A i \in 1 .. Len(q.stack) - 1 : k[i] = q.stack[i]
  BY <1>2 DEF Front
<1> HIDE DEF f, g, k
<1>6. GoodFrames(k)
  <2>1. IsList(k)
    BY <1>5, ListOf
  <2>2. \A i \in 1 .. Len(k) : i \in 1 .. Len(q.stack) /\ k[i] = q.stack[i]
    BY <1>2, <1>5
  <2>3. GoodFrames(q.stack)
    BY DEF Typed
  <2> QED
    BY <2>1, <2>2, <2>3, Zenon DEF GoodFrames
<1>7. Typed(r) /\ r.rr = q.rr /\ (Asks(q) => Asks(r)) /\ r.stack = k /\ r.regs = g
  BY <1>4, <1>6 DEF Typed, Asks, SymFields
<1> HIDE DEF r
<1> QED
  BY <1>1, <1>4, <1>7 DEF f, k

-----------------------------------------------------------------------------
(* Specification calls.                                                        *)

\* The arguments of a byte-level specification, so far.
Citing(q, acc) == Quiet(q, acc.s) /\ DOMAIN acc = {"s", "cites", "n", "k"}

\* One more of them.
LEMMA NextCited ==
  ASSUME NEW q, NEW acc, Citing(q, acc), NEW e, NEW off, NEW p
  PROVE  Citing(q, CiteSlot(acc, e, off, p))
<1>1. Typed(acc.s) /\ Quiet(acc.s, Reserve(acc.s))
  BY ReserveQuiet DEF Citing, Quiet
<1>2. Quiet(q, Reserve(acc.s)) /\ Quiet(q, acc.s)
  BY <1>1, QuietTrans DEF Citing
<1> HIDE DEF Reserve
<1>3. ASSUME NEW i PROVE Citing(q, CiteFound(acc, e, off, p, i))
  BY <1>2 DEF Citing, CiteFound
<1> QED
  BY <1>3 DEF CiteSlot

\* All of them.
LEMMA BytesCited ==
  ASSUME NEW q, Typed(q), NEW e, NEW off, NEW p
  PROVE  Quiet(q, CiteWord(q, e, off, p).s) /\ Quiet(q, CiteDword(q, e, off, p).s)
<1>1. ASSUME NEW acc, Citing(q, acc) PROVE Citing(q, CiteTwo(acc, e, off, p))
  BY <1>1, NextCited DEF CiteTwo
<1>2. ASSUME NEW acc, Citing(q, acc) PROVE Citing(q, CiteFour(acc, e, off, p))
  BY <1>1, <1>2 DEF CiteFour
<1>3. Citing(q, [s |-> q, cites |-> {}, n |-> 0, k |-> 0])
  BY QuietSame DEF Citing
<1>4. Citing(q, CiteWord(q, e, off, p))
  BY <1>2, <1>3 DEF CiteWord
<1>5. Citing(q, CiteDword(q, e, off, p))
  BY <1>2, <1>4 DEF CiteDword
<1> QED
  BY <1>4, <1>5 DEF Citing

\* A specification call reserves names and changes nothing else.
Prepares(q, c) == Quiet(q, c.s) /\ c.some = TRUE

\* The calls that cite a cell or byte slots.
LEMMA CellCited ==
  ASSUME NEW q, Typed(q), NEW e, NEW off, NEW w, NEW b, NEW p
  PROVE  Prepares(q, CiteCell(q, e, off, w, b, p))
<1>1. ASSUME NEW c PROVE Prepares(q, Cited(q, c)) /\ Prepares(q, Cited(Reserve(q), c))
  BY QuietSame, ReserveQuiet DEF Prepares, Cited
<1>2. \E c : CiteCell(q, e, off, w, b, p) = Cited(q, c) \/ CiteCell(q, e, off, w, b, p) = Cited(Reserve(q), c)
  <2> DEFINE hit == LookupCell(q, e, off, w)
             B(x) == IF ~ b THEN {} ELSE IF IsVar(x) THEN {<<"lt", x, w>>} ELSE {<<"hReloadLt", p, x, w>>}
             c1 == AliasCite(hit, p) \cup B(q.cells[hit.i].value)
             c2 == {<<"var", <<"mem", w, q.next>>>>} \cup B(<<"mem", w, q.next>>)
  <2>1. CiteCell(q, e, off, w, b, p) = IF hit.i # 0 THEN Cited(q, c1) ELSE Cited(Reserve(q), c2)
    BY DEF CiteCell
  <2> HIDE DEF hit, c1, c2
  <2> QED
    BY <2>1, Zenon
<1> QED
  BY <1>1, <1>2

\* The specification call of an instruction that has one.
LEMMA SpecCall ==
  ASSUME NEW q, Typed(q), NEW ins, Decoded(ins), NEW p, NEW v3 \in BOOLEAN
  PROVE  /\ Quiet(q, SpecCallFor(q, ins, p, v3).s)
         /\ CodeMapError(ins, v3) = "none" => SpecCallFor(q, ins, p, v3).some = (ins.op # "sub")
<1> DEFINE c == SpecCallFor(q, ins, p, v3)
<1>1. ASSUME NEW x PROVE Prepares(q, Cited(q, x))
  BY QuietSame DEF Prepares, Cited
<1>2. ASSUME NEW out, Quiet(q, out.s) PROVE Prepares(q, CiteBytes(out))
  BY <1>2 DEF Prepares, CiteBytes, Cited
<1>3. Quiet(q, NoSpec(q).s) /\ NoSpec(q).some = FALSE
  BY QuietSame DEF NoSpec
<1> DEFINE Goal == /\ Quiet(q, c.s)
                   /\ CodeMapError(ins, v3) = "none" => c.some = (ins.op # "sub")
<1>4. ASSUME Prepares(q, c), ins.op # "sub" PROVE Goal
  BY <1>4 DEF Prepares
<1>5. ASSUME c = NoSpec(q), ins.op = "sub" \/ CodeMapError(ins, v3) # "none" PROVE Goal
  BY <1>3, <1>5
<1>6. CASE ins.op = "ldx"
  <2>1. c = CiteLoad(q, ins, p)
    BY <1>6, Zenon DEF SpecCallFor
  <2>2. \/ c = CiteBytes(CiteDword(q, q.regs[ins.s], ins.off, p))
        \/ c = CiteCell(q, q.regs[ins.s], ins.off, ins.w, ins.w # "B", p)
    BY <2>1, Zenon DEF CiteLoad
  <2>3. Prepares(q, CiteCell(q, q.regs[ins.s], ins.off, ins.w, ins.w # "B", p))
    BY CellCited, Zenon
  <2>4. Prepares(q, CiteBytes(CiteDword(q, q.regs[ins.s], ins.off, p)))
    BY <1>2, BytesCited
  <2>5. Prepares(q, c)
    BY <2>2, <2>3, <2>4, Zenon
  <2> QED
    BY <1>4, <1>6, <2>5
<1>7. CASE ins.op = "stx"
  <2>1. c = CiteCell(q, q.regs[ins.d], ins.off, ins.w, FALSE, p)
    BY <1>7, Zenon DEF SpecCallFor, CiteStoreReg
  <2>2. Prepares(q, c)
    BY <2>1, CellCited, Zenon
  <2> QED
    BY <1>4, <1>7, <2>2
<1>8. CASE ins.op = "st"
  <2>1. c = CiteStoreImm(q, ins, p)
    BY <1>8, Zenon DEF SpecCallFor
  <2>2. \/ c = CiteBytes(CiteWord(q, q.regs[ins.d], ins.off, p))
        \/ c = CiteCell(q, q.regs[ins.d], ins.off, ins.w, FALSE, p)
    BY <2>1, Zenon DEF CiteStoreImm
  <2>3. Prepares(q, CiteCell(q, q.regs[ins.d], ins.off, ins.w, FALSE, p))
    BY CellCited, Zenon
  <2>4. Prepares(q, CiteBytes(CiteWord(q, q.regs[ins.d], ins.off, p)))
    BY <1>2, BytesCited
  <2>5. Prepares(q, c)
    BY <2>2, <2>3, <2>4, Zenon
  <2> QED
    BY <1>4, <1>8, <2>5
<1>9. CASE ins.op \in {"mov", "movr", "add"}
  <2>1. c = Cited(q, {})
    BY <1>9, Zenon DEF SpecCallFor, CiteMove
  <2> QED
    BY <1>1, <1>4, <1>9, <2>1
<1>10. CASE ins.op = "sub"
  <2>1. c = NoSpec(q)
    BY <1>10, Zenon DEF SpecCallFor, CiteMove
  <2> QED
    BY <1>5, <1>10, <2>1
<1>11. CASE ins.op = "alu"
  <2>1. ins.kind \in AluKinds
    BY <1>11 DEF Decoded
  <2>2. c = Cited(q, {}) \/ c = Cited(q, {<<"hnz", p>>})
    BY <1>11, <2>1, Zenon DEF SpecCallFor, AluKinds, CiteAlu64, CiteAlu32, CiteDivReg
  <2> QED
    BY <1>1, <1>4, <1>11, <2>2
<1>12. CASE ins.op = "jcc"
  <2>1. c = Cited(q, {<<"h_branch", Len(q.branches)>>})
    BY <1>12, Zenon DEF SpecCallFor, CiteJump, CiteJump32
  <2> QED
    BY <1>1, <1>4, <1>12, <2>1
<1>13. CASE ins.op \in {"call", "sys", "ja", "exit"} \/ (ins.op = "callx" /\ v3)
  <2>1. c = Cited(q, {})
    BY <1>13, Zenon DEF SpecCallFor, CiteCall, CiteExit
  <2>2. ins.op # "sub"
    BY <1>13
  <2> QED
    BY <1>1, <1>4, <2>1, <2>2
<1>14. CASE ins.op = "bad" \/ (ins.op = "callx" /\ ~ v3)
  <2>1. c = NoSpec(q)
    BY <1>14, Zenon DEF SpecCallFor
  <2>2. CodeMapError(ins, v3) # "none"
    BY <1>14 DEF CodeMapError
  <2> QED
    BY <1>5, <2>1, <2>2
<1> QED
  BY <1>6, <1>7, <1>8, <1>9, <1>10, <1>11, <1>12, <1>13, <1>14 DEF Decoded, Ops

\* What each class of instruction does to the state.
StepDoes(q, ins, p, r) ==
  /\ ins.op = "ldx" => Access(q, r, TrueSpan(q.regs[ins.s], ins.off, Bytes[ins.w]), FALSE)
  /\ ins.op \in {"st", "stx"} => Access(q, r, TrueSpan(q.regs[ins.d], ins.off, Bytes[ins.w]), TRUE)
  /\ ins.op \in {"call", "sys", "callx"} => Pushed(q, r, p)
  /\ ins.op \notin {"ldx", "st", "stx", "call", "sys", "callx"} => Plain(q, r)

\* step
LEMMA StepEffect ==
  ASSUME NEW q, Typed(q), NEW ins, Decoded(ins), NEW p \in Nat, NEW taken,
         Step(q, ins, p, taken).err = "none"
  PROVE  StepDoes(q, ins, p, Step(q, ins, p, taken).s)
<1> DEFINE t == Step(q, ins, p, taken)
<1>0. ASSUME NEW x PROVE Done(x).s = x /\ Failed(q, x).err = x
  BY DEF Done, Failed
<1> HIDE DEF t
<1>1. ASSUME NEW x, StepDoes(q, ins, p, x), t = Done(x) PROVE StepDoes(q, ins, p, t.s)
  BY <1>0, <1>1, Zenon
<1>2. ASSUME NEW x, Plain(q, x), ins.op \notin {"ldx", "st", "stx", "call", "sys", "callx"}
      PROVE  StepDoes(q, ins, p, x)
  BY <1>2, Zenon DEF StepDoes
<1>3. CASE ins.op = "ldx"
  <2>1. t = Done(LoadStep(q, ins, p))
    BY <1>3, Zenon DEF Step, t
  <2>2. Access(q, LoadStep(q, ins, p), TrueSpan(q.regs[ins.s], ins.off, Bytes[ins.w]), FALSE)
    BY <1>3, Load
  <2>3. StepDoes(q, ins, p, LoadStep(q, ins, p))
    BY <1>3, <2>2, Zenon DEF StepDoes
  <2> QED
    BY <1>1, <2>1, <2>3, Zenon DEF t
<1>4. CASE ins.op = "stx"
  <2>1. t = Done(StoreRegStep(q, ins))
    BY <1>4, Zenon DEF Step, t
  <2>2. Access(q, StoreRegStep(q, ins), TrueSpan(q.regs[ins.d], ins.off, Bytes[ins.w]), TRUE)
    BY <1>4, StoreReg
  <2>3. StepDoes(q, ins, p, StoreRegStep(q, ins))
    BY <1>4, <2>2, Zenon DEF StepDoes
  <2> QED
    BY <1>1, <2>1, <2>3, Zenon DEF t
<1>5. CASE ins.op = "st"
  <2>1. t = Done(StoreImmStep(q, ins))
    BY <1>5, Zenon DEF Step, t
  <2>2. Access(q, StoreImmStep(q, ins), TrueSpan(q.regs[ins.d], ins.off, Bytes[ins.w]), TRUE)
    BY <1>5, StoreImm
  <2>3. StepDoes(q, ins, p, StoreImmStep(q, ins))
    BY <1>5, <2>2, Zenon DEF StepDoes
  <2> QED
    BY <1>1, <2>1, <2>3, Zenon DEF t
<1>6. CASE ins.op \in {"mov", "movr", "add", "sub"}
  <2>1. t = Done(MoveStep(q, ins))
    BY <1>6, Zenon DEF Step, t
  <2>2. Plain(q, MoveStep(q, ins))
    BY <1>6, Compute
  <2>3. StepDoes(q, ins, p, MoveStep(q, ins))
    BY <1>2, <1>6, <2>2
  <2> QED
    BY <1>1, <2>1, <2>3, Zenon DEF t
<1>7. CASE ins.op = "alu"
  <2>1. ins.kind \in AluKinds
    BY <1>7 DEF Decoded
  <2>2. t = Done(Alu64Step(q, ins)) \/ t = Done(Alu32Step(q, ins)) \/ t = Done(DivRegStep(q, ins, p))
    BY <1>7, <2>1, Zenon DEF Step, AluKinds, t
  <2>3. Plain(q, Alu64Step(q, ins)) /\ Plain(q, Alu32Step(q, ins)) /\ Plain(q, DivRegStep(q, ins, p))
    BY <1>7, Compute
  <2>4. /\ StepDoes(q, ins, p, Alu64Step(q, ins)) /\ StepDoes(q, ins, p, Alu32Step(q, ins))
        /\ StepDoes(q, ins, p, DivRegStep(q, ins, p))
    BY <1>2, <1>7, <2>3
  <2> QED
    BY <1>1, <2>2, <2>4, Zenon DEF t
<1>8. CASE ins.op = "jcc"
  <2>1. t = Done(BranchStep(q, ins, taken))
    BY <1>8, Zenon DEF Step, t
  <2>2. Plain(q, BranchStep(q, ins, taken))
    BY Branch
  <2>3. StepDoes(q, ins, p, BranchStep(q, ins, taken))
    BY <1>2, <1>8, <2>2
  <2> QED
    BY <1>1, <2>1, <2>3, Zenon DEF t
<1>9. CASE ins.op = "ja"
  <2>1. t = Done(q)
    BY <1>9, Zenon DEF Step, t
  <2>2. StepDoes(q, ins, p, q)
    BY <1>2, <1>9, QuietSame, QuietPlain
  <2> QED
    BY <1>1, <2>1, <2>2, Zenon DEF t
<1>10. CASE ins.op \in {"call", "sys", "callx"}
  <2>1. t = Done(CallStep(q, p))
    BY <1>10, Zenon DEF Step, t
  <2>2. Pushed(q, CallStep(q, p), p)
    BY Called
  <2>3. StepDoes(q, ins, p, CallStep(q, p))
    BY <1>10, <2>2, Zenon DEF StepDoes
  <2> QED
    BY <1>1, <2>1, <2>3, Zenon DEF t
<1>11. CASE ins.op \in {"exit", "bad"}
  <2>1. t = Failed(q, "OpcodeUnmodeled")
    BY <1>11, Zenon DEF Step, t
  <2>2. t.err = "OpcodeUnmodeled"
    BY <1>0, <2>1, Zenon
  <2> QED
    BY <2>2 DEF t
<1> QED
  BY <1>3, <1>4, <1>5, <1>6, <1>7, <1>8, <1>9, <1>10, <1>11 DEF Decoded, Ops

-----------------------------------------------------------------------------
(* Syscalls.                                                                   *)

\* Frames and the frame pointer stay; clauses may be added.
Kept(q, r) == Typed(r) /\ r.stack = q.stack /\ (Asks(q) => Asks(r)) /\ r.regs[10] = q.regs[10] /\ r.regs[1] = q.regs[1]
                /\ r.regs[2] = q.regs[2] /\ r.regs[3] = q.regs[3] /\ r.regs[4] = q.regs[4]

\* Kept states compose.
LEMMA KeptTrans ==
  ASSUME NEW q, NEW p, NEW r, Kept(q, p), Kept(p, r)
  PROVE  Kept(q, r)
BY DEF Kept

\* Quiet changes keep the state.
LEMMA QuietKept == ASSUME NEW q, NEW r, Quiet(q, r) PROVE Kept(q, r)
BY DEF Quiet, Grown, Kept

\* So does a clause.
LEMMA ClauseKept == ASSUME NEW q, Typed(q), NEW sp, NEW w PROVE Kept(q, PushClause(q, sp, w))
<1>1. Typed(PushClause(q, sp, w)) /\ Grown(q, PushClause(q, sp, w))
  BY ClausePushed
<1> HIDE DEF PushClause
<1> QED
  BY <1>1 DEF Grown, Kept

\* Several clauses at once.
LEMMA ClausesKept ==
  ASSUME NEW q, Typed(q), NEW cs, Len(cs) \in Nat, NEW g
  PROVE  Kept(q, Clauses(q, cs, g))
<1> DEFINE f == [i \in 1 .. Len(cs) |-> Clause(Span(cs[i].at, 0, cs[i].len), cs[i].w, g /\ i > 1)]
           p == q.rr \o f
<1>1. Clauses(q, cs, g) = [q EXCEPT !.rr = p]
  BY DEF Clauses
<1>2. f \in [1 .. Len(cs) -> Range(f)]
  BY DEF Range
<1> HIDE DEF f
<1>3. IsList(f)
  BY <1>2, FunctionList
<1>4. IsList(p)
  <2> DEFINE T == Range(f) \cup Range(q.rr)
  <2>1. f \in Seq(Range(f)) /\ q.rr \in Seq(Range(q.rr))
    BY <1>3 DEF IsList, Typed
  <2>2. f \in Seq(T) /\ q.rr \in Seq(T)
    BY <2>1
  <2> HIDE DEF T
  <2>3. p \in Seq(T)
    BY <2>2
  <2> QED
    BY <2>3, ListOf
<1> HIDE DEF p
<1> QED
  BY <1>1, <1>4 DEF Kept, Typed, Asks, SymFields

\* The result register.
Returned(q, r) == Typed(r) /\ r.stack = q.stack /\ (Asks(q) => Asks(r)) /\ r.regs[10] = q.regs[10]

\* A syscall returns zero, at the end of its effect.
LEMMA Returns ==
  ASSUME NEW q, NEW r, Kept(q, r)
  PROVE  Returned(q, Emitted(Return0(r)).s)
<1>1. Good(Const(0)) /\ 0 \in 0 .. 9
  BY DEF Good, Const
<1>2. Typed(r)
  BY DEF Kept
<1>3. Plain(r, [r EXCEPT !.regs[0] = Const(0)])
  BY <1>1, <1>2, PutReg
<1>4. Emitted(Return0(r)).s = [r EXCEPT !.regs[0] = Const(0)]
  BY DEF Emitted, Return0
<1> QED
  BY <1>3, <1>4 DEF Kept, Plain, Returned

\* What no later step reads.
LEMMA Sized == ASSUME NEW q, Typed(q), NEW x PROVE Kept(q, RecordSize(q, x)) /\ Typed(RecordSize(q, x))
BY DEF Kept, Typed, Asks, SymFields, RecordSize

\* The postcondition of a region is no later step's concern either.
LEMMA Posted == ASSUME NEW q, Typed(q), NEW x PROVE Kept(q, [q EXCEPT !.post = x])
BY DEF Kept, Typed, Asks, SymFields

\* Nor is a hypothesis.
LEMMA Assumed ==
  ASSUME NEW q, Typed(q), NEW x, NEW y
  PROVE  Kept(q, [q EXCEPT !.hyps = x]) /\ Kept(q, [q EXCEPT !.hyps = x, !.post = y])
BY DEF Kept, Typed, Asks, SymFields

\* The length of a region.
LEMMA BlobLength == ASSUME NEW e, Good(e) PROVE BlobLen(e) \in Int
BY DEF BlobLen, ConstOf, Good, NoConst

\* A region is owned.
LEMMA Owned ==
  ASSUME NEW q, Typed(q), NEW r, Good(r.at), r.len \in Int
  PROVE  Kept(q, Own(q, r))
<1> DEFINE p == PushAtom(q, r.at, 0, r.len, <<"blob", r.key>>)
           n == NoteAccess(p, r.at, 0, r.len, <<r.key, r.at>>)
<1>1. Quiet(q, p)
  BY AtomQuiet
<1> HIDE DEF p
<1>2. Quiet(p, n)
  BY <1>1, NoteQuiet DEF Quiet
<1>3. Own(q, r) = n
  BY DEF Own, p
<1> HIDE DEF n
<1> QED
  BY <1>1, <1>2, <1>3, QuietTrans, QuietKept

\* Two and three regions.
LEMMA OwnedAll ==
  ASSUME NEW q, Typed(q), NEW x, Good(x.at), x.len \in Int, NEW y, Good(y.at), y.len \in Int,
         NEW z, Good(z.at), z.len \in Int
  PROVE  Kept(q, Own2(q, x, y)) /\ Kept(q, Own3(q, x, y, z))
<1>1. Kept(q, Own(q, x)) /\ Typed(Own(q, x))
  BY Owned DEF Kept
<1>2. Kept(Own(q, x), Own2(q, x, y))
  BY <1>1, Owned DEF Own2
<1>3. Kept(q, Own2(q, x, y)) /\ Typed(Own2(q, x, y))
  BY <1>1, <1>2, KeptTrans DEF Kept
<1>4. Kept(Own2(q, x, y), Own3(q, x, y, z))
  BY <1>3, Owned DEF Own3
<1> QED
  BY <1>3, <1>4, KeptTrans

\* A name is taken after that.
LEMMA AllocateKept == ASSUME NEW q, NEW r, Kept(q, r) PROVE Kept(q, Allocate(r))
BY AllocateQuiet, QuietKept, KeptTrans DEF Kept

\* sol_log_ and sol_log_64_
LEMMA LogReturns ==
  ASSUME NEW q, Typed(q), NEW p
  PROVE  Returned(q, EmitLog(q, p).s) /\ Returned(q, EmitLog64(q, p).s)
<1>1. Kept(q, Allocate(PushClause(q, Span(q.regs[1], 0, BlobLen(q.regs[2])), FALSE)))
  BY ClauseKept, AllocateKept
<1>2. Kept(q, Allocate(q))
  BY AllocateQuiet, QuietKept
<1> QED
  BY <1>1, <1>2, Returns, Zenon DEF EmitLog, EmitLog64

\* The argument registers of a syscall.
LEMMA Arguments ==
  ASSUME NEW q, Typed(q)
  PROVE  \A x \in 1 .. 4 : Good(q.regs[x]) /\ BlobLen(q.regs[x]) \in Int
<1>1. \A x \in 1 .. 4 : Good(q.regs[x])
  BY DEF Typed, GoodRegs
<1> QED
  BY <1>1, BlobLength

\* A region of a syscall.
LEMMA Regions ==
  ASSUME NEW e, NEW n, NEW key
  PROVE  Region(e, n, key).at = e /\ Region(e, n, key).len = n
BY DEF Region

\* sol_memcpy_ and sol_memmove_
LEMMA MemcpyReturns ==
  ASSUME NEW q, Typed(q), NEW p
  PROVE  Returned(q, EmitMemcpy(q, p).s)
<1> DEFINE len == BlobLen(q.regs[3])
           cs == <<Reads(q.regs[2], len), Writes(q.regs[1], len)>>
           c == Clauses(q, cs, FALSE)
           a == Allocate(c)
           x == Region(q.regs[2], len, "memcpySrc")
           y == Region(q.regs[1], len, "memcpyDst")
           o == Own2(a, x, y)
           r == RecordSize(o, q.regs[3])
           t == [r EXCEPT !.post = SetPost(r.post, q.regs[1], [len |-> len, of |-> <<"copy", Span(q.regs[2], 0, len)>>])]
<1>1. Len(cs) \in Nat
  OBVIOUS
<1> HIDE DEF cs
<1>2. Kept(q, c)
  BY <1>1, ClausesKept, Zenon
<1> HIDE DEF c
<1>3. Kept(q, a) /\ Typed(a)
  BY <1>2, AllocateKept DEF Kept
<1> HIDE DEF a
<1>4. Good(q.regs[1]) /\ Good(q.regs[2]) /\ len \in Int
  BY Arguments
<1> HIDE DEF len
<1>5. Good(x.at) /\ x.len \in Int /\ Good(y.at) /\ y.len \in Int
  BY <1>4, Regions
<1> HIDE DEF x, y
<1>6. Kept(a, o) /\ Typed(o)
  BY <1>3, <1>5, OwnedAll DEF Kept
<1> HIDE DEF o
<1>7. Kept(o, r) /\ Typed(r)
  BY <1>6, Sized
<1> HIDE DEF r
<1>8. Kept(r, t)
  BY <1>7, Posted
<1>9. EmitMemcpy(q, p) = Emitted(Return0(t))
  BY DEF EmitMemcpy, t, r, o, x, y, a, c, cs, len
<1> HIDE DEF t
<1>10. Kept(q, t)
  BY <1>3, <1>6, <1>7, <1>8, KeptTrans
<1> QED
  BY <1>9, <1>10, Returns

\* A word cell that a syscall writes, with its atom.
LEMMA CellKept ==
  ASSUME NEW q, Typed(q), NEW e, Good(e), NEW off \in Int, NEW w \in Widths, NEW v, NEW x, Good(x), NEW n \in Int
  PROVE  Kept(q, PushCell(PushAtom(q, e, off, n, v), e, off, 0, w, x))
<1> DEFINE a == PushAtom(q, e, off, n, v)
           c == PushCell(a, e, off, 0, w, x)
<1>1. Quiet(q, a) /\ Typed(a)
  BY AtomQuiet DEF Quiet
<1> HIDE DEF a
<1>2. Quiet(a, c)
  <2>1. 0 \in 0 .. 7 /\ (w # "B" => 0 = 0)
    OBVIOUS
  <2> QED
    BY <1>1, <2>1, CellQuiet, Zenon
<1> HIDE DEF c
<1>3. Kept(q, c)
  BY <1>1, <1>2, QuietTrans, QuietKept
<1> QED
  BY <1>3, Zenon DEF a, c

\* sol_memcmp_
LEMMA MemcmpReturns ==
  ASSUME NEW q, Typed(q), NEW p
  PROVE  Returned(q, EmitMemcmp(q, p).s)
<1> DEFINE len == BlobLen(q.regs[3])
           out == q.regs[4]
           cs == <<Reads(q.regs[1], len), Reads(q.regs[2], len), Writes(out, 4)>>
           c == Clauses(q, cs, FALSE)
           a == Allocate(c)
           b == Allocate(a)
           v == <<"mem", "W", FreshName(a)>>
           x == Region(q.regs[1], len, "memcmpP1")
           y == Region(q.regs[2], len, "memcmpP2")
           z == <<"sys", p, 0>>
           o == Own2(b, x, y)
           d == PushCell(PushAtom(o, out, 0, 4, v), out, 0, 0, "W", z)
           r == RecordSize(d, q.regs[3])
           t == NoteAccess(r, out, 0, 4, <<"memcmpOut", out>>)
<1>1. Len(cs) \in Nat
  OBVIOUS
<1> HIDE DEF cs
<1>2. Kept(q, c)
  BY <1>1, ClausesKept, Zenon
<1> HIDE DEF c
<1>3. Kept(q, a) /\ Kept(q, b) /\ Typed(b)
  BY <1>2, AllocateKept DEF Kept
<1> HIDE DEF a, b, v
<1>4. Good(q.regs[1]) /\ Good(q.regs[2]) /\ Good(out) /\ len \in Int
  BY Arguments
<1> HIDE DEF len, out
<1>5. Good(x.at) /\ x.len \in Int /\ Good(y.at) /\ y.len \in Int
  BY <1>4, Regions
<1> HIDE DEF x, y
<1>6. Kept(b, o) /\ Typed(o)
  <2>1. Kept(b, o)
    BY <1>3, <1>5, OwnedAll, Zenon
  <2> HIDE DEF o
  <2> QED
    BY <2>1 DEF Kept
<1> HIDE DEF o
<1>7. Kept(o, d) /\ Typed(d)
  <2>1. Good(z) /\ "W" \in Widths
    BY DEF Good, Widths, Bytes
  <2> HIDE DEF z
  <2>2. Kept(o, d)
    BY <1>4, <1>6, <2>1, CellKept
  <2> HIDE DEF d
  <2> QED
    BY <2>2 DEF Kept
<1> HIDE DEF d
<1>8. Kept(d, r) /\ Typed(r)
  BY <1>7, Sized
<1> HIDE DEF r
<1>9. Kept(r, t)
  BY <1>8, NoteQuiet, QuietKept
<1>10. EmitMemcmp(q, p) = Emitted(Return0(t))
  BY DEF EmitMemcmp, t, r, d, z, o, x, y, v, b, a, c, cs, out, len
<1> HIDE DEF t
<1>11. Kept(q, t)
  BY <1>3, <1>6, <1>7, <1>8, <1>9, KeptTrans
<1> QED
  BY <1>10, <1>11, Returns

\* One cell of the rent sysvar.
LEMMA SysvarCellKept ==
  ASSUME NEW q, Typed(q), NEW p, NEW e, Good(e), NEW off \in Int, NEW w \in Widths
  PROVE  Kept(q, SysvarCell(q, p, e, off, w)) /\ Typed(SysvarCell(q, p, e, off, w))
<1> DEFINE v == <<"mem", w, FreshName(q)>>
           x == <<"sys", p, off>>
           a == Allocate(q)
           c == PushCell(PushAtom(a, e, off, Bytes[w], v), e, off, 0, w, x)
           n == NoteAccess(c, e, off, Bytes[w], <<"sysvarOut", e, off>>)
<1>1. Kept(q, a) /\ Typed(a)
  BY AllocateQuiet, QuietKept DEF Kept
<1>2. Good(x) /\ Bytes[w] \in Int
  BY WidthFacts DEF Good
<1> HIDE DEF v, x, a
<1>3. Kept(a, c)
  BY <1>1, <1>2, CellKept
<1> HIDE DEF c
<1>4. Kept(c, n)
  BY <1>3, NoteQuiet, QuietKept DEF Kept
<1> HIDE DEF n
<1>5. Kept(q, n) /\ Typed(n)
  BY <1>1, <1>3, <1>4, KeptTrans DEF Kept
<1> QED
  BY <1>5, Zenon DEF SysvarCell, n, c, a, v, x

\* sol_get_sysvar
LEMMA SysvarReturns ==
  ASSUME NEW q, Typed(q), NEW p
  PROVE  Returned(q, EmitGetSysvar(q, p).s)
<1> DEFINE out == q.regs[2]
           cs == <<Reads(<<"sysvars">>, 1), Writes(out, 17), Reads(q.regs[1], 32)>>
           c == Clauses(q, cs, TRUE)
           a == Allocate(c)
           x == Region(q.regs[1], 32, "sysvarId")
           o == Own(a, x)
           k1 == SysvarCell(o, p, out, 0, "D")
           k2 == SysvarCell(k1, p, out, 8, "D")
           k3 == SysvarCell(k2, p, out, 16, "B")
           h == k3.hyps \o [k \in 1 .. 5 |-> <<"h_sysvar", p, k>>]
           t == [k3 EXCEPT !.hyps = h]
<1>1. Len(cs) \in Nat
  OBVIOUS
<1> HIDE DEF cs
<1>2. Kept(q, c)
  BY <1>1, ClausesKept, Zenon
<1> HIDE DEF c
<1>3. Kept(q, a) /\ Typed(a)
  BY <1>2, AllocateKept DEF Kept
<1> HIDE DEF a
<1>4. Good(q.regs[1]) /\ Good(out)
  BY Arguments
<1> HIDE DEF out
<1>5. Good(x.at) /\ x.len \in Int
  BY <1>4, Regions
<1> HIDE DEF x
<1>6. Kept(a, o) /\ Typed(o)
  BY <1>3, <1>5, Owned DEF Kept
<1> HIDE DEF o
<1>7. "D" \in Widths /\ "B" \in Widths
  BY DEF Widths, Bytes
<1>8. Kept(o, k1) /\ Typed(k1)
  BY <1>4, <1>6, <1>7, SysvarCellKept
<1> HIDE DEF k1
<1>9. Kept(k1, k2) /\ Typed(k2)
  BY <1>4, <1>7, <1>8, SysvarCellKept
<1> HIDE DEF k2
<1>10. Kept(k2, k3) /\ Typed(k3)
  BY <1>4, <1>7, <1>9, SysvarCellKept
<1> HIDE DEF k3, h
<1>11. Kept(k3, t)
  BY <1>10, Assumed, Zenon
<1>12. EmitGetSysvar(q, p) = Emitted(Return0(t)) \/ \E e : EmitGetSysvar(q, p) = Refused(q, e)
  <2>1. Emitted(Return0(t)) = Emitted(Return0([SysvarCells(o, p, out) EXCEPT !.hyps = @ \o [k \in 1 .. 5 |-> <<"h_sysvar", p, k>>]]))
    BY DEF SysvarCells, k1, k2, k3, h
  <2> QED
    BY <2>1, Zenon DEF EmitGetSysvar, o, x, a, c, cs, out
<1> HIDE DEF t
<1>13. Kept(q, t)
  BY <1>3, <1>6, <1>8, <1>9, <1>10, <1>11, KeptTrans
<1>14. Returned(q, q) /\ \A e : Refused(q, e).s = q
  BY DEF Returned, Refused
<1> QED
  BY <1>12, <1>13, <1>14, Returns

\* sol_set_return_data
LEMMA ReturnDataReturns ==
  ASSUME NEW q, Typed(q), NEW p
  PROVE  Returned(q, EmitSetReturnData(q, p).s)
<1> DEFINE len == BlobLen(q.regs[2])
           c == PushClause(q, Span(q.regs[1], 0, len), FALSE)
           a == Allocate(c)
           x == Region(q.regs[1], len, "setRetData")
           o == Own(a, x)
           r == RecordSize(o, q.regs[2])
           y == [span |-> ReturnDataSpan, value |-> <<"rd", p>>]
           g == Append(r.pre, y)
           t == [r EXCEPT !.pre = g]
<1>1. Kept(q, a) /\ Typed(a)
  <2>1. Kept(q, c)
    BY ClauseKept, Zenon
  <2> HIDE DEF c
  <2> QED
    BY <2>1, AllocateKept DEF Kept
<1> HIDE DEF a
<1>2. Good(q.regs[1]) /\ len \in Int
  BY Arguments
<1> HIDE DEF len
<1>3. Good(x.at) /\ x.len \in Int
  BY <1>2, Regions
<1> HIDE DEF x
<1>4. Kept(a, o) /\ Typed(o)
  BY <1>1, <1>3, Owned DEF Kept
<1> HIDE DEF o
<1>5. Kept(o, r) /\ Typed(r)
  BY <1>4, Sized
<1> HIDE DEF r
<1>6. GoodSpan(y.span)
  BY DEF GoodSpan, Good, ReturnDataSpan
<1> HIDE DEF y
<1>7. GoodAtoms(g)
  BY <1>5, <1>6, AppendList DEF Typed, GoodAtoms
<1> HIDE DEF g
<1>8. Kept(r, t)
  BY <1>5, <1>7 DEF Kept, Typed, Asks, SymFields
<1>9. EmitSetReturnData(q, p) = Emitted(Return0(t))
  BY DEF EmitSetReturnData, t, g, y, r, o, x, a, c, len
<1> HIDE DEF t
<1>10. Kept(q, t)
  BY <1>1, <1>4, <1>5, <1>8, KeptTrans
<1> QED
  BY <1>9, <1>10, Returns

\* The slice of a descriptor.
LEMMA Slices ==
  ASSUME NEW q, Typed(q), NEW name
  PROVE  Good(SliceRegion(q, name).at) /\ SliceRegion(q, name).len \in Int
<1>1. ASSUME NEW i \in 0 .. Len(q.cells) PROVE WordIn(q, i) \in Int
  <2>1. CASE i = 0
    BY <2>1 DEF WordIn, Absent
  <2>2. CASE i # 0
    <3>1. Len(q.cells) \in Nat /\ Good(q.cells[i].value)
      BY <2>2, ListFacts DEF Typed, GoodCells, GoodCell
    <3> QED
      BY <2>2, <3>1 DEF WordIn, Good, NoConst
  <2> QED
    BY <2>1, <2>2
<1>2. ASSUME NEW off PROVE DescriptorWord(q, off) \in Int
  <2>1. LookupCell(q, q.regs[1], off, "D").i \in 0 .. Len(q.cells)
    BY FirstCell DEF Typed, GoodCells
  <2> QED
    BY <1>1, <2>1 DEF DescriptorWord
<1>3. ASSUME NEW x \in Int, NEW n \in Int PROVE Good(SliceOf(x, n, name).at) /\ SliceOf(x, n, name).len \in Int
  BY DEF SliceOf, Region, Good, Const
<1> QED
  BY <1>2, <1>3 DEF SliceRegion

\* sol_sha256
LEMMA Sha256Returns ==
  ASSUME NEW q, Typed(q), NEW p
  PROVE  Returned(q, EmitSha256(q, p).s)
<1> DEFINE z == SliceRegion(q, "sha256In")
           cs == <<Writes(q.regs[3], 32), Reads(q.regs[1], 16), Reads(z.at, z.len)>>
           c == Clauses(q, cs, TRUE)
           a == Allocate(c)
           y == Region(q.regs[3], 32, "sha256Out")
           o == Own2(a, z, y)
           w == SetPost(o.post, q.regs[3], [len |-> 32, of |-> <<"sys", p, 0>>])
           t == [o EXCEPT !.post = w]
<1>1. Len(cs) \in Nat
  OBVIOUS
<1> HIDE DEF cs
<1>2. Kept(q, c)
  BY <1>1, ClausesKept, Zenon
<1> HIDE DEF c
<1>3. Kept(q, a) /\ Typed(a)
  BY <1>2, AllocateKept DEF Kept
<1> HIDE DEF a
<1>4. Good(z.at) /\ z.len \in Int
  BY Slices
<1> HIDE DEF z
<1>5. Good(y.at) /\ y.len \in Int
  BY Arguments, Regions
<1> HIDE DEF y
<1>6. Kept(a, o) /\ Typed(o)
  <2>1. Kept(a, o)
    BY <1>3, <1>4, <1>5, OwnedAll, Zenon
  <2> HIDE DEF o
  <2> QED
    BY <2>1 DEF Kept
<1>7. o = OwnSha256(q, z)
  BY DEF OwnSha256, a, c, cs, y
<1> HIDE DEF o, w
<1>8. Kept(o, t)
  BY <1>6, Posted
<1>9. EmitSha256(q, p) = Emitted(Return0(t)) \/ \E e : EmitSha256(q, p) = Refused(q, e)
  <2>1. Emitted(Return0(t)) = Emitted(Return0([OwnSha256(q, z) EXCEPT !.post = SetPost(@, q.regs[3], [len |-> 32, of |-> <<"sys", p, 0>>])]))
    BY <1>7 DEF w
  <2> QED
    BY <2>1, Zenon DEF EmitSha256, Sha256Of, z
<1> HIDE DEF t
<1>10. Kept(q, t)
  BY <1>3, <1>6, <1>8, KeptTrans
<1>11. Returned(q, q) /\ \A e : Refused(q, e).s = q
  BY DEF Returned, Refused
<1> QED
  BY <1>9, <1>10, <1>11, Returns

\* sol_create_program_address
LEMMA PdaReturns ==
  ASSUME NEW q, Typed(q), NEW p
  PROVE  Returned(q, EmitCreatePda(q, p).s)
<1> DEFINE z == SliceRegion(q, "pdaSeed")
           cs == <<Reads(q.regs[3], 32), Writes(q.regs[4], 32), Reads(q.regs[1], 16), Reads(z.at, z.len)>>
           c == Clauses(q, cs, TRUE)
           a == Allocate(c)
           x == Region(q.regs[3], 32, "pdaPid")
           y == Region(q.regs[4], 32, "pdaOut")
           o == Own3(a, z, x, y)
           h == o.hyps \o <<<<"hPdaPidSz", FreshName(q)>>, <<"hPdaOffCurve", FreshName(q)>>>>
           w == SetPost(o.post, q.regs[4], [len |-> 32, of |-> <<"sys", p, 0>>])
           t == [o EXCEPT !.hyps = h, !.post = w]
<1>1. Len(cs) \in Nat
  OBVIOUS
<1> HIDE DEF cs
<1>2. Kept(q, c)
  BY <1>1, ClausesKept, Zenon
<1> HIDE DEF c
<1>3. Kept(q, a) /\ Typed(a)
  BY <1>2, AllocateKept DEF Kept
<1> HIDE DEF a
<1>4. Good(z.at) /\ z.len \in Int
  BY Slices
<1> HIDE DEF z
<1>5. Good(x.at) /\ x.len \in Int /\ Good(y.at) /\ y.len \in Int
  BY Arguments, Regions
<1> HIDE DEF x, y
<1>6. Kept(a, o) /\ Typed(o)
  <2>1. Kept(a, o)
    BY <1>3, <1>4, <1>5, OwnedAll, Zenon
  <2> HIDE DEF o
  <2> QED
    BY <2>1 DEF Kept
<1>7. o = OwnPda(q, z)
  BY DEF OwnPda, a, c, cs, x, y
<1> HIDE DEF o, h, w
<1>8. Kept(o, t)
  BY <1>6, Assumed, Zenon
<1>9. EmitCreatePda(q, p) = Emitted(Return0(t)) \/ \E e : EmitCreatePda(q, p) = Refused(q, e)
  <2>1. Emitted(Return0(t)) = Emitted(Return0([OwnPda(q, z) EXCEPT
           !.hyps = @ \o <<<<"hPdaPidSz", FreshName(q)>>, <<"hPdaOffCurve", FreshName(q)>>>>,
           !.post = SetPost(@, q.regs[4], [len |-> 32, of |-> <<"sys", p, 0>>])]))
    BY <1>7 DEF h, w
  <2> QED
    BY <2>1, Zenon DEF EmitCreatePda, PdaOf, z
<1> HIDE DEF t
<1>10. Kept(q, t)
  BY <1>3, <1>6, <1>8, KeptTrans
<1>11. Returned(q, q) /\ \A e : Refused(q, e).s = q
  BY DEF Returned, Refused
<1> QED
  BY <1>9, <1>10, <1>11, Returns

\* The cells found at the end of a blob.
LEMMA Tails ==
  ASSUME NEW q, NEW e, NEW len
  PROVE  Len(OwnedTails(q, e, len)) \in Nat
<1>1. Len(<<>>) = 0 /\ \A x, y : Len(<<x>>) = 1 /\ Len(<<x, y>>) = 2
  OBVIOUS
<1>2. TailCells(q, e, len) = <<>> \/ \E x, y : TailCells(q, e, len) = <<x>> \/ TailCells(q, e, len) = <<x, y>>
  BY Zenon DEF TailCells
<1>3. Len(TailCells(q, e, len)) \in {0, 1, 2}
  BY <1>1, <1>2
<1>4. OwnedTails(q, e, len) = TailCells(q, e, len) \/ OwnedTails(q, e, len) = <<>>
  BY Zenon DEF OwnedTails
<1> QED
  BY <1>1, <1>3, <1>4

\* The tail cells take the value that fills the blob.
LEMMA CellsSet ==
  ASSUME NEW q, Typed(q), NEW at, NEW v, Good(v)
  PROVE  Kept(q, SetCells(q, at, v))
<1> DEFINE N(i) == IF \E k \in 1 .. Len(at) : at[k] = i THEN [q.cells[i] EXCEPT !.value = v] ELSE q.cells[i]
           f == [i \in 1 .. Len(q.cells) |-> N(i)]
<1>1. SetCells(q, at, v) = [q EXCEPT !.cells = f]
  BY DEF SetCells
<1>2. ASSUME NEW i PROVE N(i) = q.cells[i] \/ \E u : Good(u) /\ N(i) = [q.cells[i] EXCEPT !.value = u]
  OBVIOUS
<1> HIDE DEF N
<1>3. Len(q.cells) \in Nat
  BY ListFacts DEF Typed, GoodCells
<1>4. /\ DOMAIN f = 1 .. Len(q.cells) /\ f \in [1 .. Len(q.cells) -> Range(f)]
      /\ \A i \in 1 .. Len(q.cells) : f[i] = N(i)
  BY DEF Range
<1> HIDE DEF f
<1>5. IsList(f)
  BY <1>3, <1>4, FunctionList
<1>6. \A i \in 1 .. Len(q.cells) :
        f[i] = q.cells[i] \/ \E u : Good(u) /\ f[i] = [q.cells[i] EXCEPT !.value = u]
  BY <1>2, <1>4, Zenon
<1> QED
  BY <1>1, <1>4, <1>5, <1>6, SetValues, QuietKept

\* sol_memset_, for the tail and the plan that were found.
LEMMA MemsetKept ==
  ASSUME NEW q, Typed(q), NEW p, NEW r1, Good(r1), NEW len \in Int, NEW fill, NEW sized, NEW sp, GoodSpan(sp),
         NEW plan, plan \subseteq Int, NEW tails, Len(tails) \in Nat
  PROVE  Returned(q, MemsetWith(q, p, r1, len, fill, sized, sp, plan, tails).s)
<1> DEFINE split == tails = <<>> /\ plan # {} /\ fill # NoConst
           m == len - 8 * Len(tails)
           n == IF split THEN CHOOSE x \in plan : TRUE ELSE m
           word == <<"fill", fill>>
           c == PushClause(q, sp, TRUE)
           a == Allocate(c)
           o == PushAtom(a, r1, 0, m, <<"blob", p>>)
           b == IF sized THEN Append(o.blobs, sp) ELSE o.blobs
           u == [o EXCEPT !.blobs = b]
           d == NoteAccess(u, r1, 0, n, <<"memset", r1>>)
           k == NoteAccess(d, r1, n, 8, <<"blobtail", r1>>)
           t1 == PushCell(k, r1, n, 0, "D", word)
           t2 == SetCells(d, tails, word)
           cut == IF split THEN t1 ELSE t2
           z == RecordSize(cut, q.regs[3])
           v == IF fill = NoConst THEN <<"raw", q.regs[2]>> ELSE word
           w == SetPost(z.post, r1, [len |-> n, of |-> v])
           t == [z EXCEPT !.post = w]
<1>1. m \in Int
  OBVIOUS
<1>2. n \in Int
  <2>1. plan # {} => (CHOOSE x \in plan : TRUE) \in plan
    BY Zenon
  <2> HIDE DEF m
  <2> QED
    BY <1>1, <2>1
<1>3. Good(word)
  BY DEF Good
<1>4. MemsetWith(q, p, r1, len, fill, sized, sp, plan, tails) = Emitted(Return0(t))
  BY Zenon DEF MemsetWith
<1> HIDE DEF m, n, word, split
<1>5. Kept(q, a) /\ Typed(a)
  <2>1. Kept(q, c)
    BY ClauseKept, Zenon
  <2> HIDE DEF c
  <2> QED
    BY <2>1, AllocateKept DEF Kept
<1> HIDE DEF a
<1>6. Kept(a, o) /\ Typed(o)
  <2>1. Kept(a, o)
    BY <1>1, <1>5, AtomQuiet, QuietKept
  <2> HIDE DEF o
  <2> QED
    BY <2>1 DEF Kept
<1> HIDE DEF o
<1>7. Kept(o, u) /\ Typed(u)
  <2>1. GoodBlobs(o.blobs)
    BY <1>6 DEF Typed
  <2>2. GoodBlobs(Append(o.blobs, sp))
    BY <2>1, AppendList DEF GoodBlobs
  <2>3. GoodBlobs(b)
    BY <2>1, <2>2
  <2> HIDE DEF b
  <2> QED
    BY <1>6, <2>3 DEF Kept, Typed, Asks, SymFields
<1> HIDE DEF u
<1>8. Kept(u, d) /\ Typed(d)
  <2>1. Kept(u, d)
    BY <1>7, NoteQuiet, QuietKept
  <2> HIDE DEF d
  <2> QED
    BY <2>1 DEF Kept
<1> HIDE DEF d
<1>9. Kept(d, k) /\ Typed(k)
  <2>1. Kept(d, k)
    BY <1>8, NoteQuiet, QuietKept
  <2> HIDE DEF k
  <2> QED
    BY <2>1 DEF Kept
<1> HIDE DEF k
<1>10. Kept(k, t1)
  <2>1. 0 \in 0 .. 7 /\ ("D" # "B" => 0 = 0) /\ "D" \in Widths
    BY DEF Widths, Bytes
  <2>2. Quiet(k, t1)
    BY <1>2, <1>3, <1>9, <2>1, CellQuiet, Zenon
  <2> HIDE DEF t1
  <2> QED
    BY <2>2, QuietKept
<1> HIDE DEF t1
<1>11. Kept(d, t2)
  BY <1>3, <1>8, CellsSet
<1> HIDE DEF t2
<1>12. Kept(d, cut) /\ Typed(cut)
  BY <1>9, <1>10, <1>11, KeptTrans DEF Kept
<1> HIDE DEF cut
<1>13. Kept(cut, z) /\ Typed(z)
  BY <1>12, Sized
<1> HIDE DEF z, v, w
<1>14. Kept(z, t)
  BY <1>13, Posted
<1> HIDE DEF t
<1>15. Kept(q, t)
  BY <1>5, <1>6, <1>7, <1>8, <1>12, <1>13, <1>14, KeptTrans
<1> QED
  BY <1>4, <1>15, Returns

\* sol_memset_
LEMMA MemsetReturns ==
  ASSUME NEW q, Typed(q), NEW p
  PROVE  Returned(q, EmitMemset(q, p).s)
<1> DEFINE len == BlobLen(q.regs[3])
           sp == Span(q.regs[1], 0, len)
           plan == PlannedTails(q, sp)
           tails == OwnedTails(q, q.regs[1], len)
<1>1. Good(q.regs[1]) /\ len \in Int
  BY Arguments
<1> HIDE DEF len
<1>2. GoodSpan(sp)
  BY <1>1, Spans
<1> HIDE DEF sp
<1>3. plan \subseteq Int
  BY DEF PlannedTails, Typed, GoodSplits
<1>4. Len(tails) \in Nat
  BY Tails
<1> HIDE DEF plan, tails
<1>5. Returned(q, MemsetWith(q, p, q.regs[1], len, ConstOf(q.regs[2]), ConstOf(q.regs[3]) # NoConst, sp, plan, tails).s)
  BY <1>1, <1>2, <1>3, <1>4, MemsetKept, Zenon
<1> QED
  BY <1>5, Zenon DEF EmitMemset, MemsetAt, len, sp, plan, tails

\* dispatch_traced_syscall
LEMMA Dispatched ==
  ASSUME NEW q, Typed(q), NEW p, NEW name
  PROVE  Returned(q, DispatchSyscall(q, p, name).s)
<1>1. \E e : DispatchSyscall(q, p, name) \in
        {EmitMemset(q, p), EmitMemcmp(q, p), EmitGetSysvar(q, p), EmitLog(q, p), EmitLog64(q, p), EmitMemcpy(q, p),
         EmitSetReturnData(q, p), EmitSha256(q, p), EmitCreatePda(q, p), Refused(q, e)}
  BY Zenon DEF DispatchSyscall
<1>2. Returned(q, q) /\ \A e : Refused(q, e).s = q
  BY DEF Returned, Refused
<1> QED
  BY <1>1, <1>2, MemsetReturns, MemcmpReturns, SysvarReturns, LogReturns, MemcpyReturns, ReturnDataReturns,
     Sha256Returns, PdaReturns, Zenon

-----------------------------------------------------------------------------
(* The witness.                                                                *)

\* Atoms that do not meet under the witness share no byte.
LEMMA WitnessSeparates ==
  ASSUME NEW q, GoodAtoms(q.pre), SatWitness(q),
         NEW i \in 1 .. Len(q.pre), NEW j \in 1 .. Len(q.pre), i < j,
         q.pre[i].span # ReturnDataSpan, q.pre[j].span # ReturnDataSpan
  PROVE  ~ShareAByte(FullSpan(q.pre[i].span), FullSpan(q.pre[j].span))
<1> DEFINE a == q.pre[i].span
           b == q.pre[j].span
           A == FullSpan(a)
           B == FullSpan(b)
<1>1. GoodSpan(a) /\ GoodSpan(b)
  BY DEF GoodAtoms
<1>2. /\ DOMAIN A = {"root", "lo", "hi"} /\ A.lo \in Int /\ A.hi \in Int
      /\ DOMAIN B = {"root", "lo", "hi"} /\ B.lo \in Int /\ B.hi \in Int
  BY <1>1, FullSpans
<1>3. ~Overlaps(WitnessSpan(a), WitnessSpan(b))
  BY DEF SatWitness, AnyClash, Clash
<1> DEFINE Masked(R) == R[1] = "mask" /\ R[2][1] \in {"reg", "mem"}
<1>4. /\ WitnessSpan(a) = IF Masked(A.root) THEN [A EXCEPT !.root = A.root[2]] ELSE A
      /\ WitnessSpan(b) = IF Masked(B.root) THEN [B EXCEPT !.root = B.root[2]] ELSE B
  BY DEF WitnessSpan
<1> HIDE DEF A, B, Masked
<1>5. /\ WitnessSpan(a).lo = A.lo /\ WitnessSpan(a).hi = A.hi
      /\ WitnessSpan(b).lo = B.lo /\ WitnessSpan(b).hi = B.hi
  BY <1>2, <1>4
<1>6. A.root = B.root => WitnessSpan(a).root = WitnessSpan(b).root
  BY <1>2, <1>4
<1>7. (A.lo .. A.hi - 1) \cap (B.lo .. B.hi - 1) # {} => A.lo < B.hi /\ B.lo < A.hi
  BY <1>2
<1>8. ~ShareAByte(A, B)
  BY <1>3, <1>5, <1>6, <1>7 DEF Overlaps, ShareAByte
<1> QED
  BY <1>8 DEF A, B

-----------------------------------------------------------------------------
(* The walked instructions as a path.                                          *)

\* Where the walk goes from its i-th instruction, when u is the one it is at.
NextPc(b, u, i) == IF i < Len(b) THEN b[i + 1] ELSE u
Enters(ins, p, next) == ins.op \in {"call", "callx"} \/ (ins.op = "sys" /\ next # p + 1)
OpenNow(open, ins, p, next) ==
  IF Enters(ins, p, next) THEN Append(open, p) ELSE IF ins.op = "exit" THEN Front(open) ELSE open
Legal(runs, open, ins, p, next) ==
  /\ ins.op = "jcc" => next \in {ins.t, p + 1, End}
  /\ ins.op = "exit" => open # <<>> /\ next = Last(open) + 1
  /\ runs /\ ins.op \in Straight => next \in {p + 1, End}
  /\ runs /\ ins.op \in {"ja", "call"} => next \in {ins.t, End}
\* g[i] are the calls open before the i-th instruction.
OpenCalls(runs, code, b, u, g) ==
  /\ g[1] = <<>>
  /\ \A i \in 1 .. Len(b) :
       /\ g[i + 1] = OpenNow(g[i], code[b[i] + 1], b[i], NextPc(b, u, i))
       /\ Legal(runs, g[i], code[b[i] + 1], b[i], NextPc(b, u, i))
\* The frames are the open calls.
Frames(stack, open) ==
  open \in Seq(Nat) /\ Len(open) = Len(stack) /\ \A i \in 1 .. Len(stack) : stack[i].pc = open[i]
PathOf(runs, code, b, u, stack) == \E g : OpenCalls(runs, code, b, u, g) /\ Frames(stack, g[Len(b) + 1])

\* A pass starts on a path.
LEMMA PathBegins == ASSUME NEW runs, NEW code, NEW u PROVE PathOf(runs, code, <<>>, u, <<>>)
<1> DEFINE g == [i \in {1} |-> <<>>]
<1>1. g[1] = <<>>
  OBVIOUS
<1>2. Len(<<>>) = 0 /\ <<>> \in Seq(Nat) /\ 0 + 1 = 1 /\ 1 .. 0 = {}
  OBVIOUS
<1> HIDE DEF g
<1>3. OpenCalls(runs, code, <<>>, u, g)
  BY <1>1, <1>2 DEF OpenCalls
<1>4. Frames(<<>>, g[Len(<<>>) + 1])
  BY <1>1, <1>2 DEF Frames
<1> QED
  BY <1>3, <1>4 DEF PathOf

\* And each instruction walked continues it.
LEMMA PathGrows ==
  ASSUME NEW runs, NEW code, NEW b, IsList(b), NEW u, NEW v, NEW old, NEW new, PathOf(runs, code, b, u, old),
         \A open : Frames(old, open) =>
           Legal(runs, open, code[u + 1], u, v) /\ Frames(new, OpenNow(open, code[u + 1], u, v))
  PROVE  PathOf(runs, code, Append(b, u), v, new)
<1> DEFINE c == Append(b, u)
           n == Len(b)
<1>1. PICK g : OpenCalls(runs, code, b, u, g) /\ Frames(old, g[n + 1])
  BY DEF PathOf
<1> DEFINE last == OpenNow(g[n + 1], code[u + 1], u, v)
           h == [i \in 1 .. n + 2 |-> IF i = n + 2 THEN last ELSE g[i]]
<1>2. n \in Nat /\ Len(c) = n + 1 /\ c[n + 1] = u /\ \A i \in 1 .. n : c[i] = b[i]
  BY AppendList
<1> HIDE DEF c, n
<1>3. \A i \in 1 .. n + 1 : h[i] = g[i]
  BY <1>2
<1>4. h[n + 2] = last
  BY <1>2
<1> HIDE DEF h
<1>5. \A i \in 1 .. n : NextPc(c, v, i) = NextPc(b, u, i)
  <2> SUFFICES ASSUME NEW i \in 1 .. n PROVE NextPc(c, v, i) = NextPc(b, u, i)
    OBVIOUS
  <2>1. CASE i < n
    BY <1>2, <2>1 DEF NextPc, n
  <2>2. CASE i = n
    BY <1>2, <2>2 DEF NextPc, n
  <2> QED
    BY <1>2, <2>1, <2>2
<1>6. NextPc(c, v, n + 1) = v
  BY <1>2 DEF NextPc
<1>7. Legal(runs, g[n + 1], code[u + 1], u, v) /\ Frames(new, last)
  BY <1>1
<1> HIDE DEF last
<1>8. OpenCalls(runs, code, c, v, h)
  <2>1. h[1] = <<>>
    BY <1>1, <1>2, <1>3 DEF OpenCalls
  <2>2. ASSUME NEW i \in 1 .. n
        PROVE  /\ h[i + 1] = OpenNow(h[i], code[c[i] + 1], c[i], NextPc(c, v, i))
               /\ Legal(runs, h[i], code[c[i] + 1], c[i], NextPc(c, v, i))
    <3>1. h[i] = g[i] /\ h[i + 1] = g[i + 1] /\ c[i] = b[i] /\ NextPc(c, v, i) = NextPc(b, u, i)
      BY <1>2, <1>3, <1>5
    <3>2. /\ g[i + 1] = OpenNow(g[i], code[b[i] + 1], b[i], NextPc(b, u, i))
          /\ Legal(runs, g[i], code[b[i] + 1], b[i], NextPc(b, u, i))
      BY <1>1 DEF OpenCalls, n
    <3> QED
      BY <3>1, <3>2, Zenon
  <2>3. /\ h[n + 1 + 1] = OpenNow(h[n + 1], code[c[n + 1] + 1], c[n + 1], NextPc(c, v, n + 1))
        /\ Legal(runs, h[n + 1], code[c[n + 1] + 1], c[n + 1], NextPc(c, v, n + 1))
    <3>1. h[n + 1] = g[n + 1] /\ n + 1 + 1 = n + 2
      BY <1>2, <1>3
    <3> QED
      BY <1>2, <1>4, <1>6, <1>7, <3>1, Zenon DEF last
  <2>4. \A i \in 1 .. Len(c) : i \in 1 .. n \/ i = n + 1
    BY <1>2
  <2> QED
    BY <2>1, <2>2, <2>3, <2>4, Zenon DEF OpenCalls
<1>9. Frames(new, h[Len(c) + 1])
  <2>1. Len(c) + 1 = n + 2
    BY <1>2
  <2> QED
    BY <1>4, <1>7, <2>1
<1> QED
  BY <1>8, <1>9 DEF PathOf, c

\* A call opens a frame.
LEMMA FramePushed ==
  ASSUME NEW stack, IsList(stack), NEW f, f.pc \in Nat, NEW open, Frames(stack, open)
  PROVE  Frames(Append(stack, f), Append(open, f.pc))
<1> DEFINE k == Append(stack, f)
           o == Append(open, f.pc)
<1>1. /\ Len(stack) \in Nat /\ Len(k) = Len(stack) + 1 /\ k[Len(stack) + 1] = f
      /\ \A i \in 1 .. Len(stack) : k[i] = stack[i]
  BY AppendList
<1>2. open \in Seq(Nat) /\ Len(open) = Len(stack) /\ \A i \in 1 .. Len(stack) : stack[i].pc = open[i]
  BY DEF Frames
<1>3. o \in Seq(Nat) /\ Len(o) = Len(stack) + 1 /\ o[Len(stack) + 1] = f.pc /\ \A i \in 1 .. Len(stack) : o[i] = open[i]
  BY <1>2
<1> HIDE DEF k, o
<1>4. \A i \in 1 .. Len(k) : k[i].pc = o[i]
  <2> SUFFICES ASSUME NEW i \in 1 .. Len(k) PROVE k[i].pc = o[i]
    OBVIOUS
  <2>1. CASE i \in 1 .. Len(stack)
    BY <1>1, <1>2, <1>3, <2>1
  <2>2. CASE i = Len(stack) + 1
    BY <1>1, <1>3, <2>2
  <2> QED
    BY <1>1, <2>1, <2>2
<1>5. Frames(k, o)
  BY <1>1, <1>3, <1>4 DEF Frames
<1> QED
  BY <1>5 DEF k, o

\* All but the last element.
LEMMA FrontList ==
  ASSUME NEW T, NEW l \in Seq(T), Len(l) # 0
  PROVE  Len(Front(l)) = Len(l) - 1 /\ \A i \in 1 .. Len(l) - 1 : Front(l)[i] = l[i]
<1> DEFINE n == Len(l) - 1
           k == SubSeq(l, 1, n)
<1>1. n \in Nat /\ \A i \in 1 .. n : l[i] \in T
  OBVIOUS
<1> HIDE DEF n
<1>2. Len(k) = (IF 1 <= n THEN n - 1 + 1 ELSE 0) /\ \A i \in 1 .. n - 1 + 1 : k[i] = l[1 + i - 1]
  BY <1>1, SubSeqProperties
<1> HIDE DEF k
<1>3. Len(k) = n /\ \A i \in 1 .. n : k[i] = l[i]
  BY <1>1, <1>2
<1> QED
  BY <1>3 DEF Front, k, n

\* A return closes the last one.
LEMMA FramePopped ==
  ASSUME NEW stack, IsList(stack), stack # <<>>, NEW open, Frames(stack, open)
  PROVE  open # <<>> /\ Last(open) = Last(stack).pc /\ Frames(Front(stack), Front(open))
<1>1. open \in Seq(Nat) /\ Len(open) = Len(stack) /\ \A i \in 1 .. Len(stack) : stack[i].pc = open[i]
  BY DEF Frames
<1>2. stack \in Seq(Range(stack)) /\ Len(stack) \in Nat
  BY ListFacts DEF IsList
<1>3. Len(stack) # 0
  BY <1>2, EmptySeq
<1>4. open # <<>> /\ Last(open) = Last(stack).pc
  <2>0. Len(<<>>) = 0
    BY NoList
  <2>1. Len(stack) \in 1 .. Len(stack)
    BY <1>2, <1>3
  <2>2. Last(open) = Last(stack).pc
    BY <1>1, <2>1 DEF Last
  <2> QED
    BY <1>1, <1>3, <2>0, <2>2
<1> DEFINE k == Front(stack)
           o == Front(open)
<1>5. Len(k) = Len(stack) - 1 /\ \A i \in 1 .. Len(stack) - 1 : k[i] = stack[i]
  BY <1>2, <1>3, FrontList
<1>6. o \in Seq(Nat) /\ Len(o) = Len(stack) - 1 /\ \A i \in 1 .. Len(stack) - 1 : o[i] = open[i]
  BY <1>1, <1>2, <1>3 DEF Front
<1> HIDE DEF k, o
<1>7. \A i \in 1 .. Len(k) : k[i].pc = o[i]
  <2> SUFFICES ASSUME NEW i \in 1 .. Len(k) PROVE k[i].pc = o[i]
    OBVIOUS
  <2>1. i \in 1 .. Len(stack) - 1 /\ i \in 1 .. Len(stack)
    BY <1>2, <1>5
  <2> QED
    BY <1>1, <1>5, <1>6, <2>1
<1>8. Frames(k, o)
  BY <1>5, <1>6, <1>7 DEF Frames
<1> QED
  BY <1>4, <1>8 DEF k, o

\* The calls that are open before each walked instruction, and what the path allows.
LEMMA PathIsFollowed ==
  ASSUME IsList(block), \A i \in 1 .. Len(block) : block[i] \in Nat, NEW u, NEW stack,
         PathOf(TraceRuns, job.code, block, u, stack)
  PROVE  \A i \in 1 .. Len(block) : Follows(i, OpenBefore[i])
<1> DEFINE n == Len(block)
<1>1. PICK g : OpenCalls(TraceRuns, job.code, block, u, g)
  BY DEF PathOf
<1>2. n \in Nat
  BY ListFacts
<1>3. ASSUME NEW i \in 1 .. n, i < n
      PROVE  g[i + 1] = Across(g[i], i)
  <2>1. NextPc(block, u, i) = block[i + 1]
    BY <1>3 DEF NextPc
  <2>2. Enters(At(i), block[i], block[i + 1]) = Opens(i)
    BY <1>3 DEF Enters, Opens, Goes
  <2>3. g[i + 1] = OpenNow(g[i], At(i), block[i], block[i + 1])
    BY <1>1, <2>1 DEF OpenCalls, At
  <2> QED
    BY <2>2, <2>3 DEF OpenNow, Across
<1> DEFINE F(h) == [i \in 1 .. n |-> IF i = 1 THEN <<>> ELSE Across(h[i - 1], i - 1)]
           w == [i \in 1 .. n |-> g[i]]
           ob == OpenBefore
<1>4. w = F(w)
  <2>1. ASSUME NEW i \in 1 .. n, i # 1 PROVE g[i] = Across(w[i - 1], i - 1)
    <3>1. i - 1 \in 1 .. n /\ i - 1 < n /\ i - 1 + 1 = i
      BY <1>2, <2>1
    <3> QED
      BY <1>3, <3>1
  <2>2. g[1] = <<>>
    BY <1>1 DEF OpenCalls
  <2>3. ASSUME NEW i \in 1 .. n PROVE w[i] = IF i = 1 THEN <<>> ELSE Across(w[i - 1], i - 1)
    BY <2>1, <2>2
  <2> HIDE DEF w
  <2>4. w = [i \in 1 .. n |-> w[i]]
    BY DEF w
  <2> QED
    BY <2>3, <2>4, Zenon
<1>5. ob = F(ob)
  <2>1. ob = CHOOSE h : h = F(h)
    BY Zenon DEF OpenBefore
  <2> HIDE DEF ob, F
  <2> QED
    BY <1>4, <2>1, Zenon
<1> HIDE DEF ob, w
<1>6. \A i \in 1 .. n : ob[i] = g[i]
  <2> DEFINE W == {i \in 1 .. n : ob[i] # g[i]}
  <2> SUFFICES ASSUME W # {} PROVE FALSE
    OBVIOUS
  <2>1. W \subseteq Nat
    BY <1>2
  <2> DEFINE x == Min(W)
  <2>2. x \in W /\ \A y \in W : x <= y
    BY <2>1, LeastIndex
  <2>3. x \in 1 .. n /\ ob[x] # g[x]
    BY <2>2
  <2>4. ob[x] = IF x = 1 THEN <<>> ELSE Across(ob[x - 1], x - 1)
    <3> HIDE DEF x
    <3> QED
      BY <1>5, <2>3
  <2>5. CASE x = 1
    BY <1>1, <2>3, <2>4, <2>5 DEF OpenCalls
  <2>6. CASE x # 1
    <3>1. x - 1 \in 1 .. n /\ x - 1 < n /\ x - 1 + 1 = x /\ ~(x <= x - 1)
      <4> HIDE DEF x
      <4> QED
        BY <1>2, <2>3, <2>6
    <3>2. ob[x - 1] = g[x - 1]
      BY <2>2, <3>1
    <3>3. g[x] = Across(g[x - 1], x - 1)
      BY <1>3, <3>1
    <3> QED
      BY <2>3, <2>4, <2>6, <3>2, <3>3
  <2> QED
    BY <2>5, <2>6
<1>7. ASSUME NEW i \in 1 .. n PROVE Follows(i, g[i])
  <2>1. Legal(TraceRuns, g[i], At(i), block[i], NextPc(block, u, i))
    BY <1>1 DEF OpenCalls, At
  <2>2. CASE i < n
    <3>1. NextPc(block, u, i) = block[i + 1] /\ block[i + 1] \in Nat
      BY <1>2, <2>2 DEF NextPc
    <3>2. block[i + 1] # End
      BY <3>1 DEF End
    <3> QED
      BY <2>1, <3>1, <3>2 DEF Legal, Follows, Goes
  <2>3. CASE ~(i < n)
    BY <2>1, <2>3 DEF Legal, Follows, Goes
  <2> QED
    BY <2>2, <2>3
<1> QED
  BY <1>6, <1>7 DEF ob

-----------------------------------------------------------------------------
(* Specification calls and clauses, one per instruction and one per access.    *)

Specified(code, b, i) == {j \in 1 .. i : code[b[j] + 1].op # "sub"}
Count(code, b, i) == Cardinality(Specified(code, b, i))
Answered(code, b, cs) ==
  /\ Len(cs) = Count(code, b, Len(b))
  /\ \A i \in 1 .. Len(b) : code[b[i] + 1].op # "sub" => cs[Count(code, b, i)].pc = b[i]

\* A count is a number, and it does not go down.
LEMMA Counts ==
  ASSUME NEW code, NEW b, NEW n \in Nat
  PROVE  /\ IsFiniteSet(Specified(code, b, n)) /\ Count(code, b, n) \in Nat
         /\ \A i \in 1 .. n : Count(code, b, i) <= Count(code, b, n)
         /\ \A i \in 1 .. n : code[b[i] + 1].op # "sub" => Count(code, b, i) \in 1 .. Count(code, b, n)
<1>1. ASSUME NEW k \in Nat PROVE IsFiniteSet(Specified(code, b, k)) /\ Count(code, b, k) \in Nat
  <2>1. IsFiniteSet(1 .. k)
    BY FS_Interval
  <2>2. Specified(code, b, k) \in SUBSET (1 .. k)
    BY DEF Specified
  <2> QED
    BY <2>1, <2>2, FS_Subset, FS_CardinalityType DEF Count
<1>2. ASSUME NEW i \in 1 .. n PROVE Count(code, b, i) \in Nat /\ Count(code, b, i) <= Count(code, b, n)
  <2>1. Specified(code, b, i) \in SUBSET Specified(code, b, n)
    BY DEF Specified
  <2>2. IsFiniteSet(Specified(code, b, n)) /\ i \in Nat
    BY <1>1
  <2> QED
    BY <1>1, <2>1, <2>2, FS_Subset DEF Count
<1>3. ASSUME NEW i \in 1 .. n, code[b[i] + 1].op # "sub" PROVE Count(code, b, i) # 0
  <2>1. i \in Specified(code, b, i) /\ i \in Nat
    BY <1>3 DEF Specified
  <2>2. IsFiniteSet(Specified(code, b, i))
    BY <1>1, <2>1
  <2> QED
    BY <2>1, <2>2, FS_EmptySet DEF Count
<1> QED
  BY <1>1, <1>2, <1>3

\* Walking on answers the new instruction and leaves the others as they are.
LEMMA CallsGrow ==
  ASSUME NEW code, NEW b, IsList(b), NEW cs, IsList(cs), Answered(code, b, cs), NEW u, NEW x, x.pc = u, NEW ds,
         ds = IF code[u + 1].op # "sub" THEN Append(cs, x) ELSE cs
  PROVE  Answered(code, Append(b, u), ds)
<1> DEFINE c == Append(b, u)
           n == Len(b)
<1>1. n \in Nat /\ Len(c) = n + 1 /\ c[n + 1] = u /\ \A i \in 1 .. n : c[i] = b[i]
  BY AppendList
<1> HIDE DEF c
<1>2. ASSUME NEW i \in 1 .. n PROVE Count(code, c, i) = Count(code, b, i)
  <2>1. \A j \in 1 .. i : c[j] = b[j]
    BY <1>1
  <2>2. Specified(code, c, i) = Specified(code, b, i)
    BY <2>1 DEF Specified
  <2> QED
    BY <2>2 DEF Count
<1>3. Specified(code, c, n + 1) = IF code[u + 1].op # "sub" THEN Specified(code, b, n) \cup {n + 1} ELSE Specified(code, b, n)
  <2>1. 1 .. n + 1 = (1 .. n) \cup {n + 1}
    BY <1>1
  <2> HIDE DEF n
  <2>2. \A j \in 1 .. n : c[j] = b[j]
    BY <1>1
  <2> QED
    BY <1>1, <2>1, <2>2, Zenon DEF Specified
<1>4. n + 1 \notin Specified(code, b, n)
  BY <1>1 DEF Specified
<1>5. /\ IsFiniteSet(Specified(code, b, n)) /\ Count(code, b, n) \in Nat
      /\ \A i \in 1 .. n : code[b[i] + 1].op # "sub" => Count(code, b, i) \in 1 .. Count(code, b, n)
  BY <1>1, Counts
<1>6. Count(code, c, n + 1) = IF code[u + 1].op # "sub" THEN Count(code, b, n) + 1 ELSE Count(code, b, n)
  BY <1>3, <1>4, <1>5, FS_AddElement DEF Count
<1>7. Len(cs) = Count(code, b, n) /\ \A i \in 1 .. n : code[b[i] + 1].op # "sub" => cs[Count(code, b, i)].pc = b[i]
  BY DEF Answered
<1>8. CASE code[u + 1].op # "sub"
  <2>1. Len(ds) = Len(cs) + 1 /\ ds[Len(cs) + 1] = x /\ \A i \in 1 .. Len(cs) : ds[i] = cs[i]
    BY <1>8, AppendList
  <2>2. Len(ds) = Count(code, c, n + 1)
    BY <1>6, <1>7, <1>8, <2>1
  <2>3. ds[Count(code, c, n + 1)].pc = c[n + 1]
    BY <1>1, <1>6, <1>7, <1>8, <2>1
  <2>4. ASSUME NEW i \in 1 .. n, code[c[i] + 1].op # "sub" PROVE ds[Count(code, c, i)].pc = c[i]
    <3>1. c[i] = b[i] /\ Count(code, c, i) = Count(code, b, i) /\ Count(code, b, i) \in 1 .. Len(cs)
      BY <1>1, <1>2, <1>5, <1>7, <2>4
    <3> QED
      BY <1>7, <2>1, <2>4, <3>1
  <2>5. \A i \in 1 .. n + 1 : i \in 1 .. n \/ i = n + 1
    BY <1>1
  <2> QED
    BY <1>1, <2>2, <2>3, <2>4, <2>5, Zenon DEF Answered, c
<1>9. CASE code[u + 1].op = "sub"
  <2>1. Len(ds) = Count(code, c, n + 1) /\ code[c[n + 1] + 1].op = "sub" /\ ds = cs
    BY <1>1, <1>6, <1>7, <1>9
  <2>2. ASSUME NEW i \in 1 .. n, code[c[i] + 1].op # "sub" PROVE ds[Count(code, c, i)].pc = c[i]
    BY <1>1, <1>2, <1>7, <2>1, <2>2
  <2>3. \A i \in 1 .. n + 1 : i \in 1 .. n \/ i = n + 1
    BY <1>1
  <2> QED
    BY <1>1, <2>1, <2>2, <2>3, Zenon DEF Answered, c
<1> QED
  BY <1>8, <1>9

\* A clause for an access: its region, its size and its right.
SameAccess(c, a) == c.w = a.w /\ IsClauseFor(FullSpan(c.span), a.span)
Matched(rr, sn) == Len(rr) = Len(sn) /\ \A i \in 1 .. Len(sn) : SameAccess(rr[i], sn[i])

\* One more of each.
LEMMA ClausesGrow ==
  ASSUME NEW rr, IsList(rr), NEW sn, IsList(sn), Matched(rr, sn), NEW c, NEW a, SameAccess(c, a)
  PROVE  Matched(Append(rr, c), Append(sn, a))
<1> DEFINE x == Append(rr, c)
           y == Append(sn, a)
<1>1. /\ Len(rr) \in Nat /\ Len(x) = Len(rr) + 1 /\ x[Len(rr) + 1] = c
      /\ \A i \in 1 .. Len(rr) : x[i] = rr[i]
  BY AppendList
<1>2. Len(y) = Len(sn) + 1 /\ y[Len(sn) + 1] = a /\ \A i \in 1 .. Len(sn) : y[i] = sn[i]
  BY AppendList
<1> HIDE DEF x, y
<1>3. Len(rr) = Len(sn) /\ \A i \in 1 .. Len(sn) : SameAccess(rr[i], sn[i])
  BY DEF Matched
<1>4. ASSUME NEW i \in 1 .. Len(y) PROVE SameAccess(x[i], y[i])
  <2>1. CASE i \in 1 .. Len(sn)
    BY <1>1, <1>2, <1>3, <2>1
  <2>2. CASE i = Len(sn) + 1
    BY <1>1, <1>2, <1>3, <2>2
  <2> QED
    BY <1>1, <1>2, <1>3, <2>1, <2>2
<1> QED
  BY <1>1, <1>2, <1>3, <1>4 DEF Matched, x, y

\* What the walk records of an access.
LEMMA Recorded ==
  ASSUME NEW q, NEW r, NEW sn, IsList(sn), IsList(q.rr), Matched(q.rr, sn), NEW t, NEW w, Claims(q, r, t, w)
  PROVE  Matched(r.rr, sn \o <<[span |-> t, w |-> w]>>)
<1> DEFINE a == [span |-> t, w |-> w]
<1>1. PICK sp : r.rr = Append(q.rr, Clause(sp, w, FALSE)) /\ IsClauseFor(FullSpan(sp), t)
  BY DEF Claims
<1>3. SameAccess(Clause(sp, w, FALSE), a)
  BY <1>1 DEF SameAccess, Clause
<1> HIDE DEF a
<1>4. sn \o <<a>> = Append(sn, a)
  <2> DEFINE T == Range(sn) \cup {a}
  <2>1. sn \in Seq(T) /\ a \in T
    <3>1. sn \in Seq(Range(sn))
      BY DEF IsList
    <3> QED
      BY <3>1
  <2> HIDE DEF T
  <2> QED
    BY <2>1
<1> QED
  BY <1>1, <1>3, <1>4, ClausesGrow DEF a

-----------------------------------------------------------------------------
(* An instruction with its specification call and its aliases.                 *)

Effect(q, ins, p, r) ==
  /\ Typed(r) /\ (Asks(q) => Asks(r))
  /\ ins.op \in {"call", "sys", "callx"} =>
       \E f : r.stack = Append(q.stack, f) /\ f.pc = p /\ f.saved[10] = q.regs[10]
  /\ ins.op \notin {"call", "sys", "callx"} => r.stack = q.stack /\ r.regs[10] = q.regs[10]
  /\ ins.op = "ldx" => Claims(q, r, TrueSpan(q.regs[ins.s], ins.off, Bytes[ins.w]), FALSE) \/ Asks(r)
  /\ ins.op \in {"st", "stx"} => Claims(q, r, TrueSpan(q.regs[ins.d], ins.off, Bytes[ins.w]), TRUE) \/ Asks(r)
  /\ ins.op \notin {"ldx", "st", "stx", "callx"} => r.rr = q.rr

\* step, between the preparation of the specification call and the aliases it leaves.
LEMMA Performed ==
  ASSUME NEW q, Typed(q), NEW ins, Decoded(ins), NEW p \in Nat, NEW prep, Typed(prep), Grown(q, prep),
         ins.op # "callx" => prep.rr = q.rr, NEW n, Quiet(prep, n), NEW m, StepDoes(n, ins, p, m), NEW r, Quiet(m, r)
  PROVE  Effect(q, ins, p, r)
<1>1. n.regs = q.regs /\ n.stack = q.stack /\ (Asks(q) => Asks(n)) /\ (ins.op # "callx" => n.rr = q.rr)
  BY DEF Quiet, Grown
<1>2. Typed(r) /\ r.regs = m.regs /\ r.stack = m.stack /\ (Asks(m) => Asks(r)) /\ r.rr = m.rr
  BY DEF Quiet, Grown
<1>3. CASE ins.op = "ldx"
  <2>1. Access(n, m, TrueSpan(q.regs[ins.s], ins.off, Bytes[ins.w]), FALSE)
    BY <1>1, <1>3 DEF StepDoes
  <2>2. Claims(n, m, TrueSpan(q.regs[ins.s], ins.off, Bytes[ins.w]), FALSE) \/ Asks(m)
    BY <2>1 DEF Access
  <2>3. Claims(q, r, TrueSpan(q.regs[ins.s], ins.off, Bytes[ins.w]), FALSE) \/ Asks(r)
    BY <1>1, <1>2, <1>3, <2>2 DEF Claims
  <2>4. r.stack = q.stack /\ r.regs[10] = q.regs[10] /\ (Asks(q) => Asks(r))
    BY <1>1, <1>2, <2>1 DEF Access
  <2> QED
    BY <1>2, <1>3, <2>3, <2>4 DEF Effect
<1>4. CASE ins.op \in {"st", "stx"}
  <2>1. Access(n, m, TrueSpan(q.regs[ins.d], ins.off, Bytes[ins.w]), TRUE)
    BY <1>1, <1>4 DEF StepDoes
  <2>2. Claims(n, m, TrueSpan(q.regs[ins.d], ins.off, Bytes[ins.w]), TRUE) \/ Asks(m)
    BY <2>1 DEF Access
  <2>3. Claims(q, r, TrueSpan(q.regs[ins.d], ins.off, Bytes[ins.w]), TRUE) \/ Asks(r)
    BY <1>1, <1>2, <1>4, <2>2 DEF Claims
  <2>4. r.stack = q.stack /\ r.regs[10] = q.regs[10] /\ (Asks(q) => Asks(r))
    BY <1>1, <1>2, <2>1 DEF Access
  <2> QED
    BY <1>2, <1>4, <2>3, <2>4 DEF Effect
<1>5. CASE ins.op \in {"call", "sys", "callx"}
  <2>1. Pushed(n, m, p)
    BY <1>5 DEF StepDoes
  <2>2. m.rr = n.rr /\ (Asks(n) => Asks(m)) /\ \E f : m.stack = Append(n.stack, f) /\ f.pc = p /\ f.saved[10] = n.regs[10]
    BY <2>1 DEF Pushed
  <2>3. \E f : r.stack = Append(q.stack, f) /\ f.pc = p /\ f.saved[10] = q.regs[10]
    BY <1>1, <1>2, <2>2
  <2>4. (ins.op # "callx" => r.rr = q.rr) /\ (Asks(q) => Asks(r))
    BY <1>1, <1>2, <2>2
  <2> QED
    BY <1>2, <1>5, <2>3, <2>4 DEF Effect
<1>6. CASE ins.op \notin {"ldx", "st", "stx", "call", "sys", "callx"}
  <2>1. Plain(n, m)
    BY <1>6 DEF StepDoes
  <2>2. r.stack = q.stack /\ r.rr = q.rr /\ (Asks(q) => Asks(r)) /\ r.regs[10] = q.regs[10]
    BY <1>1, <1>2, <1>6, <2>1 DEF Plain
  <2> QED
    BY <1>2, <1>6, <2>2 DEF Effect
<1> QED
  BY <1>3, <1>4, <1>5, <1>6

\* The frame pointer of the outermost function is where it was.
Base(q) ==
  /\ q.stack = <<>> => q.regs[10] = InitReg(10)
  /\ q.stack # <<>> => q.stack[1].saved[10] = InitReg(10)

\* A frame on top of the others.
LEMMA BasePushed ==
  ASSUME NEW q, IsList(q.stack), Base(q), NEW r, NEW f, r.stack = Append(q.stack, f), f.saved[10] = q.regs[10]
  PROVE  Base(r)
<1>1. /\ Len(q.stack) \in Nat /\ r.stack # <<>> /\ r.stack[Len(q.stack) + 1] = f
      /\ \A i \in 1 .. Len(q.stack) : r.stack[i] = q.stack[i]
  BY AppendList
<1>2. CASE q.stack = <<>>
  <2>1. Len(q.stack) + 1 = 1
    BY <1>2, NoList
  <2> QED
    BY <1>1, <1>2, <2>1 DEF Base
<1>3. CASE q.stack # <<>>
  <2>1. q.stack \in Seq(Range(q.stack))
    BY DEF IsList
  <2>2. Len(q.stack) # 0
    BY <1>3, <2>1, EmptySeq
  <2>3. 1 \in 1 .. Len(q.stack)
    BY <1>1, <2>2
  <2> QED
    BY <1>1, <1>3, <2>3 DEF Base
<1> QED
  BY <1>2, <1>3

\* The top one is taken off.
LEMMA BasePopped ==
  ASSUME NEW q, IsList(q.stack), q.stack # <<>>, Base(q), NEW r, r.stack = Front(q.stack),
         r.regs[10] = Last(q.stack).saved[10]
  PROVE  Base(r)
<1> DEFINE n == Len(q.stack)
<1>1. q.stack \in Seq(Range(q.stack)) /\ n \in Nat
  BY ListFacts DEF IsList
<1>2. n # 0
  BY <1>1, EmptySeq
<1>3. Len(r.stack) = n - 1 /\ \A i \in 1 .. n - 1 : r.stack[i] = q.stack[i]
  BY <1>1, <1>2, FrontList
<1>4. Last(q.stack) = q.stack[n] /\ Len(<<>>) = 0
  BY NoList DEF Last
<1> HIDE DEF n
<1>5. CASE n = 1
  <2>1. r.regs[10] = InitReg(10)
    BY <1>4, <1>5 DEF Base
  <2>2. r.stack = <<>>
    <3>1. IsList(r.stack)
      <4> DEFINE T == Range(q.stack)
      <4>1. q.stack \in Seq(T)
        BY <1>1
      <4> HIDE DEF T
      <4>2. Front(q.stack) \in Seq(T)
        BY <4>1, <1>1, <1>2 DEF Front, n
      <4> QED
        BY <4>2, ListOf
    <3>2. r.stack \in Seq(Range(r.stack))
      BY <3>1 DEF IsList
    <3> QED
      BY <1>3, <1>5, <3>2, EmptySeq
  <2> QED
    BY <2>1, <2>2 DEF Base
<1>6. CASE n # 1
  <2>1. 1 \in 1 .. n - 1 /\ n - 1 # 0
    BY <1>1, <1>2, <1>6
  <2>2. r.stack # <<>> /\ r.stack[1] = q.stack[1]
    BY <1>3, <1>4, <2>1
  <2> QED
    BY <2>2 DEF Base
<1> QED
  BY <1>5, <1>6

\* An executed instruction stays on the path.
LEMMA ExecutedPath ==
  ASSUME NEW runs, NEW code, NEW b, IsList(b), NEW u \in Nat, NEW v, NEW q, Typed(q), NEW r, Effect(q, code[u + 1], u, r),
         PathOf(runs, code, b, u, q.stack), Base(q), code[u + 1].op # "exit",
         code[u + 1].op = "jcc" => v \in {code[u + 1].t, u + 1, End}, code[u + 1].op = "sys" => v # u + 1,
         runs /\ code[u + 1].op \in Straight => v \in {u + 1, End},
         runs /\ code[u + 1].op \in {"ja", "call"} => v \in {code[u + 1].t, End}
  PROVE  PathOf(runs, code, Append(b, u), v, r.stack) /\ Base(r)
<1> DEFINE ins == code[u + 1]
<1>1. IsList(q.stack)
  BY DEF Typed, GoodFrames
<1>2. ASSUME NEW open PROVE Legal(runs, open, ins, u, v)
  BY DEF Legal
<1>3. CASE ins.op \in {"call", "sys", "callx"}
  <2>1. PICK f : r.stack = Append(q.stack, f) /\ f.pc = u /\ f.saved[10] = q.regs[10]
    BY <1>3 DEF Effect
  <2>2. Enters(ins, u, v)
    BY <1>3 DEF Enters
  <2>3. ASSUME NEW open, Frames(q.stack, open) PROVE Frames(r.stack, OpenNow(open, ins, u, v))
    BY <1>1, <2>1, <2>2, <2>3, FramePushed DEF OpenNow
  <2>4. Base(r)
    BY <1>1, <2>1, BasePushed
  <2> QED
    BY <1>2, <2>3, <2>4, PathGrows
<1>4. CASE ins.op \notin {"call", "sys", "callx"}
  <2>1. r.stack = q.stack /\ r.regs[10] = q.regs[10]
    BY <1>4 DEF Effect
  <2>2. ASSUME NEW open PROVE OpenNow(open, ins, u, v) = open
    BY <1>4 DEF OpenNow, Enters
  <2>3. \A open : Frames(q.stack, open) => Frames(r.stack, OpenNow(open, ins, u, v))
    BY <2>1, <2>2
  <2>4. Base(r)
    BY <2>1 DEF Base
  <2> QED
    BY <1>2, <2>3, <2>4, PathGrows
<1> QED
  BY <1>3, <1>4

\* An executed instruction has its clause.
LEMMA ExecutedClauses ==
  ASSUME NEW q, Typed(q), NEW ins, Decoded(ins), NEW p, NEW r, Effect(q, ins, p, r), NEW sn, IsList(sn),
         Asks(q) \/ Matched(q.rr, sn), ins.op \notin {"sys", "callx"}
  PROVE  Asks(r) \/ Matched(r.rr, sn \o Accesses(ins, q))
<1> SUFFICES ASSUME ~Asks(r) PROVE Matched(r.rr, sn \o Accesses(ins, q))
  OBVIOUS
<1>1. Matched(q.rr, sn) /\ IsList(q.rr)
  BY DEF Effect, Typed
<1>2. CASE ins.op = "ldx"
  <2>1. ins.w \in Widths /\ ins.off \in Int /\ ins.s \in 0 .. 10
    BY <1>2 DEF Decoded
  <2>2. Good(q.regs[ins.s]) /\ Bytes[ins.w] \in Int
    BY <2>1, WidthFacts DEF Typed, GoodRegs
  <2>3. Claims(q, r, TrueSpan(q.regs[ins.s], ins.off, Bytes[ins.w]), FALSE)
    BY <1>2 DEF Effect
  <2>4. Accesses(ins, q) = <<[span |-> TrueSpan(q.regs[ins.s], ins.off, Bytes[ins.w]), w |-> FALSE]>>
    BY <1>2, Zenon DEF Accesses
  <2>5. Matched(r.rr, sn \o <<[span |-> TrueSpan(q.regs[ins.s], ins.off, Bytes[ins.w]), w |-> FALSE]>>)
    BY <1>1, <2>1, <2>2, <2>3, Recorded, Zenon
  <2> QED
    BY <2>4, <2>5, Zenon
<1>3. CASE ins.op \in {"st", "stx"}
  <2>1. ins.w \in Widths /\ ins.off \in Int /\ ins.d \in 0 .. 10
    BY <1>3 DEF Decoded
  <2>2. Good(q.regs[ins.d]) /\ Bytes[ins.w] \in Int
    BY <2>1, WidthFacts DEF Typed, GoodRegs
  <2>3. Claims(q, r, TrueSpan(q.regs[ins.d], ins.off, Bytes[ins.w]), TRUE)
    BY <1>3 DEF Effect
  <2>4. Accesses(ins, q) = <<[span |-> TrueSpan(q.regs[ins.d], ins.off, Bytes[ins.w]), w |-> TRUE]>>
    BY <1>3, Zenon DEF Accesses
  <2>5. Matched(r.rr, sn \o <<[span |-> TrueSpan(q.regs[ins.d], ins.off, Bytes[ins.w]), w |-> TRUE]>>)
    BY <1>1, <2>1, <2>2, <2>3, Recorded, Zenon
  <2> QED
    BY <2>4, <2>5, Zenon
<1>4. CASE ins.op \notin {"ldx", "st", "stx"}
  <2>1. r.rr = q.rr
    BY <1>4 DEF Effect
  <2>2. Accesses(ins, q) = <<>>
    BY <1>4, Zenon DEF Accesses
  <2>3. sn \o <<>> = sn
    <3>1. sn \in Seq(Range(sn))
      BY DEF IsList
    <3> QED
      BY <3>1, ConcatEmptySeq
  <2> QED
    BY <1>1, <2>1, <2>2, <2>3
<1> QED
  BY <1>2, <1>3, <1>4

-----------------------------------------------------------------------------
(* The walk.                                                                   *)

Live == status \in {"walking", "walked", "accepted", "emitted"}
\* The pc that the walk is at; none past the end of a trace.
Upcoming ==
  IF job.traced THEN IF cur <= Len(job.trace) THEN job.trace[cur] ELSE End ELSE pc
Rendered == \A p \in Range(block) : CodeMapError(job.code[p + 1], job.v3) = "none"

Pcs(b) == IsList(b) /\ \A i \in 1 .. Len(b) : b[i] \in Nat
Shapes ==
  /\ job \in Jobs /\ Typed(s) /\ GoodSplits(splits)
  /\ Pcs(block) /\ IsList(calls) /\ IsList(seen)
  /\ pc \in Nat /\ cur \in Nat \ {0}
OnPath == Live => PathOf(TraceRuns, job.code, block, Upcoming, s.stack) /\ Base(s)
Claimed == Live /\ NoSyscalls => Asks(s) \/ Matched(s.rr, seen)
AllAnswered == Live /\ Rendered => Answered(job.code, block, calls)
Settled ==
  /\ Accepted => ~Asks(s)
  /\ status = "emitted" => CodeReqError = {} /\ SatWitness(s)
IInv == Shapes /\ OnPath /\ Claimed /\ AllAnswered /\ Settled

\* The job is one the decoder and the tracer deliver.
LEMMA JobFacts ==
  ASSUME job \in Jobs
  PROVE  /\ Len(job.code) \in Nat /\ \A i \in 1 .. Len(job.code) : Decoded(job.code[i])
         /\ job.trace \in Seq(Nat) /\ Len(job.trace) \in Nat /\ \A i \in 1 .. Len(job.trace) : job.trace[i] \in Nat
         /\ job.entry \in Nat /\ job.arm \in Int /\ job.arm >= -1
         /\ job.traced \in BOOLEAN /\ job.v3 \in BOOLEAN
<1>1. IsList(job.code) /\ \A i \in DOMAIN job.code : Decoded(job.code[i])
  BY JobAssumption DEF IsList
<1>2. Len(job.code) \in Nat /\ DOMAIN job.code = 1 .. Len(job.code)
  BY <1>1, ListFacts
<1>3. job.trace \in Seq(Nat)
  BY JobAssumption
<1>4. Len(job.trace) \in Nat /\ \A i \in 1 .. Len(job.trace) : job.trace[i] \in Nat
  BY <1>3
<1> QED
  BY <1>1, <1>2, <1>3, <1>4, JobAssumption

\* A job keeps its trace.
LEMMA SameTrace == ASSUME job' = job PROVE TraceRuns' = TraceRuns
BY DEF TraceRuns

\* The instruction that the walk is at.
LEMMA HereFacts ==
  ASSUME Shapes, Running
  PROVE  /\ Here \in Nat /\ Upcoming = Here /\ Decoded(Ins) /\ Ins = job.code[Here + 1]
         /\ ~(Ins.op = "exit" /\ s.stack = <<>>) /\ (job.traced => cur <= Len(job.trace))
<1>1. InCode /\ ~(Ins.op = "exit" /\ s.stack = <<>>)
  BY DEF Running, Terminal
<1>2. /\ Len(job.code) \in Nat /\ (\A i \in 1 .. Len(job.code) : Decoded(job.code[i]))
      /\ Len(job.trace) \in Nat /\ (\A i \in 1 .. Len(job.trace) : job.trace[i] \in Nat)
  BY JobFacts DEF Shapes
<1>3. cur \in Nat \ {0} /\ pc \in Nat
  BY DEF Shapes
<1>4. job.traced => cur <= Len(job.trace)
  BY <1>1, <1>2, <1>3 DEF InCode, TraceOver
<1>5. Here \in Nat /\ Upcoming = Here
  BY <1>2, <1>3, <1>4 DEF Here, Upcoming
<1>6. Here + 1 \in 1 .. Len(job.code)
  BY <1>1, <1>2, <1>5 DEF InCode
<1>7. Decoded(Ins) /\ Ins = job.code[Here + 1]
  BY <1>2, <1>6 DEF Ins
<1> QED
  BY <1>1, <1>4, <1>5, <1>7

\* The pc after it, when the trace names it.
LEMMA NextFacts ==
  ASSUME Shapes, job.traced, job' = job, cur' = cur + 1
  PROVE  Upcoming' = Next1 /\ cur' \in Nat \ {0}
<1>1. Len(job.trace) \in Nat /\ cur \in Nat \ {0}
  BY JobFacts DEF Shapes
<1> QED
  BY <1>1 DEF Upcoming, Next1

\* A walked instruction joins the block.
LEMMA PcsGrow ==
  ASSUME NEW b, Pcs(b), NEW u \in Nat
  PROVE  Pcs(Append(b, u)) /\ Range(Append(b, u)) = Range(b) \cup {u}
<1> DEFINE c == Append(b, u)
<1>1. /\ IsList(c) /\ Len(b) \in Nat /\ Len(c) = Len(b) + 1 /\ DOMAIN b = 1 .. Len(b) /\ DOMAIN c = 1 .. Len(b) + 1
      /\ c[Len(b) + 1] = u /\ \A i \in 1 .. Len(b) : c[i] = b[i]
  BY AppendList DEF Pcs
<1> HIDE DEF c
<1>2. \A i \in 1 .. Len(c) : i \in 1 .. Len(b) \/ i = Len(b) + 1
  BY <1>1
<1>3. Pcs(c)
  BY <1>1, <1>2 DEF Pcs
<1>4. Range(c) \subseteq Range(b) \cup {u}
  BY <1>1, <1>2 DEF Range
<1>5. Range(b) \subseteq Range(c) /\ u \in Range(c)
  BY <1>1 DEF Range
<1> QED
  BY <1>3, <1>4, <1>5 DEF c

\* with_retry_plans
LEMMA Begin == ASSUME NEW hots, NEW plan, GoodSplits(plan) PROVE Typed(WithRetryPlans(hots, plan))
<1>1. IsList(<<>>) /\ Len(<<>>) = 0 /\ 1 .. 0 = {}
  BY NoList
<1> DEFINE g == [r \in 0 .. 10 |-> InitReg(r)]
<1>2. GoodRegs(g)
  BY DEF GoodRegs, Good, InitReg
<1> HIDE DEF g
<1>3. GoodCells(<<>>) /\ GoodAtoms(<<>>) /\ GoodFrames(<<>>) /\ GoodBlobs(<<>>) /\ GoodNewSplits(<<>>)
  BY <1>1 DEF GoodCells, GoodAtoms, GoodFrames, GoodBlobs, GoodNewSplits
<1> QED
  BY <1>1, <1>2, <1>3 DEF WithRetryPlans, Typed, SymFields, g

\* Nothing is walked yet.
LEMMA InitIInv == Init => IInv
<1> SUFFICES ASSUME Init PROVE IInv
  OBVIOUS
<1>1. GoodSplits({})
  BY DEF GoodSplits
<1>2. Typed(s)
  BY <1>1, Begin DEF Init
<1>3. Pcs(<<>>) /\ IsList(<<>>)
  BY NoList DEF Pcs
<1>4. Shapes
  BY <1>1, <1>2, <1>3 DEF Init, Shapes
<1> QED
  BY <1>4 DEF IInv, Init, OnPath, Claimed, AllAnswered, Settled, Live, Accepted

\* A diagnostic or another pass: nothing is promised of what was walked.
LEMMA Stopped ==
  ASSUME IInv, UNCHANGED <<job, s, block, calls, seen, pc, cur>>, GoodSplits(splits'), status' \in {"error", "begin"}
  PROVE  IInv'
<1>1. Shapes'
  BY DEF IInv, Shapes
<1> QED
  BY <1>1 DEF IInv, OnPath, Claimed, AllAnswered, Settled, Live, Accepted

\* Actions that only decide.
LEMMA DecisionsKeep ==
  ASSUME IInv, GiveUp \/ StepLimit \/ RefuseOverlap \/ RefuseCode \/ RefuseWitness
  PROVE  IInv'
<1>1. UNCHANGED <<job, s, block, calls, seen, pc, cur, splits>> /\ status' = "error"
  BY DEF GiveUp, StepLimit, RefuseOverlap, RefuseCode, RefuseWitness, Fail, plans, position, emitted, ghosts
<1>2. GoodSplits(splits')
  BY <1>1 DEF IInv, Shapes
<1> QED
  BY <1>1, <1>2, Stopped

\* merge_blob_splits
LEMMA RetryKeeps == ASSUME IInv, Retry PROVE IInv'
<1>1. UNCHANGED <<job, s, block, calls, seen, pc, cur>> /\ status' = "begin"
  BY DEF Retry, position, emitted, ghosts
<1>2. GoodSplits(splits) /\ GoodNewSplits(s.newSplits)
  BY DEF IInv, Shapes, Typed
<1>3. GoodSplits(MergeBlobSplits(splits, s.newSplits))
  BY <1>2 DEF MergeBlobSplits, GoodSplits, GoodNewSplits
<1>4. GoodSplits(splits')
  BY <1>2, <1>3 DEF Retry
<1> QED
  BY <1>1, <1>4, Stopped

\* A pass begins.
LEMMA BeginKeeps == ASSUME IInv, BeginPass PROVE IInv'
<1>1. Shapes
  BY DEF IInv
<1>2. /\ job.entry \in Nat /\ job.arm \in Int /\ job.arm >= -1 /\ job.trace \in Seq(Nat)
  BY <1>1, JobFacts DEF Shapes
<1>3. /\ job' = job /\ splits' = splits /\ s' = WithRetryPlans(hot, splits)
      /\ block' = <<>> /\ calls' = <<>> /\ seen' = <<>> /\ cur' = 1
  BY DEF BeginPass
<1>4. Typed(s') /\ s'.stack = <<>> /\ s'.rr = <<>> /\ s'.regs[10] = InitReg(10)
  <2>1. Typed(WithRetryPlans(hot, splits))
    BY <1>1, Begin DEF Shapes
  <2>2. /\ WithRetryPlans(hot, splits).stack = <<>> /\ WithRetryPlans(hot, splits).rr = <<>>
        /\ WithRetryPlans(hot, splits).regs[10] = InitReg(10)
    BY DEF WithRetryPlans
  <2> HIDE DEF WithRetryPlans
  <2> QED
    BY <1>3, <2>1, <2>2
<1>5. pc' \in Nat
  <2>1. CASE pc' = pc
    BY <1>1, <2>1 DEF Shapes
  <2>2. CASE pc' = job.trace[1] /\ job.trace # <<>>
    <3>1. 1 \in 1 .. Len(job.trace)
      BY <1>2, <2>2, EmptySeq
    <3> QED
      BY <1>2, <2>2, <3>1
  <2>3. CASE pc' = (IF job.arm # NoArm THEN job.arm ELSE job.entry)
    BY <1>2, <2>3 DEF NoArm
  <2> QED
    BY <2>1, <2>2, <2>3 DEF BeginPass
<1>6. status' \in {"error", "walking"}
  BY DEF BeginPass, Fail
<1>7. Pcs(<<>>) /\ IsList(<<>>) /\ Len(<<>>) = 0 /\ 1 .. 0 = {}
  BY NoList DEF Pcs
<1>8. Shapes'
  BY <1>1, <1>3, <1>4, <1>5, <1>7 DEF Shapes
<1>9. OnPath'
  <2>1. PathOf(TraceRuns', job'.code, <<>>, Upcoming', <<>>)
    BY PathBegins
  <2>2. Base(s')
    BY <1>4 DEF Base
  <2> QED
    BY <1>3, <1>4, <2>1, <2>2 DEF OnPath
<1>10. Claimed'
  BY <1>3, <1>4, <1>7 DEF Claimed, Matched
<1>11. AllAnswered'
  <2>1. \A code : Specified(code, <<>>, 0) = {}
    BY <1>7 DEF Specified
  <2>2. \A code : Count(code, <<>>, 0) = 0
    BY <2>1, FS_EmptySet DEF Count
  <2>3. \A code : Answered(code, <<>>, <<>>)
    BY <1>7, <2>2 DEF Answered
  <2> QED
    BY <1>3, <2>3 DEF AllAnswered
<1>12. Settled'
  BY <1>6 DEF Settled, Accepted
<1> QED
  BY <1>8, <1>9, <1>10, <1>11, <1>12 DEF IInv

\* What was walked is carried on.
LEMMA Carried ==
  ASSUME IInv, Live, UNCHANGED <<job, splits, s, block, calls, seen, cur>>, pc' \in Nat, Upcoming' = Upcoming, Settled'
  PROVE  IInv'
<1>1. Shapes'
  BY DEF IInv, Shapes
<1>2. OnPath'
  BY SameTrace DEF IInv, OnPath
<1>3. Claimed'
  <2>1. NoSyscalls' = NoSyscalls
    BY DEF NoSyscalls
  <2> QED
    BY <2>1 DEF IInv, Claimed
<1>4. AllAnswered'
  <2>1. Rendered' = Rendered
    BY DEF Rendered
  <2> QED
    BY <2>1 DEF IInv, AllAnswered
<1> QED
  BY <1>1, <1>2, <1>3, <1>4 DEF IInv

\* The walk ends, at an exit or in a fault.
LEMMA EndKeeps == ASSUME IInv, EndWalk \/ FaultEnd PROVE IInv'
<1>1. UNCHANGED <<job, splits, s, block, calls, seen, cur>> /\ status' = "walked"
  BY DEF EndWalk, FaultEnd, plans, emitted, ghosts
<1>2. Live /\ Settled' /\ Shapes
  BY <1>1 DEF EndWalk, FaultEnd, Running, Walking, Live, Settled, Accepted, IInv
<1>3. pc' = pc \/ (job.traced /\ cur <= Len(job.trace) /\ pc' = job.trace[cur])
  <2>1. CASE EndWalk
    <3>1. Len(job.trace) \in Nat /\ cur \in Nat
      BY <1>2, JobFacts DEF Shapes
    <3> QED
      BY <2>1, <3>1 DEF EndWalk, Here, TraceOver
  <2>2. CASE FaultEnd
    <3>1. Running /\ pc' = Here
      BY <2>2 DEF FaultEnd
    <3> QED
      BY <1>2, <3>1, HereFacts DEF Here
  <2> QED
    BY <2>1, <2>2
<1>4. pc' \in Nat
  BY <1>2, <1>3, JobFacts DEF Shapes
<1>5. Upcoming' = Upcoming
  <2>1. job.traced \/ pc' = pc
    BY <1>3
  <2> QED
    BY <1>1, <2>1 DEF Upcoming
<1> QED
  BY <1>1, <1>2, <1>4, <1>5, Carried

\* An accepted walk, and the theorem emitted for it.
LEMMA AcceptKeeps == ASSUME IInv, Accept \/ Emit PROVE IInv'
<1>1. UNCHANGED <<job, splits, s, block, calls, seen, cur, pc>>
  BY DEF Accept, Emit, plans, position, emitted, ghosts
<1>2. Upcoming' = Upcoming /\ CodeReqError' = CodeReqError
  BY <1>1 DEF Upcoming, CodeReqError
<1>3. CASE Accept
  <2>1. status' = "accepted" /\ RetryPlan(s) = "Ready" /\ ~s.overlap /\ Live
    BY <1>3 DEF Accept, Live
  <2>2. s.newHot = <<>>
    BY <2>1 DEF RetryPlan
  <2>3. ~Asks(s)
    BY <2>1, <2>2 DEF Asks
  <2>4. Settled'
    BY <1>1, <2>1, <2>3 DEF Settled
  <2> QED
    BY <1>1, <1>2, <2>1, <2>4, Carried DEF IInv, Shapes
<1>4. CASE Emit
  <2>1. status = "accepted" /\ CodeReqError = {} /\ SatWitness(s) /\ Live
    BY <1>4 DEF Emit, Live
  <2>2. Settled'
    BY <1>1, <1>2, <2>1 DEF IInv, Settled, Accepted
  <2> QED
    BY <1>1, <1>2, <2>1, <2>2, Carried DEF IInv, Shapes
<1> QED
  BY <1>3, <1>4

\* Nothing changes.
LEMMA StutterKeeps == ASSUME IInv, UNCHANGED vars PROVE IInv'
<1>1. UNCHANGED <<job, splits, s, block, calls, seen, cur, pc, status>>
  BY DEF vars, plans, position, emitted, ghosts
<1>2. Upcoming' = Upcoming /\ CodeReqError' = CodeReqError
  BY <1>1 DEF Upcoming, CodeReqError
<1>3. Settled'
  BY <1>1, <1>2 DEF IInv, Settled, Accepted
<1>4. CASE Live
  BY <1>1, <1>2, <1>3, <1>4, Carried DEF IInv, Shapes
<1>5. CASE ~Live
  <2>1. Shapes'
    BY <1>1 DEF IInv, Shapes
  <2>2. ~Live'
    BY <1>1, <1>5 DEF Live
  <2> QED
    BY <1>3, <2>1, <2>2 DEF IInv, OnPath, Claimed, AllAnswered
<1> QED
  BY <1>4, <1>5

\* The instruction walked joins the block, whatever it is.
LEMMA BlockGrows ==
  ASSUME Shapes, Running, block' = Append(block, Here), job' = job
  PROVE  /\ Pcs(block')
         /\ NoSyscalls' => NoSyscalls /\ Ins.op \notin {"sys", "callx"}
         /\ Rendered' => Rendered /\ CodeMapError(Ins, job.v3) = "none"
<1>1. Here \in Nat /\ Ins = job.code[Here + 1]
  BY HereFacts
<1>2. Pcs(block)
  BY DEF Shapes
<1>3. Pcs(block') /\ Range(block') = Range(block) \cup {Here}
  BY <1>1, <1>2, PcsGrow
<1> HIDE DEF Here, Ins
<1>4. NoSyscalls' => NoSyscalls /\ Ins.op \notin {"sys", "callx"}
  BY <1>1, <1>3 DEF NoSyscalls
<1>5. Rendered' => Rendered /\ CodeMapError(Ins, job.v3) = "none"
  BY <1>1, <1>3 DEF Rendered
<1> QED
  BY <1>3, <1>4, <1>5

\* exit of a callee
LEMMA NestedExitKeeps == ASSUME IInv, NestedExit PROVE IInv'
<1> DEFINE back == Last(s.stack).pc + 1
           u == Here
<1>1. /\ Running /\ Ins.op = "exit" /\ block' = Append(block, Here)
      /\ calls' = Append(calls, [pc |-> Here, cites |-> {}]) /\ s' = PopFrame(s)
      /\ job' = job /\ splits' = splits /\ seen' = seen
      /\ \/ status' = "error" /\ cur' = cur /\ pc' = pc
         \/ /\ ~(job.traced /\ Next1 # back)
            /\ cur' = (IF job.traced THEN cur + 1 ELSE cur)
            /\ pc' = (IF job.traced THEN Here ELSE back)
            /\ status' = status
  BY DEF NestedExit, Fail, plans, ghosts
<1>2. Shapes /\ Here \in Nat /\ Upcoming = Here /\ Ins = job.code[Here + 1] /\ s.stack # <<>>
  BY <1>1, HereFacts DEF IInv
<1>3. Typed(s) /\ IsList(s.stack) /\ IsList(calls) /\ IsList(seen) /\ Pcs(block) /\ IsList(block)
  BY <1>2 DEF Shapes, Typed, GoodFrames, Pcs
<1>4. /\ Typed(s') /\ s'.rr = s.rr /\ (Asks(s) => Asks(s'))
      /\ s'.stack = Front(s.stack) /\ s'.regs[10] = Last(s.stack).saved[10]
  BY <1>1, <1>2, <1>3, Popped
<1>5. back \in Nat
  <2>1. s.stack \in Seq(Range(s.stack)) /\ Len(s.stack) \in Nat
    BY <1>3, ListFacts DEF IsList
  <2>2. Len(s.stack) # 0
    BY <1>2, <2>1, EmptySeq
  <2>3. Len(s.stack) \in 1 .. Len(s.stack)
    BY <2>1, <2>2
  <2> QED
    BY <1>3, <2>3 DEF Typed, GoodFrames, Last
<1>7. IsList(calls')
  BY <1>1, <1>3, AppendList
<1>8. /\ Pcs(block') /\ (NoSyscalls' => NoSyscalls) /\ (Rendered' => Rendered)
  BY <1>1, <1>2, BlockGrows
<1> HIDE DEF back
<1>9. cur' \in Nat \ {0} /\ pc' \in Nat
  BY <1>1, <1>2, <1>5 DEF Shapes
<1>10. Shapes'
  BY <1>1, <1>2, <1>3, <1>4, <1>7, <1>8, <1>9 DEF Shapes
<1>11. CASE status' = "error"
  BY <1>10, <1>11 DEF IInv, OnPath, Claimed, AllAnswered, Settled, Live, Accepted
<1>12. CASE status' # "error"
  <2>1. status = "walking" /\ status' = "walking" /\ Live
    BY <1>1, <1>12 DEF Running, Walking, Live
  <2>2. Upcoming' = back
    <3>1. CASE job.traced
      <4>1. Next1 = back /\ cur' = cur + 1
        BY <1>1, <1>12, <3>1
      <4> QED
        BY <1>1, <1>2, <3>1, <4>1, NextFacts
    <3>2. CASE ~job.traced
      BY <1>1, <1>12, <3>2 DEF Upcoming
    <3> QED
      BY <3>1, <3>2
  <2>3. PathOf(TraceRuns, job.code, block, u, s.stack) /\ Base(s)
    BY <1>2, <2>1 DEF IInv, OnPath
  <2>4. ASSUME NEW open, Frames(s.stack, open)
        PROVE  Legal(TraceRuns, open, job.code[u + 1], u, back) /\ Frames(s'.stack, OpenNow(open, job.code[u + 1], u, back))
    <3>1. open # <<>> /\ Last(open) = Last(s.stack).pc /\ Frames(Front(s.stack), Front(open))
      BY <1>2, <1>3, <2>4, FramePopped
    <3>2. OpenNow(open, job.code[u + 1], u, back) = Front(open)
      BY <1>1, <1>2 DEF OpenNow, Enters
    <3> QED
      BY <1>1, <1>2, <1>4, <3>1, <3>2 DEF Legal, Straight, back
  <2>5. PathOf(TraceRuns, job.code, Append(block, u), back, s'.stack)
    <3> HIDE DEF u
    <3> QED
      BY <1>3, <2>3, <2>4, PathGrows
  <2>6. Base(s')
    BY <1>2, <1>3, <1>4, <2>3, BasePopped
  <2>7. OnPath'
    BY <1>1, <2>2, <2>5, <2>6, SameTrace DEF OnPath
  <2>8. Claimed'
    BY <1>1, <1>4, <1>8, <2>1 DEF IInv, Claimed
  <2>9. AllAnswered'
    <3>1. Rendered' => Answered(job.code, block, calls)
      BY <1>8, <2>1 DEF IInv, AllAnswered
    <3>2. calls' = IF job.code[Here + 1].op # "sub" THEN Append(calls, [pc |-> Here, cites |-> {}]) ELSE calls
      BY <1>1, <1>2
    <3>3. Answered(job.code, block, calls) => Answered(job.code, Append(block, Here), calls')
      <4> DEFINE x == [pc |-> Here, cites |-> {}]
      <4>1. x.pc = Here
        OBVIOUS
      <4> HIDE DEF x
      <4>2. calls' = IF job.code[Here + 1].op # "sub" THEN Append(calls, x) ELSE calls
        BY <3>2 DEF x
      <4> QED
        BY <1>3, <4>1, <4>2, CallsGrow, Zenon
    <3> QED
      BY <1>1, <3>1, <3>3 DEF AllAnswered
  <2>10. Settled'
    BY <2>1 DEF Settled, Accepted
  <2> QED
    BY <1>10, <2>7, <2>8, <2>9, <2>10 DEF IInv
<1> QED
  BY <1>11, <1>12

\* A traced syscall.
LEMMA SyscallKeeps == ASSUME IInv, Syscall PROVE IInv'
<1> DEFINE r == DispatchSyscall(s, Here, Ins.name)
           u == Here
<1>1. /\ Running /\ IsTracedSyscall /\ s' = r.s /\ pc' = Here
      /\ job' = job /\ splits' = splits /\ seen' = seen
      /\ \/ status' = "error" /\ UNCHANGED <<cur, block, calls>>
         \/ /\ block' = Append(block, Here) /\ calls' = Append(calls, [pc |-> Here, cites |-> {}])
            /\ cur' = cur + 1 /\ status' = status
  BY DEF Syscall, AfterSyscall, Fail, plans
<1>2. Shapes /\ Here \in Nat /\ Upcoming = Here /\ Ins = job.code[Here + 1]
  BY <1>1, HereFacts DEF IInv
<1>3. Typed(s) /\ IsList(calls) /\ IsList(seen) /\ Pcs(block) /\ IsList(block)
  BY <1>2 DEF Shapes, Pcs
<1>4. Typed(s') /\ s'.stack = s.stack /\ (Asks(s) => Asks(s')) /\ s'.regs[10] = s.regs[10]
  BY <1>1, <1>3, Dispatched DEF Returned
<1> HIDE DEF r
<1>5. job.traced /\ Ins.op = "sys" /\ Next1 = Here + 1
  BY <1>1 DEF IsTracedSyscall
<1>6. cur' \in Nat \ {0} /\ pc' \in Nat
  BY <1>1, <1>2 DEF Shapes
<1>7. Pcs(block') /\ IsList(calls')
  <2>1. Pcs(Append(block, u))
    BY <1>2, <1>3, PcsGrow
  <2>2. IsList(Append(calls, [pc |-> u, cites |-> {}]))
    BY <1>3, AppendList, Zenon
  <2> QED
    BY <1>1, <1>3, <2>1, <2>2, Zenon
<1>8. Shapes'
  BY <1>1, <1>2, <1>4, <1>6, <1>7 DEF Shapes
<1>9. CASE status' = "error"
  BY <1>8, <1>9 DEF IInv, OnPath, Claimed, AllAnswered, Settled, Live, Accepted
<1>10. CASE status' # "error"
  <2>1. status = "walking" /\ status' = "walking" /\ Live
    BY <1>1, <1>10 DEF Running, Walking, Live
  <2>2. Upcoming' = Here + 1
    BY <1>1, <1>2, <1>5, <1>10, NextFacts
  <2>3. PathOf(TraceRuns, job.code, block, u, s.stack) /\ Base(s)
    BY <1>2, <2>1 DEF IInv, OnPath
  <2>4. ASSUME NEW open, Frames(s.stack, open)
        PROVE  Legal(TraceRuns, open, job.code[u + 1], u, u + 1) /\ Frames(s'.stack, OpenNow(open, job.code[u + 1], u, u + 1))
    <3>1. OpenNow(open, job.code[u + 1], u, u + 1) = open
      BY <1>2, <1>5 DEF OpenNow, Enters
    <3> QED
      BY <1>2, <1>4, <1>5, <2>4, <3>1 DEF Legal, Straight
  <2>5. PathOf(TraceRuns, job.code, Append(block, u), u + 1, s'.stack)
    <3> HIDE DEF u
    <3> QED
      BY <1>3, <2>3, <2>4, PathGrows
  <2>6. Base(s')
    BY <1>4, <2>3 DEF Base
  <2>7. OnPath'
    BY <1>1, <1>10, <2>2, <2>5, <2>6, SameTrace DEF OnPath
  <2>8. (NoSyscalls' => Ins.op \notin {"sys", "callx"}) /\ (Rendered' => Rendered)
    BY <1>1, <1>2, <1>10, BlockGrows
  <2>9. Claimed'
    BY <1>5, <2>8 DEF Claimed
  <2>10. AllAnswered'
    <3>1. Rendered' => Answered(job.code, block, calls)
      BY <2>1, <2>8 DEF IInv, AllAnswered
    <3>2. Answered(job.code, block, calls) => Answered(job.code, Append(block, Here), calls')
      <4> DEFINE x == [pc |-> Here, cites |-> {}]
      <4>1. x.pc = Here
        OBVIOUS
      <4>2. calls' = IF job.code[Here + 1].op # "sub" THEN Append(calls, x) ELSE calls
        BY <1>1, <1>2, <1>5, <1>10
      <4> HIDE DEF x
      <4> QED
        BY <1>3, <4>1, <4>2, CallsGrow, Zenon
    <3> QED
      BY <1>1, <1>10, <3>1, <3>2 DEF AllAnswered
  <2>11. Settled'
    BY <2>1 DEF Settled, Accepted
  <2> QED
    BY <1>8, <2>7, <2>9, <2>10, <2>11 DEF IInv
<1> QED
  BY <1>9, <1>10

\* What the walk hands to spec_call_for.
LEMMA PreparedFacts ==
  ASSUME Typed(s)
  PROVE  Typed(Prepared) /\ Grown(s, Prepared) /\ (Ins.op # "callx" => Prepared = s)
<1>1. ASSUME NEW sp PROVE Typed(PushClause(s, sp, FALSE)) /\ Grown(s, PushClause(s, sp, FALSE))
  BY ClausePushed
<1>2. Grown(s, s)
  BY DEF Grown
<1> DEFINE sp == [root |-> <<"callx">>, lo |-> CallxAddr, hi |-> CallxAddr + 1]
<1>3. Prepared = IF job.v3 /\ Ins.op = "callx" THEN PushClause(s, sp, FALSE) ELSE s
  BY DEF Prepared
<1> HIDE DEF sp, Prepared, PushClause
<1> QED
  BY <1>1, <1>2, <1>3

\* Where a static walk goes, and a traced one.
LEMMA Destinations ==
  ASSUME Shapes, Running, Ins.op # "exit", ~IsTracedSyscall, ~Faults, NEW r, StepError(CallxError, r) = "none",
         job' = job, cur' = (IF job.traced THEN cur + 1 ELSE cur),
         pc' = (IF job.traced THEN Here ELSE StaticNext(Taken))
  PROVE  /\ pc' \in Nat /\ cur' \in Nat \ {0} /\ r.err = "none"
         /\ Ins.op = "jcc" => Upcoming' \in {Ins.t, Here + 1, End}
         /\ Ins.op = "sys" => Upcoming' # Here + 1
         /\ TraceRuns /\ Ins.op \in Straight => Upcoming' \in {Here + 1, End}
         /\ TraceRuns /\ Ins.op \in {"ja", "call"} => Upcoming' \in {Ins.t, End}
<1>1. /\ Here \in Nat /\ Decoded(Ins)
  BY HereFacts
<1>2. /\ CallxError = "none" /\ ~(job.traced /\ Ins.op = "jcc" /\ TraceMismatch(Next1, Ins, Here))
      /\ r.err = "none" /\ StaticError = "none"
  BY DEF StepError
<1>3. cur' \in Nat \ {0}
  BY DEF Shapes
<1>4. CASE job.traced
  <2>1. Upcoming' = Next1
    BY <1>4, NextFacts
  <2>2. Ins.op = "jcc" => Next1 \in {Ins.t, Here + 1, End}
    BY <1>2, <1>4 DEF TraceMismatch, TraceTaken
  <2>3. Ins.op = "sys" => Next1 # Here + 1
    BY <1>4 DEF IsTracedSyscall
  <2>4. /\ TraceRuns /\ Ins.op \in Straight => Next1 \in {Here + 1, End}
        /\ TraceRuns /\ Ins.op \in {"ja", "call"} => Next1 \in {Ins.t, End}
    <3>1. CASE cur < Len(job.trace)
      <4>1. cur \in Nat \ {0} /\ Len(job.trace) \in Nat
        BY JobFacts DEF Shapes
      <4>2. cur \in 1 .. Len(job.trace) - 1
        BY <3>1, <4>1
      <4>3. job.trace[cur] = Here /\ Next1 = job.trace[cur + 1]
        BY <1>4, <3>1 DEF Here, Next1
      <4>4. Here < Len(job.code) /\ Ins = job.code[Here + 1]
        BY HereFacts DEF Running, Terminal, InCode
      <4> QED
        BY <1>4, <4>2, <4>3, <4>4 DEF TraceRuns
    <3>2. CASE ~(cur < Len(job.trace))
      BY <3>2 DEF Next1
    <3> QED
      BY <3>1, <3>2
  <2> QED
    BY <1>1, <1>2, <1>3, <1>4, <2>1, <2>2, <2>3, <2>4
<1>5. CASE ~job.traced
  <2>1. Upcoming' = StaticNext(Taken) /\ pc' = StaticNext(Taken)
    BY <1>5 DEF Upcoming
  <2>2. Ins.op # "sys"
    <3>1. ASSUME NEW name PROVE CallImmError(name) # "none"
      BY DEF CallImmError
    <3>2. Ins.op = "sys" =>
            StaticError = IF job.v3 /\ Ins.name \notin KnownSyscalls THEN "SyscallUnmodeled" ELSE CallImmError(Ins.name)
      BY <1>5, Zenon DEF StaticError
    <3> QED
      BY <1>2, <3>1, <3>2
  <2>3. StaticNext(Taken) \in {Ins.t, CallxAddr, Here + 1}
    BY Zenon DEF StaticNext
  <2>4. Ins.op = "jcc" => StaticNext(Taken) \in {Ins.t, Here + 1}
    BY Zenon DEF StaticNext
  <2>5. StaticNext(Taken) \in Nat
    <3>1. CASE Ins.op \in {"ja", "jcc", "call"}
      <4>1. Ins.t \in Nat
        BY <1>1, <3>1 DEF Decoded
      <4>2. StaticNext(Taken) \in {Ins.t, Here + 1}
        BY <3>1, Zenon DEF StaticNext
      <4> QED
        BY <1>1, <4>1, <4>2
    <3>2. CASE Ins.op = "callx" /\ job.v3
      <4>1. StaticNext(Taken) = CallxAddr
        BY <3>2, Zenon DEF StaticNext
      <4>2. CallxAddr \in 0 .. Len(job.code) - 1
        BY <1>2, <3>2 DEF CallxError
      <4>3. Len(job.code) \in Nat
        BY JobFacts DEF Shapes
      <4> QED
        BY <4>1, <4>2, <4>3
    <3>3. CASE Ins.op \notin {"ja", "jcc", "call"} /\ ~(Ins.op = "callx" /\ job.v3)
      <4>1. StaticNext(Taken) = Here + 1
        BY <3>3, Zenon DEF StaticNext
      <4> QED
        BY <1>1, <4>1
    <3> QED
      BY <3>1, <3>2, <3>3
  <2>6. Ins.op \in Straight => StaticNext(Taken) = Here + 1
    BY Zenon DEF StaticNext, Straight
  <2>7. Ins.op \in {"ja", "call"} => StaticNext(Taken) = Ins.t
    BY Zenon DEF StaticNext
  <2> QED
    BY <1>2, <1>3, <2>1, <2>2, <2>4, <2>5, <2>6, <2>7
<1> QED
  BY <1>4, <1>5, JobFacts DEF Shapes

\* Any other instruction.
LEMMA ExecuteKeeps == ASSUME IInv, Execute PROVE IInv'
<1> DEFINE spec == SpecCallFor(Prepared, Ins, Here, job.v3)
           r == Step(spec.s, Ins, Here, Taken)
           u == Here
           ds == IF spec.some THEN Append(calls, [pc |-> u, cites |-> spec.cites]) ELSE calls
<1>1. /\ Running /\ Ins.op # "exit" /\ ~Faults /\ ~IsTracedSyscall /\ block' = Append(block, Here)
      /\ job' = job /\ splits' = splits
      /\ AfterStep(spec, r, StepError(CallxError, r))
  BY DEF Execute, WithSpec, Stepped, plans
<1> HIDE DEF spec, r
<1>2. Shapes /\ Here \in Nat /\ Upcoming = Here /\ Ins = job.code[Here + 1] /\ Decoded(Ins)
  BY <1>1, HereFacts DEF IInv
<1>3. Typed(s) /\ IsList(calls) /\ IsList(seen) /\ Pcs(block) /\ IsList(block) /\ job.v3 \in BOOLEAN
  BY <1>2, JobFacts DEF Shapes, Pcs
<1>4. Pcs(block') /\ (NoSyscalls' => NoSyscalls /\ Ins.op \notin {"sys", "callx"})
      /\ (Rendered' => Rendered /\ CodeMapError(Ins, job.v3) = "none")
  BY <1>1, <1>2, BlockGrows
<1>5. CASE StepError(CallxError, r) # "none"
  <2>1. status' = "error" /\ pc' = Here /\ UNCHANGED <<s, cur, calls, seen>>
    BY <1>1, <1>5 DEF AfterStep, Fail
  <2>2. Shapes'
    BY <1>1, <1>2, <1>3, <1>4, <2>1 DEF Shapes
  <2> QED
    BY <2>1, <2>2 DEF IInv, OnPath, Claimed, AllAnswered, Settled, Live, Accepted
<1>6. CASE StepError(CallxError, r) = "none"
  <2>1. Continue(spec, r)
    BY <1>1, <1>6 DEF AfterStep
  <2>2. /\ s' = TakeAliases(r.s, Here) /\ calls' = ds
        /\ cur' = (IF job.traced THEN cur + 1 ELSE cur)
        /\ pc' = (IF job.traced THEN Here ELSE StaticNext(Taken))
        /\ seen' = seen \o Accesses(Ins, s) /\ status' = status
    BY <2>1 DEF Continue
  <2>3. /\ pc' \in Nat /\ cur' \in Nat \ {0} /\ r.err = "none"
        /\ Ins.op = "jcc" => Upcoming' \in {Ins.t, Here + 1, End}
        /\ Ins.op = "sys" => Upcoming' # Here + 1
        /\ TraceRuns /\ Ins.op \in Straight => Upcoming' \in {Here + 1, End}
        /\ TraceRuns /\ Ins.op \in {"ja", "call"} => Upcoming' \in {Ins.t, End}
    BY <1>1, <1>2, <1>6, <2>2, Destinations
  <2>4. Effect(s, Ins, Here, s') /\ (CodeMapError(Ins, job.v3) = "none" => spec.some = (Ins.op # "sub"))
    <3> DEFINE prep == Prepared
               ins == Ins
               tk == Taken
    <3>1. Typed(prep) /\ Grown(s, prep) /\ (ins.op # "callx" => prep = s)
      BY <1>3, PreparedFacts
    <3>2. spec = SpecCallFor(prep, ins, u, job.v3) /\ r = Step(spec.s, ins, u, tk) /\ Decoded(ins) /\ u \in Nat
      BY <1>2 DEF spec, r
    <3> HIDE DEF prep, ins, tk, u
    <3>3. Quiet(prep, spec.s) /\ (CodeMapError(ins, job.v3) = "none" => spec.some = (ins.op # "sub"))
      BY <1>3, <3>1, <3>2, SpecCall, Zenon
    <3>4. Typed(spec.s)
      BY <3>3 DEF Quiet
    <3>5. StepDoes(spec.s, ins, u, r.s)
      BY <2>3, <3>2, <3>4, StepEffect, Zenon
    <3>6. Typed(r.s)
      BY <3>5 DEF StepDoes, Access, Pushed, Plain
    <3>7. Quiet(r.s, TakeAliases(r.s, u))
      BY <3>6, AliasesQuiet
    <3>8. ins.op # "callx" => prep.rr = s.rr
      BY <3>1
    <3>9. Effect(s, ins, u, TakeAliases(r.s, u))
      BY <1>3, <3>1, <3>2, <3>3, <3>5, <3>7, <3>8, Performed, Zenon
    <3> QED
      BY <2>2, <3>3, <3>9, Zenon DEF ins, u
  <2>5. status = "walking" /\ status' = "walking" /\ Live
    BY <1>1, <2>2 DEF Running, Walking, Live
  <2>6. OnPath'
    <3>1. PathOf(TraceRuns, job.code, block, u, s.stack) /\ Base(s)
      BY <1>2, <2>5 DEF IInv, OnPath
    <3> DEFINE v == Upcoming'
    <3>2. /\ Effect(s, job.code[u + 1], u, s') /\ job.code[u + 1].op # "exit" /\ u \in Nat
          /\ (job.code[u + 1].op = "jcc" => v \in {job.code[u + 1].t, u + 1, End})
          /\ (job.code[u + 1].op = "sys" => v # u + 1)
          /\ (TraceRuns /\ job.code[u + 1].op \in Straight => v \in {u + 1, End})
          /\ (TraceRuns /\ job.code[u + 1].op \in {"ja", "call"} => v \in {job.code[u + 1].t, End})
      BY <1>1, <1>2, <2>3, <2>4, Zenon
    <3> HIDE DEF u, v
    <3>3. PathOf(TraceRuns, job.code, Append(block, u), v, s'.stack) /\ Base(s')
      BY <1>3, <3>1, <3>2, ExecutedPath, Zenon
    <3> QED
      BY <1>1, <3>3, SameTrace DEF OnPath, u, v
  <2>7. IsList(seen')
    <3>1. Accesses(Ins, s) = <<>> \/ \E a : Accesses(Ins, s) = <<a>>
      BY Zenon DEF Accesses
    <3>2. \A T : <<>> \in Seq(T) /\ \A a \in T : <<a>> \in Seq(T)
      OBVIOUS
    <3>3. \E T : Accesses(Ins, s) \in Seq(T)
      <4>1. \A a : a \in {a}
        OBVIOUS
      <4> QED
        BY <3>1, <3>2, <4>1, Zenon
    <3>4. PICK T : Accesses(Ins, s) \in Seq(T)
      BY <3>3
    <3> DEFINE U == T \cup Range(seen)
               a == Accesses(Ins, s)
    <3>5. seen \in Seq(Range(seen))
      BY <1>3 DEF IsList
    <3>6. seen \in Seq(U) /\ a \in Seq(U)
      BY <3>4, <3>5
    <3> HIDE DEF U, a
    <3>7. seen \o a \in Seq(U)
      BY <3>6
    <3> QED
      BY <2>2, <3>7, ListOf DEF a
  <2>8. IsList(calls')
    <3>1. IsList(Append(calls, [pc |-> u, cites |-> spec.cites]))
      BY <1>3, AppendList, Zenon
    <3> QED
      BY <1>3, <2>2, <3>1, Zenon
  <2>9. Shapes'
    BY <1>1, <1>2, <1>4, <2>3, <2>4, <2>7, <2>8 DEF Shapes, Effect
  <2>10. Claimed'
    <3>1. NoSyscalls' => (Asks(s) \/ Matched(s.rr, seen)) /\ Ins.op \notin {"sys", "callx"}
      BY <1>4, <2>5 DEF IInv, Claimed
    <3>2. NoSyscalls' => Asks(s') \/ Matched(s'.rr, seen \o Accesses(Ins, s))
      BY <1>2, <1>3, <2>4, <3>1, ExecutedClauses, Zenon
    <3> QED
      BY <2>2, <3>2 DEF Claimed
  <2>11. AllAnswered'
    <3>1. Rendered' => Answered(job.code, block, calls) /\ spec.some = (job.code[u + 1].op # "sub")
      BY <1>2, <1>4, <2>4, <2>5 DEF IInv, AllAnswered
    <3>2. ASSUME Answered(job.code, block, calls), spec.some = (job.code[u + 1].op # "sub")
          PROVE  Answered(job.code, Append(block, u), calls')
      <4> DEFINE x == [pc |-> u, cites |-> spec.cites]
      <4>1. x.pc = u
        OBVIOUS
      <4>2. calls' = IF job.code[u + 1].op # "sub" THEN Append(calls, x) ELSE calls
        BY <2>2, <3>2, Zenon
      <4> HIDE DEF x, u
      <4> QED
        BY <1>3, <3>2, <4>1, <4>2, CallsGrow, Zenon
    <3> QED
      BY <1>1, <3>1, <3>2 DEF AllAnswered
  <2>12. Settled'
    BY <2>5 DEF Settled, Accepted
  <2> QED
    BY <2>6, <2>9, <2>10, <2>11, <2>12 DEF IInv
<1> QED
  BY <1>5, <1>6

\* Every step keeps the invariant.
LEMMA StepIInv == IInv /\ [Next]_vars => IInv'
<1> SUFFICES ASSUME IInv, [Next]_vars PROVE IInv'
  OBVIOUS
<1>1. CASE UNCHANGED vars
  BY <1>1, StutterKeeps
<1>2. CASE GiveUp \/ StepLimit \/ RefuseOverlap \/ RefuseCode \/ RefuseWitness
  BY <1>2, DecisionsKeep
<1>3. CASE BeginPass
  BY <1>3, BeginKeeps
<1>4. CASE EndWalk \/ FaultEnd
  BY <1>4, EndKeeps
<1>5. CASE NestedExit
  BY <1>5, NestedExitKeeps
<1>6. CASE Syscall
  BY <1>6, SyscallKeeps
<1>7. CASE Execute
  BY <1>7, ExecuteKeeps
<1>8. CASE Retry
  BY <1>8, RetryKeeps
<1>9. CASE Accept \/ Emit
  BY <1>9, AcceptKeeps
<1> QED
  BY <1>1, <1>2, <1>3, <1>4, <1>5, <1>6, <1>7, <1>8, <1>9 DEF Next, Finished

\* The invariant of the walk.
THEOREM WalkInvariant == Spec => []IInv
BY InitIInv, StepIInv, PTL DEF Spec

-----------------------------------------------------------------------------
(* What an accepted walk and an emitted theorem are.                           *)

\* No emitted theorem has a precondition whose atoms share a byte (build_sat_witness,
\* soundness audit H8): for any program and any trace, an emitted lift is not vacuous
\* for that reason.
THEOREM LiftNotVacuous == Spec => []NoVacuousLift
<1>1. IInv => NoVacuousLift
  <2> SUFFICES ASSUME IInv, status = "emitted" PROVE
        \A i, j \in 1 .. Len(s.pre) :
          i < j /\ s.pre[i].span # ReturnDataSpan /\ s.pre[j].span # ReturnDataSpan
            => ~ShareAByte(FullSpan(s.pre[i].span), FullSpan(s.pre[j].span))
    BY DEF NoVacuousLift
  <2>1. GoodAtoms(s.pre) /\ SatWitness(s)
    BY DEF IInv, Shapes, Settled, Typed
  <2> QED
    BY <2>1, WitnessSeparates
<1> QED
  BY <1>1, WalkInvariant, PTL

\* The region requirement of an accepted walk without syscalls has one clause for each
\* access, in order, with its address, size and right (RegionWalk.push in read_mem and
\* write_mem), however the walk was retried.  Only the clause of a byte access may be at
\* another address, at most seven bytes lower: that of a byte cell whose delta the clause
\* drops (state.rs:648 and 747).
THEOREM AccessesHaveClauses == Spec => []EveryAccessHasItsClause
<1>1. IInv => EveryAccessHasItsClause
  <2> SUFFICES ASSUME IInv, Accepted, NoSyscalls PROVE
        /\ Len(s.rr) = Len(seen)
        /\ \A i \in 1 .. Len(seen) : s.rr[i].w = seen[i].w /\ IsClauseFor(FullSpan(s.rr[i].span), seen[i].span)
    BY DEF EveryAccessHasItsClause
  <2>1. Live
    BY DEF Accepted, Live
  <2>2. Matched(s.rr, seen)
    BY <2>1 DEF IInv, Claimed, Settled
  <2> QED
    BY <2>2 DEF Matched, SameAccess
<1> QED
  BY <1>1, WalkInvariant, PTL

\* The specification calls of an emitted theorem are those of the walked instructions, in
\* order (walk_and_exec and spec_call_for): none is missing but those of sub64 imm, and
\* none is left over from another instruction.
THEOREM CallsFollow == Spec => []CallsFollowBlock
<1>1. IInv => CallsFollowBlock
  <2> SUFFICES ASSUME IInv, status = "emitted" PROVE
        /\ Len(calls) = CallsUpTo(Len(block))
        /\ \A i \in 1 .. Len(block) : At(i).op # "sub" => calls[CallsUpTo(i)].pc = block[i]
    BY DEF CallsFollowBlock
  <2>1. Live /\ CodeReqError = {}
    BY DEF Live, IInv, Settled
  <2>2. Rendered
    BY <2>1 DEF Rendered, CodeReqError
  <2>3. Answered(job.code, block, calls)
    BY <2>1, <2>2 DEF IInv, AllAnswered
  <2>4. \A i : CallsUpTo(i) = Count(job.code, block, i)
    BY DEF CallsUpTo, Count, Specified, At
  <2> QED
    BY <2>3, <2>4 DEF Answered, At
<1> QED
  BY <1>1, WalkInvariant, PTL

\* The instruction walked last is the one at the end of the block.
LEMMA LastWalked ==
  ASSUME Shapes, Running, job' = job, block' = Append(block, Here)
  PROVE  At(Len(block))' = Ins
<1> DEFINE u == Here
           c == Append(block, u)
<1>1. IsList(block) /\ Ins = job.code[u + 1]
  BY HereFacts DEF Shapes, Pcs
<1> HIDE DEF u
<1>2. c[Len(c)] = u
  BY <1>1, AppendList
<1>3. At(Len(block))' = job.code[c[Len(c)] + 1]
  BY DEF At, u
<1> QED
  BY <1>1, <1>2, <1>3

\* A call leaves the address it was made through where HeldBefore looks.
LEMMA HeldByCall ==
  ASSUME NEW q, Typed(q), NEW p \in Nat, NEW d \in 0 .. 10, NEW r, r = TakeAliases(CallStep(q, p), p)
  PROVE  HeldBefore(r, d) = q.regs[d]
<1> DEFINE f == [pc |-> p, saved |-> [x \in 6 .. 10 |-> q.regs[x]]]
           x == Layer(q.regs[10], "nat", 4096)
           g == [q.regs EXCEPT ![10] = x]
           k == Append(q.stack, f)
<1>1. CallStep(q, p) = [q EXCEPT !.stack = k, !.regs = g]
  BY DEF CallStep, Typed, SymFields
<1> HIDE DEF k, g
<1>2. CallStep(q, p).stack = k /\ CallStep(q, p).regs = g
  BY <1>1 DEF Typed, SymFields
<1>3. Typed(CallStep(q, p))
  BY Called DEF Pushed
<1> HIDE DEF CallStep
<1>4. r.stack = k /\ r.regs = g
  BY <1>2, <1>3 DEF TakeAliases, Typed, SymFields
<1>5. IsList(q.stack) /\ DOMAIN q.regs = 0 .. 10
  BY DEF Typed, GoodFrames, GoodRegs
<1>6. Last(k) = f
  <2> HIDE DEF f
  <2>1. Len(k) = Len(q.stack) + 1 /\ k[Len(q.stack) + 1] = f
    BY <1>5, AppendList DEF k
  <2> QED
    BY <2>1 DEF Last
<1>7. CASE d \in 6 .. 10
  BY <1>4, <1>6, <1>7 DEF HeldBefore
<1>8. CASE d \notin 6 .. 10
  BY <1>4, <1>5, <1>8 DEF g, HeldBefore
<1> QED
  BY <1>7, <1>8

\* A callx goes where its register says, in a static walk and in a traced one.
LEMMA CallxKeeps ==
  ASSUME IInv, Execute, status' = "walking", job.v3, Ins.op = "callx"
  PROVE  ~TraceOver' /\ Here' = Address(HeldBefore(s', Ins.d))
<1> DEFINE spec == SpecCallFor(Prepared, Ins, Here, job.v3)
           r == Step(spec.s, Ins, Here, Taken)
           u == Here
           d == Ins.d
<1>1. Running /\ job' = job /\ AfterStep(spec, r, StepError(CallxError, r))
  BY DEF Execute, WithSpec, Stepped
<1>2. Shapes /\ u \in Nat /\ Decoded(Ins) /\ d \in 0 .. 10
  BY <1>1, HereFacts DEF IInv, Decoded
<1> DEFINE sp == [root |-> <<"callx">>, lo |-> CallxAddr, hi |-> CallxAddr + 1]
           q == PushClause(s, sp, FALSE)
<1>3. Typed(s) /\ Typed(q) /\ q.regs = s.regs
  <2>1. Typed(s)
    BY <1>2 DEF Shapes
  <2> HIDE DEF sp
  <2>2. Typed(q) /\ Grown(s, q)
    BY <2>1, ClausePushed
  <2> HIDE DEF q
  <2> QED
    BY <2>1, <2>2 DEF Grown
<1>4. spec.s = q
  <2>1. Prepared = q
    BY DEF Prepared
  <2>2. spec = CiteCall(q)
    <3> HIDE DEF q
    <3> QED
      BY <2>1, Zenon DEF SpecCallFor
  <2> HIDE DEF spec, q
  <2> QED
    BY <2>2 DEF CiteCall, Cited
<1>5. r.s = CallStep(q, u)
  <2> HIDE DEF q, u, spec
  <2>1. Step(spec.s, Ins, u, Taken) = Done(CallStep(spec.s, u))
    BY Zenon DEF Step
  <2>2. Done(CallStep(q, u)).s = CallStep(q, u)
    BY DEF Done
  <2> QED
    BY <1>4, <2>1, <2>2 DEF u
<1> HIDE DEF spec, r, q
<1>6. StepError(CallxError, r) = "none"
  BY <1>1 DEF AfterStep, Fail
<1>7. /\ s' = TakeAliases(r.s, u)
      /\ cur' = (IF job.traced THEN cur + 1 ELSE cur)
      /\ pc' = (IF job.traced THEN Here ELSE StaticNext(Taken))
  BY <1>1, <1>6 DEF AfterStep, Continue
<1>8. CallxError = "none"
  BY <1>6 DEF StepError
<1>9. CallxAddr \in 0 .. Len(job.code) - 1 /\ (job.traced => Next1 = CallxAddr)
  BY <1>8 DEF CallxError
<1>10. HeldBefore(s', d) = s.regs[d]
  <2> HIDE DEF u, d
  <2>1. HeldBefore(s', d) = q.regs[d]
    BY <1>2, <1>3, <1>5, <1>7, HeldByCall
  <2> QED
    BY <1>3, <2>1
<1>11. CASE job.traced
  <2>1. Next1 # End /\ cur \in Nat
    BY <1>2, <1>9, <1>11, JobFacts DEF End, Shapes
  <2>2. cur < Len(job.trace) /\ Next1 = job.trace[cur + 1] /\ Len(job.trace) \in Nat
    BY <1>2, <2>1, JobFacts DEF Next1, Shapes
  <2>3. ~TraceOver' /\ Here' = Next1
    BY <1>1, <1>7, <1>11, <2>1, <2>2 DEF TraceOver, Here
  <2> QED
    BY <1>9, <1>10, <1>11, <2>3 DEF CallxAddr
<1>12. CASE ~job.traced
  <2>1. StaticNext(Taken) = CallxAddr
    BY Zenon DEF StaticNext
  <2>2. ~TraceOver' /\ Here' = CallxAddr
    BY <1>1, <1>7, <1>12, <2>1 DEF TraceOver, Here
  <2> QED
    BY <1>10, <2>2 DEF CallxAddr
<1> QED
  BY <1>11, <1>12

\* No other step is at a callx that has not been followed.
LEMMA StepCallx == IInv /\ CallxIsFollowed /\ [Next]_vars => CallxIsFollowed'
<1> SUFFICES ASSUME IInv, CallxIsFollowed, [Next]_vars PROVE CallxIsFollowed'
  OBVIOUS
<1> DEFINE last == At(Len(block))
<1>1. CASE UNCHANGED vars
  BY <1>1 DEF vars, plans, position, emitted, ghosts, CallxIsFollowed, At, TraceOver, Here, HeldBefore
<1>2. CASE \/ GiveUp \/ StepLimit \/ RefuseOverlap \/ RefuseCode \/ RefuseWitness
           \/ EndWalk \/ FaultEnd \/ Retry \/ Accept \/ Emit
  BY <1>2 DEF GiveUp, StepLimit, RefuseOverlap, RefuseCode, RefuseWitness, EndWalk, FaultEnd, Retry, Accept, Emit,
              Fail, CallxIsFollowed
<1>3. CASE BeginPass
  <2>1. block' = <<>>
    BY <1>3 DEF BeginPass
  <2> QED
    BY <2>1 DEF CallxIsFollowed
<1>4. CASE NestedExit
  <2>1. Running /\ job' = job /\ block' = Append(block, Here) /\ Ins.op = "exit" /\ Shapes
    BY <1>4 DEF NestedExit, IInv
  <2>2. last' = Ins
    BY <2>1, LastWalked
  <2> QED
    BY <2>1, <2>2 DEF CallxIsFollowed
<1>5. CASE Syscall
  <2>1. Running /\ job' = job /\ IsTracedSyscall /\ Ins.op = "sys" /\ Shapes
    BY <1>5 DEF Syscall, IsTracedSyscall, IInv
  <2>2. status' = "error" \/ block' = Append(block, Here)
    BY <1>5 DEF Syscall, AfterSyscall, Fail
  <2>3. status' = "error" \/ last' = Ins
    BY <2>1, <2>2, LastWalked
  <2> QED
    BY <2>1, <2>3 DEF CallxIsFollowed
<1>6. CASE Execute
  <2>1. Running /\ job' = job /\ block' = Append(block, Here) /\ Shapes
    BY <1>6 DEF Execute, IInv
  <2>2. last' = Ins
    BY <2>1, LastWalked
  <2>3. CASE status' = "walking" /\ job.v3 /\ Ins.op = "callx"
    <3>1. ~TraceOver' /\ Here' = Address(HeldBefore(s', Ins.d))
      BY <1>6, <2>3, CallxKeeps
    <3>2. HeldBefore(s', last'.d) = HeldBefore(s', Ins.d)
      BY <2>2
    <3> QED
      BY <3>1, <3>2 DEF CallxIsFollowed
  <2>4. CASE ~(status' = "walking" /\ job.v3 /\ Ins.op = "callx")
    BY <2>1, <2>2, <2>4 DEF CallxIsFollowed
  <2> QED
    BY <2>3, <2>4
<1> QED
  BY <1>1, <1>2, <1>3, <1>4, <1>5, <1>6 DEF Next, Finished

\* An accepted walk is a path of the program, for any program and any trace: conditional
\* jumps go to their target or fall through, every return goes behind its call, the frame
\* pointer is restored once all calls have returned, and a callx goes to the address in
\* its register (exec/control.rs, NestedExit of exec/walk.rs).  Straight-line code, ja and
\* call go where they lead in a static walk, and in a traced one whose trace does: the
\* walker does not compare it there (walk.rs:391-394).
THEOREM AcceptedIsAPath == Spec => []WalkIsAPath
<1>1. IInv /\ CallxIsFollowed => WalkIsAPath
  <2> SUFFICES ASSUME IInv, Accepted PROVE
        /\ \A i \in 1 .. Len(block) : Follows(i, OpenBefore[i])
        /\ s.stack = <<>> => s.regs[10] = InitReg(10)
    BY DEF WalkIsAPath
  <2>1. Live
    BY DEF Accepted, Live
  <2>2. PathOf(TraceRuns, job.code, block, Upcoming, s.stack) /\ Base(s)
    BY <2>1 DEF IInv, OnPath
  <2>3. IsList(block) /\ \A i \in 1 .. Len(block) : block[i] \in Nat
    BY DEF IInv, Shapes, Pcs
  <2>4. \A i \in 1 .. Len(block) : Follows(i, OpenBefore[i])
    <3> DEFINE u == Upcoming
    <3> HIDE DEF u
    <3> QED
      BY <2>2, <2>3, PathIsFollowed DEF u
  <2> QED
    BY <2>2, <2>4 DEF Base
<1>2. Init => CallxIsFollowed
  BY DEF Init, CallxIsFollowed
<1> QED
  BY <1>1, <1>2, StepCallx, WalkInvariant, PTL DEF Spec

-----------------------------------------------------------------------------
(* What specification calls may cite.                                          *)

\* The variables the precondition declares, and those reserved for width u.
Values(q) == {q.pre[i].value : i \in 1 .. Len(q.pre)}
Open(q, u) == {<<"mem", u, n>> : n \in Range(q.reserved)} \cup Values(q)

\* A variable in a register or cell is declared; where b holds no word immediate
\* has been stored, so that no value is one.
Fit(q, b, v) == (v[1] = "mem" => v \in Values(q)) /\ (b => ~ (v[1] = "imm" /\ v[3] = "W"))
Sound(q, b) ==
  /\ DOMAIN q = SymFields /\ q.slotAliases \in Nat /\ q.alias \in BOOLEAN
  /\ IsList(q.pre) /\ IsList(q.cells) /\ IsList(q.hyps) /\ IsList(q.branches) /\ IsList(q.reserved)
  /\ \A i \in 1 .. Len(q.cells) : "value" \in DOMAIN q.cells[i] /\ Fit(q, b, q.cells[i].value)

\* Declarations are never taken back within a pass.
More(q, r) ==
  /\ Values(q) \subseteq Values(r) /\ Range(q.hyps) \subseteq Range(r.hyps)
  /\ Len(q.branches) <= Len(r.branches)
\* What a part of a step does when it leaves the registers alone.
Does(q, r, b) == Sound(r, b) /\ More(q, r) /\ r.regs = q.regs /\ r.stack = q.stack /\ r.hot = q.hot
\* A reserved name is used for a variable of width u or stays reserved.
Uses(q, r, u) == Open(q, u) \subseteq Open(r, u)

\* Parts of a step compose.
LEMMA DoesTrans ==
  ASSUME NEW q, NEW r, NEW t, NEW b, Sound(q, b), Does(q, r, b), Does(r, t, b)
  PROVE  Does(q, t, b)
<1>1. /\ Len(q.branches) \in Nat /\ Len(r.branches) \in Nat /\ Len(t.branches) \in Nat
      /\ Len(q.branches) <= Len(r.branches) /\ Len(r.branches) <= Len(t.branches)
  BY ListFacts DEF Does, Sound, More
<1>2. Len(q.branches) <= Len(t.branches)
  BY <1>1
<1> QED
  BY <1>2, Zenon DEF Does, More

\* A state is an extension of itself.
LEMMA DoesNothing == ASSUME NEW q, NEW b, Sound(q, b) PROVE Does(q, q, b)
<1>1. Len(q.branches) \in Nat
  BY ListFacts DEF Sound
<1>2. Len(q.branches) <= Len(q.branches)
  BY <1>1
<1> QED
  BY <1>2, Zenon DEF Does, More

\* A value that fits goes on fitting.
LEMMA FitMore == ASSUME NEW q, NEW r, NEW b, NEW v, Fit(q, b, v), More(q, r) PROVE Fit(r, b, v)
BY Zenon DEF Fit, More

\* What a citation depends on is the same in both.
Alike(q, r) ==
  /\ DOMAIN r = SymFields /\ r.regs = q.regs /\ r.stack = q.stack /\ r.hot = q.hot
  /\ r.pre = q.pre /\ r.cells = q.cells /\ r.hyps = q.hyps /\ r.branches = q.branches
  /\ r.reserved = q.reserved /\ r.slotAliases = q.slotAliases /\ r.alias = q.alias

\* A change of anything else.
LEMMA AlikeDoes ==
  ASSUME NEW q, NEW b, Sound(q, b), NEW r, Alike(q, r)
  PROVE  Does(q, r, b) /\ \A u : Uses(q, r, u) /\ Uses(r, q, u)
<1>1. Values(r) = Values(q)
  BY DEF Alike, Values
<1>2. \A u : Open(r, u) = Open(q, u)
  BY <1>1 DEF Alike, Open
<1>3. \A v : Fit(q, b, v) => Fit(r, b, v)
  BY <1>1 DEF Fit
<1>4. Sound(r, b)
  BY <1>3, Zenon DEF Alike, Sound
<1>5. Len(q.branches) \in Nat
  BY ListFacts DEF Sound
<1>6. Len(q.branches) <= Len(r.branches)
  BY <1>5 DEF Alike
<1>7. More(q, r)
  BY <1>1, <1>6, Zenon DEF More, Alike
<1> QED
  BY <1>2, <1>4, <1>7, Zenon DEF Does, Alike, Uses

\* Footprints, clauses, requests and refusals.
LEMMA Unrelated ==
  ASSUME NEW q, NEW b, Sound(q, b)
  PROVE  /\ \A e, off, len, key : Alike(q, NoteAccess(q, e, off, len, key))
         /\ \A sp, w : Alike(q, PushClause(q, sp, w)) /\ Alike(q, RequestDemotion(q, sp, w))
         /\ \A sp, w : Alike(q, PlanTailSplit(q, sp, w))
         /\ Alike(q, [q EXCEPT !.overlap = TRUE])
         /\ \A x : Alike(q, [q EXCEPT !.rr = x]) /\ Alike(q, [q EXCEPT !.post = x]) /\ Alike(q, [q EXCEPT !.blobs = x])
         /\ \A x : Alike(q, [q EXCEPT !.unsized = x])
<1>0. DOMAIN q = SymFields
  BY DEF Sound
<1>1. ASSUME NEW x
      PROVE  /\ Alike(q, [q EXCEPT !.spans = x]) /\ Alike(q, [q EXCEPT !.overlap = x]) /\ Alike(q, [q EXCEPT !.rr = x])
             /\ Alike(q, [q EXCEPT !.newHot = x]) /\ Alike(q, [q EXCEPT !.newSplits = x]) /\ Alike(q, [q EXCEPT !.post = x])
             /\ Alike(q, [q EXCEPT !.blobs = x]) /\ Alike(q, [q EXCEPT !.unsized = x])
  BY <1>0 DEF Alike, SymFields
<1>2. Alike(q, q)
  BY <1>0 DEF Alike
<1>3. ASSUME NEW e, NEW off, NEW len, NEW key PROVE Alike(q, NoteAccess(q, e, off, len, key))
  <2>1. \E x : NoteAccess(q, e, off, len, key) \in {[q EXCEPT !.overlap = TRUE], [q EXCEPT !.spans = x]}
    BY DEF NoteAccess, NoteSpan
  <2> QED
    BY <1>1, <2>1
<1>4. ASSUME NEW sp, NEW w PROVE Alike(q, PushClause(q, sp, w))
  BY <1>1 DEF PushClause
<1>5. ASSUME NEW sp, NEW w PROVE Alike(q, RequestDemotion(q, sp, w))
  <2>1. ASSUME NEW met PROVE Alike(q, DemoteWith(q, sp, met))
    BY <1>1, <1>2 DEF DemoteWith
  <2> QED
    BY <2>1 DEF RequestDemotion
<1>6. ASSUME NEW sp, NEW w PROVE Alike(q, PlanTailSplit(q, sp, w))
  <2>1. \E x : PlanTailSplit(q, sp, w) \in {q, [q EXCEPT !.newSplits = x]}
    BY DEF PlanTailSplit
  <2> QED
    BY <1>1, <1>2, <2>1
<1> QED
  BY <1>1, <1>3, <1>4, <1>5, <1>6, Zenon

\* A new atom of the precondition.
LEMMA AtomValues ==
  ASSUME NEW q, NEW r, IsList(q.pre), NEW a, r.pre = Append(q.pre, a)
  PROVE  IsList(r.pre) /\ Values(r) = Values(q) \cup {a.value}
<1>1. /\ IsList(r.pre) /\ Len(r.pre) = Len(q.pre) + 1 /\ Len(q.pre) \in Nat
      /\ \A i \in 1 .. Len(q.pre) : r.pre[i] = q.pre[i]
      /\ r.pre[Len(q.pre) + 1] = a
  BY AppendList
<1> QED
  BY <1>1 DEF Values

\* PushAtom declares one value.
LEMMA AtomDoes ==
  ASSUME NEW q, NEW b, Sound(q, b), NEW e, NEW off, NEW len, NEW v
  PROVE  LET r == PushAtom(q, e, off, len, v)
         IN  Does(q, r, b) /\ v \in Values(r) /\ r.reserved = q.reserved /\ \A u : Uses(q, r, u)
<1> DEFINE a == [span |-> Span(e, off, len), value |-> v]
           x == Append(q.pre, a)
           r == [q EXCEPT !.pre = x]
<1>0. PushAtom(q, e, off, len, v) = r
  BY DEF PushAtom
<1>1. a.value = v
  OBVIOUS
<1> HIDE DEF a
<1>2. DOMAIN q = SymFields /\ IsList(q.pre)
  BY DEF Sound
<1>3. r.pre = Append(q.pre, a)
  BY <1>2 DEF SymFields
<1>4. IsList(r.pre) /\ Values(r) = Values(q) \cup {v}
  BY <1>1, <1>2, <1>3, AtomValues
<1>5. /\ DOMAIN r = SymFields /\ r.regs = q.regs /\ r.stack = q.stack /\ r.hot = q.hot
      /\ r.cells = q.cells /\ r.hyps = q.hyps /\ r.branches = q.branches
      /\ r.reserved = q.reserved /\ r.slotAliases = q.slotAliases /\ r.alias = q.alias
  BY <1>2 DEF SymFields
<1> HIDE DEF r
<1>6. \A y : Fit(q, b, y) => Fit(r, b, y)
  BY <1>4, Zenon DEF Fit
<1>7. Sound(r, b)
  BY <1>4, <1>5, <1>6, Zenon DEF Sound
<1>8. Len(q.branches) \in Nat
  BY ListFacts DEF Sound
<1>9. Len(q.branches) <= Len(r.branches)
  BY <1>5, <1>8
<1>10. \A u : Uses(q, r, u)
  BY <1>4, <1>5, Zenon DEF Uses, Open
<1> QED
  BY <1>0, <1>4, <1>5, <1>7, <1>9, <1>10, Zenon DEF Does, More

\* PushCell, for a value that fits.
LEMMA CellDoes ==
  ASSUME NEW q, NEW b, Sound(q, b), NEW e, NEW off, NEW delta, NEW w, NEW v, Fit(q, b, v)
  PROVE  LET r == PushCell(q, e, off, delta, w, v)
         IN  Does(q, r, b) /\ \A u : Uses(q, r, u)
<1> DEFINE c == [base |-> e, off |-> off, delta |-> delta, width |-> w, value |-> v]
           x == Append(q.cells, c)
           r == [q EXCEPT !.cells = x]
<1>0. PushCell(q, e, off, delta, w, v) = r
  BY DEF PushCell
<1>1. c.value = v /\ "value" \in DOMAIN c
  OBVIOUS
<1> HIDE DEF c
<1>2. DOMAIN q = SymFields /\ IsList(q.cells)
  BY DEF Sound
<1>3. /\ IsList(x) /\ Len(x) = Len(q.cells) + 1 /\ Len(q.cells) \in Nat
      /\ \A i \in 1 .. Len(q.cells) : x[i] = q.cells[i]
      /\ x[Len(q.cells) + 1] = c
  BY <1>2, AppendList
<1> HIDE DEF x
<1>5. /\ DOMAIN r = SymFields /\ r.regs = q.regs /\ r.stack = q.stack /\ r.hot = q.hot
      /\ r.cells = x /\ r.pre = q.pre /\ r.hyps = q.hyps /\ r.branches = q.branches
      /\ r.reserved = q.reserved /\ r.slotAliases = q.slotAliases /\ r.alias = q.alias
  BY <1>2 DEF SymFields
<1> HIDE DEF r
<1>4. Values(r) = Values(q)
  BY <1>5 DEF Values
<1>6. \A y : Fit(q, b, y) => Fit(r, b, y)
  BY <1>4, Zenon DEF Fit
<1>7. \A i \in 1 .. Len(x) : "value" \in DOMAIN x[i] /\ Fit(r, b, x[i].value)
  <2> SUFFICES ASSUME NEW i \in 1 .. Len(x) PROVE "value" \in DOMAIN x[i] /\ Fit(r, b, x[i].value)
    OBVIOUS
  <2>1. CASE i \in 1 .. Len(q.cells)
    BY <1>3, <1>6, <2>1 DEF Sound
  <2>2. CASE i = Len(q.cells) + 1
    BY <1>1, <1>3, <1>6, <2>2
  <2> QED
    BY <1>3, <2>1, <2>2
<1>8. Sound(r, b)
  BY <1>3, <1>5, <1>7, Zenon DEF Sound
<1>9. Len(q.branches) \in Nat
  BY ListFacts DEF Sound
<1>10. Len(q.branches) <= Len(r.branches)
  BY <1>5, <1>9
<1>11. \A u : Uses(q, r, u)
  BY <1>4, <1>5, Zenon DEF Uses, Open
<1> QED
  BY <1>0, <1>4, <1>5, <1>8, <1>10, <1>11, Zenon DEF Does, More

\* Allocate takes the first reserved name, if there is one.
LEMMA AllocateDoes ==
  ASSUME NEW q, NEW b, Sound(q, b)
  PROVE  LET r == Allocate(q)
         IN  /\ Does(q, r, b) /\ r.cells = q.cells /\ r.pre = q.pre
             /\ \A u : Open(q, u) \subseteq Open(r, u) \cup {<<"mem", u, FreshName(q)>>}
<1> DEFINE t == IF q.reserved = <<>> THEN q.reserved ELSE Tail(q.reserved)
           r == Allocate(q)
<1>0. DOMAIN q = SymFields /\ IsList(q.reserved)
  BY DEF Sound
<1>1. q.reserved \in Seq(Range(q.reserved))
  BY <1>0 DEF IsList
<1>2. t \in Seq(Range(q.reserved)) /\ IsList(t)
  <2>1. q.reserved # <<>> => Tail(q.reserved) \in Seq(Range(q.reserved))
    BY <1>1, HeadTailProperties, Zenon
  <2>2. t \in Seq(Range(q.reserved))
    BY <1>1, <2>1, Zenon
  <2> QED
    BY <2>2, ListOf
<1>3. ASSUME NEW n \in Range(q.reserved) PROVE n \in Range(t) \/ n = FreshName(q)
  <2>1. PICK i \in 1 .. Len(q.reserved) : q.reserved[i] = n
    BY <1>0, ListFacts DEF Range
  <2>2. CASE i = 1
    BY <1>1, <2>1, <2>2 DEF FreshName
  <2>3. CASE i # 1
    <3>1. /\ q.reserved # <<>> /\ t = Tail(q.reserved) /\ Len(q.reserved) \in Nat
          /\ Len(t) = Len(q.reserved) - 1 /\ i - 1 \in 1 .. Len(t) /\ t[i - 1] = q.reserved[i]
      BY <1>1, <2>1, <2>3
    <3>2. i - 1 \in DOMAIN t
      BY <1>2, <3>1, ListFacts
    <3>3. t[i - 1] = n
      BY <2>1, <3>1
    <3> QED
      BY <3>2, <3>3 DEF Range
  <2> QED
    BY <2>2, <2>3
<1> HIDE DEF t
<1>4. \E x : r = [q EXCEPT !.next = x, !.reserved = t]
  <2>1. CASE q.reserved = <<>>
    <3>1. r = [q EXCEPT !.next = q.next + 1, !.reserved = t]
      BY <1>0, <2>1 DEF Allocate, t, SymFields
    <3> QED
      BY <3>1
  <2>2. CASE q.reserved # <<>>
    <3>1. r = [q EXCEPT !.next = q.next, !.reserved = t]
      BY <1>0, <2>2 DEF Allocate, t, SymFields
    <3> QED
      BY <3>1
  <2> QED
    BY <2>1, <2>2
<1>5. /\ DOMAIN r = SymFields /\ r.regs = q.regs /\ r.stack = q.stack /\ r.hot = q.hot
      /\ r.cells = q.cells /\ r.pre = q.pre /\ r.hyps = q.hyps /\ r.branches = q.branches
      /\ r.reserved = t /\ r.slotAliases = q.slotAliases /\ r.alias = q.alias
  BY <1>0, <1>4 DEF SymFields
<1> HIDE DEF r
<1>6. Values(r) = Values(q)
  BY <1>5 DEF Values
<1>7. \A y : Fit(q, b, y) => Fit(r, b, y)
  BY <1>6, Zenon DEF Fit
<1>8. Sound(r, b)
  BY <1>2, <1>5, <1>7, Zenon DEF Sound
<1>9. Len(q.branches) \in Nat
  BY ListFacts DEF Sound
<1>10. Len(q.branches) <= Len(r.branches)
  BY <1>5, <1>9
<1>11. \A u : Open(q, u) \subseteq Open(r, u) \cup {<<"mem", u, FreshName(q)>>}
  BY <1>3, <1>5, <1>6 DEF Open
<1> QED
  BY <1>5, <1>6, <1>8, <1>10, <1>11, Zenon DEF Does, More, r

\* The first touch of memory: a fresh variable, in one new cell and one new atom.
LEMMA Touched ==
  ASSUME NEW q, NEW b, Sound(q, b), NEW r, NEW w, NEW c, NEW a,
         DOMAIN r = SymFields, r.regs = q.regs, r.stack = q.stack, r.hot = q.hot,
         r.hyps = q.hyps, r.branches = q.branches, r.slotAliases = q.slotAliases, r.alias = q.alias,
         r.reserved = Allocate(q).reserved,
         r.cells = Append(q.cells, c), r.pre = Append(q.pre, a),
         "value" \in DOMAIN c, c.value = <<"mem", w, FreshName(q)>>, a.value = <<"mem", w, FreshName(q)>>
  PROVE  Does(q, r, b) /\ Uses(q, r, w)
<1> DEFINE v == <<"mem", w, FreshName(q)>>
<1>1. IsList(q.pre) /\ IsList(q.cells)
  BY DEF Sound
<1>2. IsList(r.pre) /\ Values(r) = Values(q) \cup {v}
  <2>1. IsList(r.pre) /\ Values(r) = Values(q) \cup {a.value}
    BY <1>1, AtomValues, Zenon
  <2> QED
    BY <2>1, Zenon
<1>3. /\ IsList(r.cells) /\ Len(r.cells) = Len(q.cells) + 1 /\ Len(q.cells) \in Nat
      /\ \A i \in 1 .. Len(q.cells) : r.cells[i] = q.cells[i]
      /\ r.cells[Len(q.cells) + 1] = c
  BY <1>1, AppendList
<1>4. \A y : Fit(q, b, y) => Fit(r, b, y)
  BY <1>2, Zenon DEF Fit
<1>5. Fit(r, b, v)
  <2>1. v[1] = "mem" /\ v \in Values(r)
    BY <1>2
  <2> HIDE DEF v
  <2> QED
    BY <2>1 DEF Fit
<1> HIDE DEF v
<1>6. \A i \in 1 .. Len(r.cells) : "value" \in DOMAIN r.cells[i] /\ Fit(r, b, r.cells[i].value)
  <2> SUFFICES ASSUME NEW i \in 1 .. Len(r.cells) PROVE "value" \in DOMAIN r.cells[i] /\ Fit(r, b, r.cells[i].value)
    OBVIOUS
  <2>1. CASE i \in 1 .. Len(q.cells)
    BY <1>3, <1>4, <2>1 DEF Sound
  <2>2. CASE i = Len(q.cells) + 1
    <3>1. r.cells[i] = c
      BY <1>3, <2>2
    <3> QED
      BY <1>5, <3>1 DEF v
  <2> QED
    BY <1>3, <2>1, <2>2
<1>7. /\ IsList(r.reserved)
      /\ \A u : Open(q, u) \subseteq Open(Allocate(q), u) \cup {<<"mem", u, FreshName(q)>>}
      /\ Allocate(q).pre = q.pre
  BY AllocateDoes DEF Does, Sound
<1>8. Sound(r, b)
  BY <1>2, <1>3, <1>6, <1>7, Zenon DEF Sound
<1>9. Len(q.branches) \in Nat
  BY ListFacts DEF Sound
<1>10. Len(q.branches) <= Len(r.branches)
  BY <1>9
<1>11. Open(Allocate(q), w) \subseteq Open(r, w)
  <2>1. Values(Allocate(q)) = Values(q)
    BY <1>7 DEF Values
  <2> QED
    BY <1>2, <2>1 DEF Open
<1>12. Open(q, w) \subseteq Open(Allocate(q), w) \cup {v}
  BY <1>7, Zenon DEF v
<1>13. v \in Open(r, w)
  BY <1>2, Zenon DEF Open
<1>14. Uses(q, r, w)
  BY <1>11, <1>12, <1>13, Zenon DEF Uses
<1> QED
  BY <1>2, <1>8, <1>10, <1>14, Zenon DEF Does, More

\* A cell of its own width.
LEMMA MaterialiseDoes ==
  ASSUME NEW q, NEW b, Sound(q, b), NEW e, NEW off, NEW w
  PROVE  LET r == Materialise(q, e, off, w)
         IN  /\ Does(q, r, b) /\ Uses(q, r, w) /\ IsList(r.cells) /\ Len(r.cells) # 0 /\ Last(r.cells) = r.cells[Len(r.cells)]
             /\ \E i \in 1 .. Len(r.cells) : r.cells[i].width = w /\ RenderedAs(r.cells[i], e, off, 0)
<1> DEFINE v == <<"mem", w, FreshName(q)>>
           c == [base |-> e, off |-> off, delta |-> 0, width |-> w, value |-> v]
           a == [span |-> Span(e, off, Bytes[w]), value |-> v]
           g == Allocate(q)
           n == NoteAccess(g, e, off, Bytes[w], <<"cell", e, off, w>>)
           r == Materialise(q, e, off, w)
<1>1. Does(q, g, b) /\ g.cells = q.cells /\ g.pre = q.pre /\ g.hyps = q.hyps /\ g.branches = q.branches
      /\ g.slotAliases = q.slotAliases /\ g.alias = q.alias
  <2>1. DOMAIN q = SymFields
    BY DEF Sound
  <2> QED
    BY <2>1, AllocateDoes DEF Allocate, SymFields
<1>2. Sound(g, b) /\ g.regs = q.regs /\ g.stack = q.stack /\ g.hot = q.hot
  BY <1>1 DEF Does
<1> HIDE DEF g
<1>3. Alike(g, n)
  BY <1>2, Unrelated
<1>4. r = [[n EXCEPT !.cells = Append(@, c)] EXCEPT !.pre = Append(@, a)]
  BY DEF Materialise, NewCell, PushAtom, PushCell, n, g
<1> HIDE DEF n
<1>5. "value" \in DOMAIN c /\ c.value = v /\ a.value = v /\ c.width = w /\ RenderedAs(c, e, off, 0)
  BY DEF RenderedAs
<1> HIDE DEF a, c, v
<1>6. DOMAIN n = SymFields
  BY <1>3 DEF Alike
<1>7. /\ DOMAIN r = SymFields /\ r.regs = n.regs /\ r.stack = n.stack /\ r.hot = n.hot
      /\ r.cells = Append(n.cells, c) /\ r.pre = Append(n.pre, a) /\ r.hyps = n.hyps /\ r.branches = n.branches
      /\ r.reserved = n.reserved /\ r.slotAliases = n.slotAliases /\ r.alias = n.alias
  BY <1>4, <1>6 DEF SymFields
<1> HIDE DEF r
<1>8. Does(q, r, b) /\ Uses(q, r, w)
  <2>1. /\ DOMAIN r = SymFields /\ r.regs = q.regs /\ r.stack = q.stack /\ r.hot = q.hot
        /\ r.hyps = q.hyps /\ r.branches = q.branches /\ r.slotAliases = q.slotAliases /\ r.alias = q.alias
        /\ r.reserved = Allocate(q).reserved /\ r.cells = Append(q.cells, c) /\ r.pre = Append(q.pre, a)
    BY <1>1, <1>2, <1>3, <1>7 DEF Alike, g
  <2> QED
    BY <1>5, <2>1, Touched DEF v
<1>9. IsList(n.cells)
  BY <1>1, <1>3 DEF Alike, Sound
<1>10. /\ IsList(r.cells) /\ Len(n.cells) \in Nat /\ Len(r.cells) = Len(n.cells) + 1 /\ r.cells[Len(n.cells) + 1] = c
       /\ Last(r.cells) = c
  BY <1>7, <1>9, AppendList
<1>11. Len(r.cells) # 0 /\ Last(r.cells) = r.cells[Len(r.cells)]
  BY <1>10
<1>12. \E i \in 1 .. Len(r.cells) : r.cells[i].width = w /\ RenderedAs(r.cells[i], e, off, 0)
  BY <1>5, <1>10
<1> QED
  BY <1>8, <1>10, <1>11, <1>12, Zenon DEF r

\* Cells are added behind the others.
Prefix(c, d) == IsList(c) /\ IsList(d) /\ Len(c) <= Len(d) /\ \A i \in 1 .. Len(c) : d[i] = c[i]

\* Such lists compose.
LEMMA PrefixFacts ==
  ASSUME NEW c, IsList(c)
  PROVE  /\ Prefix(c, c) /\ \A x : Prefix(c, Append(c, x))
         /\ \A d, f : Prefix(c, d) /\ Prefix(d, f) => Prefix(c, f)
<1>1. Len(c) \in Nat
  BY ListFacts
<1>2. Prefix(c, c)
  BY <1>1 DEF Prefix
<1>3. ASSUME NEW x PROVE Prefix(c, Append(c, x))
  <2> DEFINE d == Append(c, x)
  <2>1. IsList(d) /\ Len(d) = Len(c) + 1 /\ \A i \in 1 .. Len(c) : d[i] = c[i]
    BY AppendList
  <2> HIDE DEF d
  <2> QED
    BY <1>1, <2>1 DEF Prefix, d
<1>4. ASSUME NEW d, NEW f, Prefix(c, d), Prefix(d, f) PROVE Prefix(c, f)
  <2>1. Len(d) \in Nat /\ Len(f) \in Nat
    BY <1>4, ListFacts DEF Prefix
  <2> QED
    BY <1>1, <1>4, <2>1 DEF Prefix
<1> QED
  BY <1>2, <1>3, <1>4

\* hot_slot: the same cells and at most one more, and an alias where the cell
\* found is rendered another way.
LEMMA SlotDoes ==
  ASSUME NEW q, NEW b, Sound(q, b), NEW e, NEW off, NEW k
  PROVE  LET r == HotSlot(q, e, off, k).s
             i == SlotIndex(q, CanonAddr(e, off), k)
         IN  /\ Does(q, r, b) /\ Uses(q, r, "B")
             /\ r.slotAliases = q.slotAliases \/ r.slotAliases = q.slotAliases + 1
             /\ i # 0 /\ ~ RenderedAs(q.cells[i], e, off, k) => r.slotAliases = q.slotAliases + 1
             /\ Prefix(q.cells, r.cells)
<1> DEFINE i == SlotIndex(q, CanonAddr(e, off), k)
           r == HotSlot(q, e, off, k).s
<1>0. r = SlotAt(q, e, off, k, i).s
  BY DEF HotSlot
<1>a. DOMAIN q = SymFields /\ q.slotAliases \in Nat /\ IsList(q.cells)
  BY DEF Sound
<1>b. Prefix(q.cells, q.cells) /\ \A x : Prefix(q.cells, Append(q.cells, x))
  BY <1>a, PrefixFacts
<1> HIDE DEF i
<1>1. CASE i # 0 /\ RenderedAs(q.cells[i], e, off, k)
  <2>1. r = q
    BY <1>0, <1>1 DEF SlotAt, KnownSlot
  <2>2. Uses(q, q, "B")
    BY DEF Uses
  <2> QED
    BY <1>1, <1>a, <1>b, <2>1, <2>2, DoesNothing DEF i
<1>2. CASE i # 0 /\ ~ RenderedAs(q.cells[i], e, off, k)
  <2> DEFINE t == [q EXCEPT !.slotAliases = @ + 1]
  <2>1. r = t
    BY <1>0, <1>2 DEF SlotAt, KnownSlot
  <2>2. /\ DOMAIN t = SymFields /\ t.regs = q.regs /\ t.stack = q.stack /\ t.hot = q.hot
        /\ t.cells = q.cells /\ t.pre = q.pre /\ t.hyps = q.hyps /\ t.branches = q.branches
        /\ t.reserved = q.reserved /\ t.slotAliases = q.slotAliases + 1 /\ t.alias = q.alias
    BY <1>a DEF SymFields
  <2> HIDE DEF t
  <2>3. Values(t) = Values(q)
    BY <2>2 DEF Values
  <2>4. \A y : Fit(q, b, y) => Fit(t, b, y)
    BY <2>3, Zenon DEF Fit
  <2>5. t.slotAliases \in Nat
    BY <1>a, <2>2
  <2>6. Sound(t, b)
    BY <2>2, <2>4, <2>5, Zenon DEF Sound
  <2>7. Len(q.branches) \in Nat
    BY ListFacts DEF Sound
  <2>8. Len(q.branches) <= Len(t.branches)
    BY <2>2, <2>7
  <2>9. Does(q, t, b) /\ Uses(q, t, "B")
    BY <2>2, <2>3, <2>6, <2>8, Zenon DEF Does, More, Uses, Open
  <2> QED
    BY <1>2, <1>b, <2>1, <2>2, <2>9 DEF i
<1>3. CASE i = 0
  <2> DEFINE v == <<"mem", "B", FreshName(q)>>
             c == [base |-> e, off |-> off, delta |-> k, width |-> "B", value |-> v]
             a == [span |-> Span(e, off + k, 1), value |-> v]
             g == Allocate(q)
             p == [[g EXCEPT !.cells = Append(@, c)] EXCEPT !.pre = Append(@, a)]
             n == NoteAccess(p, e, off + k, 1, <<"hotbyte", e, off, k>>)
  <2>1. r = n
    BY <1>0, <1>3 DEF SlotAt, NewSlot, PushAtom, PushCell
  <2>2. "value" \in DOMAIN c /\ c.value = v /\ a.value = v
    OBVIOUS
  <2> HIDE DEF a, c, v
  <2>3. /\ DOMAIN g = SymFields /\ g.cells = q.cells /\ g.pre = q.pre /\ g.hyps = q.hyps /\ g.branches = q.branches
        /\ g.slotAliases = q.slotAliases /\ g.alias = q.alias /\ g.regs = q.regs /\ g.stack = q.stack /\ g.hot = q.hot
    BY <1>a DEF Allocate, SymFields
  <2> HIDE DEF g
  <2>4. /\ DOMAIN p = SymFields /\ p.regs = g.regs /\ p.stack = g.stack /\ p.hot = g.hot
        /\ p.cells = Append(g.cells, c) /\ p.pre = Append(g.pre, a) /\ p.hyps = g.hyps /\ p.branches = g.branches
        /\ p.reserved = g.reserved /\ p.slotAliases = g.slotAliases /\ p.alias = g.alias
    BY <2>3 DEF SymFields
  <2> HIDE DEF p
  <2>5. Does(q, p, b) /\ Uses(q, p, "B")
    <3>1. /\ p.regs = q.regs /\ p.stack = q.stack /\ p.hot = q.hot
          /\ p.hyps = q.hyps /\ p.branches = q.branches /\ p.slotAliases = q.slotAliases /\ p.alias = q.alias
          /\ p.reserved = Allocate(q).reserved /\ p.cells = Append(q.cells, c) /\ p.pre = Append(q.pre, a)
      BY <2>3, <2>4 DEF g
    <3> QED
      BY <2>2, <2>4, <3>1, Touched DEF v
  <2>6. Alike(p, n)
    BY <2>5, Unrelated DEF Does
  <2> HIDE DEF n
  <2>7. Does(p, n, b) /\ Uses(p, n, "B")
    BY <2>5, <2>6, AlikeDoes DEF Does
  <2>8. Does(q, n, b)
    BY <2>5, <2>7, DoesTrans
  <2>9. Uses(q, n, "B")
    BY <2>5, <2>7, Zenon DEF Uses
  <2>10. Prefix(q.cells, n.cells) /\ n.slotAliases = q.slotAliases
    <3>1. n.cells = Append(q.cells, c) /\ n.slotAliases = q.slotAliases
      BY <2>3, <2>4, <2>6 DEF Alike
    <3> QED
      BY <1>b, <3>1, Zenon
  <2> QED
    BY <1>3, <1>a, <2>1, <2>8, <2>9, <2>10 DEF i
<1> QED
  BY <1>1, <1>2, <1>3

\* Reserve opens one more name.
LEMMA ReserveDoes ==
  ASSUME NEW q, NEW b, Sound(q, b)
  PROVE  LET r == Reserve(q)
         IN  /\ Does(q, r, b) /\ r.cells = q.cells /\ r.branches = q.branches
             /\ \A u : Uses(q, r, u) /\ <<"mem", u, q.next>> \in Open(r, u)
<1> DEFINE x == Append(q.reserved, q.next)
           r == [q EXCEPT !.next = @ + 1, !.reserved = x]
<1>0. Reserve(q) = r
  BY DEF Reserve
<1>1. DOMAIN q = SymFields /\ IsList(q.reserved)
  BY DEF Sound
<1>2. /\ IsList(x) /\ Len(x) = Len(q.reserved) + 1 /\ Len(q.reserved) \in Nat
      /\ DOMAIN q.reserved = 1 .. Len(q.reserved) /\ DOMAIN x = 1 .. Len(q.reserved) + 1
      /\ \A i \in 1 .. Len(q.reserved) : x[i] = q.reserved[i]
      /\ x[Len(q.reserved) + 1] = q.next
  BY <1>1, AppendList
<1> HIDE DEF x
<1>3. Range(q.reserved) \subseteq Range(x) /\ q.next \in Range(x)
  BY <1>2 DEF Range
<1>4. /\ DOMAIN r = SymFields /\ r.regs = q.regs /\ r.stack = q.stack /\ r.hot = q.hot
      /\ r.cells = q.cells /\ r.pre = q.pre /\ r.hyps = q.hyps /\ r.branches = q.branches
      /\ r.reserved = x /\ r.slotAliases = q.slotAliases /\ r.alias = q.alias
  BY <1>1 DEF SymFields
<1> HIDE DEF r
<1>5. Values(r) = Values(q)
  BY <1>4 DEF Values
<1>6. \A y : Fit(q, b, y) => Fit(r, b, y)
  BY <1>5, Zenon DEF Fit
<1>7. Sound(r, b)
  BY <1>2, <1>4, <1>6, Zenon DEF Sound
<1>8. Len(q.branches) \in Nat
  BY ListFacts DEF Sound
<1>9. Len(q.branches) <= Len(r.branches)
  BY <1>4, <1>8
<1>10. \A u : Uses(q, r, u) /\ <<"mem", u, q.next>> \in Open(r, u)
  BY <1>3, <1>4, <1>5 DEF Uses, Open
<1> QED
  BY <1>0, <1>4, <1>5, <1>7, <1>9, <1>10, Zenon DEF Does, More

\* The first cell that passes stays the first when cells are added behind.
LEMMA SlotFound ==
  ASSUME NEW q, NEW r, NEW at, NEW k, Prefix(q.cells, r.cells), SlotIndex(q, at, k) # 0
  PROVE  /\ SlotIndex(r, at, k) = SlotIndex(q, at, k) /\ SlotIndex(q, at, k) \in 1 .. Len(q.cells)
         /\ r.cells[SlotIndex(q, at, k)] = q.cells[SlotIndex(q, at, k)]
<1> DEFINE Test(c) == c.width = "B" /\ CellSpan(c) = SpanAt(<<at[1], at[2] + k>>, 1)
           I == {i \in 1 .. Len(q.cells) : Test(q.cells[i])}
           J == {i \in 1 .. Len(r.cells) : Test(r.cells[i])}
<1>1. /\ SlotIndex(q, at, k) = IF I # {} THEN Min(I) ELSE 0
      /\ SlotIndex(r, at, k) = IF J # {} THEN Min(J) ELSE 0
  BY DEF SlotIndex, FindByte, SelectInSeq
<1>2. Len(q.cells) \in Nat /\ Len(r.cells) \in Nat /\ Len(q.cells) <= Len(r.cells)
  BY ListFacts DEF Prefix
<1>3. \A i \in 1 .. Len(q.cells) : i \in 1 .. Len(r.cells) /\ r.cells[i] = q.cells[i]
  BY <1>2 DEF Prefix
<1>4. I \subseteq J /\ J \subseteq Nat /\ \A j \in J : j \in I \/ j > Len(q.cells)
  BY <1>2, <1>3
<1>5. I # {} /\ I \subseteq 1 .. Len(q.cells)
  BY <1>1
<1> HIDE DEF I, J
<1>6. Min(I) \in I /\ \A y \in I : Min(I) <= y
  BY <1>4, <1>5, LeastIndex
<1>7. Min(J) \in J /\ \A y \in J : Min(J) <= y
  BY <1>4, <1>5, LeastIndex
<1>8. Min(I) = Min(J)
  <2>1. PICK x \in I : x = Min(I) /\ \A y \in I : x <= y
    BY <1>6
  <2>2. PICK z \in J : z = Min(J) /\ \A y \in J : z <= y
    BY <1>7
  <2>3. x \in 1 .. Len(q.cells) /\ x \in J /\ z \in Nat
    BY <1>4, <1>5
  <2>4. z <= x
    BY <2>2, <2>3
  <2>5. z \in I
    BY <1>2, <1>4, <2>3, <2>4
  <2>6. x <= z
    BY <2>1, <2>5
  <2>7. x = z
    BY <2>3, <2>4, <2>6
  <2> QED
    BY <2>1, <2>2, <2>7
<1>9. J # {}
  BY <1>7
<1> QED
  BY <1>1, <1>3, <1>5, <1>6, <1>8, <1>9

\* The arguments of a byte-level specification so far, and what they cite.
CitesSlots(q, b, A, p) ==
  /\ DOMAIN A = {"s", "cites", "n", "k"} /\ A.n \in Nat /\ A.k \in Nat
  /\ Does(q, A.s, b) /\ A.s.cells = q.cells
  /\ \A c \in A.cites : \/ c[1] = "var" /\ c[2] \in Open(A.s, "B")
                        \/ \E j \in Nat : j < A.n /\ c = <<"h_alias", p, j>>

\* The step finds what the specification call found: no aliased slot is missed.
Paired(q, A, S) ==
  /\ Prefix(q.cells, S.s.cells) /\ IsList(S.at) /\ Len(S.at) = A.k /\ A.n <= S.s.slotAliases
TakesSlots(q, b, S) == Does(q, S.s, b) /\ Uses(q, S.s, "B")

\* One more argument.
LEMMA SlotCited ==
  ASSUME NEW q, NEW b, Sound(q, b), NEW A, NEW p, CitesSlots(q, b, A, p), NEW e, NEW off
  PROVE  CitesSlots(q, b, CiteSlot(A, e, off, p), p)
<1> DEFINE i == SlotIndex(A.s, CanonAddr(e, off), A.k)
           R == CiteSlot(A, e, off, p)
<1>0. R = CiteFound(A, e, off, p, i)
  BY DEF CiteSlot
<1> HIDE DEF i
<1>a. Sound(A.s, b)
  BY DEF CitesSlots, Does
<1>1. CASE i = 0
  <2> DEFINE t == Reserve(A.s)
             v == <<"mem", "B", A.s.next>>
             x == <<"var", v>>
  <2>1. R = [A EXCEPT !.s = t, !.cites = @ \cup {x}, !.k = @ + 1]
    BY <1>0, <1>1 DEF CiteFound
  <2>2. Does(A.s, t, b) /\ t.cells = A.s.cells /\ Uses(A.s, t, "B") /\ v \in Open(t, "B")
    BY <1>a, ReserveDoes
  <2>3. x[1] = "var" /\ x[2] = v
    OBVIOUS
  <2> HIDE DEF t, v, x
  <2>4. DOMAIN R = {"s", "cites", "n", "k"} /\ R.s = t /\ R.cites = A.cites \cup {x} /\ R.n = A.n /\ R.k = A.k + 1
    BY <2>1 DEF CitesSlots
  <2>5. Does(q, t, b)
    BY <2>2, DoesTrans DEF CitesSlots
  <2>6. \A c \in A.cites \cup {x} : \/ c[1] = "var" /\ c[2] \in Open(t, "B")
                                    \/ \E j \in Nat : j < A.n /\ c = <<"h_alias", p, j>>
    BY <2>2, <2>3, Zenon DEF CitesSlots, Uses
  <2> QED
    BY <2>2, <2>4, <2>5, <2>6 DEF CitesSlots
<1>2. CASE i # 0 /\ RenderedAs(A.s.cells[i], e, off, A.k)
  <2>1. R = [A EXCEPT !.k = @ + 1]
    BY <1>0, <1>2 DEF CiteFound
  <2>2. DOMAIN R = {"s", "cites", "n", "k"} /\ R.s = A.s /\ R.cites = A.cites /\ R.n = A.n /\ R.k = A.k + 1
    BY <2>1 DEF CitesSlots
  <2> QED
    BY <2>2 DEF CitesSlots
<1>3. CASE i # 0 /\ ~ RenderedAs(A.s.cells[i], e, off, A.k)
  <2> DEFINE x == <<"h_alias", p, A.n>>
  <2>1. R = [A EXCEPT !.cites = @ \cup {x}, !.n = @ + 1, !.k = @ + 1]
    BY <1>0, <1>3 DEF CiteFound
  <2>2. DOMAIN R = {"s", "cites", "n", "k"} /\ R.s = A.s /\ R.cites = A.cites \cup {x} /\ R.n = A.n + 1 /\ R.k = A.k + 1
    BY <2>1 DEF CitesSlots
  <2>3. A.n \in Nat /\ A.k \in Nat
    BY DEF CitesSlots
  <2>4. \A j \in Nat : j < A.n => j < A.n + 1
    BY <2>3
  <2>5. \A c \in A.cites : \/ c[1] = "var" /\ c[2] \in Open(A.s, "B")
                           \/ \E j \in Nat : j < A.n + 1 /\ c = <<"h_alias", p, j>>
    BY <2>4, Zenon DEF CitesSlots
  <2>6. \E j \in Nat : j < A.n + 1 /\ x = <<"h_alias", p, j>>
    BY <2>3
  <2>7. \A c \in A.cites \cup {x} : \/ c[1] = "var" /\ c[2] \in Open(A.s, "B")
                                    \/ \E j \in Nat : j < A.n + 1 /\ c = <<"h_alias", p, j>>
    BY <2>5, <2>6, Zenon
  <2> HIDE DEF x
  <2>8. R.n \in Nat /\ R.k \in Nat
    BY <2>2, <2>3
  <2> QED
    BY <2>2, <2>7, <2>8, Zenon DEF CitesSlots
<1> QED
  BY <1>1, <1>2, <1>3

\* One more slot.
LEMMA SlotTaken ==
  ASSUME NEW q, NEW b, Sound(q, b), NEW S, TakesSlots(q, b, S), NEW e, NEW off
  PROVE  TakesSlots(q, b, NextSlot(S, e, off))
<1> DEFINE h == HotSlot(S.s, e, off, Len(S.at))
<1>1. NextSlot(S, e, off).s = h.s
  BY DEF NextSlot, AddSlot
<1>2. Does(S.s, h.s, b) /\ Uses(S.s, h.s, "B")
  BY SlotDoes DEF TakesSlots, Does
<1> HIDE DEF h
<1>3. Does(q, h.s, b)
  BY <1>2, DoesTrans DEF TakesSlots
<1> QED
  BY <1>1, <1>2, <1>3, Zenon DEF TakesSlots, Uses

\* One more pair.
LEMMA PairGrows ==
  ASSUME NEW q, NEW b, NEW A, NEW p, CitesSlots(q, b, A, p), NEW q1, NEW S, TakesSlots(q1, b, S),
         Paired(q, A, S), NEW e, NEW off
  PROVE  Paired(q, CiteSlot(A, e, off, p), NextSlot(S, e, off))
<1> DEFINE at == CanonAddr(e, off)
           k == A.k
           i == SlotIndex(A.s, at, k)
           j == SlotIndex(S.s, at, k)
           h == HotSlot(S.s, e, off, k)
           R == CiteSlot(A, e, off, p)
           T == NextSlot(S, e, off)
<1>0. A.n \in Nat /\ k \in Nat /\ A.s.cells = q.cells /\ Sound(S.s, b) /\ S.s.slotAliases \in Nat
      /\ DOMAIN A = {"s", "cites", "n", "k"} /\ Len(S.at) = k /\ A.n <= S.s.slotAliases /\ IsList(S.at)
  BY DEF CitesSlots, TakesSlots, Does, Sound, Paired
<1>1. /\ h.s.slotAliases = S.s.slotAliases \/ h.s.slotAliases = S.s.slotAliases + 1
      /\ j # 0 /\ ~ RenderedAs(S.s.cells[j], e, off, k) => h.s.slotAliases = S.s.slotAliases + 1
      /\ Prefix(S.s.cells, h.s.cells)
  BY <1>0, SlotDoes
<1>2. T = [s |-> h.s, at |-> Append(S.at, h.i)]
  BY <1>0 DEF NextSlot, AddSlot
<1>3. T.s = h.s /\ IsList(T.at) /\ Len(T.at) = k + 1
  BY <1>0, <1>2, AppendList
<1>4. /\ R.k = k + 1
      /\ R.n = A.n + (IF i # 0 /\ ~ RenderedAs(q.cells[i], e, off, k) THEN 1 ELSE 0)
  <2>1. R = CiteFound(A, e, off, p, i)
    BY DEF CiteSlot
  <2> HIDE DEF i
  <2> QED
    BY <1>0, <2>1 DEF CiteFound
<1>5. i # 0 => j = i /\ S.s.cells[j] = q.cells[i]
  <2>1. i = SlotIndex(q, at, k)
    BY <1>0 DEF SlotIndex, FindByte
  <2>2. Prefix(q.cells, S.s.cells)
    BY DEF Paired
  <2> HIDE DEF at, k, i, j
  <2> QED
    BY <2>1, <2>2, SlotFound DEF j
<1> HIDE DEF at, k, i, j, R, T, h
<1>6. R.n <= T.s.slotAliases
  <2>1. CASE i # 0 /\ ~ RenderedAs(q.cells[i], e, off, k)
    <3>1. R.n = A.n + 1
      BY <1>4, <2>1
    <3>2. j # 0 /\ ~ RenderedAs(S.s.cells[j], e, off, k)
      BY <1>5, <2>1, Zenon
    <3>3. h.s.slotAliases = S.s.slotAliases + 1
      BY <1>1, <3>2
    <3> QED
      BY <1>0, <1>3, <3>1, <3>3
  <2>2. CASE ~(i # 0 /\ ~ RenderedAs(q.cells[i], e, off, k))
    <3>1. R.n = A.n + 0
      BY <1>4, <2>2
    <3>2. h.s.slotAliases \in {S.s.slotAliases, S.s.slotAliases + 1}
      BY <1>0, <1>1
    <3> QED
      BY <1>0, <1>3, <3>1, <3>2
  <2> QED
    BY <2>1, <2>2
<1>7. Prefix(q.cells, T.s.cells)
  <2>1. Prefix(q.cells, S.s.cells) /\ IsList(q.cells)
    BY DEF Paired, Prefix
  <2> QED
    BY <1>1, <1>3, <2>1, PrefixFacts
<1> QED
  BY <1>3, <1>4, <1>6, <1>7 DEF Paired, R, T

-----------------------------------------------------------------------------
(* Loads and stores, as the specification call and the step see them.          *)

\* The byte-level forms: what the specification call of a word store or a dword
\* load cites, and the slots that the step then takes.
LEMMA BytesAgree ==
  ASSUME NEW q, NEW b, Sound(q, b), NEW e, NEW off, NEW p, NEW q1, Sound(q1, b), q1.cells = q.cells
  PROVE  /\ CitesSlots(q, b, CiteWord(q, e, off, p), p) /\ CitesSlots(q, b, CiteDword(q, e, off, p), p)
         /\ TakesSlots(q1, b, WordSlots(q1, e, off)) /\ TakesSlots(q1, b, DwordSlots(q1, e, off))
         /\ Paired(q, CiteWord(q, e, off, p), WordSlots(q1, e, off))
         /\ Paired(q, CiteDword(q, e, off, p), DwordSlots(q1, e, off))
<1> DEFINE Both(A, S) == CitesSlots(q, b, A, p) /\ TakesSlots(q1, b, S) /\ Paired(q, A, S)
           A0 == [s |-> q, cites |-> {}, n |-> 0, k |-> 0]
           S0 == [s |-> q1, at |-> <<>>]
<1>1. ASSUME NEW A, NEW S, Both(A, S) PROVE Both(CiteSlot(A, e, off, p), NextSlot(S, e, off))
  BY <1>1, SlotCited, SlotTaken, PairGrows
<1>2. Both(A0, S0)
  <2>1. CitesSlots(q, b, A0, p)
    BY DoesNothing DEF CitesSlots
  <2>2. TakesSlots(q1, b, S0)
    BY DoesNothing DEF TakesSlots, Uses
  <2>3. Paired(q, A0, S0)
    <3>1. IsList(q.cells) /\ q1.slotAliases \in Nat
      BY DEF Sound
    <3>2. Prefix(q.cells, q1.cells)
      BY <3>1, PrefixFacts
    <3> QED
      BY <3>1, <3>2, NoList DEF Paired
  <2> QED
    BY <2>1, <2>2, <2>3
<1> HIDE DEF Both
<1>3. ASSUME NEW A, NEW S, Both(A, S) PROVE Both(CiteTwo(A, e, off, p), TwoSlots(S, e, off))
  BY <1>1, <1>3 DEF CiteTwo, TwoSlots
<1>4. ASSUME NEW A, NEW S, Both(A, S) PROVE Both(CiteFour(A, e, off, p), FourSlots(S, e, off))
  BY <1>3, <1>4 DEF CiteFour, FourSlots
<1>5. Both(CiteWord(q, e, off, p), WordSlots(q1, e, off))
  BY <1>2, <1>4 DEF CiteWord, WordSlots
<1>6. Both(CiteDword(q, e, off, p), DwordSlots(q1, e, off))
  BY <1>4, <1>5 DEF CiteDword, DwordSlots
<1> QED
  BY <1>5, <1>6 DEF Both

\* A lookup only looks at cells.
LEMMA SameLookup ==
  ASSUME NEW q, NEW r, r.cells = q.cells
  PROVE  \A e, off, w : LookupCell(r, e, off, w) = LookupCell(q, e, off, w)
BY DEF LookupCell

\* An alias is noted.
LEMMA AliasDoes ==
  ASSUME NEW q, NEW b, Sound(q, b), NEW x \in BOOLEAN
  PROVE  LET r == [q EXCEPT !.alias = @ \/ x]
         IN  Does(q, r, b) /\ r.cells = q.cells /\ (x => r.alias = TRUE) /\ \A u : Uses(q, r, u)
<1> DEFINE y == q.alias \/ x
           r == [q EXCEPT !.alias = y]
<1>0. [q EXCEPT !.alias = @ \/ x] = r
  OBVIOUS
<1>1. DOMAIN q = SymFields /\ y \in BOOLEAN /\ (x => y = TRUE)
  BY DEF Sound
<1> HIDE DEF y
<1>2. /\ DOMAIN r = SymFields /\ r.regs = q.regs /\ r.stack = q.stack /\ r.hot = q.hot
      /\ r.cells = q.cells /\ r.pre = q.pre /\ r.hyps = q.hyps /\ r.branches = q.branches
      /\ r.reserved = q.reserved /\ r.slotAliases = q.slotAliases /\ r.alias = y
  BY <1>1 DEF SymFields
<1> HIDE DEF r
<1>3. Values(r) = Values(q)
  BY <1>2 DEF Values
<1>4. \A z : Fit(q, b, z) => Fit(r, b, z)
  BY <1>3, Zenon DEF Fit
<1>5. Sound(r, b)
  BY <1>1, <1>2, <1>4, Zenon DEF Sound
<1>6. Len(q.branches) \in Nat
  BY ListFacts DEF Sound
<1>7. Len(q.branches) <= Len(r.branches)
  BY <1>2, <1>6
<1>8. Does(q, r, b) /\ \A u : Uses(q, r, u)
  BY <1>2, <1>3, <1>5, <1>7, Zenon DEF Does, More, Uses, Open
<1> QED
  BY <1>0, <1>1, <1>2, <1>8, Zenon

\* The clause of an access has no part in this.
LEMMA ClauseDoes ==
  ASSUME NEW q, NEW b, Sound(q, b), NEW sp, NEW w
  PROVE  LET r == PushClause(q, sp, w)
         IN  Does(q, r, b) /\ r.cells = q.cells /\ r.alias = q.alias /\ r.slotAliases = q.slotAliases /\ \A u : Uses(q, r, u)
<1>1. Alike(q, PushClause(q, sp, w))
  BY Unrelated
<1> HIDE DEF PushClause
<1> QED
  BY <1>1, AlikeDoes DEF Alike

\* A load outside the byte-granular regions.
Cold(q, r, b, e, off, w) ==
  /\ Does(q, r, b) /\ Uses(q, r, w)
  /\ LookupCell(q, e, off, w).i # 0 /\ LookupCell(q, e, off, w).aliased => r.alias = TRUE

\* A cell that is there is what is read.
Finds(q, v, e, off, w) ==
  LookupCell(q, e, off, w).i # 0 => v = q.cells[LookupCell(q, e, off, w).i].value

\* read_mem, for a byte or outside the regions.
LEMMA ColdReadDoes ==
  ASSUME NEW q, NEW b, Sound(q, b), NEW e, NEW off, NEW w
  PROVE  LET r == ReadCold(q, e, off, w)
         IN  /\ Cold(q, r.s, b, e, off, w) /\ Fit(r.s, b, r.v)
             /\ LookupCell(r.s, e, off, w).i # 0 /\ Finds(q, r.v, e, off, w)
<1> DEFINE hit == LookupCell(q, e, off, w)
           r == ReadCold(q, e, off, w)
           sp == HitSpan(q, hit, e, off, w)
<1>0. hit.i \in 0 .. Len(q.cells) /\ hit.aliased \in BOOLEAN
  BY FirstCell DEF Sound
<1>1. CASE hit.i # 0
  <2> DEFINE p == [q EXCEPT !.alias = @ \/ hit.aliased]
             n == PushClause(p, sp, FALSE)
  <2>1. r = [s |-> n, v |-> q.cells[hit.i].value]
    BY <1>1 DEF ReadCold, ReadHit
  <2>2. Does(q, p, b) /\ p.cells = q.cells /\ (hit.aliased => p.alias = TRUE) /\ Uses(q, p, w)
    <3> HIDE DEF hit
    <3> QED
      BY <1>0, AliasDoes
  <2> HIDE DEF p, sp
  <2>3. Does(p, n, b) /\ n.cells = p.cells /\ n.alias = p.alias /\ Uses(p, n, w)
    BY <2>2, ClauseDoes DEF Does
  <2> HIDE DEF n
  <2>4. Does(q, n, b)
    BY <2>2, <2>3, DoesTrans
  <2>5. Uses(q, n, w)
    BY <2>2, <2>3, Zenon DEF Uses
  <2>6. Fit(q, b, q.cells[hit.i].value)
    <3>1. hit.i \in 1 .. Len(q.cells)
      BY <1>0, <1>1
    <3> QED
      BY <3>1, Zenon DEF Sound
  <2>7. Fit(n, b, q.cells[hit.i].value)
    BY <2>4, <2>6, FitMore DEF Does
  <2>8. LookupCell(n, e, off, w) = hit
    BY <2>2, <2>3, SameLookup
  <2>9. r.s = n /\ r.v = q.cells[hit.i].value
    BY <2>1
  <2>10. Cold(q, n, b, e, off, w)
    BY <2>2, <2>3, <2>4, <2>5, Zenon DEF Cold
  <2>11. LookupCell(n, e, off, w).i # 0
    BY <1>1, <2>8
  <2>12. Finds(q, r.v, e, off, w)
    BY <2>9 DEF Finds
  <2> QED
    BY <2>7, <2>9, <2>10, <2>11, <2>12, Zenon
<1>2. CASE hit.i = 0
  <2> DEFINE m == Materialise(q, e, off, w)
             n == PushClause(m, Span(e, off, Bytes[w]), FALSE)
  <2>1. r = [s |-> n, v |-> Last(m.cells).value]
    BY <1>2 DEF ReadCold, ReadHit, ReadNew
  <2>2. /\ Does(q, m, b) /\ Uses(q, m, w) /\ IsList(m.cells) /\ Len(m.cells) # 0 /\ Last(m.cells) = m.cells[Len(m.cells)]
        /\ \E i \in 1 .. Len(m.cells) : m.cells[i].width = w /\ RenderedAs(m.cells[i], e, off, 0)
    BY MaterialiseDoes
  <2> HIDE DEF m
  <2>a. Sound(m, b)
    BY <2>2 DEF Does
  <2>3. Does(m, n, b) /\ n.cells = m.cells /\ Uses(m, n, w)
    BY <2>a, ClauseDoes, Zenon
  <2> HIDE DEF n
  <2>4. Does(q, n, b)
    BY <2>2, <2>3, DoesTrans
  <2>5. Uses(q, n, w)
    BY <2>2, <2>3, Zenon DEF Uses
  <2>6. Fit(m, b, Last(m.cells).value)
    <3>1. Len(m.cells) \in 1 .. Len(m.cells)
      BY <2>2, ListFacts
    <3>2. Sound(m, b)
      BY <2>2 DEF Does
    <3> QED
      BY <2>2, <3>1, <3>2, Zenon DEF Sound
  <2>7. Fit(n, b, Last(m.cells).value)
    BY <2>3, <2>6, FitMore DEF Does
  <2>8. LookupCell(m, e, off, w).i # 0
    BY <2>2, FirstCell
  <2>9. LookupCell(n, e, off, w).i # 0
    BY <2>3, <2>8, SameLookup
  <2>10. r.s = n /\ r.v = Last(m.cells).value
    BY <2>1
  <2>11. Finds(q, r.v, e, off, w)
    BY <1>2 DEF Finds
  <2> QED
    BY <1>2, <2>4, <2>5, <2>7, <2>9, <2>10, <2>11, Zenon DEF Cold
<1> QED
  BY <1>1, <1>2

\* A request made before it.
LEMMA ColdAfter ==
  ASSUME NEW q, NEW b, Sound(q, b), NEW d, Alike(q, d), NEW r, NEW e, NEW off, NEW w, Cold(d, r, b, e, off, w)
  PROVE  Cold(q, r, b, e, off, w)
<1>1. Does(q, d, b) /\ Uses(q, d, w)
  BY AlikeDoes
<1>2. Does(q, r, b)
  BY <1>1, DoesTrans DEF Cold
<1>3. LookupCell(d, e, off, w) = LookupCell(q, e, off, w)
  BY SameLookup DEF Alike
<1> QED
  BY <1>1, <1>2, <1>3, Zenon DEF Cold, Uses

\* read_mem, where the regions do not cover the access.
LEMMA PlainReadDoes ==
  ASSUME NEW q, NEW b, Sound(q, b), NEW e, NEW off, NEW w, w = "B" \/ ~ HotCovers(q, Span(e, off, Bytes[w]))
  PROVE  LET r == ReadMem(q, e, off, w)
         IN  /\ Cold(q, r.s, b, e, off, w) /\ Fit(r.s, b, r.v) /\ LookupCell(r.s, e, off, w).i # 0
             /\ Finds(q, r.v, e, off, w)
<1>1. CASE w = "B"
  <2>1. ReadMem(q, e, off, w) = ReadCold(q, e, off, w)
    BY <1>1 DEF ReadMem
  <2> QED
    BY <2>1, ColdReadDoes, Zenon
<1>2. CASE w # "B"
  <2> DEFINE sp == Span(e, off, Bytes[w])
             p == PlanTailSplit(q, sp, w)
             d == RequestDemotion(p, sp, w)
             r == ReadCold(d, e, off, w)
  <2>1. ReadMem(q, e, off, w) = r
    BY <1>2 DEF ReadMem, ReadSpan
  <2>2. Alike(q, p)
    BY Unrelated
  <2> HIDE DEF p
  <2>3. Sound(p, b)
    BY <2>2, AlikeDoes DEF Does
  <2>4. Alike(p, d)
    BY <2>3, Unrelated
  <2> HIDE DEF d
  <2>5. Alike(q, d) /\ Sound(d, b)
    <3>1. Alike(q, d)
      BY <2>2, <2>4 DEF Alike
    <3> QED
      BY <3>1, AlikeDoes DEF Does
  <2>6. /\ Cold(d, r.s, b, e, off, w) /\ Fit(r.s, b, r.v) /\ LookupCell(r.s, e, off, w).i # 0
        /\ Finds(d, r.v, e, off, w)
    BY <2>5, ColdReadDoes, Zenon
  <2> HIDE DEF r
  <2>7. Cold(q, r.s, b, e, off, w)
    BY <2>5, <2>6, ColdAfter
  <2>8. Finds(q, r.v, e, off, w)
    BY <2>5, <2>6, SameLookup DEF Finds, Alike
  <2> QED
    BY <2>1, <2>6, <2>7, <2>8, Zenon
<1> QED
  BY <1>1, <1>2

\* read_mem: a dword in a byte-granular region takes eight slots; anything else
\* there is refused.
Hot(q, r, b, S) == Does(q, r, b) /\ Uses(q, r, "B") /\ r.slotAliases = S.s.slotAliases

\* Every load.
LEMMA ReadDoes ==
  ASSUME NEW q, NEW b, Sound(q, b), NEW e, NEW off, NEW w
  PROVE  LET r == ReadMem(q, e, off, w)
             covered == w # "B" /\ HotCovers(q, Span(e, off, Bytes[w]))
         IN  /\ Does(q, r.s, b) /\ Fit(r.s, b, r.v)
             /\ ~ covered => Cold(q, r.s, b, e, off, w) /\ Finds(q, r.v, e, off, w)
             /\ covered /\ w # "D" => Asks(r.s)
             /\ covered /\ w = "D" =>
                  \E p : Alike(q, p) /\ Hot(q, r.s, b, DwordSlots(p, e, off))
<1> DEFINE sp == Span(e, off, Bytes[w])
           r == ReadMem(q, e, off, w)
           covered == w # "B" /\ HotCovers(q, sp)
<1>1. CASE ~ covered
  <2>1. Cold(q, r.s, b, e, off, w) /\ Fit(r.s, b, r.v) /\ Finds(q, r.v, e, off, w)
    BY <1>1, PlainReadDoes, Zenon
  <2> QED
    BY <1>1, <2>1, Zenon DEF Cold
<1>2. CASE covered
  <2> DEFINE p == PlanTailSplit(q, sp, w)
             h == ReadHotWide(p, e, off, w)
  <2>1. r = h
    BY <1>2 DEF ReadMem, ReadSpan
  <2>2. Alike(q, p)
    BY Unrelated
  <2> HIDE DEF p, sp
  <2>3. Sound(p, b) /\ Does(q, p, b) /\ Uses(q, p, "B")
    BY <2>2, AlikeDoes DEF Does
  <2>4. CASE w # "D"
    <3> DEFINE o == [p EXCEPT !.overlap = TRUE]
               v == <<"raw", "hotUnsupported">>
    <3>1. h = [s |-> o, v |-> v]
      BY <2>4 DEF ReadHotWide
    <3>2. Alike(p, o)
      BY <2>3, Unrelated
    <3>3. Asks(o)
      BY <2>3 DEF Asks, Sound, SymFields
    <3>4. Fit(o, b, v)
      BY DEF Fit
    <3> HIDE DEF o, v
    <3>5. Does(q, o, b)
      BY <2>3, <3>2, AlikeDoes, DoesTrans
    <3>6. h.s = o /\ h.v = v
      BY <3>1
    <3> QED
      BY <1>2, <2>1, <2>4, <3>3, <3>4, <3>5, <3>6, Zenon DEF sp
  <2>5. CASE w = "D"
    <3> DEFINE S == DwordSlots(p, e, off)
               t == Span(e, off, 8)
               g == S.s
               n == PushClause(g, t, FALSE)
               x == [k \in 1 .. 8 |-> S.s.cells[S.at[k]].value]
               v == <<"combo", x>>
    <3>1. h = [s |-> n, v |-> v]
      BY <2>5 DEF ReadHotWide, Combined
    <3>2. TakesSlots(p, b, S)
      BY <2>3, BytesAgree
    <3> HIDE DEF S, t
    <3>a. Sound(g, b)
      BY <3>2 DEF TakesSlots, Does
    <3> HIDE DEF g
    <3>b. Does(g, n, b) /\ n.slotAliases = g.slotAliases /\ Uses(g, n, "B")
      BY <3>a, ClauseDoes
    <3>3. Does(S.s, n, b) /\ n.slotAliases = S.s.slotAliases /\ Uses(S.s, n, "B")
      BY <3>b, Zenon DEF g
    <3> HIDE DEF n, x
    <3>4. Fit(n, b, v)
      BY DEF Fit
    <3> HIDE DEF v
    <3>5. Does(p, n, b)
      BY <2>3, <3>2, <3>3, DoesTrans DEF TakesSlots
    <3>6. Does(q, n, b)
      BY <2>3, <3>5, DoesTrans
    <3>7. Uses(q, n, "B")
      BY <2>3, <3>2, <3>3, Zenon DEF Uses, TakesSlots
    <3>8. h.s = n /\ h.v = v
      BY <3>1
    <3>9. Hot(q, n, b, S)
      BY <3>3, <3>6, <3>7, Zenon DEF Hot
    <3>10. \E y : Alike(q, y) /\ Hot(q, n, b, DwordSlots(y, e, off))
      BY <2>2, <3>9, Zenon DEF S
    <3>11. r.s = n /\ r.v = v
      BY <2>1, <3>8
    <3> HIDE DEF r, h
    <3> QED
      BY <1>2, <2>5, <3>4, <3>6, <3>10, <3>11, Zenon DEF r, sp
  <2> QED
    BY <2>4, <2>5
<1> QED
  BY <1>1, <1>2

\* The same cells, some with another value that fits.
Revalued(q, b, c) ==
  /\ DOMAIN c = 1 .. Len(q.cells) /\ IsList(c)
  /\ \A i \in 1 .. Len(q.cells) : c[i] = q.cells[i] \/ \E v : Fit(q, b, v) /\ c[i] = [q.cells[i] EXCEPT !.value = v]

\* Cells with other values.
LEMMA ValuesDo ==
  ASSUME NEW q, NEW b, Sound(q, b), NEW c, Revalued(q, b, c)
  PROVE  LET r == [q EXCEPT !.cells = c]
         IN  /\ Does(q, r, b) /\ r.alias = q.alias /\ r.slotAliases = q.slotAliases /\ r.cells = c
             /\ r.reserved = q.reserved /\ \A u : Uses(q, r, u)
<1> DEFINE r == [q EXCEPT !.cells = c]
<1>0. DOMAIN q = SymFields /\ IsList(q.cells) /\ \A i \in 1 .. Len(q.cells) : "value" \in DOMAIN q.cells[i] /\ Fit(q, b, q.cells[i].value)
  BY DEF Sound
<1>1. Len(q.cells) \in Nat
  BY <1>0, ListFacts
<1>a. /\ DOMAIN c = 1 .. Len(q.cells) /\ IsList(c)
      /\ \A i \in 1 .. Len(q.cells) : c[i] = q.cells[i] \/ \E v : Fit(q, b, v) /\ c[i] = [q.cells[i] EXCEPT !.value = v]
  BY DEF Revalued
<1>2. Len(c) = Len(q.cells)
  <2>1. Len(c) \in Nat /\ DOMAIN c = 1 .. Len(c)
    BY <1>a, ListFacts
  <2> QED
    BY <1>1, <1>a, <2>1
<1>3. \A i \in 1 .. Len(c) : "value" \in DOMAIN c[i] /\ Fit(q, b, c[i].value)
  <2> SUFFICES ASSUME NEW i \in 1 .. Len(q.cells) PROVE "value" \in DOMAIN c[i] /\ Fit(q, b, c[i].value)
    BY <1>2
  <2>1. CASE c[i] = q.cells[i]
    BY <1>0, <2>1
  <2>2. CASE \E v : Fit(q, b, v) /\ c[i] = [q.cells[i] EXCEPT !.value = v]
    <3>1. PICK v : Fit(q, b, v) /\ c[i] = [q.cells[i] EXCEPT !.value = v]
      BY <2>2
    <3>2. "value" \in DOMAIN c[i] /\ c[i].value = v
      BY <1>0, <3>1
    <3> QED
      BY <3>1, <3>2
  <2> QED
    BY <1>a, <2>1, <2>2
<1>4. /\ DOMAIN r = SymFields /\ r.regs = q.regs /\ r.stack = q.stack /\ r.hot = q.hot
      /\ r.cells = c /\ r.pre = q.pre /\ r.hyps = q.hyps /\ r.branches = q.branches
      /\ r.reserved = q.reserved /\ r.slotAliases = q.slotAliases /\ r.alias = q.alias
  BY <1>0 DEF SymFields
<1> HIDE DEF r
<1>5. Values(r) = Values(q)
  BY <1>4 DEF Values
<1>6. \A y : Fit(q, b, y) => Fit(r, b, y)
  BY <1>5, Zenon DEF Fit
<1>7. Sound(r, b)
  BY <1>3, <1>4, <1>6, <1>a, Zenon DEF Sound
<1>8. Len(q.branches) \in Nat
  BY ListFacts DEF Sound
<1>9. Len(q.branches) <= Len(r.branches)
  BY <1>4, <1>8
<1>10. \A u : Uses(q, r, u)
  BY <1>4, <1>5, Zenon DEF Uses, Open
<1> QED
  BY <1>4, <1>5, <1>7, <1>9, <1>10, Zenon DEF Does, More, r

\* A store into a cell that the lookup finds.
LEMMA SetInDoes ==
  ASSUME NEW q, NEW b, Sound(q, b), NEW e, NEW off, NEW w, NEW v, Fit(q, b, v),
         LookupCell(q, e, off, w).i # 0
  PROVE  LET r == SetIn(q, e, off, w, v)
         IN  /\ Does(q, r, b) /\ (LookupCell(q, e, off, w).aliased => r.alias = TRUE)
             /\ \A u : Uses(q, r, u)
<1> DEFINE hit == LookupCell(q, e, off, w)
           sp == HitSpan(q, hit, e, off, w)
           c == [q.cells EXCEPT ![hit.i].value = v]
           t == [q EXCEPT !.cells = c]
           p == [t EXCEPT !.alias = @ \/ hit.aliased]
           n == PushClause(p, sp, TRUE)
<1>0. DOMAIN q = SymFields /\ IsList(q.cells)
  BY DEF Sound
<1>1. hit.i \in 1 .. Len(q.cells) /\ hit.aliased \in BOOLEAN
  BY <1>0, FirstCell
<1>2. SetIn(q, e, off, w, v) = n
  <2> HIDE DEF hit
  <2>1. p = [q EXCEPT !.cells[hit.i].value = v, !.alias = @ \/ hit.aliased]
    BY <1>0 DEF SymFields
  <2> HIDE DEF p
  <2> QED
    BY <2>1 DEF SetIn, SetCell, hit
<1> HIDE DEF hit, sp
<1>3. Revalued(q, b, c)
  <2>1. Len(q.cells) \in Nat /\ DOMAIN q.cells = 1 .. Len(q.cells)
    BY <1>0, ListFacts
  <2>2. DOMAIN c = 1 .. Len(q.cells) /\ c \in [1 .. Len(q.cells) -> Range(c)]
    BY <2>1 DEF Range
  <2>3. \A i \in 1 .. Len(q.cells) : c[i] = q.cells[i] \/ c[i] = [q.cells[i] EXCEPT !.value = v]
    BY <1>1, <2>1
  <2> HIDE DEF c
  <2>4. IsList(c)
    BY <2>1, <2>2, FunctionList
  <2> QED
    BY <2>2, <2>3, <2>4, Zenon DEF Revalued
<1> HIDE DEF c
<1>4. Does(q, t, b) /\ \A u : Uses(q, t, u)
  BY <1>3, ValuesDo
<1> HIDE DEF t
<1>5. Sound(t, b)
  BY <1>4 DEF Does
<1>6. Does(t, p, b) /\ (hit.aliased => p.alias = TRUE) /\ \A u : Uses(t, p, u)
  BY <1>1, <1>5, AliasDoes
<1> HIDE DEF p
<1>7. Sound(p, b)
  BY <1>6 DEF Does
<1>8. Does(p, n, b) /\ n.alias = p.alias /\ \A u : Uses(p, n, u)
  BY <1>7, ClauseDoes
<1> HIDE DEF n
<1>9. Does(q, n, b)
  BY <1>4, <1>5, <1>6, <1>8, DoesTrans
<1>10. \A u : Uses(q, n, u)
  BY <1>4, <1>6, <1>8, Zenon DEF Uses
<1> QED
  BY <1>2, <1>6, <1>8, <1>9, <1>10, Zenon DEF hit

\* A store outside the byte-granular regions.
LEMMA ColdWriteDoes ==
  ASSUME NEW q, NEW b, Sound(q, b), NEW e, NEW off, NEW w, NEW v, Fit(q, b, v), NEW hit,
         hit = LookupCell(q, e, off, w), w = "B" \/ ~ HotCovers(q, Span(e, off, Bytes[w]))
  PROVE  Cold(q, WriteCold(q, e, off, w, v, hit), b, e, off, w)
<1> DEFINE n == WriteCold(q, e, off, w, v, hit)
<1>1. CASE hit.i # 0
  <2>1. n = SetIn(q, e, off, w, v)
    BY <1>1, Zenon DEF WriteCold
  <2> HIDE DEF n
  <2>2. Does(q, n, b) /\ (hit.aliased => n.alias = TRUE) /\ Uses(q, n, w)
    BY <1>1, <2>1, SetInDoes, Zenon
  <2> QED
    BY <2>2, Zenon DEF Cold, n
<1>2. CASE hit.i = 0
  <2> DEFINE r == ReadMem(q, e, off, w).s
             x == Front(r.rr)
             m == [r EXCEPT !.rr = x]
  <2>1. n = SetIn(m, e, off, w, v)
    BY <1>2 DEF WriteCold
  <2>2. Does(q, r, b) /\ Uses(q, r, w) /\ LookupCell(r, e, off, w).i # 0
    BY PlainReadDoes, Zenon DEF Cold
  <2> HIDE DEF r, x, n
  <2>3. Sound(r, b)
    BY <2>2 DEF Does
  <2>4. Alike(r, m)
    BY <2>3, Unrelated
  <2> HIDE DEF m
  <2>5. Does(r, m, b) /\ Uses(r, m, w) /\ m.cells = r.cells
    BY <2>3, <2>4, AlikeDoes DEF Alike
  <2>6. Does(q, m, b) /\ Uses(q, m, w)
    <3>1. Does(q, m, b)
      BY <2>2, <2>5, DoesTrans
    <3> QED
      BY <2>2, <2>5, <3>1, Zenon DEF Uses
  <2>7. Sound(m, b) /\ Fit(m, b, v) /\ LookupCell(m, e, off, w).i # 0
    <3>1. LookupCell(m, e, off, w) = LookupCell(r, e, off, w)
      BY <2>5, SameLookup
    <3>2. Sound(m, b) /\ More(q, m)
      BY <2>6 DEF Does
    <3> QED
      BY <2>2, <3>1, <3>2, FitMore
  <2>8. Does(m, n, b) /\ Uses(m, n, w)
    BY <2>1, <2>7, SetInDoes, Zenon
  <2>9. Does(q, n, b)
    BY <2>6, <2>8, DoesTrans
  <2> QED
    BY <1>2, <2>6, <2>8, <2>9, Zenon DEF Cold, Uses, n
<1> QED
  BY <1>1, <1>2

\* write_hot_word_imm: the slots keep their equations.
LEMMA ImmBytesDo ==
  ASSUME NEW b, NEW h, Sound(h.s, b), NEW c
  PROVE  LET r == SetImmBytes(h, c)
         IN  Does(h.s, r, b) /\ r.slotAliases = h.s.slotAliases /\ \A u : Uses(h.s, r, u)
<1> DEFINE g == h.s
           V(i) == <<"byte", <<"imm", c, (CHOOSE k \in 1 .. 4 : h.at[k] = i) - 1>>>>
           N(i) == IF \E k \in 1 .. 4 : h.at[k] = i THEN [g.cells[i] EXCEPT !.value = V(i)] ELSE g.cells[i]
           f == [i \in 1 .. Len(g.cells) |-> N(i)]
<1>2. SetImmBytes(h, c) = [g EXCEPT !.cells = f]
  BY DEF SetImmBytes
<1>3. ASSUME NEW i PROVE Fit(g, b, V(i))
  BY DEF Fit
<1> HIDE DEF V
<1>4. ASSUME NEW i PROVE N(i) = g.cells[i] \/ \E v : Fit(g, b, v) /\ N(i) = [g.cells[i] EXCEPT !.value = v]
  BY <1>3
<1> HIDE DEF N
<1>1. Sound(g, b)
  OBVIOUS
<1> HIDE DEF g
<1>5. Len(g.cells) \in Nat
  BY <1>1, ListFacts DEF Sound
<1>6. /\ DOMAIN f = 1 .. Len(g.cells) /\ f \in [1 .. Len(g.cells) -> Range(f)]
      /\ \A i \in 1 .. Len(g.cells) : f[i] = N(i)
  BY DEF Range
<1> HIDE DEF f
<1>7. IsList(f)
  BY <1>5, <1>6, FunctionList
<1>8. Revalued(g, b, f)
  BY <1>4, <1>6, <1>7, Zenon DEF Revalued
<1>9. LET r == [g EXCEPT !.cells = f]
      IN  Does(g, r, b) /\ r.slotAliases = g.slotAliases /\ \A u : Uses(g, r, u)
  BY <1>1, <1>8, ValuesDo
<1> QED
  BY <1>2, <1>9, Zenon DEF g

\* write_mem: into a byte-granular region only a word immediate goes.
LEMMA WriteDoes ==
  ASSUME NEW q, NEW b, Sound(q, b), Typed(q), NEW e, NEW off, NEW w, NEW v, Fit(q, b, v)
  PROVE  LET r == WriteMem(q, e, off, w, v)
             covered == w # "B" /\ HotCovers(q, Span(e, off, Bytes[w]))
             word == w = "W" /\ v[1] = "imm" /\ v[3] = "W"
         IN  /\ Does(q, r, b)
             /\ ~ covered => Asks(r) \/ Cold(q, r, b, e, off, w)
             /\ covered /\ ~ word => Asks(r)
             /\ covered /\ word => Hot(q, r, b, WordSlots(q, e, off))
<1> DEFINE sp == Span(e, off, Bytes[w])
           r == WriteMem(q, e, off, w, v)
           covered == w # "B" /\ HotCovers(q, sp)
           word == w = "W" /\ v[1] = "imm" /\ v[3] = "W"
<1>0. r = WriteSpan(q, e, off, w, v, sp)
  BY DEF WriteMem
<1>1. CASE covered /\ word
  <2> DEFINE h == WordSlots(q, e, off)
             g == h.s
             m == SetImmBytes(h, v[2])
             t == Span(e, off, 4)
             n == PushClause(m, t, TRUE)
  <2>1. r = n
    BY <1>0, <1>1 DEF WriteSpan, WriteHotWordImm
  <2>2. Does(q, g, b) /\ Uses(q, g, "B")
    BY BytesAgree DEF TakesSlots
  <2>3. Sound(g, b)
    BY <2>2 DEF Does
  <2>4. Does(g, m, b) /\ m.slotAliases = g.slotAliases /\ Uses(g, m, "B")
    <3> HIDE DEF h
    <3> QED
      BY <2>3, ImmBytesDo
  <2> HIDE DEF m, t, g
  <2>5. Sound(m, b)
    BY <2>4 DEF Does
  <2>6. Does(m, n, b) /\ n.slotAliases = m.slotAliases /\ Uses(m, n, "B")
    BY <2>5, ClauseDoes
  <2> HIDE DEF n
  <2>7. Does(q, m, b)
    BY <2>2, <2>4, DoesTrans
  <2>8. Does(q, n, b)
    BY <2>6, <2>7, DoesTrans
  <2>9. n.slotAliases = h.s.slotAliases /\ Uses(q, n, "B")
    BY <2>2, <2>4, <2>6, Zenon DEF Uses, g
  <2>10. Hot(q, n, b, WordSlots(q, e, off))
    BY <2>8, <2>9, Zenon DEF Hot
  <2> QED
    BY <1>1, <2>1, <2>8, <2>10, Zenon
<1>2. CASE covered /\ ~ word
  <2> DEFINE o == [q EXCEPT !.overlap = TRUE]
  <2>1. r = o
    BY <1>0, <1>2 DEF WriteSpan
  <2>2. Asks(o)
    BY DEF Asks, Sound, SymFields
  <2>3. Does(q, o, b)
    <3>1. Alike(q, o)
      BY Unrelated
    <3> HIDE DEF o
    <3> QED
      BY <3>1, AlikeDoes
  <2> HIDE DEF o, r
  <2>4. Asks(r) /\ Does(q, r, b)
    BY <2>1, <2>2, <2>3, Zenon
  <2> QED
    BY <1>2, <2>4, Zenon DEF r
<1>3. CASE ~ covered /\ w # "B" /\ HotIntersects(q, sp)
  <2> DEFINE d == RequestDemotion(q, sp, w)
  <2>1. r = d
    BY <1>0, <1>3 DEF WriteSpan
  <2>2. Asks(d)
    BY <1>3, DemotionAsks
  <2>3. Does(q, d, b)
    <3>1. Alike(q, d)
      BY Unrelated
    <3> HIDE DEF d
    <3> QED
      BY <3>1, AlikeDoes
  <2> HIDE DEF d, r
  <2>4. Asks(r) /\ Does(q, r, b)
    BY <2>1, <2>2, <2>3, Zenon
  <2> QED
    BY <1>3, <2>4, Zenon DEF r
<1>4. CASE ~ covered /\ ~ (w # "B" /\ HotIntersects(q, sp))
  <2> DEFINE d == IF w = "B" THEN q ELSE RequestDemotion(q, sp, w)
             hit == LookupCell(q, e, off, w)
             n == WriteCold(d, e, off, w, v, hit)
  <2>1. r = n
    BY <1>0, <1>4, Zenon DEF WriteSpan
  <2>2. Alike(q, d)
    <3>1. Alike(q, RequestDemotion(q, sp, w))
      BY Unrelated
    <3>2. Alike(q, q)
      BY DEF Alike, Sound
    <3> QED
      BY <3>1, <3>2
  <2> HIDE DEF d
  <2>3. Does(q, d, b) /\ d.cells = q.cells /\ d.hot = q.hot
    BY <2>2, AlikeDoes DEF Alike
  <2>4. Sound(d, b) /\ Fit(d, b, v)
    BY <2>3, FitMore DEF Does
  <2>5. w = "B" \/ ~ HotCovers(d, Span(e, off, Bytes[w]))
    BY <1>4, <2>3 DEF HotCovers
  <2>6. hit = LookupCell(d, e, off, w)
    BY <2>3, SameLookup
  <2> HIDE DEF hit
  <2>7. Cold(d, n, b, e, off, w)
    BY <2>4, <2>5, <2>6, ColdWriteDoes
  <2> HIDE DEF n
  <2>8. Cold(q, n, b, e, off, w)
    BY <2>2, <2>7, ColdAfter
  <2> HIDE DEF r
  <2>9. Cold(q, r, b, e, off, w)
    BY <2>1, <2>8, Zenon
  <2>10. Does(q, r, b)
    BY <2>9, Zenon DEF Cold
  <2> QED
    BY <1>4, <2>9, <2>10, Zenon DEF r
<1> QED
  BY <1>1, <1>2, <1>3, <1>4

-----------------------------------------------------------------------------
(* What the step still owes to its specification call.                         *)

\* What a citation needs once the step at p is done, when names are still open
\* for width u and the aliases are not yet written out.
Promised(n, p, u, x) ==
  \/ x[1] = "hReloadLt" /\ x \in Range(n.hyps)
  \/ x[1] \in {"var", "lt"} /\ x[2] \in Open(n, u)
  \/ x = <<"h_alias", p>> /\ n.alias = TRUE
  \/ \E j \in Nat : j < n.slotAliases /\ x = <<"h_alias", p, j>>
\* A bound of the value v, which is no variable, as the call at p cites it.
Bound(v, w, p) == <<"hReloadLt", p, v, w>>
Reload(q, e, off, w, p, x) ==
  LET i == LookupCell(q, e, off, w).i
  IN  i # 0 /\ ~ IsVar(q.cells[i].value) /\ x = Bound(q.cells[i].value, w, p)
\* The specification call of an access to a cell, before the step.
CitesCell(q, c, b, e, off, w, p, bounded) ==
  /\ Does(q, c.s, b) /\ c.s.cells = q.cells
  /\ \A x \in c.cites :
       \/ bounded /\ Reload(q, e, off, w, p, x)
       \/ x[1] \in {"var", "lt"} /\ x[2] \in Open(c.s, w)
       \/ x = <<"h_alias", p>> /\ LookupCell(q, e, off, w).i # 0 /\ LookupCell(q, e, off, w).aliased

\* The call cites a cell that is known or about to be.
LEMMA CellCites ==
  ASSUME NEW q, NEW b, Sound(q, b), NEW e, NEW off, NEW w, NEW bounded, NEW p
  PROVE  CitesCell(q, CiteCell(q, e, off, w, bounded, p), b, e, off, w, p, bounded)
<1> DEFINE hit == LookupCell(q, e, off, w)
           v == q.cells[hit.i].value
           f == <<"mem", w, q.next>>
           B(x) == IF ~ bounded THEN {} ELSE IF IsVar(x) THEN {<<"lt", x, w>>} ELSE {<<"hReloadLt", p, x, w>>}
           c == CiteCell(q, e, off, w, bounded, p)
<1>0. hit.i \in 0 .. Len(q.cells)
  BY FirstCell DEF Sound
<1>1. ASSUME NEW y, NEW x \in B(y)
      PROVE  (bounded /\ ~ IsVar(y) /\ x = Bound(y, w, p)) \/ (IsVar(y) /\ x[1] = "lt" /\ x[2] = y)
  <2>1. CASE x = <<"lt", y, w>> /\ IsVar(y)
    BY <2>1
  <2>2. (x = <<"lt", y, w>> /\ IsVar(y)) \/ (bounded /\ ~ IsVar(y) /\ x = Bound(y, w, p))
    BY <1>1, Zenon DEF Bound
  <2> QED
    BY <2>1, <2>2, Zenon
<1>a. IsVar(f)
  BY DEF IsVar
<1> HIDE DEF B
<1>2. CASE hit.i # 0
  <2> DEFINE a == AliasCite(hit, p)
  <2>1. c = Cited(q, a \cup B(v))
    BY <1>2 DEF CiteCell, B
  <2>2. c.s = q /\ c.cites = a \cup B(v)
    BY <2>1 DEF Cited
  <2>3. \A x \in a : x = <<"h_alias", p>> /\ hit.i # 0 /\ hit.aliased
    BY DEF AliasCite
  <2>4. \A x \in B(v) : (bounded /\ Reload(q, e, off, w, p, x)) \/ (x[1] = "lt" /\ x[2] \in Open(q, w))
    <3>1. hit.i \in 1 .. Len(q.cells)
      BY <1>0, <1>2
    <3>2. IsVar(v) => v \in Values(q)
      BY <3>1 DEF Sound, Fit, IsVar
    <3>3. \A x : ~ IsVar(v) /\ x = Bound(v, w, p) => Reload(q, e, off, w, p, x)
      BY <1>2, Zenon DEF Reload
    <3> HIDE DEF v
    <3>4. IsVar(v) => v \in Open(q, w)
      BY <3>2, Zenon DEF Open
    <3> QED
      BY <1>1, <3>3, <3>4, Zenon
  <2> HIDE DEF a, v, c
  <2>5. \A x \in c.cites : \/ bounded /\ Reload(q, e, off, w, p, x)
                           \/ x[1] \in {"var", "lt"} /\ x[2] \in Open(c.s, w)
                           \/ x = <<"h_alias", p>> /\ hit.i # 0 /\ hit.aliased
    BY <2>2, <2>3, <2>4, Zenon
  <2>6. Does(q, c.s, b) /\ c.s.cells = q.cells
    BY <2>2, DoesNothing
  <2> QED
    BY <2>5, <2>6, Zenon DEF CitesCell, c
<1>3. CASE hit.i = 0
  <2> DEFINE r == Reserve(q)
             y == <<"var", f>>
  <2>1. c = Cited(r, {y} \cup B(f))
    BY <1>3 DEF CiteCell, B
  <2>2. c.s = r /\ c.cites = {y} \cup B(f)
    BY <2>1 DEF Cited
  <2>3. Does(q, r, b) /\ r.cells = q.cells /\ f \in Open(r, w)
    BY ReserveDoes
  <2>4. y[1] = "var" /\ y[2] = f
    OBVIOUS
  <2> HIDE DEF r, y, f, c
  <2>5. \A x \in B(f) : x[1] = "lt" /\ x[2] \in Open(r, w)
    BY <1>1, <1>a, <2>3, Zenon
  <2>6. \A x \in c.cites : x[1] \in {"var", "lt"} /\ x[2] \in Open(c.s, w)
    BY <2>2, <2>3, <2>4, <2>5, Zenon
  <2>7. Does(q, c.s, b) /\ c.s.cells = q.cells
    BY <2>2, <2>3, Zenon
  <2> QED
    BY <2>6, <2>7, Zenon DEF CitesCell, c
<1> QED
  BY <1>2, <1>3

\* A step on a cell keeps what such a call promises.
LEMMA CellKeeps ==
  ASSUME NEW q, NEW c, NEW b, NEW e, NEW off, NEW w, NEW p, NEW bounded, CitesCell(q, c, b, e, off, w, p, bounded),
         NEW n, Cold(c.s, n, b, e, off, w)
  PROVE  \A x \in c.cites : Promised(n, p, w, x) \/ (bounded /\ Reload(q, e, off, w, p, x))
<1>1. LookupCell(c.s, e, off, w) = LookupCell(q, e, off, w)
  BY SameLookup DEF CitesCell
<1> QED
  BY <1>1, Zenon DEF CitesCell, Cold, Uses, Promised

\* A step on byte slots keeps what a byte-level call promises.
LEMMA SlotsKeep ==
  ASSUME NEW q, NEW A, NEW b, NEW p, CitesSlots(q, b, A, p), NEW S, Paired(q, A, S),
         NEW n, Hot(A.s, n, b, S)
  PROVE  \A x \in A.cites : Promised(n, p, "B", x)
<1> SUFFICES ASSUME NEW x \in A.cites PROVE Promised(n, p, "B", x)
  OBVIOUS
<1>1. (x[1] = "var" /\ x[2] \in Open(A.s, "B")) \/ \E j \in Nat : j < A.n /\ x = <<"h_alias", p, j>>
  BY DEF CitesSlots
<1>2. CASE x[1] = "var" /\ x[2] \in Open(A.s, "B")
  BY <1>2, Zenon DEF Hot, Uses, Promised
<1>3. CASE \E j \in Nat : j < A.n /\ x = <<"h_alias", p, j>>
  <2>1. PICK j \in Nat : j < A.n /\ x = <<"h_alias", p, j>>
    BY <1>3
  <2>2. A.n \in Nat /\ A.n <= n.slotAliases /\ n.slotAliases \in Nat
    BY DEF CitesSlots, Paired, Hot, Does, Sound
  <2>3. j < n.slotAliases
    BY <2>1, <2>2
  <2> QED
    BY <2>1, <2>3, Zenon DEF Promised
<1> QED
  BY <1>1, <1>2, <1>3

\* Registers and saved registers fit as well.
RegsFit(q, b) == \A x \in 0 .. 10 : Fit(q, b, q.regs[x])
FramesFit(q, b) == \A i \in 1 .. Len(q.stack) : \A x \in 6 .. 10 : Fit(q, b, q.stack[i].saved[x])
Full(q, b) == Sound(q, b) /\ RegsFit(q, b) /\ FramesFit(q, b)
Advances(q, n, b) == Full(n, b) /\ More(q, n) /\ n.hot = q.hot

\* Parts of a step that leave the registers alone.
LEMMA FullDoes == ASSUME NEW q, NEW n, NEW b, Full(q, b), Does(q, n, b) PROVE Advances(q, n, b)
<1>1. Sound(n, b) /\ More(q, n) /\ n.regs = q.regs /\ n.stack = q.stack /\ n.hot = q.hot
  BY DEF Does
<1>2. \A v : Fit(q, b, v) => Fit(n, b, v)
  BY <1>1, FitMore
<1> QED
  BY <1>1, <1>2, Zenon DEF Full, RegsFit, FramesFit, Advances

\* Steps compose.
LEMMA AdvancesTrans ==
  ASSUME NEW q, NEW r, NEW n, NEW b, Sound(q, b), Advances(q, r, b), Advances(r, n, b)
  PROVE  Advances(q, n, b)
<1>1. /\ Len(q.branches) \in Nat /\ Len(r.branches) \in Nat /\ Len(n.branches) \in Nat
      /\ Len(q.branches) <= Len(r.branches) /\ Len(r.branches) <= Len(n.branches)
  BY ListFacts DEF Advances, Full, Sound, More
<1>2. Len(q.branches) <= Len(n.branches)
  BY <1>1
<1> QED
  BY <1>2, Zenon DEF Advances, More

\* A change of registers, frames, hypotheses and path conditions only.
Around(q, n) ==
  /\ DOMAIN n = SymFields /\ n.hot = q.hot /\ n.pre = q.pre /\ n.cells = q.cells
  /\ n.reserved = q.reserved /\ n.slotAliases = q.slotAliases /\ n.alias = q.alias
  /\ n.overlap = q.overlap /\ n.newHot = q.newHot
  /\ IsList(n.hyps) /\ Range(q.hyps) \subseteq Range(n.hyps)
  /\ IsList(n.branches) /\ Len(q.branches) <= Len(n.branches)

\* It keeps promises.
LEMMA AroundKeeps ==
  ASSUME NEW q, NEW b, Sound(q, b), NEW n, Around(q, n)
  PROVE  /\ Sound(n, b) /\ More(q, n) /\ (Asks(q) => Asks(n))
         /\ \A v : Fit(q, b, v) => Fit(n, b, v)
         /\ \A p, u, x : Promised(q, p, u, x) => Promised(n, p, u, x)
<1>1. Values(n) = Values(q)
  BY DEF Values, Around
<1>2. \A v : Fit(q, b, v) => Fit(n, b, v)
  BY <1>1, Zenon DEF Fit
<1>3. Sound(n, b)
  BY <1>2, Zenon DEF Sound, Around
<1>4. More(q, n)
  BY <1>1, Zenon DEF More, Around
<1>5. Asks(q) => Asks(n)
  BY DEF Asks, Around
<1>6. \A u : Open(n, u) = Open(q, u)
  BY <1>1, Zenon DEF Open, Around
<1>7. \A p, u, x : Promised(q, p, u, x) => Promised(n, p, u, x)
  BY <1>6, Zenon DEF Promised, Around
<1> QED
  BY <1>2, <1>3, <1>4, <1>5, <1>7, Zenon

\* A register gets a value that fits.
LEMMA PutRegDoes ==
  ASSUME NEW q, NEW b, Full(q, b), DOMAIN q.regs = 0 .. 10, NEW d \in 0 .. 10, NEW v, Fit(q, b, v)
  PROVE  LET n == [q EXCEPT !.regs[d] = v] IN Around(q, n) /\ Advances(q, n, b)
<1> DEFINE g == [q.regs EXCEPT ![d] = v]
           n == [q EXCEPT !.regs = g]
<1>0. [q EXCEPT !.regs[d] = v] = n
  OBVIOUS
<1>1. \A x \in 0 .. 10 : g[x] = v \/ g[x] = q.regs[x]
  OBVIOUS
<1> HIDE DEF g
<1>2. DOMAIN q = SymFields /\ Sound(q, b) /\ IsList(q.hyps) /\ IsList(q.branches)
  BY DEF Full, Sound
<1>3. Len(q.branches) \in Nat
  BY <1>2, ListFacts
<1>4. Around(q, n) /\ n.regs = g /\ n.stack = q.stack
  BY <1>2, <1>3 DEF Around, SymFields
<1> HIDE DEF n
<1>5. Sound(n, b) /\ More(q, n) /\ \A y : Fit(q, b, y) => Fit(n, b, y)
  BY <1>2, <1>4, AroundKeeps
<1>6. RegsFit(n, b)
  BY <1>1, <1>4, <1>5, Zenon DEF Full, RegsFit
<1>7. FramesFit(n, b)
  BY <1>4, <1>5, Zenon DEF Full, FramesFit
<1> QED
  BY <1>0, <1>4, <1>5, <1>6, <1>7, Zenon DEF Advances, Full, Around

\* A new hypothesis.
LEMMA HypDoes ==
  ASSUME NEW q, NEW b, Full(q, b), NEW h
  PROVE  LET n == Hyp(q, h) IN Around(q, n) /\ Advances(q, n, b) /\ n.regs = q.regs /\ h \in Range(n.hyps)
<1> DEFINE x == Append(q.hyps, h)
           n == [q EXCEPT !.hyps = x]
<1>0. Hyp(q, h) = n
  BY DEF Hyp
<1>1. DOMAIN q = SymFields /\ Sound(q, b) /\ IsList(q.hyps) /\ IsList(q.branches)
  BY DEF Full, Sound
<1>2. Len(q.branches) \in Nat
  BY <1>1, ListFacts
<1>3. /\ IsList(x) /\ Len(x) = Len(q.hyps) + 1 /\ Len(q.hyps) \in Nat
      /\ DOMAIN q.hyps = 1 .. Len(q.hyps) /\ DOMAIN x = 1 .. Len(q.hyps) + 1
      /\ \A i \in 1 .. Len(q.hyps) : x[i] = q.hyps[i]
      /\ x[Len(q.hyps) + 1] = h
  BY <1>1, AppendList
<1> HIDE DEF x
<1>4. Range(q.hyps) \subseteq Range(x) /\ h \in Range(x)
  BY <1>3 DEF Range
<1>5. Around(q, n) /\ n.regs = q.regs /\ n.stack = q.stack /\ n.hyps = x
  BY <1>1, <1>2, <1>3, <1>4 DEF Around, SymFields
<1> HIDE DEF n
<1>6. Sound(n, b) /\ More(q, n) /\ \A y : Fit(q, b, y) => Fit(n, b, y)
  BY <1>1, <1>5, AroundKeeps
<1>7. RegsFit(n, b) /\ FramesFit(n, b)
  BY <1>5, <1>6, Zenon DEF Full, RegsFit, FramesFit
<1> QED
  BY <1>0, <1>4, <1>5, <1>6, <1>7, Zenon DEF Advances, Full, Around

\* Regions cover nothing when there are none.
LEMMA NoRegion == ASSUME NEW q, NEW sp, HotCovers(q, sp) PROVE q.hot # <<>>
<1>1. Len(<<>>) = 0
  BY NoList
<1> QED
  BY <1>1 DEF HotCovers

\* Among the citations is the bound of a dword of combined bytes.
Stray(cites) == \E y \in cites : y[1] = "hReloadLt" /\ y[3][1] = "combo" /\ y[4] = "D"
\* What a call cites is kept, unless the walk has to be repeated, or an unmatched
\* form x is used or a stray bound cited.
Holds(q, c, n, p, x) ==
  Asks(n) \/ (x /\ q.hot # <<>>) \/ Stray(c.cites) \/ \E u : \A y \in c.cites : Promised(n, p, u, y)
\* A citing step: the registers and cells fit afterwards as well.
Keeps(q, c, n, b, p, x) == Advances(q, n, b) /\ Holds(q, c, n, p, x)

\* Registers are set after the access.
LEMMA KeepsAfter ==
  ASSUME NEW q, NEW c, NEW t, NEW n, NEW b, NEW p, NEW x, Sound(q, b), Advances(q, t, b), Holds(q, c, t, p, x),
         Around(t, n), Advances(t, n, b)
  PROVE  Keeps(q, c, n, b, p, x)
<1>1. Sound(t, b)
  BY DEF Advances, Full
<1>2. /\ Asks(t) => Asks(n)
      /\ \A u, y : Promised(t, p, u, y) => Promised(n, p, u, y)
  BY <1>1, AroundKeeps
<1>3. Advances(q, n, b)
  BY AdvancesTrans
<1> QED
  BY <1>2, <1>3, Zenon DEF Holds, Keeps

\* Loads.
LEMMA LoadKeeps ==
  ASSUME NEW q, NEW b, Full(q, b), DOMAIN q.regs = 0 .. 10, NEW ins, Decoded(ins), ins.op = "ldx", NEW p
  PROVE  LET c == CiteLoad(q, ins, p)
         IN  Keeps(q, c, LoadStep(c.s, ins, p), b, p, ins.w = "D" /\ ins.d = ins.s)
<1> DEFINE c == CiteLoad(q, ins, p)
           d == c.s
           e == q.regs[ins.s]
           off == ins.off
           w == ins.w
           covered == w # "B" /\ HotCovers(q, Span(e, off, Bytes[w]))
           k == CiteCell(q, e, off, w, w # "B", p)
           A == CiteDword(q, e, off, p)
           r == ReadMem(d, e, off, w)
           n == LoadStep(d, ins, p)
           bound == w # "B" /\ ~ IsVar(r.v) /\ ~ (w = "D" /\ r.v[1] = "combo")
           y0 == Bound(r.v, w, p)
           h == IF bound THEN Hyp(r.s, y0) ELSE r.s
           v == IF w = "B" THEN <<"mod", r.v>> ELSE r.v
           x == w = "D" /\ ins.d = ins.s
<1>0. ins.s \in 0 .. 10 /\ ins.d \in 0 .. 10 /\ w \in Widths
  BY DEF Decoded
<1>1. Sound(q, b)
  BY DEF Full
<1>2. c = IF w = "D" /\ ins.d # ins.s /\ HotCovers(q, Span(e, off, 8)) THEN Cited(A.s, A.cites) ELSE k
  BY DEF CiteLoad, CiteBytes
<1>3. n = [h EXCEPT !.regs[ins.d] = v] \/ e # d.regs[ins.s]
  BY DEF LoadStep, Loaded, Bound
<1> DEFINE bytes == w = "D" /\ ins.d # ins.s /\ HotCovers(q, Span(e, off, 8))
<1>4. w = "D" => Bytes[w] = 8
  BY DEF Bytes
<1>5. ASSUME bytes PROVE c.s = A.s /\ c.cites = A.cites
  BY <1>2, <1>5 DEF Cited
<1>6. ASSUME ~ bytes PROVE CitesCell(q, c, b, e, off, w, p, w # "B")
  <2>1. c = k
    BY <1>2, <1>6
  <2> QED
    BY <1>1, <2>1, CellCites, Zenon
<1>7. ASSUME bytes PROVE CitesSlots(q, b, A, p)
  BY <1>1, BytesAgree
<1> HIDE DEF c, A, k, e
<1>8. Does(q, d, b) /\ d.cells = q.cells
  <2>1. CASE bytes
    BY <1>5, <1>7, <2>1, Zenon DEF CitesSlots
  <2>2. CASE ~ bytes
    BY <1>6, <2>2, Zenon DEF CitesCell
  <2> QED
    BY <2>1, <2>2
<1> HIDE DEF d
<1>9. Sound(d, b) /\ d.regs = q.regs /\ d.hot = q.hot
  BY <1>8 DEF Does
<1>10. n = [h EXCEPT !.regs[ins.d] = v]
  BY <1>3, <1>9 DEF e
<1>11. HotCovers(d, Span(e, off, Bytes[w])) = HotCovers(q, Span(e, off, Bytes[w]))
  BY <1>9 DEF HotCovers
<1>12. /\ Does(d, r.s, b) /\ Fit(r.s, b, r.v)
       /\ ~ covered => Cold(d, r.s, b, e, off, w) /\ Finds(d, r.v, e, off, w)
       /\ covered /\ w # "D" => Asks(r.s)
       /\ covered /\ w = "D" => \E y : Alike(d, y) /\ Hot(d, r.s, b, DwordSlots(y, e, off))
  BY <1>9, <1>11, ReadDoes, Zenon
<1> DEFINE t == r.s
\* The call promises what it cites, but for a bound of the value that is read.
<1>13. \/ Asks(t) \/ (x /\ q.hot # <<>>)
       \/ \E u : \A y \in c.cites : Promised(t, p, u, y) \/ (y = y0 /\ w # "B" /\ ~ IsVar(r.v))
  <2>1. CASE bytes
    <3>1. PICK y : Alike(d, y) /\ Hot(d, t, b, DwordSlots(y, e, off))
      BY <1>4, <1>12, <2>1, Zenon
    <3>2. Sound(y, b) /\ y.cells = q.cells
      BY <1>8, <1>9, <3>1, AlikeDoes DEF Alike, Does
    <3>3. Paired(q, A, DwordSlots(y, e, off))
      BY <1>1, <3>2, BytesAgree DEF A
    <3>4. Hot(A.s, t, b, DwordSlots(y, e, off))
      BY <1>5, <2>1, <3>1, Zenon DEF d
    <3> HIDE DEF t
    <3>5. \A z \in A.cites : Promised(t, p, "B", z)
      BY <1>7, <2>1, <3>3, <3>4, SlotsKeep
    <3> QED
      BY <1>5, <2>1, <3>5, Zenon
  <2>2. CASE ~ bytes /\ ~ covered
    <3>0. Cold(c.s, t, b, e, off, w) /\ Finds(d, r.v, e, off, w)
      BY <1>12, <2>2, Zenon DEF d
    <3>a. LookupCell(d, e, off, w) = LookupCell(q, e, off, w) /\ d.cells = q.cells
      BY <1>8, SameLookup
    <3>1. Finds(q, r.v, e, off, w)
      BY <3>0, <3>a, Zenon DEF Finds
    <3>2. \A z : Reload(q, e, off, w, p, z) => z = y0 /\ ~ IsVar(r.v)
      BY <3>1, Zenon DEF Reload, Finds
    <3> HIDE DEF t, y0, r
    <3>3. \A z \in c.cites : Promised(t, p, w, z) \/ (w # "B" /\ Reload(q, e, off, w, p, z))
      BY <1>6, <2>2, <3>0, CellKeeps, Zenon
    <3>4. \A z \in c.cites : Promised(t, p, w, z) \/ (z = y0 /\ w # "B" /\ ~ IsVar(r.v))
      BY <3>2, <3>3, Zenon
    <3> QED
      BY <3>4, Zenon
  <2>3. CASE covered /\ w # "D"
    BY <1>12, <2>3, Zenon
  <2>4. CASE covered /\ w = "D" /\ ~ bytes
    <3>1. ins.d = ins.s /\ q.hot # <<>>
      BY <1>4, <2>4, NoRegion
    <3> QED
      BY <2>4, <3>1, Zenon
  <2> QED
    BY <2>1, <2>2, <2>3, <2>4
<1>14. Advances(q, t, b)
  <2>1. Does(q, t, b)
    BY <1>1, <1>8, <1>12, DoesTrans
  <2> QED
    BY <2>1, FullDoes
<1>15. Fit(t, b, v)
  <2>1. Fit(t, b, <<"mod", r.v>>)
    BY DEF Fit
  <2> QED
    BY <1>12, <2>1, Zenon
<1>16. t.regs = q.regs /\ DOMAIN t.regs = 0 .. 10
  BY <1>9, <1>12, Zenon DEF Does
<1>a. y0[1] = "hReloadLt" /\ y0[3] = r.v /\ y0[4] = w
  BY DEF Bound
<1>17. (bound /\ h = Hyp(t, y0)) \/ (~ bound /\ h = t)
  OBVIOUS
<1>b. ~ bound /\ w # "B" /\ ~ IsVar(r.v) => y0[3][1] = "combo" /\ y0[4] = "D"
  BY <1>a
<1> HIDE DEF v, bound, t, h, n, x, y0
<1>18. Full(t, b)
  BY <1>14 DEF Advances
<1>19. CASE ~ bound /\ h = t
  <2>1. Around(t, n) /\ Advances(t, n, b)
    BY <1>0, <1>10, <1>15, <1>16, <1>18, <1>19, PutRegDoes
  <2>2. Holds(q, c, t, p, x)
    BY <1>13, <1>19, <1>a, <1>b, Zenon DEF Holds, Stray
  <2> QED
    BY <1>1, <1>14, <2>1, <2>2, KeepsAfter DEF n, d, c, x
<1>20. CASE bound /\ h = Hyp(t, y0)
  <2>1. Around(t, h) /\ Advances(t, h, b) /\ h.regs = t.regs /\ y0 \in Range(h.hyps)
    BY <1>18, <1>20, HypDoes
  <2>2. Full(h, b) /\ Fit(h, b, v) /\ DOMAIN h.regs = 0 .. 10
    BY <1>15, <1>16, <2>1, FitMore DEF Advances
  <2>3. Around(h, n) /\ Advances(h, n, b)
    BY <1>0, <1>10, <2>2, PutRegDoes
  <2>4. Advances(q, h, b)
    BY <1>1, <1>14, <2>1, AdvancesTrans
  <2>5. (Asks(t) => Asks(h)) /\ \A u, y : Promised(t, p, u, y) => Promised(h, p, u, y)
    BY <1>18, <2>1, AroundKeeps DEF Full
  <2>6. \A u : Promised(h, p, u, y0)
    BY <1>a, <2>1, Zenon DEF Promised
  <2>7. Holds(q, c, h, p, x)
    BY <1>13, <2>5, <2>6, Zenon DEF Holds
  <2> QED
    BY <1>1, <2>3, <2>4, <2>7, KeepsAfter DEF n, d, c, x
<1> QED
  BY <1>17, <1>19, <1>20

\* A store and the call that cites its cell: of an immediate word in a register
\* that call does not know.
LEMMA WriteKeeps ==
  ASSUME NEW q, NEW b, Full(q, b), NEW e, NEW off, NEW w, NEW p, NEW v, NEW x,
         NEW c, CitesCell(q, c, b, e, off, w, p, FALSE), Typed(c.s), Fit(q, b, v),
         (w = "W" /\ v[1] = "imm" /\ v[3] = "W" /\ HotCovers(q, Span(e, off, Bytes[w]))) => x
  PROVE  Keeps(q, c, WriteMem(c.s, e, off, w, v), b, p, x)
<1> DEFINE d == c.s
           n == WriteMem(d, e, off, w, v)
           covered == w # "B" /\ HotCovers(q, Span(e, off, Bytes[w]))
           word == w = "W" /\ v[1] = "imm" /\ v[3] = "W"
<1>1. Sound(q, b)
  BY DEF Full
<1>2. Does(q, d, b)
  BY DEF CitesCell
<1>3. Sound(d, b) /\ d.hot = q.hot /\ More(q, d)
  BY <1>2 DEF Does
<1>4. Fit(d, b, v)
  BY <1>3, FitMore
<1>5. HotCovers(d, Span(e, off, Bytes[w])) = HotCovers(q, Span(e, off, Bytes[w]))
  BY <1>3 DEF HotCovers
<1>6. Typed(d)
  OBVIOUS
<1> HIDE DEF d
<1>7. /\ Does(d, n, b)
      /\ ~ covered => Asks(n) \/ Cold(d, n, b, e, off, w)
      /\ covered /\ ~ word => Asks(n)
  BY <1>3, <1>4, <1>5, <1>6, WriteDoes, Zenon
<1> HIDE DEF n
<1>8. Advances(q, n, b)
  BY <1>1, <1>2, <1>7, DoesTrans, FullDoes
<1>9. Holds(q, c, n, p, x)
  <2>1. CASE covered /\ word
    <3>1. q.hot # <<>>
      BY <2>1, NoRegion
    <3> QED
      BY <2>1, <3>1 DEF Holds
  <2>2. CASE ~ covered /\ ~ Asks(n)
    <3>1. Cold(c.s, n, b, e, off, w)
      BY <1>7, <2>2, Zenon DEF d
    <3> QED
      BY <3>1, CellKeeps, Zenon DEF Holds
  <2> QED
    BY <1>7, <2>1, <2>2, Zenon DEF Holds
<1> QED
  BY <1>8, <1>9, Zenon DEF Keeps, n, d

\* stx
LEMMA StoreRegKeeps ==
  ASSUME NEW q, NEW b, b \in BOOLEAN, Full(q, b), Typed(q), NEW ins, Decoded(ins), ins.op = "stx", NEW p
  PROVE  LET c == CiteStoreReg(q, ins, p)
         IN  Keeps(q, c, StoreRegStep(c.s, ins), b, p, ins.w = "W" /\ ~ b)
<1> DEFINE c == CiteStoreReg(q, ins, p)
           e == q.regs[ins.d]
           u == q.regs[ins.s]
           v == IF ins.w = "B" THEN <<"mod", u>> ELSE u
           x == ins.w = "W" /\ ~ b
<1>0. ins.s \in 0 .. 10 /\ ins.d \in 0 .. 10
  BY DEF Decoded
<1>1. Sound(q, b) /\ Fit(q, b, u)
  BY <1>0 DEF Full, RegsFit
<1>2. c = CiteCell(q, e, ins.off, ins.w, FALSE, p)
  BY DEF CiteStoreReg
<1>3. CitesCell(q, c, b, e, ins.off, ins.w, p, FALSE)
  BY <1>1, <1>2, CellCites, Zenon
<1>4. Quiet(q, c.s)
  <2>1. Prepares(q, CiteCell(q, e, ins.off, ins.w, FALSE, p))
    BY CellCited, Zenon
  <2>2. Prepares(q, c)
    BY <1>2, <2>1, Zenon
  <2> HIDE DEF c
  <2> QED
    BY <2>2 DEF Prepares
<1> HIDE DEF c
<1>5. Typed(c.s) /\ c.s.regs = q.regs
  BY <1>4 DEF Quiet, Grown
<1>6. StoreRegStep(c.s, ins) = WriteMem(c.s, e, ins.off, ins.w, v)
  BY <1>5 DEF StoreRegStep
<1>7. Fit(q, b, v)
  <2>1. Fit(q, b, <<"mod", u>>)
    BY DEF Fit
  <2> QED
    BY <1>1, <2>1, Zenon
<1>8. ins.w = "W" /\ v[1] = "imm" /\ v[3] = "W" => x
  BY <1>7 DEF Fit
<1> HIDE DEF e, v, x
<1>9. Keeps(q, c, WriteMem(c.s, e, ins.off, ins.w, v), b, p, x)
  BY <1>3, <1>5, <1>7, <1>8, WriteKeeps
<1> QED
  BY <1>6, <1>9, Zenon DEF x, c

\* st
LEMMA StoreImmKeeps ==
  ASSUME NEW q, NEW b, Full(q, b), Typed(q), NEW ins, Decoded(ins), ins.op = "st", NEW p,
         b => ins.w # "W"
  PROVE  LET c == CiteStoreImm(q, ins, p)
         IN  Keeps(q, c, StoreImmStep(c.s, ins), b, p, FALSE)
<1> DEFINE c == CiteStoreImm(q, ins, p)
           e == q.regs[ins.d]
           off == ins.off
           w == ins.w
           v == IF w = "B" THEN <<"mod", Const(ins.imm)>> ELSE <<"imm", ins.imm, w>>
           A == CiteWord(q, e, off, p)
           bytes == w = "W" /\ HotCovers(q, Span(e, off, 4))
<1>0. ins.d \in 0 .. 10 /\ (w = "W" => Bytes[w] = 4)
  BY DEF Decoded, Bytes
<1>1. Sound(q, b)
  BY DEF Full
<1>2. c = IF bytes THEN Cited(A.s, A.cites) ELSE CiteCell(q, e, off, w, FALSE, p)
  BY DEF CiteStoreImm, CiteBytes
<1>3. Fit(q, b, v)
  <2>1. Fit(q, b, <<"mod", Const(ins.imm)>>)
    BY DEF Fit
  <2>2. Fit(q, b, <<"imm", ins.imm, w>>)
    BY DEF Fit
  <2> QED
    BY <2>1, <2>2, Zenon
<1>4. Quiet(q, c.s)
  <2>1. CASE bytes
    <3>1. c.s = A.s
      BY <1>2, <2>1 DEF Cited
    <3> QED
      BY <3>1, BytesCited
  <2>2. CASE ~ bytes
    <3>1. Prepares(q, CiteCell(q, e, off, w, FALSE, p))
      BY CellCited, Zenon
    <3>2. Prepares(q, c)
      BY <1>2, <2>2, <3>1, Zenon
    <3> HIDE DEF c
    <3> QED
      BY <3>2 DEF Prepares
  <2> QED
    BY <2>1, <2>2
<1>5. Typed(c.s) /\ c.s.regs = q.regs /\ c.s.hot = q.hot
  BY <1>4 DEF Quiet, Grown
<1>6. StoreImmStep(c.s, ins) = WriteMem(c.s, e, off, w, v)
  <2> HIDE DEF c
  <2> QED
    BY <1>5 DEF StoreImmStep
<1>7. CASE bytes
  <2>1. c.s = A.s /\ c.cites = A.cites
    BY <1>2, <1>7 DEF Cited
  <2>2. CitesSlots(q, b, A, p)
    BY <1>1, BytesAgree
  <2> DEFINE d == A.s
             n == WriteMem(d, e, off, w, v)
  <2>3. Does(q, d, b) /\ d.cells = q.cells
    BY <2>2 DEF CitesSlots
  <2>4. Typed(d) /\ d.hot = q.hot
    BY <1>5, <2>1
  <2>5. w # "B" /\ v[1] = "imm" /\ v[3] = "W"
    BY <1>7
  <2> HIDE DEF A, c, e, v
  <2>6. Sound(d, b) /\ Fit(d, b, v)
    BY <1>3, <2>3, FitMore DEF Does
  <2> HIDE DEF d
  <2>7. HotCovers(d, Span(e, off, Bytes[w]))
    BY <1>0, <1>7, <2>4 DEF HotCovers
  <2>8. Does(d, n, b) /\ Hot(d, n, b, WordSlots(d, e, off))
    BY <1>7, <2>4, <2>5, <2>6, <2>7, WriteDoes, Zenon
  <2>9. Paired(q, A, WordSlots(d, e, off))
    BY <1>1, <2>3, <2>6, BytesAgree DEF A
  <2> HIDE DEF n
  <2>10. \A y \in A.cites : Promised(n, p, "B", y)
    BY <2>2, <2>8, <2>9, SlotsKeep DEF d
  <2>11. Advances(q, n, b)
    BY <1>1, <2>3, <2>8, DoesTrans, FullDoes
  <2>12. Keeps(q, c, n, b, p, FALSE)
    BY <2>1, <2>10, <2>11, Zenon DEF Keeps, Holds
  <2>13. n = StoreImmStep(c.s, ins)
    BY <1>6, <2>1, Zenon DEF n, d
  <2> QED
    BY <2>12, <2>13, Zenon DEF c
<1>8. CASE ~ bytes
  <2>1. CitesCell(q, c, b, e, off, w, p, FALSE)
    BY <1>1, <1>2, <1>8, CellCites, Zenon
  <2>2. ~ (w = "W" /\ HotCovers(q, Span(e, off, Bytes[w])))
    BY <1>0, <1>8
  <2> HIDE DEF c, e, v
  <2>3. Keeps(q, c, WriteMem(c.s, e, off, w, v), b, p, FALSE)
    BY <1>3, <1>5, <2>1, <2>2, WriteKeeps
  <2> QED
    BY <1>6, <2>3, Zenon DEF c
<1> QED
  BY <1>7, <1>8

\* A value that no call has to declare.
LEMMA PlainFits ==
  ASSUME NEW q, NEW b
  PROVE  /\ \A k : Fit(q, b, Const(k)) /\ Fit(q, b, <<"raw", k>>) /\ Fit(q, b, <<"mask", k>>) /\ Fit(q, b, InitReg(k))
         /\ \A v, kind, k : Fit(q, b, Layer(v, kind, k))
<1>1. ASSUME NEW k PROVE Fit(q, b, Const(k)) /\ Fit(q, b, <<"raw", k>>) /\ Fit(q, b, <<"mask", k>>) /\ Fit(q, b, InitReg(k))
  BY DEF Fit, Const, InitReg
<1>2. ASSUME NEW v, NEW kind, NEW k PROVE Fit(q, b, Layer(v, kind, k))
  <2>1. Layer(v, kind, k)[1] = "add"
    BY DEF Layer
  <2> QED
    BY <2>1 DEF Fit
<1> QED
  BY <1>1, <1>2

\* The register forms.
LEMMA ComputeAdvances ==
  ASSUME NEW q, NEW b, Full(q, b), DOMAIN q.regs = 0 .. 10, NEW ins, Decoded(ins), NEW p
  PROVE  /\ ins.op \in {"mov", "movr", "add", "sub"} => Advances(q, MoveStep(q, ins), b)
         /\ ins.op = "alu" => /\ Advances(q, Alu64Step(q, ins), b) /\ Advances(q, Alu32Step(q, ins), b)
                              /\ Advances(q, DivRegStep(q, ins, p), b)
                              /\ <<"hnz", p>> \in Range(DivRegStep(q, ins, p).hyps)
<1> SUFFICES ASSUME ins.op \in {"mov", "movr", "add", "sub", "alu"}
             PROVE  /\ ins.op \in {"mov", "movr", "add", "sub"} => Advances(q, MoveStep(q, ins), b)
                    /\ ins.op = "alu" => /\ Advances(q, Alu64Step(q, ins), b) /\ Advances(q, Alu32Step(q, ins), b)
                                         /\ Advances(q, DivRegStep(q, ins, p), b)
                                         /\ <<"hnz", p>> \in Range(DivRegStep(q, ins, p).hyps)
  OBVIOUS
<1>1. ins.d \in 0 .. 10
  BY DEF Decoded
<1>2. ASSUME NEW v, Fit(q, b, v) PROVE Advances(q, [q EXCEPT !.regs[ins.d] = v], b)
  BY <1>1, <1>2, PutRegDoes
<1>3. CASE ins.op \in {"mov", "movr", "add", "sub"}
  <2> DEFINE v == CASE ins.op = "mov" -> Const(ins.imm)
                    [] ins.op = "movr" -> q.regs[ins.s]
                    [] ins.op = "add" -> Layer(q.regs[ins.d], "wrap", ins.imm)
                    [] ins.op = "sub" -> Layer(q.regs[ins.d], "sub", ins.imm)
  <2>1. MoveStep(q, ins) = [q EXCEPT !.regs[ins.d] = v]
    BY DEF MoveStep
  <2>2. ins.op = "movr" => Fit(q, b, q.regs[ins.s])
    BY DEF Decoded, Full, RegsFit
  <2>3. /\ Fit(q, b, Const(ins.imm)) /\ Fit(q, b, Layer(q.regs[ins.d], "wrap", ins.imm))
        /\ Fit(q, b, Layer(q.regs[ins.d], "sub", ins.imm))
    BY PlainFits
  <2>4. v \in {Const(ins.imm), Layer(q.regs[ins.d], "wrap", ins.imm), Layer(q.regs[ins.d], "sub", ins.imm)}
        \/ (ins.op = "movr" /\ v = q.regs[ins.s])
    BY <1>3
  <2> HIDE DEF v
  <2>5. Fit(q, b, v)
    BY <2>2, <2>3, <2>4
  <2> QED
    BY <1>2, <1>3, <2>1, <2>5
<1>4. CASE ins.op = "alu"
  <2>1. Advances(q, Alu64Step(q, ins), b)
    <3> DEFINE y == <<ins.kind, q.regs[ins.d], IF ins.kind = "reg64" THEN q.regs[ins.s] ELSE "imm">>
               v == IF ins.kind = "mask64" THEN <<"mask", q.regs[ins.d]>> ELSE <<"raw", y>>
    <3>1. Alu64Step(q, ins) = [q EXCEPT !.regs[ins.d] = v]
      BY DEF Alu64Step
    <3> HIDE DEF y
    <3>2. Fit(q, b, v)
      BY PlainFits
    <3> HIDE DEF v
    <3> QED
      BY <1>2, <3>1, <3>2
  <2>2. Advances(q, Alu32Step(q, ins), b)
    <3> DEFINE y == <<ins.kind, q.regs[ins.d], IF ins.kind = "reg32" THEN q.regs[ins.s] ELSE "imm">>
               v == <<"raw", y>>
    <3>1. Alu32Step(q, ins) = [q EXCEPT !.regs[ins.d] = v]
      BY DEF Alu32Step
    <3> HIDE DEF y
    <3>2. Fit(q, b, v)
      BY PlainFits
    <3> HIDE DEF v
    <3> QED
      BY <1>2, <3>1, <3>2
  <2>3. Advances(q, DivRegStep(q, ins, p), b) /\ <<"hnz", p>> \in Range(DivRegStep(q, ins, p).hyps)
    <3> DEFINE h == Hyp(q, <<"hnz", p>>)
               y == <<ins.kind, h.regs[ins.d], q.regs[ins.s]>>
               v == <<"raw", y>>
               n == [h EXCEPT !.regs[ins.d] = v]
    <3>1. DivRegStep(q, ins, p) = n
      BY DEF DivRegStep
    <3>2. Advances(q, h, b) /\ h.regs = q.regs /\ <<"hnz", p>> \in Range(h.hyps)
      BY HypDoes
    <3> HIDE DEF h, y
    <3>3. Fit(h, b, v) /\ Full(h, b)
      BY <3>2, PlainFits DEF Advances
    <3> HIDE DEF v
    <3>4. Around(h, n) /\ Advances(h, n, b)
      BY <1>1, <3>2, <3>3, PutRegDoes
    <3> HIDE DEF n
    <3>5. Advances(q, n, b)
      BY <3>2, <3>4, AdvancesTrans DEF Full
    <3> QED
      BY <3>1, <3>2, <3>4, <3>5, Zenon DEF Around
  <2> QED
    BY <1>4, <2>1, <2>2, <2>3
<1> QED
  BY <1>3, <1>4

\* A conditional jump adds its condition.
LEMMA BranchAdvances ==
  ASSUME NEW q, NEW b, Full(q, b), NEW ins, NEW taken
  PROVE  LET n == BranchStep(q, ins, taken)
         IN  Advances(q, n, b) /\ Len(q.branches) \in Nat /\ Len(q.branches) < Len(n.branches)
<1> DEFINE c == [cond |-> ins.cond, bits |-> ins.bits, d |-> q.regs[ins.d], imm |-> ins.imm, taken |-> taken]
           x == Append(q.branches, c)
           n == [q EXCEPT !.branches = x]
<1>0. BranchStep(q, ins, taken) = n
  BY DEF BranchStep
<1> HIDE DEF c
<1>1. DOMAIN q = SymFields /\ Sound(q, b) /\ IsList(q.hyps) /\ IsList(q.branches)
  BY DEF Full, Sound
<1>2. IsList(x) /\ Len(x) = Len(q.branches) + 1 /\ Len(q.branches) \in Nat
  BY <1>1, AppendList
<1> HIDE DEF x
<1>3. Around(q, n) /\ n.regs = q.regs /\ n.stack = q.stack /\ n.branches = x
  BY <1>1, <1>2 DEF Around, SymFields
<1> HIDE DEF n
<1>4. Sound(n, b) /\ More(q, n) /\ \A y : Fit(q, b, y) => Fit(n, b, y)
  BY <1>1, <1>3, AroundKeeps
<1>5. RegsFit(n, b) /\ FramesFit(n, b)
  BY <1>3, <1>4, Zenon DEF Full, RegsFit, FramesFit
<1>6. Len(q.branches) < Len(n.branches)
  BY <1>2, <1>3
<1>7. Advances(q, n, b)
  BY <1>3, <1>4, <1>5, Zenon DEF Advances, Full, Around
<1> QED
  BY <1>0, <1>2, <1>6, <1>7, Zenon

\* A call saves registers that fit, and layers the frame pointer.
LEMMA CallAdvances ==
  ASSUME NEW q, NEW b, Full(q, b), Typed(q), NEW p
  PROVE  Advances(q, CallStep(q, p), b)
<1> DEFINE f == [pc |-> p, saved |-> [r \in 6 .. 10 |-> q.regs[r]]]
           v == Layer(q.regs[10], "nat", 4096)
           g == [q.regs EXCEPT ![10] = v]
           k == Append(q.stack, f)
           n == [q EXCEPT !.stack = k, !.regs = g]
<1>0. CallStep(q, p) = n
  BY DEF CallStep, Typed, SymFields
<1>1. \A x \in 6 .. 10 : f.saved[x] = q.regs[x]
  OBVIOUS
<1>2. Fit(q, b, v)
  BY PlainFits
<1> HIDE DEF f, v
<1>3. DOMAIN q.regs = 0 .. 10 /\ IsList(q.stack)
  BY DEF Typed, GoodRegs, GoodFrames
<1>4. \A x \in 0 .. 10 : g[x] = v \/ g[x] = q.regs[x]
  BY <1>3
<1>5. /\ IsList(k) /\ Len(k) = Len(q.stack) + 1 /\ Len(q.stack) \in Nat
      /\ \A i \in 1 .. Len(q.stack) : k[i] = q.stack[i]
      /\ k[Len(q.stack) + 1] = f
  BY <1>3, AppendList
<1> HIDE DEF g, k
<1>6. DOMAIN q = SymFields /\ Sound(q, b) /\ IsList(q.hyps) /\ IsList(q.branches)
  BY DEF Full, Sound
<1>7. Len(q.branches) \in Nat
  BY <1>6, ListFacts
<1>8. Around(q, n) /\ n.regs = g /\ n.stack = k
  BY <1>6, <1>7 DEF Around, SymFields
<1> HIDE DEF n
<1>9. Sound(n, b) /\ More(q, n) /\ \A y : Fit(q, b, y) => Fit(n, b, y)
  BY <1>6, <1>8, AroundKeeps
<1>10. RegsFit(n, b)
  BY <1>2, <1>4, <1>8, <1>9, Zenon DEF Full, RegsFit
<1>11. FramesFit(n, b)
  <2> SUFFICES ASSUME NEW i \in 1 .. Len(k), NEW x \in 6 .. 10 PROVE Fit(n, b, k[i].saved[x])
    BY <1>8 DEF FramesFit
  <2>1. CASE i \in 1 .. Len(q.stack)
    BY <1>5, <1>9, <2>1 DEF Full, FramesFit
  <2>2. CASE i = Len(q.stack) + 1
    <3>1. Fit(q, b, q.regs[x])
      BY DEF Full, RegsFit
    <3> QED
      BY <1>1, <1>5, <1>9, <2>2, <3>1
  <2> QED
    BY <1>5, <2>1, <2>2
<1> QED
  BY <1>0, <1>8, <1>9, <1>10, <1>11, Zenon DEF Advances, Full, Around

\* A return restores registers that fit.
LEMMA PopAdvances ==
  ASSUME NEW q, NEW b, Full(q, b), Typed(q), q.stack # <<>>
  PROVE  Advances(q, PopFrame(q), b)
<1> DEFINE f == Last(q.stack)
           g == [r \in DOMAIN q.regs |-> IF r \in 6 .. 10 THEN f.saved[r] ELSE q.regs[r]]
           k == Front(q.stack)
           n == [q EXCEPT !.stack = k, !.regs = g]
<1>0. PopFrame(q) = n
  BY DEF PopFrame, Typed, SymFields
<1>1. DOMAIN q.regs = 0 .. 10 /\ IsList(q.stack)
  BY DEF Typed, GoodRegs, GoodFrames
<1>2. Len(q.stack) \in Nat /\ Len(q.stack) # 0 /\ q.stack \in Seq(Range(q.stack))
  <2>1. q.stack \in Seq(Range(q.stack))
    BY <1>1 DEF IsList
  <2> QED
    BY <1>1, <2>1, ListFacts, EmptySeq
<1>3. \A x \in 6 .. 10 : Fit(q, b, f.saved[x])
  BY <1>2 DEF Full, FramesFit, Last
<1>4. \A x \in 0 .. 10 : (x \in 6 .. 10 /\ g[x] = f.saved[x]) \/ g[x] = q.regs[x]
  BY <1>1
<1>5. /\ k \in Seq(Range(q.stack)) /\ Len(k) = Len(q.stack) - 1
      /\ \A i \in 1 .. Len(q.stack) - 1 : k[i] = q.stack[i]
  BY <1>2 DEF Front
<1> HIDE DEF f, g, k
<1>6. DOMAIN q = SymFields /\ Sound(q, b) /\ IsList(q.hyps) /\ IsList(q.branches)
  BY DEF Full, Sound
<1>7. Len(q.branches) \in Nat
  BY <1>6, ListFacts
<1>8. Around(q, n) /\ n.regs = g /\ n.stack = k
  BY <1>6, <1>7 DEF Around, SymFields
<1> HIDE DEF n
<1>9. Sound(n, b) /\ More(q, n) /\ \A y : Fit(q, b, y) => Fit(n, b, y)
  BY <1>6, <1>8, AroundKeeps
<1>10. RegsFit(n, b)
  BY <1>3, <1>4, <1>8, <1>9, Zenon DEF Full, RegsFit
<1>11. FramesFit(n, b)
  <2>1. \A i \in 1 .. Len(k) : i \in 1 .. Len(q.stack) /\ k[i] = q.stack[i]
    BY <1>2, <1>5
  <2> QED
    BY <1>8, <1>9, <2>1, Zenon DEF Full, FramesFit
<1> QED
  BY <1>0, <1>8, <1>9, <1>10, <1>11, Zenon DEF Advances, Full, Around

-----------------------------------------------------------------------------
(* Aliases are written out, and every citation is declared.                    *)

\* A citation that the state declares.
Decl(q, c) ==
  /\ c[1] \in {"var", "lt"} => c[2] \in Values(q)
  /\ c[1] = "h_branch" => c[2] \in Nat /\ c[2] < Len(q.branches)
  /\ c[1] \notin {"var", "lt", "h_branch"} => c \in Range(q.hyps)
Met(q, p, u, c) == Promised(q, p, u, c) \/ Decl(q, c)

\* A declaration stays one.
LEMMA FineMore ==
  ASSUME NEW q, NEW n, NEW b, Sound(q, b), Sound(n, b), More(q, n), NEW c, Decl(q, c)
  PROVE  Decl(n, c)
<1>1. Len(q.branches) \in Nat /\ Len(n.branches) \in Nat /\ Len(q.branches) <= Len(n.branches)
  BY ListFacts DEF Sound, More
<1>2. c[1] = "h_branch" /\ Decl(q, c) => c[2] \in Nat /\ c[2] < Len(n.branches)
  BY <1>1 DEF Decl
<1> QED
  BY <1>2, Zenon DEF Decl, More

\* Lists one after the other.
LEMMA ConcatList ==
  ASSUME NEW l, NEW m, IsList(l), IsList(m)
  PROVE  IsList(l \o m) /\ Range(l \o m) = Range(l) \cup Range(m)
<1> DEFINE T == Range(l) \cup Range(m)
<1>1. l \in Seq(T) /\ m \in Seq(T)
  <2>1. l \in Seq(Range(l)) /\ m \in Seq(Range(m))
    BY DEF IsList
  <2> QED
    BY <2>1
<1>2. /\ Len(l) \in Nat /\ Len(m) \in Nat /\ DOMAIN l = 1 .. Len(l) /\ DOMAIN m = 1 .. Len(m)
  BY ListFacts
<1> DEFINE c == l \o m
<1>3. c \in Seq(T) /\ Len(c) = Len(l) + Len(m) /\ DOMAIN c = 1 .. Len(l) + Len(m)
      /\ \A i \in 1 .. Len(l) + Len(m) : c[i] = IF i <= Len(l) THEN l[i] ELSE m[i - Len(l)]
  <2> HIDE DEF T
  <2> QED
    BY <1>1
<1> HIDE DEF c
<1>4. IsList(c)
  BY <1>3, ListOf
<1>5. ASSUME NEW i \in 1 .. Len(l) PROVE i \in 1 .. Len(l) + Len(m) /\ c[i] = l[i]
  BY <1>2, <1>3
<1>6. ASSUME NEW i \in 1 .. Len(m) PROVE i + Len(l) \in 1 .. Len(l) + Len(m) /\ c[i + Len(l)] = m[i]
  BY <1>2, <1>3
<1>7. Range(l) \subseteq Range(c)
  BY <1>2, <1>3, <1>5 DEF Range
<1>8. Range(m) \subseteq Range(c)
  BY <1>2, <1>3, <1>6 DEF Range
<1>9. Range(c) \subseteq T
  BY <1>3 DEF Range
<1> QED
  BY <1>4, <1>7, <1>8, <1>9 DEF c

\* take_alias_hypotheses: with no name left open, every promise is kept.
LEMMA AliasesKeep ==
  ASSUME NEW q, NEW b, Full(q, b), NEW p
  PROVE  LET n == TakeAliases(q, p)
         IN  /\ Advances(q, n, b)
             /\ q.reserved = <<>> => \A u, c : Met(q, p, u, c) => Decl(n, c)
<1> DEFINE a == IF q.alias THEN <<<<"h_alias", p>>>> ELSE <<>>
           m == [k \in 1 .. q.slotAliases |-> <<"h_alias", p, k - 1>>]
           h == q.hyps \o a \o m
           n == [q EXCEPT !.hyps = h, !.alias = FALSE, !.slotAliases = 0]
<1>0. TakeAliases(q, p) = n
  BY DEF TakeAliases
<1>1. DOMAIN q = SymFields /\ Sound(q, b) /\ IsList(q.hyps) /\ IsList(q.branches) /\ q.slotAliases \in Nat /\ q.alias \in BOOLEAN
  BY DEF Full, Sound
<1>2. IsList(a) /\ (q.alias = TRUE => <<"h_alias", p>> \in Range(a))
  <2>1. CASE q.alias = TRUE
    <3> DEFINE x == <<"h_alias", p>>
    <3>1. a = <<x>>
      BY <2>1
    <3> HIDE DEF x
    <3>2. <<x>> \in Seq({x}) /\ Len(<<x>>) = 1
      OBVIOUS
    <3>a. <<x>>[1] = x
      OBVIOUS
    <3>b. IsList(<<x>>) /\ DOMAIN <<x>> = 1 .. 1
      BY <3>2, ListOf
    <3>3. IsList(<<x>>) /\ x \in Range(<<x>>)
      BY <3>a, <3>b DEF Range
    <3> QED
      BY <3>1, <3>3 DEF x
  <2>2. CASE q.alias = FALSE
    BY <2>2, NoList
  <2> QED
    BY <1>1, <2>1, <2>2
<1>3. IsList(m) /\ \A j \in Nat : j < q.slotAliases => <<"h_alias", p, j>> \in Range(m)
  <2>1. m \in [1 .. q.slotAliases -> Range(m)] /\ DOMAIN m = 1 .. q.slotAliases
    BY DEF Range
  <2>2. IsList(m)
    <3> HIDE DEF m
    <3> QED
      BY <1>1, <2>1, FunctionList
  <2>3. ASSUME NEW j \in Nat, j < q.slotAliases PROVE <<"h_alias", p, j>> \in Range(m)
    <3>1. j + 1 \in 1 .. q.slotAliases /\ (j + 1) - 1 = j
      BY <1>1, <2>3
    <3>2. m[j + 1] = <<"h_alias", p, j>>
      BY <3>1
    <3> HIDE DEF m
    <3> QED
      BY <2>1, <3>1, <3>2 DEF Range
  <2> QED
    BY <2>2, <2>3
<1> HIDE DEF a, m
<1>4. IsList(h) /\ Range(h) = Range(q.hyps) \cup Range(a) \cup Range(m)
  <2>1. IsList(q.hyps \o a) /\ Range(q.hyps \o a) = Range(q.hyps) \cup Range(a)
    BY <1>1, <1>2, ConcatList
  <2> DEFINE g == q.hyps \o a
  <2> HIDE DEF g
  <2>2. IsList(g \o m) /\ Range(g \o m) = Range(g) \cup Range(m)
    BY <1>3, <2>1, ConcatList DEF g
  <2> QED
    BY <2>1, <2>2 DEF g
<1> HIDE DEF h
<1>5. /\ DOMAIN n = SymFields /\ n.regs = q.regs /\ n.stack = q.stack /\ n.hot = q.hot
      /\ n.cells = q.cells /\ n.pre = q.pre /\ n.hyps = h /\ n.branches = q.branches
      /\ n.reserved = q.reserved /\ n.slotAliases = 0 /\ n.alias = FALSE
  BY <1>1 DEF SymFields
<1> HIDE DEF n
<1>6. Values(n) = Values(q)
  BY <1>5 DEF Values
<1>7. \A y : Fit(q, b, y) => Fit(n, b, y)
  BY <1>6, Zenon DEF Fit
<1>8. Sound(n, b)
  <2>1. n.slotAliases \in Nat
    BY <1>5
  <2>a. n.alias \in BOOLEAN
    BY <1>5, Zenon
  <2>2. \A i \in 1 .. Len(q.cells) : "value" \in DOMAIN q.cells[i] /\ Fit(n, b, q.cells[i].value)
    BY <1>1, <1>7, Zenon DEF Sound
  <2>3. IsList(q.pre) /\ IsList(q.cells) /\ IsList(q.reserved)
    BY <1>1 DEF Sound
  <2> QED
    BY <1>1, <1>4, <1>5, <2>1, <2>2, <2>3, <2>a, Zenon DEF Sound
<1>9. Len(q.branches) \in Nat
  BY <1>1, ListFacts
<1>10. Len(q.branches) <= Len(n.branches)
  BY <1>5, <1>9
<1>11. More(q, n)
  BY <1>4, <1>5, <1>6, <1>10, Zenon DEF More
<1>12. Advances(q, n, b)
  BY <1>5, <1>7, <1>8, <1>11, Zenon DEF Advances, Full, RegsFit, FramesFit
<1>13. ASSUME q.reserved = <<>>, NEW u, NEW c, Met(q, p, u, c) PROVE Decl(n, c)
  <2>1. CASE Decl(q, c)
    BY <1>1, <1>8, <1>11, <2>1, FineMore
  <2>2. CASE c[1] \in {"var", "lt"} /\ c[2] \in Open(q, u)
    <3>1. Range(q.reserved) = {}
      BY <1>13, NoList DEF Range
    <3>2. c[2] \in Values(n)
      BY <1>6, <2>2, <3>1 DEF Open
    <3> QED
      BY <2>2, <3>2 DEF Decl
  <2>3. CASE c = <<"h_alias", p>> /\ q.alias = TRUE
    <3>1. c \in Range(n.hyps)
      BY <1>2, <1>4, <1>5, <2>3
    <3>2. c[1] = "h_alias"
      BY <2>3
    <3> QED
      BY <3>1, <3>2 DEF Decl
  <2>4. CASE \E j \in Nat : j < q.slotAliases /\ c = <<"h_alias", p, j>>
    <3>1. PICK j \in Nat : j < q.slotAliases /\ c = <<"h_alias", p, j>>
      BY <2>4
    <3>2. c \in Range(m)
      BY <1>3, <3>1
    <3>3. c \in Range(n.hyps)
      BY <1>4, <1>5, <3>2
    <3>4. c[1] = "h_alias"
      BY <3>1
    <3> QED
      BY <3>3, <3>4 DEF Decl
  <2>5. CASE c[1] = "hReloadLt" /\ c \in Range(q.hyps)
    <3>1. c \in Range(n.hyps)
      BY <1>4, <1>5, <2>5
    <3> QED
      BY <2>5, <3>1 DEF Decl
  <2> QED
    BY <1>13, <2>1, <2>2, <2>3, <2>4, <2>5, Zenon DEF Met, Promised
<1> QED
  BY <1>0, <1>12, <1>13, Zenon

\* The two forms whose specification call does not match the step in a
\* byte-granular region; b holds where no word immediate was stored.
Odd(ins, b) ==
  \/ ins.op = "ldx" /\ ins.w = "D" /\ ins.d = ins.s
  \/ ins.op = "stx" /\ ins.w = "W" /\ ~ b
Answers(q, c, n, b, p, ins) ==
  /\ Advances(q, n, b)
  /\ Asks(n) \/ (Odd(ins, b) /\ q.hot # <<>>) \/ Stray(c.cites) \/ \E u : \A y \in c.cites : Met(n, p, u, y)

\* A specification call and its step.
LEMMA StepAnswers ==
  ASSUME NEW q, NEW b \in BOOLEAN, Full(q, b), Typed(q), NEW ins, Decoded(ins), NEW p, NEW v3 \in BOOLEAN, NEW taken,
         b => ~ (ins.op = "st" /\ ins.w = "W"),
         Step(SpecCallFor(q, ins, p, v3).s, ins, p, taken).err = "none"
  PROVE  Answers(q, SpecCallFor(q, ins, p, v3), Step(SpecCallFor(q, ins, p, v3).s, ins, p, taken).s, b, p, ins)
<1> DEFINE c == SpecCallFor(q, ins, p, v3)
           t == Step(c.s, ins, p, taken)
<1>a. Sound(q, b) /\ DOMAIN q.regs = 0 .. 10
  BY DEF Full, Typed, GoodRegs
<1>b. ASSUME NEW y PROVE Done(y).s = y /\ Failed(q, y).err = y
  BY DEF Done, Failed
<1>c. ASSUME NEW y PROVE Cited(q, y).s = q /\ Cited(q, y).cites = y /\ NoSpec(q).s = q /\ NoSpec(q).cites = {}
  BY DEF Cited, NoSpec
<1> HIDE DEF c, t
<1>1. ASSUME NEW n, NEW x, Keeps(q, c, n, b, p, x), x => Odd(ins, b), t = Done(n) PROVE Answers(q, c, t.s, b, p, ins)
  BY <1>1, <1>b, Zenon DEF Keeps, Holds, Answers, Met
<1>2. ASSUME NEW n, Advances(q, n, b), c.cites = {}, t = Done(n) PROVE Answers(q, c, t.s, b, p, ins)
  <2>1. t.s = n
    BY <1>2, <1>b
  <2>2. \A y \in c.cites : Met(n, p, "B", y)
    BY <1>2
  <2> QED
    BY <1>2, <2>1, <2>2, Zenon DEF Answers
<1>3. CASE ins.op = "ldx"
  <2>1. c = CiteLoad(q, ins, p)
    BY <1>3, Zenon DEF SpecCallFor, c
  <2>2. t = Done(LoadStep(c.s, ins, p))
    BY <1>3, Zenon DEF Step, t
  <2>3. Keeps(q, c, LoadStep(c.s, ins, p), b, p, ins.w = "D" /\ ins.d = ins.s)
    BY <1>3, <1>a, <2>1, LoadKeeps, Zenon
  <2>4. (ins.w = "D" /\ ins.d = ins.s) => Odd(ins, b)
    BY <1>3, Zenon DEF Odd
  <2>5. Answers(q, c, t.s, b, p, ins)
    BY <1>1, <2>2, <2>3, <2>4, Zenon
  <2> QED
    BY <2>5 DEF c, t
<1>4. CASE ins.op = "stx"
  <2>1. c = CiteStoreReg(q, ins, p)
    BY <1>4, Zenon DEF SpecCallFor, c
  <2>2. t = Done(StoreRegStep(c.s, ins))
    BY <1>4, Zenon DEF Step, t
  <2>3. Keeps(q, c, StoreRegStep(c.s, ins), b, p, ins.w = "W" /\ ~ b)
    BY <1>4, <2>1, StoreRegKeeps, Zenon
  <2>4. (ins.w = "W" /\ ~ b) => Odd(ins, b)
    BY <1>4, Zenon DEF Odd
  <2>5. Answers(q, c, t.s, b, p, ins)
    BY <1>1, <2>2, <2>3, <2>4, Zenon
  <2> QED
    BY <2>5 DEF c, t
<1>5. CASE ins.op = "st"
  <2>1. c = CiteStoreImm(q, ins, p)
    BY <1>5, Zenon DEF SpecCallFor, c
  <2>2. t = Done(StoreImmStep(c.s, ins))
    BY <1>5, Zenon DEF Step, t
  <2>3. b => ins.w # "W"
    BY <1>5
  <2>4. Keeps(q, c, StoreImmStep(c.s, ins), b, p, FALSE)
    BY <1>5, <2>1, <2>3, StoreImmKeeps, Zenon
  <2>5. Answers(q, c, t.s, b, p, ins)
    BY <1>1, <2>2, <2>4, Zenon
  <2> QED
    BY <2>5 DEF c, t
<1>6. CASE ins.op \in {"mov", "movr", "add", "sub"}
  <2>1. c.s = q /\ c.cites = {}
    <3>1. c = Cited(q, {}) \/ c = NoSpec(q)
      BY <1>6, Zenon DEF SpecCallFor, CiteMove, c
    <3> QED
      BY <1>c, <3>1
  <2>2. t = Done(MoveStep(q, ins))
    BY <1>6, <2>1, Zenon DEF Step, t
  <2>3. Advances(q, MoveStep(q, ins), b)
    BY <1>6, <1>a, ComputeAdvances
  <2>4. Answers(q, c, t.s, b, p, ins)
    BY <1>2, <2>1, <2>2, <2>3, Zenon
  <2> QED
    BY <2>4 DEF c, t
<1>7. CASE ins.op = "alu" /\ ins.kind # "divreg"
  <2>1. ins.kind \in AluKinds
    BY <1>7 DEF Decoded
  <2>2. c = Cited(q, {})
    BY <1>7, <2>1, Zenon DEF SpecCallFor, CiteAlu64, CiteAlu32, AluKinds, c
  <2>3. c.s = q /\ c.cites = {}
    BY <1>c, <2>2
  <2>4. t = Done(Alu64Step(q, ins)) \/ t = Done(Alu32Step(q, ins))
    BY <1>7, <2>1, <2>3, Zenon DEF Step, AluKinds, t
  <2>5. Advances(q, Alu64Step(q, ins), b) /\ Advances(q, Alu32Step(q, ins), b)
    BY <1>7, <1>a, ComputeAdvances
  <2>6. Answers(q, c, t.s, b, p, ins)
    BY <1>2, <2>3, <2>4, <2>5, Zenon
  <2> QED
    BY <2>6 DEF c, t
<1>8. CASE ins.op = "alu" /\ ins.kind = "divreg"
  <2> DEFINE n == DivRegStep(q, ins, p)
             y == <<"hnz", p>>
  <2>1. c = Cited(q, {y})
    BY <1>8 DEF SpecCallFor, CiteDivReg, c
  <2>2. c.s = q /\ c.cites = {y}
    BY <1>c, <2>1
  <2>3. t = Done(n)
    BY <1>8, <2>2 DEF Step, t
  <2>4. Advances(q, n, b) /\ y \in Range(n.hyps)
    BY <1>8, <1>a, ComputeAdvances
  <2>5. t.s = n
    BY <1>b, <2>3
  <2> HIDE DEF n
  <2>6. Decl(n, y)
    <3>1. y[1] = "hnz"
      OBVIOUS
    <3> HIDE DEF y
    <3> QED
      BY <2>4, <3>1 DEF Decl
  <2>7. \A z \in c.cites : Met(n, p, "B", z)
    BY <2>2, <2>6, Zenon DEF Met
  <2>8. Answers(q, c, t.s, b, p, ins)
    BY <2>4, <2>5, <2>7, Zenon DEF Answers
  <2> QED
    BY <2>8 DEF c, t
<1>9. CASE ins.op = "jcc"
  <2> DEFINE n == BranchStep(q, ins, taken)
             y == <<"h_branch", Len(q.branches)>>
  <2>1. c = Cited(q, {y})
    BY <1>9, Zenon DEF SpecCallFor, CiteJump, CiteJump32, c
  <2>2. c.s = q /\ c.cites = {y}
    BY <1>c, <2>1
  <2>3. t = Done(n)
    BY <1>9, <2>2, Zenon DEF Step, t
  <2>4. Advances(q, n, b) /\ Len(q.branches) \in Nat /\ Len(q.branches) < Len(n.branches)
    BY BranchAdvances
  <2>5. t.s = n
    BY <1>b, <2>3
  <2> HIDE DEF n
  <2>6. Decl(n, y)
    <3>1. y[1] = "h_branch" /\ y[2] = Len(q.branches)
      OBVIOUS
    <3> HIDE DEF y
    <3> QED
      BY <2>4, <3>1 DEF Decl
  <2>7. \A z \in c.cites : Met(n, p, "B", z)
    BY <2>2, <2>6, Zenon DEF Met
  <2>8. Answers(q, c, t.s, b, p, ins)
    BY <2>4, <2>5, <2>7, Zenon DEF Answers
  <2> QED
    BY <2>8 DEF c, t
<1>10. CASE ins.op \in {"call", "sys", "callx", "ja"}
  <2>1. c.s = q /\ c.cites = {}
    <3>1. c = Cited(q, {}) \/ c = NoSpec(q)
      BY <1>10, Zenon DEF SpecCallFor, CiteCall, c
    <3> QED
      BY <1>c, <3>1
  <2>2. t = Done(CallStep(q, p)) \/ t = Done(q)
    BY <1>10, <2>1, Zenon DEF Step, t
  <2>3. Advances(q, CallStep(q, p), b)
    BY CallAdvances
  <2>4. Advances(q, q, b)
    BY <1>a, DoesNothing, FullDoes
  <2>5. Answers(q, c, t.s, b, p, ins)
    BY <1>2, <2>1, <2>2, <2>3, <2>4, Zenon
  <2> QED
    BY <2>5 DEF c, t
<1>11. CASE ins.op \in {"exit", "bad"}
  <2>1. t = Failed(c.s, "OpcodeUnmodeled")
    BY <1>11, Zenon DEF Step, t
  <2>2. t.err = "OpcodeUnmodeled"
    BY <2>1 DEF Failed
  <2> QED
    BY <2>2 DEF c, t
<1> QED
  BY <1>3, <1>4, <1>5, <1>6, <1>7, <1>8, <1>9, <1>10, <1>11 DEF Decoded, Ops

-----------------------------------------------------------------------------
(* What syscalls declare.                                                      *)

\* The parts of a syscall's effect, one after the other.
LEMMA EmitParts ==
  ASSUME NEW q, NEW b, Sound(q, b), NEW n, Does(q, n, b)
  PROVE  /\ Does(q, Allocate(n), b)
         /\ \A sp, w : Does(q, PushClause(n, sp, w), b)
         /\ \A cs, g : Does(q, Clauses(n, cs, g), b)
         /\ \A e, off, len, key : Does(q, NoteAccess(n, e, off, len, key), b)
         /\ \A e, off, len, v : Does(q, PushAtom(n, e, off, len, v), b)
         /\ \A x : Does(q, [n EXCEPT !.post = x], b) /\ Does(q, [n EXCEPT !.blobs = x], b)
         /\ \A e : Does(q, RecordSize(n, e), b)
<1>0. Sound(n, b)
  BY DEF Does
<1>1. ASSUME NEW m, Does(n, m, b) PROVE Does(q, m, b)
  BY <1>1, DoesTrans
<1>2. ASSUME NEW m, Alike(n, m) PROVE Does(q, m, b)
  <2>1. Does(n, m, b)
    BY <1>0, <1>2, AlikeDoes
  <2> QED
    BY <1>1, <2>1
<1>3. Does(q, Allocate(n), b)
  <2>1. Does(n, Allocate(n), b)
    BY <1>0, AllocateDoes
  <2> QED
    BY <1>1, <2>1
<1>4. \A sp, w : Does(q, PushClause(n, sp, w), b)
  BY <1>0, <1>2, Unrelated, Zenon
<1>5. \A cs, g : Does(q, Clauses(n, cs, g), b)
  <2> SUFFICES ASSUME NEW cs, NEW g PROVE Does(q, Clauses(n, cs, g), b)
    OBVIOUS
  <2>1. \E x : Clauses(n, cs, g) = [n EXCEPT !.rr = x]
    BY DEF Clauses
  <2>2. \A x : Alike(n, [n EXCEPT !.rr = x])
    BY <1>0, Unrelated, Zenon
  <2>3. Alike(n, Clauses(n, cs, g))
    BY <2>1, <2>2
  <2> QED
    BY <1>2, <2>3
<1>6. \A e, off, len, key : Does(q, NoteAccess(n, e, off, len, key), b)
  BY <1>0, <1>2, Unrelated, Zenon
<1>7. \A e, off, len, v : Does(q, PushAtom(n, e, off, len, v), b)
  <2> SUFFICES ASSUME NEW e, NEW off, NEW len, NEW v PROVE Does(q, PushAtom(n, e, off, len, v), b)
    OBVIOUS
  <2>1. Does(n, PushAtom(n, e, off, len, v), b)
    BY <1>0, AtomDoes, Zenon
  <2> QED
    BY <1>1, <2>1
<1>8. \A x : Does(q, [n EXCEPT !.post = x], b) /\ Does(q, [n EXCEPT !.blobs = x], b)
  BY <1>0, <1>2, Unrelated, Zenon
<1>9. \A e : Does(q, RecordSize(n, e), b)
  <2> SUFFICES ASSUME NEW e PROVE Does(q, RecordSize(n, e), b)
    OBVIOUS
  <2>1. \E x : RecordSize(n, e) = [n EXCEPT !.unsized = x]
    BY DEF RecordSize
  <2>2. \A x : Alike(n, [n EXCEPT !.unsized = x])
    BY <1>0, Unrelated, Zenon
  <2>3. Alike(n, RecordSize(n, e))
    BY <2>1, <2>2
  <2> QED
    BY <1>2, <2>3
<1> QED
  BY <1>3, <1>4, <1>5, <1>6, <1>7, <1>8, <1>9, Zenon

\* Regions that a syscall owns.
LEMMA OwnDoes ==
  ASSUME NEW q, NEW b, Sound(q, b), NEW n, Does(q, n, b)
  PROVE  \A x, y, z : Does(q, Own(n, x), b) /\ Does(q, Own2(n, x, y), b) /\ Does(q, Own3(n, x, y, z), b)
<1>1. ASSUME NEW m, Does(q, m, b), NEW x PROVE Does(q, Own(m, x), b)
  <2> DEFINE a == PushAtom(m, x.at, 0, x.len, <<"blob", x.key>>)
  <2>1. Does(q, a, b)
    BY <1>1, EmitParts, Zenon
  <2>2. Own(m, x) = NoteAccess(a, x.at, 0, x.len, <<x.key, x.at>>)
    BY DEF Own
  <2> HIDE DEF a
  <2>3. Does(q, NoteAccess(a, x.at, 0, x.len, <<x.key, x.at>>), b)
    BY <2>1, EmitParts, Zenon
  <2> QED
    BY <2>2, <2>3
<1> SUFFICES ASSUME NEW x, NEW y, NEW z
    PROVE Does(q, Own(n, x), b) /\ Does(q, Own2(n, x, y), b) /\ Does(q, Own3(n, x, y, z), b)
  OBVIOUS
<1>2. Does(q, Own(n, x), b)
  BY <1>1
<1>3. Does(q, Own2(n, x, y), b)
  BY <1>1, <1>2, Zenon DEF Own2
<1>4. Does(q, Own3(n, x, y, z), b)
  BY <1>1, <1>3, Zenon DEF Own3
<1> QED
  BY <1>2, <1>3, <1>4

\* A cell that a syscall fills.
LEMMA FilledDoes ==
  ASSUME NEW q, NEW b, Sound(q, b), NEW n, Does(q, n, b), NEW e, NEW off, NEW w, NEW v, v[1] \notin {"mem", "imm"}
  PROVE  Does(q, PushCell(n, e, off, 0, w, v), b)
<1>1. Sound(n, b)
  BY DEF Does
<1>2. Fit(n, b, v)
  BY DEF Fit
<1>3. Does(n, PushCell(n, e, off, 0, w, v), b)
  BY <1>1, <1>2, CellDoes, Zenon
<1> QED
  BY <1>3, DoesTrans

\* Hypotheses that a syscall adds.
LEMMA AssumedDoes ==
  ASSUME NEW q, NEW b, Sound(q, b), NEW n, Does(q, n, b), NEW l, IsList(l)
  PROVE  Does(q, [n EXCEPT !.hyps = n.hyps \o l], b)
<1> DEFINE h == n.hyps \o l
           m == [n EXCEPT !.hyps = h]
<1>1. Sound(n, b) /\ DOMAIN n = SymFields /\ IsList(n.hyps) /\ IsList(n.branches)
  BY DEF Does, Sound
<1>2. IsList(h) /\ Range(n.hyps) \subseteq Range(h)
  BY <1>1, ConcatList
<1>3. Len(n.branches) \in Nat
  BY <1>1, ListFacts
<1> HIDE DEF h
<1>4. Around(n, m) /\ m.regs = n.regs /\ m.stack = n.stack
  BY <1>1, <1>2, <1>3 DEF Around, SymFields
<1> HIDE DEF m
<1>5. Sound(m, b) /\ More(n, m)
  BY <1>1, <1>4, AroundKeeps
<1>6. Does(n, m, b)
  BY <1>4, <1>5, Zenon DEF Does, Around
<1>7. Does(q, m, b)
  BY <1>6, DoesTrans
<1> QED
  BY <1>7 DEF m, h

\* The return value.
LEMMA ReturnDoes ==
  ASSUME NEW q, NEW b, Full(q, b), DOMAIN q.regs = 0 .. 10, NEW n, Does(q, n, b)
  PROVE  Advances(q, Emitted(Return0(n)).s, b)
<1>1. Advances(q, n, b) /\ n.regs = q.regs
  BY FullDoes DEF Does
<1>2. Full(n, b) /\ Sound(q, b)
  BY <1>1 DEF Advances, Full
<1>3. Fit(n, b, Const(0))
  BY DEF Fit, Const
<1> DEFINE v == Const(0)
<1> HIDE DEF v
<1>4. Advances(n, [n EXCEPT !.regs[0] = v], b)
  <2>1. 0 \in 0 .. 10
    OBVIOUS
  <2>2. DOMAIN n.regs = 0 .. 10 /\ Fit(n, b, v)
    BY <1>1, <1>3 DEF v
  <2> QED
    BY <1>2, <2>1, <2>2, PutRegDoes, Zenon
<1>5. Advances(q, [n EXCEPT !.regs[0] = v], b)
  BY <1>1, <1>2, <1>4, AdvancesTrans
<1> QED
  BY <1>5 DEF v, Return0, Emitted

\* sol_log_ and sol_log_64_
LEMMA LogAdvances ==
  ASSUME NEW q, NEW b, Full(q, b), DOMAIN q.regs = 0 .. 10, NEW p
  PROVE  Advances(q, EmitLog(q, p).s, b) /\ Advances(q, EmitLog64(q, p).s, b)
<1> DEFINE c == PushClause(q, Span(q.regs[1], 0, BlobLen(q.regs[2])), FALSE)
<1>1. Sound(q, b)
  BY DEF Full
<1>2. Does(q, q, b)
  BY <1>1, DoesNothing
<1>3. Does(q, c, b)
  BY <1>1, <1>2, EmitParts, Zenon
<1>4. EmitLog(q, p) = Emitted(Return0(Allocate(c))) /\ EmitLog64(q, p) = Emitted(Return0(Allocate(q)))
  BY DEF EmitLog, EmitLog64
<1> HIDE DEF c
<1>5. Does(q, Allocate(c), b) /\ Does(q, Allocate(q), b)
  BY <1>1, <1>2, <1>3, EmitParts, Zenon
<1> QED
  BY <1>4, <1>5, ReturnDoes

\* sol_memcpy_ and sol_memmove_
LEMMA MemcpyAdvances ==
  ASSUME NEW q, NEW b, Full(q, b), DOMAIN q.regs = 0 .. 10, NEW p
  PROVE  Advances(q, EmitMemcpy(q, p).s, b)
<1> DEFINE len == BlobLen(q.regs[3])
           cs == <<Reads(q.regs[2], len), Writes(q.regs[1], len)>>
           c == Clauses(q, cs, FALSE)
           a == Allocate(c)
           x == Region(q.regs[2], len, "memcpySrc")
           y == Region(q.regs[1], len, "memcpyDst")
           o == Own2(a, x, y)
           r == RecordSize(o, q.regs[3])
           w == SetPost(r.post, q.regs[1], [len |-> len, of |-> <<"copy", Span(q.regs[2], 0, len)>>])
           t == [r EXCEPT !.post = w]
<1>0. EmitMemcpy(q, p) = Emitted(Return0(t))
  BY DEF EmitMemcpy
<1>1. Sound(q, b)
  BY DEF Full
<1>2. Does(q, q, b)
  BY <1>1, DoesNothing
<1> HIDE DEF len, cs, x, y
<1>3. Does(q, c, b)
  BY <1>1, <1>2, EmitParts, Zenon
<1> HIDE DEF c
<1>4. Does(q, a, b)
  BY <1>1, <1>3, EmitParts, Zenon
<1> HIDE DEF a
<1>5. Does(q, o, b)
  BY <1>1, <1>4, OwnDoes, Zenon
<1> HIDE DEF o
<1>6. Does(q, r, b)
  BY <1>1, <1>5, EmitParts, Zenon
<1> HIDE DEF r, w
<1>7. Does(q, t, b)
  BY <1>1, <1>6, EmitParts, Zenon
<1> HIDE DEF t
<1> QED
  BY <1>0, <1>7, ReturnDoes

\* sol_memcmp_
LEMMA MemcmpAdvances ==
  ASSUME NEW q, NEW b, Full(q, b), DOMAIN q.regs = 0 .. 10, NEW p
  PROVE  Advances(q, EmitMemcmp(q, p).s, b)
<1> DEFINE len == BlobLen(q.regs[3])
           out == q.regs[4]
           cs == <<Reads(q.regs[1], len), Reads(q.regs[2], len), Writes(out, 4)>>
           c == Clauses(q, cs, FALSE)
           a == Allocate(c)
           m == Allocate(a)
           v == <<"mem", "W", FreshName(a)>>
           x == Region(q.regs[1], len, "memcmpP1")
           y == Region(q.regs[2], len, "memcmpP2")
           z == <<"sys", p, 0>>
           o == Own2(m, x, y)
           e == PushAtom(o, out, 0, 4, v)
           d == PushCell(e, out, 0, 0, "W", z)
           r == RecordSize(d, q.regs[3])
           k == <<"memcmpOut", out>>
           t == NoteAccess(r, out, 0, 4, k)
<1>0. EmitMemcmp(q, p) = Emitted(Return0(t))
  BY DEF EmitMemcmp
<1>1. Sound(q, b) /\ z[1] \notin {"mem", "imm"}
  BY DEF Full
<1>2. Does(q, q, b)
  BY <1>1, DoesNothing
<1> HIDE DEF len, out, cs, x, y, z, v, k
<1>3. Does(q, c, b)
  BY <1>1, <1>2, EmitParts, Zenon
<1> HIDE DEF c
<1>4. Does(q, a, b)
  BY <1>1, <1>3, EmitParts, Zenon
<1> HIDE DEF a
<1>5. Does(q, m, b)
  BY <1>1, <1>4, EmitParts, Zenon
<1> HIDE DEF m
<1>6. Does(q, o, b)
  BY <1>1, <1>5, OwnDoes, Zenon
<1> HIDE DEF o
<1>7. Does(q, e, b)
  BY <1>1, <1>6, EmitParts, Zenon
<1> HIDE DEF e
<1>8. Does(q, d, b)
  BY <1>1, <1>7, FilledDoes, Zenon
<1> HIDE DEF d
<1>9. Does(q, r, b)
  BY <1>1, <1>8, EmitParts, Zenon
<1> HIDE DEF r
<1>10. Does(q, t, b)
  BY <1>1, <1>9, EmitParts, Zenon
<1> HIDE DEF t
<1> QED
  BY <1>0, <1>10, ReturnDoes

\* One cell of the rent sysvar.
LEMMA SysvarCellDoes ==
  ASSUME NEW q, NEW b, Sound(q, b), NEW n, Does(q, n, b), NEW p, NEW out, NEW off, NEW w
  PROVE  Does(q, SysvarCell(n, p, out, off, w), b)
<1> DEFINE a == Allocate(n)
           v == <<"mem", w, FreshName(n)>>
           len == Bytes[w]
           e == PushAtom(a, out, off, len, v)
           z == <<"sys", p, off>>
           c == PushCell(e, out, off, 0, w, z)
           k == <<"sysvarOut", out, off>>
           t == NoteAccess(c, out, off, len, k)
<1>0. SysvarCell(n, p, out, off, w) = t
  BY DEF SysvarCell
<1>1. z[1] \notin {"mem", "imm"}
  OBVIOUS
<1> HIDE DEF v, len, z, k
<1>2. Does(q, a, b)
  BY EmitParts, Zenon
<1> HIDE DEF a
<1>3. Does(q, e, b)
  BY <1>2, EmitParts, Zenon
<1> HIDE DEF e
<1>4. Does(q, c, b)
  BY <1>1, <1>3, FilledDoes, Zenon
<1> HIDE DEF c
<1>5. Does(q, t, b)
  BY <1>4, EmitParts, Zenon
<1> QED
  BY <1>0, <1>5, Zenon

\* sol_get_sysvar
LEMMA SysvarAdvances ==
  ASSUME NEW q, NEW b, Full(q, b), DOMAIN q.regs = 0 .. 10, NEW p
  PROVE  Advances(q, EmitGetSysvar(q, p).s, b)
<1> DEFINE out == q.regs[2]
           cs == <<Reads(<<"sysvars">>, 1), Writes(out, 17), Reads(q.regs[1], 32)>>
           c == Clauses(q, cs, TRUE)
           a == Allocate(c)
           x == Region(q.regs[1], 32, "sysvarId")
           o == Own(a, x)
           k1 == SysvarCell(o, p, out, 0, "D")
           k2 == SysvarCell(k1, p, out, 8, "D")
           k3 == SysvarCell(k2, p, out, 16, "B")
           l == [k \in 1 .. 5 |-> <<"h_sysvar", p, k>>]
           t == [k3 EXCEPT !.hyps = k3.hyps \o l]
<1>0. Sound(q, b)
  BY DEF Full
<1>1. Does(q, q, b)
  BY <1>0, DoesNothing
<1>2. EmitGetSysvar(q, p) = Emitted(Return0(t)) \/ \E e : EmitGetSysvar(q, p) = Refused(q, e)
  <2>1. Emitted(Return0(t)) = Emitted(Return0([SysvarCells(o, p, out) EXCEPT !.hyps = @ \o [k \in 1 .. 5 |-> <<"h_sysvar", p, k>>]]))
    BY DEF SysvarCells
  <2> QED
    BY <2>1, Zenon DEF EmitGetSysvar
<1>3. IsList(l)
  <2>1. 5 \in Nat /\ DOMAIN l = 1 .. 5 /\ l \in [1 .. 5 -> Range(l)]
    BY DEF Range
  <2> HIDE DEF l
  <2> QED
    BY <2>1, FunctionList
<1> HIDE DEF out, cs, x, l
<1>4. Does(q, c, b)
  BY <1>0, <1>1, EmitParts, Zenon
<1> HIDE DEF c
<1>5. Does(q, a, b)
  BY <1>0, <1>4, EmitParts, Zenon
<1> HIDE DEF a
<1>6. Does(q, o, b)
  BY <1>0, <1>5, OwnDoes, Zenon
<1> HIDE DEF o
<1>7. Does(q, k1, b)
  BY <1>0, <1>6, SysvarCellDoes, Zenon
<1> HIDE DEF k1
<1>8. Does(q, k2, b)
  BY <1>0, <1>7, SysvarCellDoes, Zenon
<1> HIDE DEF k2
<1>9. Does(q, k3, b)
  BY <1>0, <1>8, SysvarCellDoes, Zenon
<1> HIDE DEF k3
<1>10. Does(q, t, b)
  BY <1>0, <1>3, <1>9, AssumedDoes, Zenon
<1> HIDE DEF t
<1>11. Advances(q, Emitted(Return0(t)).s, b)
  BY <1>10, ReturnDoes
<1>12. Advances(q, q, b) /\ \A e : Refused(q, e).s = q
  BY <1>1, FullDoes DEF Refused
<1> QED
  BY <1>2, <1>11, <1>12

\* sol_set_return_data
LEMMA ReturnDataAdvances ==
  ASSUME NEW q, NEW b, Full(q, b), DOMAIN q.regs = 0 .. 10, NEW p
  PROVE  Advances(q, EmitSetReturnData(q, p).s, b)
<1> DEFINE len == BlobLen(q.regs[2])
           sp == Span(q.regs[1], 0, len)
           c == PushClause(q, sp, FALSE)
           a == Allocate(c)
           x == Region(q.regs[1], len, "setRetData")
           o == Own(a, x)
           r == RecordSize(o, q.regs[2])
           y == [span |-> ReturnDataSpan, value |-> <<"rd", p>>]
           g == Append(r.pre, y)
           t == [r EXCEPT !.pre = g]
<1>0. EmitSetReturnData(q, p) = Emitted(Return0(t))
  BY DEF EmitSetReturnData
<1>1. Sound(q, b)
  BY DEF Full
<1>2. Does(q, q, b)
  BY <1>1, DoesNothing
<1> HIDE DEF len, sp, x, y
<1>3. Does(q, c, b)
  BY <1>1, <1>2, EmitParts, Zenon
<1> HIDE DEF c
<1>4. Does(q, a, b)
  BY <1>1, <1>3, EmitParts, Zenon
<1> HIDE DEF a
<1>5. Does(q, o, b)
  BY <1>1, <1>4, OwnDoes, Zenon
<1> HIDE DEF o
<1>6. Does(q, r, b)
  BY <1>1, <1>5, EmitParts, Zenon
<1> HIDE DEF r
<1>7. Does(r, t, b)
  <2>1. Sound(r, b) /\ DOMAIN r = SymFields /\ IsList(r.pre) /\ IsList(r.branches)
    BY <1>6 DEF Does, Sound
  <2>2. /\ t.pre = g
        /\ DOMAIN t = SymFields /\ t.regs = r.regs /\ t.stack = r.stack /\ t.hot = r.hot
        /\ t.cells = r.cells /\ t.hyps = r.hyps /\ t.branches = r.branches
        /\ t.reserved = r.reserved /\ t.slotAliases = r.slotAliases /\ t.alias = r.alias
    BY <2>1 DEF SymFields
  <2> HIDE DEF t
  <2>3. IsList(t.pre) /\ Values(t) = Values(r) \cup {y.value}
    BY <2>1, <2>2, AtomValues
  <2>4. \A v : Fit(r, b, v) => Fit(t, b, v)
    BY <2>3, Zenon DEF Fit
  <2>5. Sound(t, b)
    BY <2>1, <2>2, <2>3, <2>4, Zenon DEF Sound
  <2>6. Len(r.branches) \in Nat
    BY <2>1, ListFacts
  <2>7. Len(r.branches) <= Len(t.branches)
    BY <2>2, <2>6
  <2> QED
    BY <2>2, <2>3, <2>5, <2>7, Zenon DEF Does, More
<1> HIDE DEF t
<1>8. Does(q, t, b)
  BY <1>1, <1>6, <1>7, DoesTrans
<1> QED
  BY <1>0, <1>8, ReturnDoes

\* sol_sha256
LEMMA Sha256Advances ==
  ASSUME NEW q, NEW b, Full(q, b), DOMAIN q.regs = 0 .. 10, NEW p
  PROVE  Advances(q, EmitSha256(q, p).s, b)
<1> DEFINE z == SliceRegion(q, "sha256In")
           cs == <<Writes(q.regs[3], 32), Reads(q.regs[1], 16), Reads(z.at, z.len)>>
           c == Clauses(q, cs, TRUE)
           a == Allocate(c)
           y == Region(q.regs[3], 32, "sha256Out")
           o == Own2(a, z, y)
           w == SetPost(o.post, q.regs[3], [len |-> 32, of |-> <<"sys", p, 0>>])
           t == [o EXCEPT !.post = w]
<1>0. Sound(q, b)
  BY DEF Full
<1>1. Does(q, q, b)
  BY <1>0, DoesNothing
<1>2. EmitSha256(q, p) = Emitted(Return0(t)) \/ \E e : EmitSha256(q, p) = Refused(q, e)
  <2>1. o = OwnSha256(q, z)
    BY DEF OwnSha256
  <2>2. Emitted(Return0(t)) = Emitted(Return0([OwnSha256(q, z) EXCEPT !.post = SetPost(@, q.regs[3], [len |-> 32, of |-> <<"sys", p, 0>>])]))
    BY <2>1
  <2> QED
    BY <2>2, Zenon DEF EmitSha256, Sha256Of
<1> HIDE DEF z, cs, y
<1>3. Does(q, c, b)
  BY <1>0, <1>1, EmitParts, Zenon
<1> HIDE DEF c
<1>4. Does(q, a, b)
  BY <1>0, <1>3, EmitParts, Zenon
<1> HIDE DEF a
<1>5. Does(q, o, b)
  BY <1>0, <1>4, OwnDoes, Zenon
<1> HIDE DEF o, w
<1>6. Does(q, t, b)
  BY <1>0, <1>5, EmitParts, Zenon
<1> HIDE DEF t
<1>7. Advances(q, Emitted(Return0(t)).s, b)
  BY <1>6, ReturnDoes
<1>8. Advances(q, q, b) /\ \A e : Refused(q, e).s = q
  BY <1>1, FullDoes DEF Refused
<1> QED
  BY <1>2, <1>7, <1>8

\* sol_create_program_address
LEMMA PdaAdvances ==
  ASSUME NEW q, NEW b, Full(q, b), DOMAIN q.regs = 0 .. 10, NEW p
  PROVE  Advances(q, EmitCreatePda(q, p).s, b)
<1> DEFINE z == SliceRegion(q, "pdaSeed")
           cs == <<Reads(q.regs[3], 32), Writes(q.regs[4], 32), Reads(q.regs[1], 16), Reads(z.at, z.len)>>
           c == Clauses(q, cs, TRUE)
           a == Allocate(c)
           x == Region(q.regs[3], 32, "pdaPid")
           y == Region(q.regs[4], 32, "pdaOut")
           o == Own3(a, z, x, y)
           h1 == <<"hPdaPidSz", FreshName(q)>>
           h2 == <<"hPdaOffCurve", FreshName(q)>>
           l == <<h1, h2>>
           h == o.hyps \o l
           u == [o EXCEPT !.hyps = h]
           w == SetPost(o.post, q.regs[4], [len |-> 32, of |-> <<"sys", p, 0>>])
           t == [u EXCEPT !.post = w]
<1>0. Sound(q, b)
  BY DEF Full
<1>1. Does(q, q, b)
  BY <1>0, DoesNothing
<1>2. EmitCreatePda(q, p) = Emitted(Return0(t)) \/ \E e : EmitCreatePda(q, p) = Refused(q, e)
  <2>1. o = OwnPda(q, z)
    BY DEF OwnPda
  <2>2. Emitted(Return0(t)) = Emitted(Return0([OwnPda(q, z) EXCEPT
           !.hyps = @ \o <<<<"hPdaPidSz", FreshName(q)>>, <<"hPdaOffCurve", FreshName(q)>>>>,
           !.post = SetPost(@, q.regs[4], [len |-> 32, of |-> <<"sys", p, 0>>])]))
    BY <2>1
  <2> QED
    BY <2>2, Zenon DEF EmitCreatePda, PdaOf
<1>3. IsList(l)
  <2> HIDE DEF h1, h2
  <2>1. l \in Seq({h1, h2}) /\ Len(l) = 2 /\ l[1] = h1 /\ l[2] = h2 /\ DOMAIN l = 1 .. 2
    OBVIOUS
  <2> HIDE DEF l
  <2>2. l \in Seq(Range(l))
    <3>1. h1 \in Range(l) /\ h2 \in Range(l)
      BY <2>1 DEF Range
    <3> QED
      BY <2>1, <3>1
  <2> QED
    BY <2>2 DEF IsList
<1> HIDE DEF z, cs, x, y, l
<1>4. Does(q, c, b)
  BY <1>0, <1>1, EmitParts, Zenon
<1> HIDE DEF c
<1>5. Does(q, a, b)
  BY <1>0, <1>4, EmitParts, Zenon
<1> HIDE DEF a
<1>6. Does(q, o, b)
  BY <1>0, <1>5, OwnDoes, Zenon
<1> HIDE DEF o
<1>7. Does(q, u, b)
  BY <1>0, <1>3, <1>6, AssumedDoes, Zenon
<1> HIDE DEF u, w
<1>8. Does(q, t, b)
  BY <1>0, <1>7, EmitParts, Zenon
<1> HIDE DEF t
<1>9. Advances(q, Emitted(Return0(t)).s, b)
  BY <1>8, ReturnDoes
<1>10. Advances(q, q, b) /\ \A e : Refused(q, e).s = q
  BY <1>1, FullDoes DEF Refused
<1> QED
  BY <1>2, <1>9, <1>10

\* The tail cells take the value that fills the blob.
LEMMA CellsSetDoes ==
  ASSUME NEW q, NEW b, Sound(q, b), NEW n, Does(q, n, b), NEW at, NEW v, v[1] \notin {"mem", "imm"}
  PROVE  Does(q, SetCells(n, at, v), b)
<1> DEFINE N(i) == IF \E k \in 1 .. Len(at) : at[k] = i THEN [n.cells[i] EXCEPT !.value = v] ELSE n.cells[i]
           f == [i \in 1 .. Len(n.cells) |-> N(i)]
<1>0. Sound(n, b)
  BY DEF Does
<1>1. SetCells(n, at, v) = [n EXCEPT !.cells = f]
  BY DEF SetCells
<1>2. ASSUME NEW i PROVE N(i) = n.cells[i] \/ N(i) = [n.cells[i] EXCEPT !.value = v]
  OBVIOUS
<1> HIDE DEF N
<1>3. Len(n.cells) \in Nat
  BY <1>0, ListFacts DEF Sound
<1>4. /\ DOMAIN f = 1 .. Len(n.cells) /\ f \in [1 .. Len(n.cells) -> Range(f)]
      /\ \A i \in 1 .. Len(n.cells) : f[i] = N(i)
  BY DEF Range
<1> HIDE DEF f
<1>5. IsList(f)
  BY <1>3, <1>4, FunctionList
<1>6. Fit(n, b, v)
  BY DEF Fit
<1>7. Revalued(n, b, f)
  BY <1>2, <1>4, <1>5, <1>6, Zenon DEF Revalued
<1>8. Does(n, SetCells(n, at, v), b)
  BY <1>0, <1>1, <1>7, ValuesDo
<1> QED
  BY <1>8, DoesTrans

\* sol_memset_, for the tail and the plan that were found.
LEMMA MemsetDoes ==
  ASSUME NEW q, NEW b, Full(q, b), DOMAIN q.regs = 0 .. 10, NEW p, NEW r1, NEW len, NEW fill, NEW sized, NEW sp,
         NEW plan, NEW tails
  PROVE  Advances(q, MemsetWith(q, p, r1, len, fill, sized, sp, plan, tails).s, b)
<1> DEFINE split == tails = <<>> /\ plan # {} /\ fill # NoConst
           m == len - 8 * Len(tails)
           n == IF split THEN CHOOSE x \in plan : TRUE ELSE m
           word == <<"fill", fill>>
           c == PushClause(q, sp, TRUE)
           a == Allocate(c)
           bv == <<"blob", p>>
           o == PushAtom(a, r1, 0, m, bv)
           bl == IF sized THEN Append(o.blobs, sp) ELSE o.blobs
           u == [o EXCEPT !.blobs = bl]
           mk == <<"memset", r1>>
           d == NoteAccess(u, r1, 0, n, mk)
           tk == <<"blobtail", r1>>
           k == NoteAccess(d, r1, n, 8, tk)
           t1 == PushCell(k, r1, n, 0, "D", word)
           t2 == SetCells(d, tails, word)
           cut == IF split THEN t1 ELSE t2
           z == RecordSize(cut, q.regs[3])
           v == IF fill = NoConst THEN <<"raw", q.regs[2]>> ELSE word
           w == SetPost(z.post, r1, [len |-> n, of |-> v])
           t == [z EXCEPT !.post = w]
<1>0. MemsetWith(q, p, r1, len, fill, sized, sp, plan, tails) = Emitted(Return0(t))
  BY Zenon DEF MemsetWith
<1>1. Sound(q, b) /\ word[1] \notin {"mem", "imm"}
  BY DEF Full
<1>2. Does(q, q, b)
  BY <1>1, DoesNothing
<1> HIDE DEF m, n, word, split, bv, mk, tk
<1>3. Does(q, c, b)
  BY <1>1, <1>2, EmitParts, Zenon
<1> HIDE DEF c
<1>4. Does(q, a, b)
  BY <1>1, <1>3, EmitParts, Zenon
<1> HIDE DEF a
<1>5. Does(q, o, b)
  BY <1>1, <1>4, EmitParts, Zenon
<1> HIDE DEF o, bl
<1>6. Does(q, u, b)
  BY <1>1, <1>5, EmitParts, Zenon
<1> HIDE DEF u
<1>7. Does(q, d, b)
  BY <1>1, <1>6, EmitParts, Zenon
<1> HIDE DEF d
<1>8. Does(q, k, b)
  BY <1>1, <1>7, EmitParts, Zenon
<1> HIDE DEF k
<1>9. Does(q, t1, b)
  BY <1>1, <1>8, FilledDoes, Zenon
<1>10. Does(q, t2, b)
  BY <1>1, <1>7, CellsSetDoes, Zenon
<1> HIDE DEF t1, t2
<1>11. Does(q, cut, b)
  BY <1>9, <1>10
<1> HIDE DEF cut
<1>12. Does(q, z, b)
  BY <1>1, <1>11, EmitParts, Zenon
<1> HIDE DEF z, v, w
<1>13. Does(q, t, b)
  BY <1>1, <1>12, EmitParts, Zenon
<1> HIDE DEF t
<1>14. Advances(q, Emitted(Return0(t)).s, b)
  BY <1>13, ReturnDoes
<1> QED
  BY <1>0, <1>14, Zenon

\* dispatch_traced_syscall
LEMMA DispatchAdvances ==
  ASSUME NEW q, NEW b, Full(q, b), DOMAIN q.regs = 0 .. 10, NEW p, NEW name
  PROVE  Advances(q, DispatchSyscall(q, p, name).s, b)
<1>1. \E e : DispatchSyscall(q, p, name) \in
        {EmitMemset(q, p), EmitMemcmp(q, p), EmitGetSysvar(q, p), EmitLog(q, p), EmitLog64(q, p), EmitMemcpy(q, p),
         EmitSetReturnData(q, p), EmitSha256(q, p), EmitCreatePda(q, p), Refused(q, e)}
  BY Zenon DEF DispatchSyscall
<1>2. Advances(q, q, b)
  <2>1. Does(q, q, b)
    BY DoesNothing DEF Full
  <2> QED
    BY <2>1, FullDoes
<1>3. \A e : Refused(q, e).s = q
  BY DEF Refused
<1>4. Advances(q, EmitMemset(q, p).s, b)
  BY MemsetDoes, Zenon DEF EmitMemset, MemsetAt
<1> QED
  BY <1>1, <1>2, <1>3, <1>4, MemcmpAdvances, SysvarAdvances, LogAdvances, MemcpyAdvances, ReturnDataAdvances,
     Sha256Advances, PdaAdvances, Zenon

-----------------------------------------------------------------------------
(* What the walk cites.                                                        *)

\* The instructions walked, none of them a store of a word immediate.
Walked == {job.code[p + 1] : p \in Range(block)}
NoWord == \A x \in Walked : ~ (x.op = "st" /\ x.w = "W")
\* spec_call_for and step agree on every form walked.  In a byte-granular region they
\* do not for a dword load into its own base register, nor for a word register store
\* of a stored word immediate; and they do not for a reload of a dword cell that holds
\* combined bytes, whose bound is cited and not recorded.
NoStray(l) == \A i \in 1 .. Len(l) : ~ Stray(l[i].cites)
FormsAgree ==
  /\ \/ s.hot = <<>>
     \/ /\ \A x \in Walked : ~ (x.op = "ldx" /\ x.w = "D" /\ x.d = x.s)
        /\ NoWord \/ \A x \in Walked : ~ (x.op = "stx" /\ x.w = "W")
  /\ NoStray(calls)
CallsFine(q, l) == \A i \in 1 .. Len(l) : \A c \in l[i].cites : Decl(q, c)
Cites == Live => Full(s, NoWord) /\ (Asks(s) \/ ~ FormsAgree \/ CallsFine(s, calls))

\* What holds of more values holds where less is said of them.
LEMMA FullLess == ASSUME NEW q, NEW b, NEW c, Full(q, b), c => b PROVE Full(q, c)
<1>1. \A v : Fit(q, b, v) => Fit(q, c, v)
  BY Zenon DEF Fit
<1>2. Sound(q, c)
  BY <1>1, Zenon DEF Full, Sound
<1> QED
  BY <1>1, <1>2, Zenon DEF Full, RegsFit, FramesFit

\* One more instruction is walked.
LEMMA WalkedGrows ==
  ASSUME Shapes, Running, block' = Append(block, Here), job' = job, s'.hot = s.hot,
         NoStray(calls') => NoStray(calls)
  PROVE  /\ NoWord' => NoWord /\ ~ (Ins.op = "st" /\ Ins.w = "W")
         /\ FormsAgree' => FormsAgree /\ (s.hot # <<>> => ~ Odd(Ins, NoWord'))
<1>1. Here \in Nat /\ Ins = job.code[Here + 1]
  BY HereFacts
<1>2. Pcs(block)
  BY DEF Shapes
<1>3. Range(block') = Range(block) \cup {Here}
  BY <1>1, <1>2, PcsGrow
<1> HIDE DEF Here, Ins
<1>4. Walked' = Walked \cup {Ins}
  BY <1>1, <1>3 DEF Walked
<1>5. NoWord' => NoWord /\ ~ (Ins.op = "st" /\ Ins.w = "W")
  BY <1>4 DEF NoWord
<1>6. ASSUME FormsAgree' PROVE FormsAgree /\ (s.hot # <<>> => ~ Odd(Ins, NoWord'))
  <2>0. NoStray(calls)
    BY <1>6 DEF FormsAgree
  <2>1. CASE s.hot = <<>>
    BY <2>0, <2>1 DEF FormsAgree
  <2>2. CASE s.hot # <<>>
    <3>1. /\ \A x \in Walked' : ~ (x.op = "ldx" /\ x.w = "D" /\ x.d = x.s)
          /\ NoWord' \/ \A x \in Walked' : ~ (x.op = "stx" /\ x.w = "W")
      BY <1>6, <2>2 DEF FormsAgree
    <3>2. /\ \A x \in Walked : ~ (x.op = "ldx" /\ x.w = "D" /\ x.d = x.s)
          /\ NoWord \/ \A x \in Walked : ~ (x.op = "stx" /\ x.w = "W")
      BY <1>4, <1>5, <3>1
    <3>3. /\ ~ (Ins.op = "ldx" /\ Ins.w = "D" /\ Ins.d = Ins.s)
          /\ NoWord' \/ ~ (Ins.op = "stx" /\ Ins.w = "W")
      BY <1>4, <3>1
    <3> QED
      BY <2>0, <3>2, <3>3, Zenon DEF FormsAgree, Odd
  <2> QED
    BY <2>1, <2>2
<1> QED
  BY <1>5, <1>6

\* A call that joins the others.
LEMMA StrayGrows ==
  ASSUME NEW l, IsList(l), NEW x, NoStray(Append(l, x))
  PROVE  NoStray(l) /\ ~ Stray(x.cites)
<1> DEFINE m == Append(l, x)
<1>1. /\ Len(l) \in Nat /\ Len(m) = Len(l) + 1 /\ m[Len(l) + 1] = x /\ \A i \in 1 .. Len(l) : m[i] = l[i]
  BY AppendList
<1> HIDE DEF m
<1>2. Len(l) + 1 \in 1 .. Len(m) /\ \A i \in 1 .. Len(l) : i \in 1 .. Len(m)
  BY <1>1
<1> QED
  BY <1>1, <1>2, Zenon DEF NoStray, m

\* What is walked on.
LEMMA CitesOn ==
  ASSUME Shapes, Cites, Live, Advances(s, s', NoWord'), Asks(s) => Asks(s'), FormsAgree' => FormsAgree, NoWord' => NoWord,
         Asks(s') \/ ~ FormsAgree' \/ (CallsFine(s', calls) => CallsFine(s', calls'))
  PROVE  Cites'
<1>1. Full(s, NoWord') /\ Full(s', NoWord')
  BY FullLess DEF Cites, Advances
<1>2. Sound(s, NoWord') /\ Sound(s', NoWord') /\ More(s, s')
  BY <1>1 DEF Full, Advances
<1>3. \A c : Decl(s, c) => Decl(s', c)
  BY <1>2, FineMore
<1>4. CallsFine(s, calls) => CallsFine(s', calls)
  BY <1>3, Zenon DEF CallsFine
<1> QED
  BY <1>1, <1>4, Zenon DEF Cites

\* A call joins the others.
LEMMA FineGrows ==
  ASSUME NEW q, NEW l, IsList(l), NEW x, \A c \in x.cites : Decl(q, c), CallsFine(q, l)
  PROVE  CallsFine(q, Append(l, x))
<1> DEFINE m == Append(l, x)
<1>1. /\ Len(l) \in Nat /\ Len(m) = Len(l) + 1 /\ m[Len(l) + 1] = x /\ \A i \in 1 .. Len(l) : m[i] = l[i]
  BY AppendList
<1> HIDE DEF m
<1>2. \A i \in 1 .. Len(m) : i \in 1 .. Len(l) \/ i = Len(l) + 1
  BY <1>1
<1>3. \A i \in 1 .. Len(m) : \A c \in m[i].cites : Decl(q, c)
  BY <1>1, <1>2, Zenon DEF CallsFine
<1> QED
  BY <1>3 DEF CallsFine, m

\* A pass begins with registers that hold what they held, and nothing else.
LEMMA BeginFull == ASSUME NEW hots, NEW plan, NEW b PROVE Full(WithRetryPlans(hots, plan), b)
<1> DEFINE q == WithRetryPlans(hots, plan)
<1>1. IsList(<<>>) /\ Len(<<>>) = 0 /\ 1 .. 0 = {}
  BY NoList
<1>2. /\ DOMAIN q = SymFields /\ q.slotAliases = 0 /\ q.alias = FALSE
      /\ q.pre = <<>> /\ q.cells = <<>> /\ q.hyps = <<>> /\ q.branches = <<>> /\ q.reserved = <<>> /\ q.stack = <<>>
      /\ \A x \in 0 .. 10 : q.regs[x] = InitReg(x)
  BY DEF WithRetryPlans, SymFields
<1> HIDE DEF q
<1>3. Sound(q, b)
  <2>1. q.slotAliases \in Nat /\ 1 .. Len(q.cells) = {}
    BY <1>1, <1>2
  <2>2. q.alias \in BOOLEAN
    BY <1>2, Zenon
  <2>3. \A i \in 1 .. Len(q.cells) : "value" \in DOMAIN q.cells[i] /\ Fit(q, b, q.cells[i].value)
    BY <2>1
  <2> QED
    BY <1>1, <1>2, <2>1, <2>2, <2>3, Zenon DEF Sound
<1>4. RegsFit(q, b)
  BY <1>2, PlainFits, Zenon DEF RegsFit
<1>5. FramesFit(q, b)
  BY <1>1, <1>2 DEF FramesFit
<1> QED
  BY <1>3, <1>4, <1>5 DEF Full, q

\* exit of a callee
LEMMA NestedExitCites == ASSUME IInv, Cites, NestedExit PROVE Cites'
<1> DEFINE x == [pc |-> Here, cites |-> {}]
<1>1. /\ Running /\ block' = Append(block, Here) /\ Ins.op = "exit"
      /\ calls' = Append(calls, x) /\ s' = PopFrame(s) /\ job' = job
  BY DEF NestedExit
<1>2. x.cites = {}
  OBVIOUS
<1> HIDE DEF x
<1>3. Shapes /\ Live /\ s.stack # <<>> /\ Typed(s) /\ IsList(calls)
  BY <1>1, HereFacts DEF IInv, Shapes, Running, Walking, Live
<1>4. Asks(s) => Asks(s')
  BY <1>1, <1>3, Popped
<1>5. \A b : Full(s, b) => Advances(s, s', b)
  BY <1>1, <1>3, PopAdvances, Zenon
<1>6. s'.hot = s.hot
  BY <1>3, <1>5 DEF Cites, Advances
<1>a. NoStray(calls') => NoStray(calls)
  BY <1>1, <1>3, StrayGrows
<1>7. (NoWord' => NoWord) /\ (FormsAgree' => FormsAgree)
  BY <1>1, <1>3, <1>6, <1>a, WalkedGrows
<1>8. Full(s, NoWord')
  BY <1>3, <1>7, FullLess DEF Cites
<1>9. CallsFine(s', calls) => CallsFine(s', calls')
  BY <1>1, <1>2, <1>3, FineGrows
<1> QED
  BY <1>3, <1>4, <1>5, <1>7, <1>8, <1>9, CitesOn

\* A traced syscall cites nothing.
LEMMA SyscallCites == ASSUME IInv, Cites, Syscall PROVE Cites'
<1> DEFINE r == DispatchSyscall(s, Here, Ins.name)
           x == [pc |-> Here, cites |-> {}]
<1>1. /\ Running /\ s' = r.s /\ job' = job
      /\ \/ status' = "error"
         \/ block' = Append(block, Here) /\ calls' = Append(calls, x)
  BY DEF Syscall, AfterSyscall, Fail
<1>2. x.cites = {}
  OBVIOUS
<1> HIDE DEF x
<1>3. CASE status' = "error"
  BY <1>3 DEF Cites, Live
<1>4. CASE block' = Append(block, Here) /\ calls' = Append(calls, x)
  <2>1. Shapes /\ Live /\ Typed(s) /\ IsList(calls) /\ DOMAIN s.regs = 0 .. 10
    BY <1>1 DEF IInv, Shapes, Running, Walking, Live, Typed, GoodRegs
  <2>2. Asks(s) => Asks(s')
    BY <1>1, <2>1, Dispatched DEF Returned
  <2>3. \A b : Full(s, b) => Advances(s, s', b)
    BY <1>1, <2>1, DispatchAdvances, Zenon
  <2> HIDE DEF r
  <2>4. s'.hot = s.hot
    BY <2>1, <2>3 DEF Cites, Advances
  <2>a. NoStray(calls') => NoStray(calls)
    BY <1>4, <2>1, StrayGrows
  <2>5. (NoWord' => NoWord) /\ (FormsAgree' => FormsAgree)
    BY <1>1, <1>4, <2>1, <2>4, <2>a, WalkedGrows
  <2>6. Full(s, NoWord')
    BY <2>1, <2>5, FullLess DEF Cites
  <2>7. CallsFine(s', calls) => CallsFine(s', calls')
    BY <1>2, <1>4, <2>1, FineGrows
  <2> QED
    BY <2>1, <2>2, <2>3, <2>5, <2>6, <2>7, CitesOn
<1> QED
  BY <1>1, <1>3, <1>4

\* Any other instruction: what its specification call cites is declared once its
\* step is done and its aliases are named.
LEMMA ExecuteCites == ASSUME IInv, Cites, Execute PROVE Cites'
<1> DEFINE spec == SpecCallFor(Prepared, Ins, Here, job.v3)
           r == Step(spec.s, Ins, Here, Taken)
           x == [pc |-> Here, cites |-> spec.cites]
<1>1. /\ Running /\ block' = Append(block, Here) /\ job' = job
      /\ AfterStep(spec, r, StepError(CallxError, r))
  BY DEF Execute, WithSpec, Stepped
<1>2. x.cites = spec.cites
  OBVIOUS
<1> HIDE DEF spec, r
<1>3. CASE StepError(CallxError, r) # "none"
  <2>1. status' = "error"
    BY <1>1, <1>3 DEF AfterStep, Fail
  <2> QED
    BY <2>1 DEF Cites, Live
<1>4. CASE StepError(CallxError, r) = "none"
  <2>1. /\ s' = TakeAliases(r.s, Here)
        /\ calls' = (IF spec.some THEN Append(calls, x) ELSE calls)
    BY <1>1, <1>4 DEF AfterStep, Continue
  <2> HIDE DEF x
  <2>2. r.err = "none" /\ r.s.reserved = <<>>
    BY <1>4 DEF StepError
  <2>3. /\ Shapes /\ Live /\ Typed(s) /\ IsList(calls) /\ job.v3 \in BOOLEAN
        /\ Here \in Nat /\ Decoded(Ins) /\ Full(s, NoWord)
    BY <1>1, HereFacts, JobFacts DEF IInv, Shapes, Running, Walking, Live, Cites
  <2> DEFINE prep == Prepared
             ins == Ins
             tk == Taken
             u == Here
             n == r.s
             m == TakeAliases(n, u)
  <2>4. Typed(prep) /\ Grown(s, prep)
    BY <2>3, PreparedFacts
  <2>5. \A b : Full(s, b) => Advances(s, prep, b)
    <3> SUFFICES ASSUME NEW b, Full(s, b) PROVE Advances(s, prep, b)
      OBVIOUS
    <3>1. Sound(s, b)
      BY DEF Full
    <3>2. prep = s \/ \E sp : prep = PushClause(s, sp, FALSE)
      BY DEF Prepared
    <3>3. \A sp : Alike(s, PushClause(s, sp, FALSE))
      BY <3>1, Unrelated, Zenon
    <3> HIDE DEF prep
    <3>4. CASE prep = s
      BY <3>1, <3>4, DoesNothing, FullDoes
    <3>5. CASE Alike(s, prep)
      <4>1. Does(s, prep, b)
        BY <3>1, <3>5, AlikeDoes
      <4> QED
        BY <4>1, FullDoes
    <3> QED
      BY <3>2, <3>3, <3>4, <3>5
  <2>6. spec = SpecCallFor(prep, ins, u, job.v3) /\ r = Step(spec.s, ins, u, tk) /\ Decoded(ins) /\ u \in Nat
    BY <2>3 DEF spec, r
  <2> HIDE DEF prep, ins, tk, u
  <2>7. Asks(s) => Asks(n)
    <3>1. Quiet(prep, spec.s)
      BY <2>3, <2>4, <2>6, SpecCall, Zenon
    <3>2. Typed(spec.s)
      BY <3>1 DEF Quiet
    <3>3. StepDoes(spec.s, ins, u, n)
      BY <2>2, <2>6, <3>2, StepEffect, Zenon
    <3>4. Asks(spec.s) => Asks(n)
      BY <3>3 DEF StepDoes, Access, Pushed, Plain
    <3> QED
      BY <2>4, <3>1, <3>4 DEF Quiet, Grown
  <2>8. Asks(n) => Asks(m)
    <3>1. TakeAliases(n, u).overlap = n.overlap /\ TakeAliases(n, u).newHot = n.newHot
      BY DEF TakeAliases
    <3> QED
      BY <3>1 DEF Asks
  <2>9. ASSUME NEW b \in BOOLEAN, Full(s, b), b => ~ (ins.op = "st" /\ ins.w = "W")
        PROVE  /\ Advances(s, m, b)
               /\ Asks(m) \/ (Odd(ins, b) /\ s.hot # <<>>) \/ Stray(spec.cites) \/ \A c \in spec.cites : Decl(m, c)
    <3>1. Advances(s, prep, b)
      BY <2>5, <2>9
    <3>2. Full(prep, b) /\ prep.hot = s.hot /\ Sound(s, b)
      BY <2>9, <3>1 DEF Advances, Full
    <3>3. Answers(prep, spec, n, b, u, ins)
      BY <2>2, <2>3, <2>4, <2>6, <2>9, <3>2, StepAnswers, Zenon
    <3> HIDE DEF n
    <3>4. Advances(prep, n, b)
      BY <3>3 DEF Answers
    <3>5. Full(n, b)
      BY <3>4 DEF Advances
    <3>6. Advances(n, m, b) /\ \A w, c : Met(n, u, w, c) => Decl(m, c)
      BY <2>2, <3>5, AliasesKeep DEF n
    <3> HIDE DEF m
    <3>7. Advances(s, n, b)
      BY <3>1, <3>2, <3>4, AdvancesTrans
    <3>8. Advances(s, m, b)
      BY <3>2, <3>6, <3>7, AdvancesTrans
    <3>9. Asks(n) \/ (Odd(ins, b) /\ s.hot # <<>>) \/ Stray(spec.cites) \/ \E w : \A y \in spec.cites : Met(n, u, w, y)
      BY <3>2, <3>3, Zenon DEF Answers
    <3>10. Asks(m) \/ (Odd(ins, b) /\ s.hot # <<>>) \/ Stray(spec.cites) \/ \A y \in spec.cites : Decl(m, y)
      BY <2>8, <3>6, <3>9, Zenon
    <3> QED
      BY <3>8, <3>10
  <2>10. s' = m
    BY <2>1 DEF m, n, u
  <2> HIDE DEF m, n
  <2>11. s'.hot = s.hot
    <3>1. Full(s, FALSE)
      BY <2>3, FullLess
    <3>2. Advances(s, m, FALSE)
      BY <2>9, <3>1
    <3> QED
      BY <2>10, <3>2 DEF Advances
  <2>a. (NoStray(calls') => NoStray(calls)) /\ (spec.some /\ NoStray(calls') => ~ Stray(spec.cites))
    BY <1>2, <2>1, <2>3, StrayGrows DEF x
  <2>12. /\ NoWord' => NoWord /\ ~ (ins.op = "st" /\ ins.w = "W")
         /\ FormsAgree' => FormsAgree /\ (s.hot # <<>> => ~ Odd(ins, NoWord'))
    BY <1>1, <2>3, <2>11, <2>a, WalkedGrows DEF ins
  <2>13. NoWord' \in BOOLEAN /\ Full(s, NoWord')
    BY <2>3, <2>12, FullLess DEF NoWord
  <2>14. /\ Advances(s, s', NoWord')
         /\ Asks(s') \/ (Odd(ins, NoWord') /\ s.hot # <<>>) \/ Stray(spec.cites) \/ \A c \in spec.cites : Decl(s', c)
    BY <2>9, <2>10, <2>12, <2>13
  <2>15. Asks(s) => Asks(s')
    BY <2>7, <2>8, <2>10
  <2>16. (\A c \in spec.cites : Decl(s', c)) => (CallsFine(s', calls) => CallsFine(s', calls'))
    <3>1. ASSUME \A c \in spec.cites : Decl(s', c), CallsFine(s', calls) PROVE CallsFine(s', Append(calls, x))
      BY <1>2, <2>3, <3>1, FineGrows DEF x
    <3> QED
      BY <2>1, <3>1
  <2>17. ~ spec.some => (CallsFine(s', calls) => CallsFine(s', calls'))
    BY <2>1
  <2>18. FormsAgree' => NoStray(calls')
    BY DEF FormsAgree
  <2>19. Asks(s') \/ ~ FormsAgree' \/ (CallsFine(s', calls) => CallsFine(s', calls'))
    BY <2>12, <2>14, <2>16, <2>17, <2>18, <2>a, Zenon
  <2> QED
    BY <2>3, <2>12, <2>14, <2>15, <2>19, CitesOn
<1> QED
  BY <1>3, <1>4

\* What is not walked cites nothing new.
LEMMA CitesStay ==
  ASSUME Cites, UNCHANGED <<job, s, block, calls>>, Live' => Live
  PROVE  Cites'
<1>1. Walked' = Walked
  BY DEF Walked
<1>2. NoWord' = NoWord
  BY <1>1 DEF NoWord
<1>3. FormsAgree' = FormsAgree
  BY <1>1, <1>2 DEF FormsAgree
<1> QED
  BY <1>2, <1>3 DEF Cites

\* Every step keeps the citations.
LEMMA StepCites == IInv /\ Cites /\ [Next]_vars => Cites'
<1> SUFFICES ASSUME IInv, Cites, [Next]_vars PROVE Cites'
  OBVIOUS
<1>1. CASE UNCHANGED vars
  <2>1. UNCHANGED <<job, s, block, calls, status>>
    BY <1>1 DEF vars, emitted
  <2> QED
    BY <2>1, CitesStay DEF Live
<1>2. CASE GiveUp \/ StepLimit \/ RefuseOverlap \/ RefuseCode \/ RefuseWitness \/ Retry
  <2>1. status' \in {"error", "begin"}
    BY <1>2 DEF GiveUp, StepLimit, RefuseOverlap, RefuseCode, RefuseWitness, Retry, Fail
  <2> QED
    BY <2>1 DEF Cites, Live
<1>3. CASE BeginPass
  <2>1. s' = WithRetryPlans(hot, splits) /\ calls' = <<>>
    BY <1>3 DEF BeginPass
  <2>2. Full(s', NoWord')
    BY <2>1, BeginFull
  <2>3. CallsFine(s', calls')
    BY <2>1, NoList DEF CallsFine
  <2> QED
    BY <2>2, <2>3 DEF Cites
<1>4. CASE EndWalk \/ FaultEnd \/ Accept \/ Emit
  <2>1. UNCHANGED <<job, s, block, calls>> /\ Live
    BY <1>4 DEF EndWalk, FaultEnd, Accept, Emit, Running, Walking, Live, emitted
  <2> QED
    BY <2>1, CitesStay
<1>5. CASE NestedExit
  BY <1>5, NestedExitCites
<1>6. CASE Syscall
  BY <1>6, SyscallCites
<1>7. CASE Execute
  BY <1>7, ExecuteCites
<1> QED
  BY <1>1, <1>2, <1>3, <1>4, <1>5, <1>6, <1>7 DEF Next, Finished

\* What an accepted walk cites exists (spec_call_for, step, take_alias_hypotheses): every
\* variable is an atom of the precondition, every path condition and every equation is a
\* hypothesis, for any program whose forms agree.  spec_call_for names what a step has
\* yet to allocate, and nothing the step then does may leave the name unused.
THEOREM Citations == Spec => [](FormsAgree => CitationsExist)
<1>1. Init => Cites
  BY DEF Init, Cites, Live
<1>2. Spec => []Cites
  BY <1>1, StepCites, WalkInvariant, PTL DEF Spec
<1>3. IInv /\ Cites => (FormsAgree => CitationsExist)
  <2> SUFFICES ASSUME IInv, Cites, FormsAgree, Accepted,
                      NEW i \in 1 .. Len(calls), NEW c \in calls[i].cites
               PROVE  Declared(c)
    BY DEF CitationsExist
  <2>1. CallsFine(s, calls)
    BY DEF Cites, IInv, Settled, Live, Accepted
  <2>2. Decl(s, c)
    BY <2>1 DEF CallsFine
  <2>3. c[1] \in {"var", "lt"} => \E k \in 1 .. Len(s.pre) : s.pre[k].value = c[2]
    BY <2>2 DEF Decl, Values
  <2> QED
    BY <2>2, <2>3, Zenon DEF Decl, Declared
<1> QED
  BY <1>2, <1>3, WalkInvariant, PTL

=============================================================================
