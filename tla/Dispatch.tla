------------------------------ MODULE Dispatch ------------------------------
(***************************************************************************)
(* discover/: the input layout each success edge requires, the dispatch    *)
(* arms in front of it, and the facts about accounts that the guards of    *)
(* a route state (success_proofs/bindings_gen.rs).                         *)
(***************************************************************************)
EXTENDS Provenance

\* The input: a dword with the number of accounts, then per account a header
\* (duplicate marker, signer flag, key, data length), the data with room to
\* grow, and a trailing dword; then the length of the instruction data, and the data.
HeaderLen == 8          \* 88
KeyAt == 2              \* 8
KeyLimbs == 2           \* 4
Growth == 2             \* 10240

Padded(n) == ((n + Growth + Dword - 1) \div Dword) * Dword
\* aligned_input_offsets: where the account after the first n starts.
Cursor(lengths, n) ==
  LET past[i \in 0 .. n] == IF i = 0 THEN Dword ELSE past[i - 1] + HeaderLen + Dword + Padded(lengths[i])
  IN  past[n]
AccountData(lengths, i) == Cursor(lengths, i - 1) + HeaderLen
InstructionData(lengths) == Cursor(lengths, Len(lengths)) + Dword
----------------------------------------------------------------------------
\* Analysis::on_path
OnPath(job, succ, edge) == GReach(succ, job.entry, {}) \cap GReachBack(succ, edge)
\* has_cycle: a PC on a path that can come back to itself along such PCs.
HasCycle(succ, on) ==
  \E p \in on : \E q \in succ[p] \cap on : p \in Closure([x \in on |-> succ[x] \cap on], {q})

\* Mutant of CutBy: one of several checks is enough.
MutCutBy(job, succ, edge, sides) == sides # {}
\* cut_by: the edge is not reached when no listed branch takes its listed side.
CutBy(job, succ, edge, sides) ==
  edge \notin Closure([p \in DOMAIN succ |-> {q \in succ[p] : <<p, q>> \notin sides}], {job.entry})

\* equality_side: the constant, and where the branch goes when it is equal.
IsEquality(job, p) == Kind(job, p) = "branch" /\ ~ At(job, p).reg /\ At(job, p).cmp \in {"eq", "ne"}
EqualityValue(job, p) == At(job, p).imm % Modulus
EqualitySide(job, p) == IF At(job, p).cmp = "eq" THEN Target(job, p) ELSE p + 1
\* dst_val: whether the branch at p looks at the word.
LooksAt(job, map, p, word) == map[p] # NoState /\ map[p].regs[At(job, p).d] = word

\* checked_value: the values whose equality checks cut the edge off.
CheckedValues(job, succ, map, on, edge, word) ==
  LET checks == {p \in on : IsEquality(job, p) /\ LooksAt(job, map, p, word)}
      sides(v) == {<<p, EqualitySide(job, p)>> : p \in {q \in checks : EqualityValue(job, q) = v}}
  IN  {v \in {EqualityValue(job, p) : p \in checks} : CutBy(job, succ, edge, sides(v))}

\* layout_with: the number of accounts must be checked, in full or in its low
\* byte; a length that is not checked is taken to be 0.  Two checked values conflict.
Unpinned == [kind |-> "UnpinnedDiscriminator"]
Pick(S) == CHOOSE x \in S : TRUE
Values(assumed) == [i \in 1 .. Len(assumed) |-> assumed[i].value]
WidestCheck(wide, low) == IF wide # {} THEN wide ELSE low
CountIn(job, succ, on, edge, m) ==
  IF ~ m.ok THEN {}
  ELSE WidestCheck(CheckedValues(job, succ, m.map, on, edge, InLoad("dword", 0)),
                   CheckedValues(job, succ, m.map, on, edge, InLoad("byte", 0)))
AccountCount(job, succ, on, edge) == CountIn(job, succ, on, edge, AbstractMap(job, succ, <<>>))

AddLength(acc, at, found) ==
  IF Cardinality(found) > 1 THEN [acc EXCEPT !.ok = FALSE]
  ELSE [acc EXCEPT !.assumed = Append(@,
         [off |-> at, value |-> IF found = {} THEN 0 ELSE Pick(found), checked |-> found # {}])]
LengthIn(job, succ, on, edge, acc, at, m) ==
  IF ~ m.ok THEN [acc EXCEPT !.ok = FALSE]
  ELSE AddLength(acc, at, CheckedValues(job, succ, m.map, on, edge, InLoad("dword", at)))
NextLength(job, succ, on, edge, acc) ==
  IF ~ acc.ok THEN acc
  ELSE LengthIn(job, succ, on, edge, acc,
                AccountData(Values(acc.assumed), Len(acc.assumed) + 1) - Dword, AbstractMap(job, succ, acc.assumed))
LayoutOf(acc) ==
  IF ~ acc.ok THEN Unpinned
  ELSE [kind |-> "layout", assumed |-> acc.assumed, ixdata |-> InstructionData(Values(acc.assumed))]
Lengths(job, succ, edge, on, n) ==
  LET upto[i \in 0 .. n] ==
        IF i = 0 THEN [ok |-> TRUE, assumed |-> <<>>] ELSE NextLength(job, succ, on, edge, upto[i - 1])
  IN  upto[n]
LayoutFor(job, succ, edge, on, count) ==
  IF Cardinality(count) # 1 THEN Unpinned ELSE LayoutOf(Lengths(job, succ, edge, on, Pick(count)))
LayoutWith(job, succ, edge, on) == LayoutFor(job, succ, edge, on, AccountCount(job, succ, on, edge))

\* discover_instructions for one success edge: its layout, its map and its arms.
Arms(job, map, on, disc) ==
  {[value |-> EqualityValue(job, p), arm |-> EqualitySide(job, p)] :
     p \in {q \in on : IsEquality(job, q) /\ EqualitySide(job, q) \in on /\ LooksAt(job, map, q, disc)}}
Dispatched(job, succ, edge, layout, m, arms) ==
  IF ~ m.ok THEN [kind |-> "error"]
  ELSE IF arms = {} \/ edge \in GReach(succ, job.entry, {x.arm : x \in arms}) THEN [kind |-> "NoDispatch"]
  ELSE [kind |-> "found", assumed |-> layout.assumed, map |-> m.map, arms |-> arms]
WithMap(job, succ, edge, on, layout, m) ==
  Dispatched(job, succ, edge, layout, m, Arms(job, m.map, on, InLoad("byte", layout.ixdata)))
WithLayout(job, succ, edge, on, layout) ==
  IF layout.kind # "layout" THEN layout
  ELSE WithMap(job, succ, edge, on, layout, AbstractMap(job, succ, layout.assumed))
OnPaths(job, succ, edge, on) ==
  IF HasCycle(succ, on) THEN [kind |-> "Loop"] ELSE WithLayout(job, succ, edge, on, LayoutWith(job, succ, edge, on))
DiscoverEdge(job, succ, edge) == OnPaths(job, succ, edge, OnPath(job, succ, edge))

\* discover: the routes of an edge are the arms, of whatever edge, that reach it.
Kinds(found, kind) == {e \in DOMAIN found : found[e].kind = kind}
ShareArms(succ, found, arms) ==
  [e \in DOMAIN found |->
     IF found[e].kind # "found" THEN found[e]
     ELSE [found[e] EXCEPT !.arms = {x \in arms : e \in GReach(succ, x.arm, {})}]]
Combine(succ, found) ==
  IF Kinds(found, "error") # {} THEN << >>
  ELSE ShareArms(succ, found, UNION {found[e].arms : e \in Kinds(found, "found")})
Discover(job, succ, edges) == Combine(succ, [e \in edges |-> DiscoverEdge(job, succ, e)])
----------------------------------------------------------------------------
(* Facts. *)

\* pinned: the guards both operands of which the map pins.
Operand(job, map, p) ==
  IF At(job, p).reg THEN map[p].regs[At(job, p).s] ELSE K(At(job, p).imm)
Pinned(job, map, guards) ==
  {[op |-> At(job, g.pc).cmp, dv |-> map[g.pc].regs[At(job, g.pc).d], sv |-> Operand(job, map, g.pc),
    taken |-> g.on = Target(job, g.pc)] :
     g \in {x \in guards : /\ map[x.pc] # NoState /\ map[x.pc].regs[At(job, x.pc).d] # Top
                           /\ Operand(job, map, x.pc) # Top}}

\* Mutant of StatesNe: the side of the branch is not looked at.
MutStatesNe(f) == f.op \in {"eq", "ne"}
\* states_eq and states_ne
StatesEq(f) == f.op = (IF f.taken THEN "eq" ELSE "ne")
StatesNe(f) == f.op = (IF f.taken THEN "ne" ELSE "eq")

\* authority.rs regions
Regions(assumed) ==
  LET lengths == Values(assumed)
  IN  [i \in 1 .. Len(assumed) |->
        [h |-> AccountData(lengths, i) - HeaderLen, d |-> AccountData(lengths, i), l |-> lengths[i]]]

\* proven_authority: the accounts that signed, and keys equal to stored keys.
ProvenSigners(facts, regions) ==
  {n \in DOMAIN regions : \E f \in facts : f.dv = InLoad("byte", regions[n].h + 1) /\ f.sv = K(0) /\ StatesNe(f)}
LimbsFor(facts, key, base) ==
  {k \in 0 .. KeyLimbs - 1 :
     \E f \in facts : StatesEq(f) /\ {f.dv, f.sv} = {InLoad("dword", key + k * Dword), InLoad("dword", base + k * Dword)}}
ProvenKeys(facts, regions) ==
  {k \in [account : DOMAIN regions, base : 0 .. MaxOffset] :
     /\ Cardinality(LimbsFor(facts, regions[k.account].h + KeyAt, k.base)) = KeyLimbs
     /\ \E m \in DOMAIN regions : k.base >= regions[m].d /\ k.base + KeyLimbs * Dword <= regions[m].d + regions[m].l}

\* generate_from_bindings: the theorem of an edge, for inputs with the assumed
\* lengths, states the facts of the guards of every path and, for one of the
\* routes, those on the way to the route and from there to the edge.
RouteTheorem(job, succ, b, edge, dom, c) ==
  LET guards == Guards(job, succ, job.entry, c.arm) \cup Guards(job, succ, c.arm, edge)
      facts == Pinned(job, b.map, guards)
      stated == dom \cup facts
  IN  [route |-> c.arm, disc |-> c.value, facts |-> facts,
       signers |-> ProvenSigners(stated, Regions(b.assumed)), keys |-> ProvenKeys(stated, Regions(b.assumed))]
EdgeTheorem(job, succ, b, edge) ==
  LET dom == Pinned(job, b.map, Guards(job, succ, job.entry, edge))
  IN  [lengths |-> b.assumed, regions |-> Regions(b.assumed), dom |-> dom,
       routes |-> {RouteTheorem(job, succ, b, edge, dom, c) : c \in b.arms}]
=============================================================================
