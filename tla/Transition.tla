----------------------------- MODULE Transition -----------------------------
(* The whole-transition emitter (qedlift/src/transition.rs, with the parts of  *)
(* lift.rs and refinement/parameter.rs that feed it): from one lifted path and *)
(* a descriptor, the corollary that says what the path does to the tracked     *)
(* account, or why none is stated; from the corollaries of all paths, the      *)
(* bundle theorem.                                                             *)
(*                                                                             *)
(* A lifted path is what lift_one_with_layouts hands over: its memory cells    *)
(* before and after [base, off, width, value], its binders and its terminal.   *)
(* A value is an expression <<"init", n>> (the content of a cell at entry,     *)
(* named n), <<"const", k>>, <<"toU64", e>>, <<"wrapAdd", e, f>>, ...; a name  *)
(* is a tuple, a proposition the sequence of its tokens, which are tuples too. *)
(* Text is reduced to the names, fields and cells it mentions.                 *)
EXTENDS Integers, Sequences, FiniteSets, SequencesExt

Byte == {1}
Dword == {8}
NotByte == {2, 4, 8}

Unsupported(why) == [ok |-> FALSE, status |-> "unsupported", reason |-> why]
Rejected(why) == [ok |-> FALSE, status |-> "rejected", reason |-> why]
Unwired == Unsupported("UnsupportedShape")

\* The first element a test accepts, if there is one.
First(s, Test(_)) == LET i == SelectInSeq(s, Test) IN IF i = 0 THEN <<>> ELSE <<s[i]>>

\* cell_val, cell_val_dword: the first cell of that place and width.
Held(cells, b, o, widths) == First(cells, LAMBDA c : c.base = b /\ c.off = o /\ c.width \in widths)
IsInit(e) == e[1] = "init"
IsDelta(e) == e[1] = "toU64" /\ e[2][1] = "const"

-----------------------------------------------------------------------------
(* lift.rs: wrapped sums and differences of entry values become plain ones,    *)
(* each under a guard of its own.                                              *)

Cleaned(e, counterArm) ==
  CASE e[1] = "wrapSub" /\ IsInit(e[2]) /\ IsInit(e[3]) -> <<"cleanSub", e[2], e[3]>>
    [] e[1] = "wrapAdd" /\ IsInit(e[2]) /\ IsInit(e[3]) -> <<"natAdd", e[2], e[3]>>
    [] e[1] = "wrapAdd" /\ counterArm /\ IsInit(e[2]) /\ IsDelta(e[3]) -> <<"natAdd", e[2], e[3][2]>>
    [] OTHER -> e

CleanBalanceShifts(post, counterArm) ==
  [shifted |-> {i \in DOMAIN post : Cleaned(post[i].value, counterArm) # post[i].value},
   post |-> [i \in DOMAIN post |-> [base |-> post[i].base, off |-> post[i].off, width |-> post[i].width,
                                    value |-> Cleaned(post[i].value, counterArm)]]]

Val(n) == [kind |-> "val", name |-> n, prop |-> <<>>]
Hyp(n, prop) == [kind |-> "hyp", name |-> n, prop |-> prop]
Guard(prop) == [kind |-> "guard", name |-> <<"guard">>, prop |-> prop]

Operand(e) == IF e[1] = "init" THEN e[2] ELSE <<"num", e[2]>>
\* The guards of the k-th cleaned cell.
ShiftItems(e, k) ==
  IF e[1] = "wrapSub"
  THEN <<Guard(<<Operand(e[3]), <<"<=">>, Operand(e[2])>>),
         Hyp(<<"h_src_lt", k>>, <<Operand(e[2]), <<"<">>, <<"num", 64>>>>)>>
  ELSE <<Guard(<<Operand(e[2]), <<"+">>, Operand(Cleaned(e, TRUE)[3]), <<"<">>, <<"num", 64>>>>)>>

\* The binders of the triple the corollary builds on, in signature order.
Binders(path, shifted) ==
  [i \in DOMAIN path.vars |-> Val(path.vars[i])]
    \o [i \in DOMAIN path.abstractions |-> Val(path.abstractions[i].param)]
    \o [i \in DOMAIN path.abstractions |->
          Hyp(path.abstractions[i].hyp,
              <<path.abstractions[i].param, <<"=">>>> \o path.abstractions[i].rhs)]
    \o [i \in DOMAIN path.bounds |->
          Hyp(<<"h_lt", path.bounds[i].name>>,
              <<path.bounds[i].name, <<"<">>, <<"num", path.bounds[i].bits>>>>)]
    \o [i \in DOMAIN path.branches |-> Guard(path.branches[i])]
    \o [i \in DOMAIN path.sides |-> Hyp(path.sides[i].name, path.sides[i].prop)]
    \o FlattenSeq([i \in DOMAIN path.post |->
                     IF i \in shifted
                     THEN ShiftItems(path.post[i].value, Cardinality({j \in shifted : j < i})) ELSE <<>>])

-----------------------------------------------------------------------------
(* The descriptor's account and argument in the serialised input.              *)

\* resolve_parameter
ResolveParameter(desc, path) ==
  IF desc.op # "addParam" \/ desc.schema # 3 \/ ~desc.input.given THEN Unsupported("MissingParameterBinding")
  ELSE IF ~desc.input.valid THEN Rejected("InvalidParameterBinding")
  ELSE IF ~desc.idl \/ ~desc.handler THEN Unsupported("MissingParameterBinding")
  ELSE IF ~desc.argument THEN Rejected("InvalidParameterBinding")
  ELSE IF path.start # 0 \/ ~path.r1 THEN Unsupported("MissingParameterBinding")
  ELSE [ok |-> TRUE, bound |-> TRUE, base |-> "r1",
        accountOff |-> desc.input.accountOff, argumentOff |-> desc.input.argumentOff]

\* matches_value: the value is what the argument's cell held at entry.
MatchesValue(binding, value, pre) ==
  \E i \in DOMAIN pre :
    pre[i].width = 8 /\ pre[i].value = value /\ pre[i].base = binding.base
      /\ pre[i].off = binding.argumentOff

Unbound == [ok |-> TRUE, bound |-> FALSE]

\* transition_binding
TransitionBinding(desc, path) ==
  IF ~desc.input.given /\ (desc.schema < 3 \/ desc.op = "addConst") THEN Unbound
  ELSE LET binding == ResolveParameter(desc, path)
       IN  IF binding.ok /\ desc.layout.size > desc.input.dataLen THEN Rejected("InvalidLayout")
           ELSE binding

-----------------------------------------------------------------------------
(* Walking the layout.  A field whose cell the path owns takes its value from  *)
(* the path; one it does not own is framed under the field's own name.         *)

Walk0(items) ==
  [ok |-> TRUE, rejected |-> FALSE, reason |-> "none", items |-> items,
   pre |-> <<>>, post |-> <<>>, frame |-> <<>>, owned |-> {}, renames |-> <<>>]

FailWalk(acc, f) ==
  [acc EXCEPT !.ok = FALSE, !.rejected = (f.status = "rejected"), !.reason = f.reason]

Taken(n, items) == \E i \in DOMAIN items : items[i].kind \in {"val", "hyp"} /\ items[i].name = n

\* What the corollary says of one field's cell.
Claim(n, c, v) == [name |-> n, base |-> c.base, off |-> c.off, byte |-> c.byte, value |-> v]

\* A cell of the path carries the field.
OwnField(acc, n, c, before, after) ==
  [acc EXCEPT !.pre = Append(@, Claim(n, c, before)),
              !.post = Append(@, Claim(n, c, after)),
              !.owned = @ \cup {<<c.base, c.off, c.byte>>},
              !.renames = Append(@, <<before, n>>)]

FrameField(acc, n, c, width) ==
  IF Taken(n, acc.items) THEN FailWalk(acc, Unsupported("BinderConflict"))
  ELSE LET claim == Claim(n, c, <<"init", n>>)
       IN  [acc EXCEPT !.items = Append(@, Val(n)),
                       !.pre = Append(@, claim), !.post = Append(@, claim),
                       !.frame = Append(@, [base |-> c.base, off |-> c.off, width |-> width])]

Place(env, off, byte) == [base |-> env.base, off |-> env.baseOff + off, byte |-> byte]

\* A 64-bit field, and a limb of a public key: unless it is the mutated one its
\* value after the path must be its value before.  A key's limb must also still
\* be there.
SameAfter(env, c, before, limb) ==
  LET after == Held(env.post, c.base, c.off, Dword)
  IN  IF after = <<>> THEN ~limb ELSE Head(after).value = before

\* A mutation: the value after the path is not looked at.
MutWordField(acc, n, env, off, limb) ==
  LET c == Place(env, off, FALSE)
      before == Held(env.pre, c.base, c.off, Dword)
  IN  IF before = <<>> THEN FrameField(acc, n, c, 8)
      ELSE OwnField(acc, n, c, Head(before).value, Head(before).value)

WordField(acc, n, env, off, limb) ==
  LET c == Place(env, off, FALSE)
      before == Held(env.pre, c.base, c.off, Dword)
  IN  IF before = <<>> THEN FrameField(acc, n, c, 8)
      ELSE IF ~SameAfter(env, c, Head(before).value, limb) THEN FailWalk(acc, Rejected("MutationMismatch"))
      ELSE OwnField(acc, n, c, Head(before).value, Head(before).value)

ByteField(acc, n, env, off) ==
  LET c == Place(env, off, TRUE)
      before == Held(env.pre, c.base, c.off, Byte)
  IN  IF before = <<>> THEN FrameField(acc, n, c, 1)
      ELSE OwnField(acc, n, c, Head(before).value, Head(before).value)

PartialKey(env, off) ==
  LET at == env.baseOff + off
  IN  \E i \in DOMAIN env.pre :
        LET c == env.pre[i]
        IN  /\ c.base = env.base /\ c.off < at + 32 /\ c.off + c.width > at
            /\ c.width # 8 \/ (c.off - at) % 8 # 0

WordLimb(acc, f, env, i) ==
  IF acc.ok THEN WordField(acc, <<f.name, i>>, env, f.off + 8 * i, TRUE) ELSE acc
KeyField(acc, f, env) ==
  IF PartialKey(env, f.off) THEN FailWalk(acc, Unwired)
  ELSE LET low == WordLimb(WordLimb(acc, f, env, 0), f, env, 1)
       IN  WordLimb(WordLimb(low, f, env, 2), f, env, 3)

\* One field of a path that returns.
PathField(acc, f, env) ==
  IF ~acc.ok THEN acc
  ELSE IF f.kind = "u64" /\ f.off = env.mutatedOff /\ env.mutation # <<>>
       THEN OwnField(acc, <<f.name>>, Place(env, f.off, FALSE),
                     env.mutation[1].before, env.mutation[1].value)
  ELSE CASE f.kind = "u64" -> WordField(acc, <<f.name>>, env, f.off, FALSE)
         [] f.kind = "byte" -> ByteField(acc, <<f.name>>, env, f.off)
         [] f.kind = "pubkey" -> KeyField(acc, f, env)
         [] f.kind = "bytes" -> FailWalk(acc, Unwired)

\* One field of a path that faults: nothing is said of the state after it, and a
\* public key must be out of the path's footprint.
FaultWord(acc, n, env, off) ==
  LET c == Place(env, off, FALSE)
      before == Held(env.pre, c.base, c.off, Dword)
  IN  IF before = <<>> THEN FrameField(acc, n, c, 8)
      ELSE OwnField(acc, n, c, Head(before).value, Head(before).value)

FrameLimb(acc, f, env, i) ==
  IF acc.ok THEN FrameField(acc, <<f.name, i>>, Place(env, f.off + 8 * i, FALSE), 8) ELSE acc
FaultKey(acc, f, env) ==
  IF \E i \in 0..3 : Held(env.pre, env.base, env.baseOff + f.off + 8 * i, NotByte) # <<>>
  THEN FailWalk(acc, Unwired)
  ELSE LET low == FrameLimb(FrameLimb(acc, f, env, 0), f, env, 1)
       IN  FrameLimb(FrameLimb(low, f, env, 2), f, env, 3)

FaultField(acc, f, env) ==
  IF ~acc.ok THEN acc
  ELSE CASE f.kind = "u64" -> FaultWord(acc, <<f.name>>, env, f.off)
         [] f.kind = "byte" -> ByteField(acc, <<f.name>>, env, f.off)
         [] f.kind = "pubkey" -> FaultKey(acc, f, env)
         [] f.kind = "bytes" -> FailWalk(acc, Unwired)

\* Cells of the account no field owns get a name from their offset, so that the
\* binders of different paths line up.
NameCell(acc, c, env) ==
  IF /\ acc.ok /\ c.base = env.base
     /\ \A o \in acc.owned : ~(o[1] = c.base /\ o[2] = c.off)
     /\ \E i \in DOMAIN acc.items : acc.items[i].kind = "val" /\ <<"init", acc.items[i].name>> = c.value
     /\ \A i \in DOMAIN acc.renames : acc.renames[i][1] # c.value
  THEN [acc EXCEPT !.renames = Append(@, <<c.value, <<"m", c.off - env.baseOff>>>>)]
  ELSE acc
NameCells(acc, env) == FoldLeft(LAMBDA r, c : NameCell(r, c, env), acc, env.pre)

\* The whole account, for a path that returns or one that faults.
LayoutWalk(desc, env, items, end) ==
  FoldLeft(LAMBDA r, f : IF end = "return" THEN PathField(r, f, env) ELSE FaultField(r, f, env),
           Walk0(items), desc.layout.fields)
Walked(desc, env, items, end) == NameCells(LayoutWalk(desc, env, items, end), env)

-----------------------------------------------------------------------------
(* The corollary of one path.                                                  *)

\* A path that is not emitted is rejected or unsupported.
Status(acc) ==
  IF acc.ok THEN "emitted" ELSE IF acc.rejected THEN "rejected" ELSE "unsupported"

Info(acc, kind, param) ==
  [ok |-> acc.ok, status |-> Status(acc), reason |-> acc.reason, kind |-> kind,
   pre |-> acc.pre, post |-> acc.post, frame |-> acc.frame,
   items |-> acc.items, renames |-> acc.renames, param |-> param]

\* The descriptor's mutation among the cells after the path, if it is there: the
\* field's value before and after, and the operand.
PreWord(pre, c) == Held(pre, c.base, c.off, Dword)
IsMutation(desc, pre, c) ==
  /\ c.width = 8 /\ c.value[1] = "natAdd"
  /\ CASE desc.op = "addConst" -> IsInit(c.value[2]) /\ c.value[3] = <<"const", desc.add>>
       [] desc.op = "addParam" ->
            /\ IsInit(c.value[2]) /\ IsInit(c.value[3])
            /\ PreWord(pre, c) # <<>> /\ PreWord(pre, c)[1].value \in {c.value[2], c.value[3]}
MutationOf(desc, pre, c) ==
  [base |-> c.base, off |-> c.off, value |-> c.value,
   before |-> IF desc.op = "addConst" THEN c.value[2] ELSE PreWord(pre, c)[1].value,
   operand |-> IF desc.op = "addParam" /\ PreWord(pre, c)[1].value = c.value[3]
                 /\ c.value[2] # c.value[3] THEN c.value[2] ELSE c.value[3]]
Mutation(desc, pre, post) ==
  LET found == First(post, LAMBDA c : IsMutation(desc, pre, c))
  IN  IF found = <<>> THEN <<>> ELSE <<MutationOf(desc, pre, found[1])>>

\* A bound descriptor says where the mutation must be and what its operand is.
BindingHolds(desc, binding, mutation, mutatedOff, pre) ==
  IF ~binding.bound \/ mutation = <<>> THEN Unbound
  ELSE IF mutation[1].base # binding.base \/ mutation[1].off # binding.accountOff + mutatedOff
       THEN Rejected("MutationMismatch")
  ELSE IF ~MatchesValue(binding, mutation[1].operand, pre) THEN Rejected("ParameterMismatch")
  ELSE Unbound

\* Where the account starts: the binding, else the mutated cell, else r1.
Env(binding, mutation, mutatedOff, pre, post) ==
  [pre |-> pre, post |-> post, mutation |-> mutation, mutatedOff |-> mutatedOff,
   base |-> IF binding.bound THEN binding.base
            ELSE IF mutation # <<>> THEN mutation[1].base ELSE "r1",
   baseOff |-> IF binding.bound THEN binding.accountOff
               ELSE IF mutation # <<>> THEN mutation[1].off - mutatedOff ELSE 0]

\* The argument's cell, named by the descriptor.
ParamCell(desc, binding, env) ==
  IF binding.bound /\ desc.op = "addParam"
  THEN << [from |-> <<"m", binding.argumentOff - env.baseOff>>, to |-> <<desc.param>>] >> ELSE <<>>

SetupPost(acc, path, post) ==
  path.regs \/ \E i \in DOMAIN post : <<post[i].base, post[i].off, post[i].width = 1>> \notin acc.owned

\* emit_transition_path_impl, once the layout and the binding are resolved.
PathDone(acc, path, post) ==
  IF acc.ok /\ ~SetupPost(acc, path, post) THEN FailWalk(acc, Unwired) ELSE acc
PathWith(desc, path, binding, mutation, env, items) ==
  Info(PathDone(Walked(desc, env, items, "return"), path, env.post),
       [end |-> "return", code |-> path.r0, written |-> mutation # <<>>], ParamCell(desc, binding, env))

PathBound(desc, path, binding, mutation, off, post, items) ==
  LET held == BindingHolds(desc, binding, mutation, off, path.pre)
  IN  IF ~held.ok THEN held
      ELSE IF ~binding.bound /\ mutation = <<>> /\ ~path.r1 THEN Unwired
      ELSE PathWith(desc, path, binding, mutation,
                    Env(binding, mutation, off, path.pre, post), items)

MutatedOff(desc) == {desc.layout.fields[i].off : i \in {j \in DOMAIN desc.layout.fields :
                                                          desc.layout.fields[j].name = desc.mutated}}

EmitTransitionPath(desc, path, post, items) ==
  LET binding == TransitionBinding(desc, path)
  IN  IF ~desc.layout.found THEN Unsupported("MissingLayout")
      ELSE IF MutatedOff(desc) = {} THEN Rejected("MissingField")
      ELSE IF ~binding.ok THEN binding
      ELSE IF path.r0 = "none" THEN Unwired
      ELSE PathBound(desc, path, binding, Mutation(desc, path.pre, post),
                     CHOOSE o \in MutatedOff(desc) : TRUE, post, items)

\* emit_transition_fault_impl
FaultItems(path) ==
  <<Val(<<"nCuAbort">>), Hyp(<<"hCuAbort">>, <<<<"step">>, <<"ctor", path.ctor>>, <<"nCuAbort">>>>)>>
FaultDone(acc, path) ==
  IF acc.ok /\ path.terminal = "oob" /\ ~path.region THEN FailWalk(acc, Unwired)
  ELSE [acc EXCEPT !.items = @ \o FaultItems(path)]
FaultWith(desc, path, binding, env, items) ==
  Info(FaultDone(Walked(desc, env, items, "fault"), path),
       [end |-> "fault", code |-> path.terminal, written |-> FALSE], ParamCell(desc, binding, env))

EmitTransitionFault(desc, path, post, items) ==
  LET binding == TransitionBinding(desc, path)
  IN  IF ~desc.layout.found THEN Unsupported("MissingLayout")
      ELSE IF ~binding.ok THEN binding
      ELSE IF ~path.r1 THEN Unwired
      ELSE FaultWith(desc, path, binding, Env(binding, <<>>, 0, path.pre, post), items)

\* emit_transition_corollary: only a traced path with plain binders that ends at
\* `exit` or in a typed fault is wired.
Corollary(desc, path, traced) ==
  LET wired == traced /\ ~path.complex
      clean == CleanBalanceShifts(path.post, TRUE)
      items == Binders(path, clean.shifted)
  IN  IF wired /\ path.terminal = "exit" THEN EmitTransitionPath(desc, path, clean.post, items)
      ELSE IF wired /\ path.terminal \in {"abort", "oob"} THEN EmitTransitionFault(desc, path, clean.post, items)
      ELSE Unwired

-----------------------------------------------------------------------------
(* emit_transition_bundle: one statement over the union of the binders.        *)

ParamRename(infos) ==
  LET named == First(infos, LAMBDA i : i.param # <<>>)
  IN  IF named = <<>> THEN <<>> ELSE << <<(<<"init", named[1].param[1].from>>), named[1].param[1].to>> >>

\* rename_all: the path's renamings one after the other, then the argument's.
Renamed(t, r) == IF <<"init", t>> = r[1] THEN r[2] ELSE t
RenameToken(t, renames) == FoldLeft(LAMBDA x, r : Renamed(x, r), t, renames)
RenameAll(prop, renames) == [i \in DOMAIN prop |-> RenameToken(prop[i], renames)]
\* rename_name: a bound's name follows its variable, other names stay.
RenameName(n, renames) == IF n[1] = "h_lt" THEN <<"h_lt", RenameToken(n[2], renames)>> ELSE n

\* The gathered hypothesis of that name, if there is one.
Existing(hyps, n) == First(hyps, LAMBDA h : h.name = n)

\* A mutation: the first hypothesis of a name wins.
MutJoinItem(acc, item, renames) ==
  LET n == IF item.kind = "hyp" THEN RenameName(item.name, renames) ELSE RenameToken(item.name, renames)
  IN  IF ~acc.ok \/ item.kind = "guard" THEN acc
      ELSE IF item.kind = "val"
           THEN IF \E i \in DOMAIN acc.vals : acc.vals[i] = n THEN acc ELSE [acc EXCEPT !.vals = Append(@, n)]
      ELSE IF Existing(acc.hyps, n) = <<>>
           THEN [acc EXCEPT !.hyps = Append(@, [name |-> n, prop |-> RenameAll(item.prop, renames)])]
      ELSE acc

\* One binder of one path joins the bundle's.
JoinItem(acc, item, renames) ==
  LET n == IF item.kind = "hyp" THEN RenameName(item.name, renames) ELSE RenameToken(item.name, renames)
      prop == RenameAll(item.prop, renames)
      same == Existing(acc.hyps, n)
  IN  IF ~acc.ok \/ item.kind = "guard" THEN acc
      ELSE IF item.kind = "val"
           THEN IF \E i \in DOMAIN acc.vals : acc.vals[i] = n THEN acc ELSE [acc EXCEPT !.vals = Append(@, n)]
      ELSE IF same = <<>> THEN [acc EXCEPT !.hyps = Append(@, [name |-> n, prop |-> prop])]
      ELSE IF same[1].prop # prop
           THEN [acc EXCEPT !.ok = FALSE, !.status = "unsupported", !.reason = "BundleFailed"]
      ELSE acc

JoinPath(acc, info, extra) ==
  FoldLeft(LAMBDA r, item : JoinItem(r, item, info.renames \o extra), acc, info.items)

\* The argument a path's corollary gets for each of its binders.
Arguments(info, extra) ==
  [i \in DOMAIN info.items |->
     LET item == info.items[i]
     IN  CASE item.kind = "val" -> RenameToken(item.name, info.renames \o extra)
           [] item.kind = "hyp" -> RenameName(item.name, info.renames \o extra)
           [] item.kind = "guard" -> <<"hg", i>>]

NoBinders == [ok |-> TRUE, status |-> "emitted", reason |-> "none", vals |-> <<>>, hyps |-> <<>>]
Union(infos) ==
  LET extra == ParamRename(infos)
  IN  FoldLeft(LAMBDA r, info : JoinPath(r, info, extra), NoBinders, infos)
Bundle(infos) ==
  LET acc == Union(infos)
  IN  [ok |-> acc.ok, status |-> acc.status, reason |-> acc.reason, vals |-> acc.vals, hyps |-> acc.hyps,
       args |-> [i \in DOMAIN infos |-> Arguments(infos[i], ParamRename(infos))]]
=============================================================================
