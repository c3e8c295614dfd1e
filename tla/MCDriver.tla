------------------------------ MODULE MCDriver ------------------------------
(* Invocations of the qedlift command: every mode with its refusals, transition *)
(* runs over two or three traces, and single described lifts over every way a   *)
(* path may touch the fields of a small account.                                *)
EXTENDS Driver

Key(n) == <<"v", n>>
Init1(n) == <<"init", Key(n)>>
Plus(x, y) == <<"wrapAdd", x, y>>
Delta(k) == <<"toU64", <<"const", k>>>>

\* The account: an authority, a counter and a flag; data starts at `at`.
Fields == <<[name |-> "auth", kind |-> "pubkey", off |-> 0],
            [name |-> "total", kind |-> "u64", off |-> 32],
            [name |-> "flag", kind |-> "byte", off |-> 40]>>
Layout == [found |-> TRUE, size |-> 41, fields |-> Fields]
ArgumentOff == 200

\* One cell: its place, width, and its value before and after.
Cell(off, width, n, after) == [base |-> "r1", off |-> off, width |-> width, value |-> Init1(n), after |-> after]
TotalCells(at, how) ==
  CASE how = "none" -> <<>>
    [] how = "read" -> <<Cell(at + 32, 8, "t", Init1("t"))>>
    [] how = "inc" -> <<Cell(at + 32, 8, "t", Plus(Init1("t"), Delta(1)))>>
    [] how = "inc2" -> <<Cell(at + 32, 8, "t", Plus(Init1("t"), Delta(2)))>>
    [] how = "add" -> <<Cell(at + 32, 8, "t", Plus(Init1("t"), Init1("arg")))>>
    [] how = "sub" -> <<Cell(at + 32, 8, "t", <<"wrapSub", Init1("t"), Init1("arg")>>)>>
    [] how = "set" -> <<Cell(at + 32, 8, "t", <<"const", 7>>)>>
    [] how = "copy" -> <<Cell(at + 32, 8, "t", Plus(Init1("arg"), Delta(1)))>>
    [] how = "byte" -> <<Cell(at + 33, 1, "t", Init1("t"))>>
FlagCells(at, how) ==
  CASE how = "none" -> <<>>
    [] how = "read" -> <<Cell(at + 40, 1, "f", Init1("f"))>>
    [] how = "set" -> <<Cell(at + 40, 1, "f", <<"const", 1>>)>>
AuthCells(at, how) ==
  CASE how = "none" -> <<>>
    [] how = "read" -> <<Cell(at, 8, "k", Init1("k"))>>
    [] how = "set" -> <<Cell(at + 8, 8, "k", <<"const", 1>>)>>
    [] how = "byte" -> <<Cell(at + 3, 1, "k", Init1("k"))>>
ArgCells(how) == IF how = "none" THEN <<>> ELSE <<Cell(ArgumentOff, 8, "arg", Init1("arg"))>>

Path(cells) ==
  [pre |-> [i \in DOMAIN cells |-> [base |-> cells[i].base, off |-> cells[i].off,
                                    width |-> cells[i].width, value |-> cells[i].value]],
   post |-> [i \in DOMAIN cells |-> [base |-> cells[i].base, off |-> cells[i].off,
                                     width |-> cells[i].width, value |-> cells[i].after]],
   vars |-> [i \in DOMAIN cells |-> cells[i].value[2]],
   bounds |-> [i \in DOMAIN cells |-> [name |-> cells[i].value[2], bits |-> 8 * cells[i].width]],
   abstractions |-> <<>>, branches |-> <<>>, sides |-> <<>>,
   r0 |-> "const", r1 |-> TRUE, regs |-> TRUE, start |-> 0, terminal |-> "exit", ctor |-> "none",
   region |-> TRUE, complex |-> FALSE]
Touch(at, t, f, k, a) == Path(TotalCells(at, t) \o FlagCells(at, f) \o AuthCells(at, k) \o ArgCells(a))

TotalWays == {"none", "read", "inc", "inc2", "add", "sub", "set", "copy", "byte"}
\* The argument's value comes from its cell.
Ways == (TotalWays \X {"none", "read"}) \ ({"add", "sub", "copy"} \X {"none"})
Paths(at) ==
  {Touch(at, w[1], f, k, w[2]) : w \in Ways, f \in {"none", "read", "set"}, k \in {"none", "read", "set", "byte"}}
Odd(p) ==
  {[p EXCEPT !.terminal = x, !.ctor = "sol_abort"] : x \in {"pc", "abort", "oob", "invoke"}}
    \cup {[p EXCEPT !.terminal = "oob", !.region = FALSE], [p EXCEPT !.r0 = "none"], [p EXCEPT !.r0 = "sym"],
          [p EXCEPT !.r1 = FALSE], [p EXCEPT !.start = 5], [p EXCEPT !.complex = TRUE],
          [p EXCEPT !.r1 = FALSE, !.terminal = "abort"],
          [p EXCEPT !.vars = Append(@, <<"flag">>)], [p EXCEPT !.vars = Append(@, <<"auth", 0>>)],
          [p EXCEPT !.branches = << <<Key("t"), <<"<">>, <<"num", 9>>>> >>,
                    !.abstractions = <<[param |-> <<"a0">>, hyp |-> <<"h_a0">>, rhs |-> <<Key("t")>>]>>]}

NoInput == [given |-> FALSE]
Input == [given |-> TRUE, valid |-> TRUE, accountOff |-> 96, argumentOff |-> ArgumentOff, dataLen |-> 41]
AddConst == [schema |-> 2, op |-> "addConst", add |-> 1, param |-> "none", mutated |-> "total",
             input |-> NoInput, idl |-> FALSE, handler |-> FALSE, argument |-> FALSE, layout |-> Layout]
AddParam == [AddConst EXCEPT !.op = "addParam", !.param = "amount"]
Bound == [AddParam EXCEPT !.schema = 3, !.input = Input, !.idl = TRUE, !.handler = TRUE, !.argument = TRUE]
OddDescriptors ==
  {[AddConst EXCEPT !.schema = 4], [AddConst EXCEPT !.mutated = "gone"],
   [AddConst EXCEPT !.layout.found = FALSE], [Bound EXCEPT !.input.valid = FALSE],
   [AddConst EXCEPT !.layout.fields = Append(@, [name |-> "blob", kind |-> "bytes", off |-> 41])],
   [Bound EXCEPT !.idl = FALSE], [Bound EXCEPT !.argument = FALSE], [Bound EXCEPT !.input.dataLen = 40],
   [Bound EXCEPT !.input = NoInput], [Bound EXCEPT !.op = "addConst"]}

Arm == [name |-> <<"a">>, trace |-> TRUE, walk |-> "ok", kind |-> "Symbolic", late |-> "none", cu |-> 5,
        budget |-> -1, registered |-> TRUE, refine |-> "emitted", path |-> Touch(0, "inc", "read", "none", "none"),
        follows |-> TRUE, composes |-> TRUE]
\* Every way one lift goes wrong.
FailingArms ==
  {[Arm EXCEPT !.walk = "err"], [Arm EXCEPT !.walk = "panic"], [Arm EXCEPT !.trace = FALSE],
   [Arm EXCEPT !.late = "pins"], [Arm EXCEPT !.late = "witness"], [Arm EXCEPT !.refine = "rejected"],
   [Arm EXCEPT !.late = "fault", !.path.terminal = "abort"], [Arm EXCEPT !.path.r0 = "sym"]}
Second == [Arm EXCEPT !.name = <<"b">>, !.path = Touch(0, "read", "none", "none", "none")]

Program == [version |-> "V0", badCall |-> FALSE, small |-> FALSE, syscalls |-> FALSE]
Args(flags) == [flags |-> flags \cup {"so"}, suffixes |-> <<>>, target |-> <<>>, shared |-> "none", module |-> "none"]
Job(flags) ==
  [args |-> Args(flags), loads |-> TRUE, descLoads |-> TRUE, idlLoads |-> TRUE, metaLoads |-> TRUE,
   symbols |-> TRUE, prog |-> Program, stem |-> <<"c">>, dir |-> {}, arms |-> <<Arm, Second>>, one |-> Arm,
   desc |-> AddConst]

\* Single described lifts.
Described == Job({"trace", "descriptor", "output"})
SingleJobs ==
  {[Described EXCEPT !.one.path = p, !.desc = d] : p \in Paths(0), d \in {AddConst, AddParam}}
    \cup {[Described EXCEPT !.one.path = p, !.desc = Bound] : p \in Paths(96)}
    \cup {[Described EXCEPT !.one.path = p] : p \in Odd(Touch(0, "inc", "none", "none", "none"))}
    \cup {[Described EXCEPT !.one.path = p, !.desc = Bound] : p \in Odd(Touch(96, "add", "none", "none", "read"))}
    \cup {[Described EXCEPT !.one.path = p, !.desc = d] :
            d \in OddDescriptors, p \in {Touch(96, "add", "none", "none", "read"), Touch(0, "inc", "none", "none", "none")}}
    \cup {[Described EXCEPT !.one = a] : a \in FailingArms}

\* Plain runs of every mode, and what refuses them.
Flagged ==
  {Job(f) : f \in {{}, {"output"}, {"output", "armName"}, {"armName"}, {"profile"}, {"profile", "trace"},
                   {"coverage"}, {"profile", "coverage"}, {"transition", "outputDir"}, {"cpiExtra"},
                   {"qedmeta"}, {"qedmeta", "outputDir"}, {"idl", "outputDir"}, {"idl"}, {"descriptor"}}}
    \cup {[Job({}) EXCEPT !.args.flags = {}], [Job({"profile", "trace"}) EXCEPT !.symbols = FALSE],
          [Job({"descriptor"}) EXCEPT !.descLoads = FALSE], [Job({"qedmeta", "outputDir"}) EXCEPT !.metaLoads = FALSE],
          [Job({"idl", "outputDir"}) EXCEPT !.idlLoads = FALSE], [Job({"output"}) EXCEPT !.loads = FALSE],
          [Job({"output"}) EXCEPT !.args.module = "empty"], [Job({"output"}) EXCEPT !.args.shared = "empty"],
          [Job({"qedmeta", "output"}) EXCEPT !.args.target = <<"b">>],
          [Job({"qedmeta", "output"}) EXCEPT !.args.target = <<"b", "b">>],
          Job({"qedmeta", "output"})}
    \cup {[Job({"output"}) EXCEPT !.prog = p] :
            p \in {[Program EXCEPT !.version = "V1"], [Program EXCEPT !.version = "V3"],
                   [Program EXCEPT !.version = "V3", !.badCall = TRUE]}}
    \cup {[Job({"output"}) EXCEPT !.args.shared = "base", !.prog.small = s, !.prog.syscalls = y] : s, y \in BOOLEAN}
ArmJobs ==
  {[Job(f) EXCEPT !.arms = <<Arm, [x EXCEPT !.name = <<"b">>]>>, !.args.shared = "base"] :
     f \in {{"qedmeta", "outputDir"}, {"idl", "outputDir"}},
     x \in FailingArms \cup {[Arm EXCEPT !.budget = 5], [Arm EXCEPT !.budget = 4], [Arm EXCEPT !.registered = FALSE]}}
Prefix == [Arm EXCEPT !.path.terminal = "invoke"]
CpiJobs ==
  {[Job({"trace", "outputDir"}) EXCEPT !.one = o, !.args.suffixes = <<Second, s>>] :
     o \in {Prefix, Arm, [Prefix EXCEPT !.path.complex = TRUE]},
     s \in {Arm, [Arm EXCEPT !.follows = FALSE], [Arm EXCEPT !.composes = FALSE], [Arm EXCEPT !.trace = FALSE],
            [Arm EXCEPT !.walk = "err"], [Arm EXCEPT !.walk = "panic"]}}
    \cup {[Job({"trace"}) EXCEPT !.one = Prefix, !.args.suffixes = <<Second>>],
          [Job({"trace", "coverage", "outputDir"}) EXCEPT !.one = Prefix, !.args.suffixes = <<Second>>]}

\* Traces beside the program: of this program, or of one whose name begins alike.
Trace(stem, arm) == [stem |-> stem, arm |-> arm]
TransitionJob(d, dir) == [Job({"transition", "descriptor", "outputDir"}) EXCEPT !.desc = d, !.dir = dir]
Pairs(d, ps) ==
  {TransitionJob(d, {Trace(<<"c", "_", "a">>, [Arm EXCEPT !.path = p]), Trace(<<"c", "_", "b">>, [Arm EXCEPT !.path = q])}) :
     p, q \in ps}
Bounded(p, bits) == [p EXCEPT !.bounds[1].bits = bits]
LegacyPaths ==
  {Touch(0, "inc", "none", "none", "none"), Touch(0, "none", "read", "read", "none"),
   Touch(0, "read", "read", "none", "read"), Touch(0, "set", "none", "none", "none"),
   Bounded(Touch(0, "read", "none", "none", "none"), 7),
   [Touch(0, "read", "none", "none", "none") EXCEPT !.terminal = "abort", !.ctor = "sol_abort"],
   [Touch(0, "none", "none", "none", "none") EXCEPT !.terminal = "abort", !.ctor = "sol_panic"],
   [Touch(0, "read", "none", "none", "none") EXCEPT
      !.sides = <<[name |-> <<"h_side">>, prop |-> <<Key("t"), <<"#">>, <<"num", 0>>>>]>>],
   [Touch(0, "read", "none", "none", "read") EXCEPT
      !.sides = <<[name |-> <<"h_side">>, prop |-> <<Key("arg"), <<"#">>, <<"num", 0>>>>]>>]}
BoundPaths ==
  {Touch(96, "add", "none", "none", "read"), Touch(96, "read", "none", "read", "read"),
   Touch(96, "none", "none", "none", "none"), Touch(96, "sub", "none", "none", "read"),
   [Touch(96, "read", "none", "none", "read") EXCEPT !.terminal = "oob", !.ctor = "sol_memcpy"]}
FailingPairs ==
  {TransitionJob(AddConst, {Trace(<<"c", "_", "a">>, Arm), Trace(<<"c", "_", "b">>, x)}) : x \in FailingArms}
Neighbours ==
  {TransitionJob(AddConst, {Trace(<<"c", "_", "a">>, Arm), Trace(<<"b", "_", "a">>, Arm), Trace(<<"c", "_">>, Arm)}),
   TransitionJob(AddConst, {Trace(<<"c", "_", "a">>, Arm), Trace(<<"c", "_", "b">>, Second), Trace(<<"c", "_", "b", "_", "a">>, Second)}),
   TransitionJob(AddConst, {Trace(<<"c", "_", "a">>, Arm), Trace(<<"c", "_", "A">>, Second)}),
   TransitionJob(AddConst, {Trace(<<"c", "_", "a">>, Arm), Trace(<<"c", "_", "b">>, Second), Trace(<<"c", "_", "b", "_", "a">>, [Arm EXCEPT !.walk = "err"])})}
Surveys ==
  {[Job({"coverage"}) EXCEPT !.dir = {Trace(<<"c", "_", "a">>, Arm), Trace(<<"c", "_", "b">>, x)}] : x \in FailingArms}

FirstJobs ==
  SingleJobs \cup Flagged \cup ArmJobs \cup CpiJobs \cup Pairs(AddConst, LegacyPaths) \cup Pairs(Bound, BoundPaths)
    \cup FailingPairs \cup Neighbours \cup Surveys
LaterJobs ==
  {Job({"qedmeta", "outputDir"}), Described}
    \cup {TransitionJob(AddConst, {Trace(<<"c", "_", "a">>, [Arm EXCEPT !.path = p]), Trace(<<"c", "_">> \o l, Second)}) :
            p \in {Touch(0, "inc", "none", "none", "none"), Touch(0, "set", "none", "none", "none")},
            l \in {<<"b">>, <<"a", "b">>}}
=============================================================================
