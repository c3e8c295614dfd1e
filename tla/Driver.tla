------------------------------- MODULE Driver -------------------------------
(* The qedlift command (lib.rs run, input.rs, driver.rs, api.rs, the outcome   *)
(* types and lift.rs's lift_one_with_layouts): an invocation parses its        *)
(* arguments, loads what they name, lifts one path after the other and writes  *)
(* the generated modules into a directory that earlier invocations have        *)
(* written to.  It may be killed or fail to write at any point.                *)
(*                                                                             *)
(* What the symbolic walk and the proof emitters make of one arm or trace is   *)
(* a fact of that arm: walk, the later step that refuses it (if any), its      *)
(* compute units, the registry's verdict and the lifted path Transition works  *)
(* on.  A module's text is reduced to the invocation and the arm it came from  *)
(* and the modules it imports.                                                 *)
EXTENDS Transition, FiniteSets

CONSTANTS
  Jobs,            \* the invocations considered first
  Reruns,          \* the ones considered after another has ended
  MaxInvocations,  \* bound: invocations on one directory
  SchemaMax        \* qed_artifacts::DESCRIPTOR_SCHEMA_MAX

ASSUME BoundAssumption == MaxInvocations \in Nat \ {0} /\ SchemaMax \in Nat

VARIABLES
  job,      \* the invocation
  number,   \* how many there were
  command,  \* the operation its arguments select
  stage,    \* "parse", "load", "work", "ended"
  todo,     \* arms or traces still to be lifted
  outcomes, \* per path or arm: what came of it
  infos,    \* the transition corollaries stated so far
  bundle,   \* the bundle theorem over them
  queue,    \* modules lifted and not yet written
  ticks,    \* modules reported as written
  over,     \* budget_fail
  hook,     \* the process's panic hook
  exit,     \* how the invocation ended
  before,   \* the directory as it found it
  files     \* the directory

vars == <<job, number, command, stage, todo, outcomes, infos, bundle, queue, ticks, over, hook,
          exit, before, files>>
-----------------------------------------------------------------------------
(* Names.  A label is a sequence of characters.                                *)

Upper(c) == CASE c = "a" -> "A" [] c = "b" -> "B" [] c = "c" -> "C" [] OTHER -> c
PascalCase(label) ==
  FoldLeft(LAMBDA r, c : IF c \in {"_", "-", " "} THEN [r EXCEPT !.up = TRUE]
                         ELSE [out |-> Append(r.out, IF r.up THEN Upper(c) ELSE c), up |-> FALSE],
           [out |-> <<>>, up |-> TRUE], label).out

Module(label) == PascalCase(job.stem) \o PascalCase(label)

Rank(c) == CHOOSE i \in 1..6 : <<"-", "A", "B", "_", "a", "b">>[i] = c
Before(s, t) ==
  \/ IsStrictPrefix(s, t)
  \/ \E i \in DOMAIN s \cap DOMAIN t :
       Rank(s[i]) < Rank(t[i]) /\ SubSeq(s, 1, i - 1) = SubSeq(t, 1, i - 1)

\* discover_path_traces: what follows `<stem>_` in the name of a trace beside
\* the program, in the order of those labels.
Label(j, t) == SubSeq(t.stem, Len(j.stem) + 2, Len(t.stem))
Traces(j) ==
  LET found == {t \in j.dir : IsStrictPrefix(Append(j.stem, "_"), t.stem)}
      arms == {[t.arm EXCEPT !.name = Label(j, t)] : t \in found}
  IN  SetToSortSeq(arms, LAMBDA s, t : Before(s.name, t.name))

\* --target-name keeps the instructions of that name.
Targets(j) ==
  IF j.args.target = <<>> THEN j.arms
  ELSE SelectSeq(j.arms, LAMBDA a : a.name = j.args.target)

Discovered == Traces(job)
Selected == Targets(job)

\* Directory listings and sidecars are finite lists; compute units are integers,
\* and an arm without a budget has a negative one.
IsList(s) == s \in Seq(Range(s))
ASSUME JobAssumption ==
  \A j \in Jobs \cup Reruns :
    /\ IsList(Traces(j)) /\ IsList(Targets(j)) /\ IsList(j.arms) /\ IsList(j.args.suffixes)
    /\ \A i \in DOMAIN Targets(j) : Targets(j)[i].cu \in Nat /\ Targets(j)[i].budget \in Int

\* What the walk hands over.  post_atoms has the cells of the precondition, at
\* their places; 8-byte cells are told apart by base and offset (the key of
\* mem_cells, where only byte cells have a delta); collect_pre_vars binds every
\* entry value; no hypothesis mentions a name of the form of memory_binder_name.
NoMemoryName(prop) == IsList(prop) /\ \A x \in DOMAIN prop : prop[x][1] # "m"
Known(path, e) == IsInit(e) => e[2] \in Range(path.vars) /\ e[2][1] # "m"
Liftable(path) ==
  /\ IsList(path.pre) /\ IsList(path.post) /\ IsList(path.vars) /\ IsList(path.abstractions)
  /\ IsList(path.bounds) /\ IsList(path.branches) /\ IsList(path.sides)
  /\ DOMAIN path.pre = DOMAIN path.post
  /\ \A i \in DOMAIN path.pre :
       /\ path.pre[i].off \in Int /\ Known(path, path.pre[i].value)
       /\ path.post[i].base = path.pre[i].base /\ path.post[i].off = path.pre[i].off
       /\ path.post[i].width = path.pre[i].width
       /\ path.post[i].value[1] \in {"wrapAdd", "wrapSub", "natAdd"} =>
            \A x \in {2, 3} : Known(path, path.post[i].value[x])
  /\ \A i, k \in DOMAIN path.pre :
       path.pre[i].width = 8 /\ path.pre[k].width = 8 /\ path.pre[i].base = path.pre[k].base
         /\ path.pre[i].off = path.pre[k].off => i = k
  /\ \A i \in DOMAIN path.abstractions :
       path.abstractions[i].param[1] # "m" /\ NoMemoryName(path.abstractions[i].rhs)
  /\ \A i \in DOMAIN path.bounds : path.bounds[i].name[1] # "m"
  /\ \A i \in DOMAIN path.sides : NoMemoryName(path.sides[i].prop)
ASSUME PathAssumption ==
  \A j \in Jobs \cup Reruns :
    /\ j.desc.op \in {"addConst", "addParam"} /\ IsList(j.desc.layout.fields)
    /\ \A i \in DOMAIN j.desc.layout.fields :
         /\ j.desc.layout.fields[i].off \in Int
         /\ j.desc.layout.fields[i].kind \in {"u64", "byte", "pubkey", "bytes"}
    /\ Liftable(j.one.path) /\ \A i \in DOMAIN Traces(j) : Liftable(Traces(j)[i].path)

-----------------------------------------------------------------------------
(* parse_args_from                                                             *)

ExplicitModes(args) ==
  {m \in {"profile", "coverage", "transition", "qedmeta", "cpi"} :
     IF m = "cpi" THEN args.suffixes # <<>> ELSE m \in args.flags}

Command(args) ==
  LET modes == ExplicitModes(args)
  IN  IF "cpi" \notin modes /\ "cpiExtra" \in args.flags THEN "refused"
      ELSE IF Cardinality(modes) > 1 THEN "refused"
      ELSE IF "cpi" \in modes /\ "outputDir" \notin args.flags THEN "refused"
      ELSE IF "so" \notin args.flags THEN "refused"
      ELSE IF modes # {} THEN CHOOSE m \in modes : TRUE
      ELSE IF {"idl", "outputDir"} \subseteq args.flags THEN "batch"
      ELSE "single"

Has(flag) == flag \in job.args.flags

-----------------------------------------------------------------------------
(* lift_one_with_layouts: the order in which a lift can be refused.            *)

Refused(kind) == [ok |-> FALSE, kind |-> kind]

\* LiftOptions::validate
Validate(req) ==
  CASE req.desc # <<>> /\ req.desc[1].schema > SchemaMax -> "UnsupportedConstruct"
    [] req.module = "empty" -> "UnsupportedConstruct"
    [] req.shared = "empty" -> "UnsupportedConstruct"
    [] OTHER -> "none"

\* emit_prelude: small programs without modelled syscalls embed the whole decode.
EmitDecodeBridge(prog) == prog.version = "V0" /\ prog.small /\ ~prog.syscalls

\* Everything before the walk.
Prelude(prog, req) ==
  IF Validate(req) # "none" THEN Validate(req)
  ELSE IF \/ prog.version \notin {"V0", "V3"}
          \/ prog.version = "V3" /\ prog.badCall
          \/ req.shared # "none" /\ EmitDecodeBridge(prog)
       THEN "UnsupportedConstruct" ELSE "none"

\* The code requirement, the decode pins (not with the inline bridge), the
\* satisfiability witness and the fault corollary each refuse the lift.
Refuses(prog, arm) ==
  \/ arm.late \in {"codeReq", "witness"}
  \/ arm.late = "pins" /\ ~EmitDecodeBridge(prog)
  \/ arm.late = "fault" /\ arm.path.terminal \in {"abort", "oob", "invoke"}

\* The descriptor's refinement wins over the registry's.
RefinementOutcome(req, arm) ==
  IF req.desc # <<>> THEN arm.refine
  ELSE IF req.armName /\ arm.registered /\ arm.refine = "emitted" THEN "emitted"
  ELSE IF req.armName THEN "unsupported"
  ELSE "notRequested"

Lift(req, arm) ==
  IF Prelude(job.prog, req) # "none" THEN Refused(Prelude(job.prog, req))
  ELSE IF arm.walk = "panic" THEN Refused("panic")
  ELSE IF arm.walk = "err" THEN Refused(arm.kind)
  ELSE IF Refuses(job.prog, arm) THEN Refused("Emission")
  ELSE [ok |-> TRUE, kind |-> "none", cu |-> arm.cu,
        refinement |-> RefinementOutcome(req, arm),
        transition |-> IF req.desc = <<>> THEN Unwired
                       ELSE Corollary(req.desc[1], arm.path, req.traced)]

\* What each mode asks of a lift.
Request == [desc |-> <<>>, module |-> "none", shared |-> "none", armName |-> FALSE, traced |-> FALSE]
Requested ==
  CASE command = "transition" -> [Request EXCEPT !.desc = <<job.desc>>, !.traced = TRUE]
    [] command = "qedmeta" ->
         [Request EXCEPT !.armName = TRUE, !.shared = job.args.shared, !.traced = Has("trace")]
    [] command = "batch" -> [Request EXCEPT !.armName = TRUE, !.shared = job.args.shared]
    [] command = "single" ->
         [Request EXCEPT !.desc = IF Has("descriptor") THEN <<job.desc>> ELSE <<>>,
                         !.module = job.args.module, !.shared = job.args.shared,
                         !.armName = Has("armName"), !.traced = Has("trace")]
    [] command = "cpi" -> [Request EXCEPT !.module = IF outcomes = <<>> THEN job.args.module ELSE "none",
                                          !.traced = (outcomes # <<>> \/ Has("trace"))]
    [] command = "coverage" -> [Request EXCEPT !.traced = (Discovered # <<>> \/ Has("trace"))]

\* The next lift of this invocation panics.
Panics ==
  /\ Lift(Requested, todo[1]).kind = "panic"
  /\ command = "transition" => todo[1].trace
  /\ command = "cpi" /\ outcomes # <<>> => todo[1].follows

-----------------------------------------------------------------------------
(* What is written.  write_lift_result: the lift, the shared text, then the    *)
(* refinement next to it.                                                      *)

Text(arm, imports) == [run |-> number, arm |-> arm.name, imports |-> imports]
Entry(file, content) == [file |-> file, content |-> content]

LiftResult(arm, file, req, refinement) ==
  LET text == <<"text", <<>>>>
      module == Module(arm.name)
  IN  <<Entry(file, Text(arm, IF req.shared = "base" THEN {text} ELSE {}))>>
        \o (IF req.shared = "base" THEN <<Entry(text, [run |-> number, arm |-> <<>>, imports |-> {}])>> ELSE <<>>)
        \o (IF refinement = "emitted" THEN <<Entry(<<"refinement", module>>, Text(arm, {file}))>> ELSE <<>>)

Lifted(label) == <<"lifted", Module(label)>>

-----------------------------------------------------------------------------
Ended(status) ==
  /\ stage' = "ended" /\ exit' = status

\* What an invocation starts from.
Fresh(j, n, dir) ==
  /\ job' = j /\ number' = n /\ command' = "none" /\ stage' = "parse" /\ todo' = <<>>
  /\ outcomes' = <<>> /\ infos' = <<>> /\ bundle' = <<>> /\ queue' = <<>> /\ ticks' = {}
  /\ over' = FALSE /\ hook' = "default" /\ exit' = "none" /\ before' = dir /\ files' = dir

Init ==
  /\ job \in Jobs /\ number = 1 /\ command = "none" /\ stage = "parse" /\ todo = <<>>
  /\ outcomes = <<>> /\ infos = <<>> /\ bundle = <<>> /\ queue = <<>> /\ ticks = {}
  /\ over = FALSE /\ hook = "default" /\ exit = "none"
  /\ before = [f \in {} |-> f] /\ files = before

Again ==
  /\ stage = "ended" /\ number < MaxInvocations
  /\ \E j \in Reruns : Fresh(j, number + 1, files)

ParseArgs ==
  /\ stage = "parse"
  /\ command' = Command(job.args)
  /\ IF command' = "refused" THEN Ended("error") ELSE stage' = "load" /\ exit' = exit
  /\ UNCHANGED <<job, number, todo, outcomes, infos, bundle, queue, ticks, over, hook, before, files>>

\* run: the program, the trace and the descriptor must load; an IDL that does not
\* is taken as absent (except by batch mode, which reads it again).
LoadFails ==
  \/ ~job.loads
  \/ Has("trace") /\ ~job.one.trace
  \/ Has("descriptor") /\ ~job.descLoads
  \/ command = "profile" /\ ~Has("trace")
  \/ command = "transition" /\ ~{"descriptor", "outputDir"} \subseteq job.args.flags
  \/ command = "transition" /\ Len(Discovered) < 2
  \/ command = "qedmeta" /\ ~job.metaLoads
  \/ command = "batch" /\ ~job.idlLoads
  \/ command = "cpi" /\ \E i \in DOMAIN job.args.suffixes : ~job.args.suffixes[i].trace

Work ==
  CASE command = "transition" -> Discovered
    [] command = "coverage" -> IF Discovered = <<>> THEN <<job.one>> ELSE Discovered
    [] command = "qedmeta" -> Selected
    [] command = "batch" -> job.arms
    [] command = "cpi" -> <<job.one>> \o job.args.suffixes
    [] command = "single" -> <<job.one>>
    [] command = "profile" -> <<>>

Load ==
  /\ stage = "load"
  /\ IF LoadFails \/ (command = "qedmeta" /\ Selected = <<>>)
     THEN Ended("error") /\ UNCHANGED <<todo, hook>>
     ELSE /\ stage' = "work" /\ exit' = exit /\ todo' = Work
          /\ hook' = IF command = "coverage" THEN "silent" ELSE hook
  /\ UNCHANGED <<job, number, command, outcomes, infos, bundle, queue, ticks, over, before, files>>

Working(c) == stage = "work" /\ command = c /\ queue = <<>>
Next1(c) == Working(c) /\ todo # <<>>
Done(c) == Working(c) /\ todo = <<>>

-----------------------------------------------------------------------------
(* --transition                                                                *)

Outcome(arm, status, reason) == [name |-> arm.name, status |-> status, reason |-> reason]

\* One discovered path; every path is attempted.
PathVerdict(arm, r) ==
  IF ~arm.trace THEN Unsupported("TraceUnreadable")
  ELSE IF ~r.ok THEN Unsupported("LiftFailed")
  ELSE IF ~r.transition.ok THEN r.transition
  ELSE IF r.transition.kind.end = "return" /\ r.transition.kind.code = "sym"
       THEN Unsupported("SymbolicExitCode")
  ELSE r.transition
PathResult(arm) == PathVerdict(arm, Lift(Requested, arm))

TransitionPath ==
  /\ Next1("transition") /\ ~Panics
  /\ LET r == PathResult(todo[1])
     IN  /\ outcomes' = Append(outcomes, Outcome(todo[1], r.status, r.reason))
         /\ infos' = IF r.ok THEN Append(infos, [arm |-> todo[1], info |-> r]) ELSE infos
  /\ todo' = Tail(todo)
  /\ UNCHANGED <<job, number, command, stage, bundle, queue, ticks, over, hook, exit, before, files>>

\* A mutation: one emitted path is enough.
MutAllEmitted == \E i \in DOMAIN outcomes : outcomes[i].status = "emitted"
AllEmitted == \A i \in DOMAIN outcomes : outcomes[i].status = "emitted"

\* A mutation: the bundle first.
MutTransitionFiles ==
  <<Entry(<<"bundle", PascalCase(job.stem)>>,
          [run |-> number, arm |-> job.stem,
           imports |-> {Lifted(infos[i].arm.name) : i \in DOMAIN infos}])>>
    \o [i \in DOMAIN infos |-> Entry(Lifted(infos[i].arm.name), Text(infos[i].arm, {}))]

\* The path files in order, the bundle that imports them last.
TransitionFiles ==
  [i \in DOMAIN infos |-> Entry(Lifted(infos[i].arm.name), Text(infos[i].arm, {}))]
    \o <<Entry(<<"bundle", PascalCase(job.stem)>>,
               [run |-> number, arm |-> job.stem,
                imports |-> {Lifted(infos[i].arm.name) : i \in DOMAIN infos}])>>

\* Artifacts only when every path and the bundle are there.
TransitionBundle ==
  /\ Done("transition") /\ bundle = <<>>
  /\ LET b == Bundle([i \in DOMAIN infos |-> infos[i].info])
     IN  IF AllEmitted /\ b.ok
         THEN /\ bundle' = <<b>> /\ queue' = TransitionFiles
              /\ ticks' = {TransitionFiles[i] : i \in DOMAIN TransitionFiles}
              /\ UNCHANGED <<stage, exit>>
         ELSE Ended("error") /\ UNCHANGED <<bundle, queue, ticks>>
  /\ UNCHANGED <<job, number, command, todo, outcomes, infos, over, hook, before, files>>

TransitionEnd ==
  /\ Done("transition") /\ bundle # <<>>
  /\ Ended("ok")
  /\ UNCHANGED <<job, number, command, todo, outcomes, infos, bundle, queue, ticks, over, hook, before, files>>

-----------------------------------------------------------------------------
(* --qedmeta, batch and a single arm                                           *)

OutFile(arm) == IF Has("output") THEN <<"output", <<>>>> ELSE Lifted(arm.name)

\* run_qedmeta_mode: an arm that does not lift ends the run; one over its budget
\* is written and the run fails at the end.
OverBudget(arm, cu) == arm.budget >= 0 /\ cu > arm.budget
MetaArm ==
  /\ Next1("qedmeta") /\ ~Panics
  /\ LET r == Lift(Requested, todo[1])
         written == LiftResult(todo[1], OutFile(todo[1]), Requested, r.refinement)
     IN  IF r.ok /\ (Has("output") \/ Has("outputDir"))
         THEN /\ over' = (over \/ OverBudget(todo[1], r.cu))
              /\ queue' = written /\ ticks' = ticks \cup {written[i] : i \in DOMAIN written}
              /\ outcomes' = Append(outcomes, Outcome(todo[1], "emitted", "none"))
              /\ todo' = Tail(todo) /\ UNCHANGED <<stage, exit>>
         ELSE Ended("error") /\ UNCHANGED <<over, queue, ticks, outcomes, todo>>
  /\ UNCHANGED <<job, number, command, infos, bundle, hook, before, files>>

MetaEnd ==
  /\ Done("qedmeta")
  /\ Ended(IF over THEN "error" ELSE "ok")
  /\ UNCHANGED <<job, number, command, todo, outcomes, infos, bundle, queue, ticks, over, hook, before, files>>

\* run_batch_mode: an arm that does not lift is reported and skipped.
BatchArm ==
  /\ Next1("batch") /\ ~Panics
  /\ LET r == Lift(Requested, todo[1])
         written == LiftResult(todo[1], Lifted(todo[1].name), Requested, r.refinement)
     IN  IF r.ok
         THEN /\ queue' = written /\ ticks' = ticks \cup {written[i] : i \in DOMAIN written}
              /\ outcomes' = Append(outcomes, Outcome(todo[1], "emitted", "none"))
         ELSE /\ outcomes' = Append(outcomes, Outcome(todo[1], "skipped", r.kind))
              /\ UNCHANGED <<queue, ticks>>
  /\ todo' = Tail(todo)
  /\ UNCHANGED <<job, number, command, stage, infos, bundle, over, hook, exit, before, files>>

BatchEnd ==
  /\ Done("batch")
  /\ Ended("ok")
  /\ UNCHANGED <<job, number, command, todo, outcomes, infos, bundle, queue, ticks, over, hook, before, files>>

\* run_single_mode: a refinement that was asked for and not emitted ends the run
\* before anything is written; without --output the lift goes to stdout.
SingleArm ==
  /\ Next1("single") /\ ~Panics
  /\ LET r == Lift(Requested, todo[1])
         written == LiftResult(todo[1], <<"output", <<>>>>, Requested, r.refinement)
     IN  IF r.ok /\ (Has("descriptor") => r.refinement = "emitted")
         THEN /\ queue' = IF Has("output") THEN written ELSE <<>>
              /\ ticks' = {queue'[i] : i \in DOMAIN queue'}
              /\ infos' = IF r.transition.ok THEN <<[arm |-> todo[1], info |-> r.transition]>> ELSE <<>>
              /\ outcomes' = Append(outcomes, Outcome(todo[1], r.refinement, "none"))
              /\ todo' = <<>> /\ UNCHANGED <<stage, exit>>
         ELSE Ended("error") /\ UNCHANGED <<queue, ticks, infos, outcomes, todo>>
  /\ UNCHANGED <<job, number, command, bundle, over, hook, before, files>>

SingleEnd ==
  /\ Done("single")
  /\ Ended("ok")
  /\ UNCHANGED <<job, number, command, todo, outcomes, infos, bundle, queue, ticks, over, hook, before, files>>

-----------------------------------------------------------------------------
(* --cpi-suffix: the prefix must end at an invoke, each suffix start right     *)
(* after it and compose with it; nothing is written before all of them do.     *)

Composes(prefix, suffix) ==
  /\ prefix.path.terminal = "invoke" /\ suffix.follows
  /\ ~prefix.path.complex /\ ~suffix.path.complex /\ suffix.composes

CpiLift ==
  /\ Next1("cpi") /\ ~Panics
  /\ LET r == Lift(Requested, todo[1])
     IN  IF r.ok /\ (outcomes # <<>> => Composes(job.one, todo[1]))
         THEN /\ outcomes' = Append(outcomes, Outcome(todo[1], "emitted", "none"))
              /\ todo' = Tail(todo) /\ UNCHANGED <<stage, exit>>
         ELSE Ended("error") /\ UNCHANGED <<outcomes, todo>>
  /\ UNCHANGED <<job, number, command, infos, bundle, queue, ticks, over, hook, before, files>>

CpiFiles ==
  LET prefix == <<"module", <<>>>>
  IN  <<Entry(prefix, Text(job.one, {}))>>
        \o [i \in DOMAIN job.args.suffixes |->
              Entry(<<"module", job.args.suffixes[i].name>>, Text(job.args.suffixes[i], {prefix}))]

CpiWrite ==
  /\ Done("cpi") /\ ticks = {}
  /\ queue' = CpiFiles /\ ticks' = {CpiFiles[i] : i \in DOMAIN CpiFiles}
  /\ UNCHANGED <<job, number, command, stage, todo, outcomes, infos, bundle, over, hook, exit, before, files>>

CpiEnd ==
  /\ Done("cpi") /\ ticks # {}
  /\ Ended("ok")
  /\ UNCHANGED <<job, number, command, todo, outcomes, infos, bundle, queue, ticks, over, hook, before, files>>

-----------------------------------------------------------------------------
(* --coverage and --profile write nothing.                                     *)

\* attempt_lift: a panic is one more failure of the survey.
Attempt ==
  /\ Next1("coverage")
  /\ LET r == Lift(Requested, todo[1])
     IN  outcomes' = Append(outcomes,
           IF ~todo[1].trace THEN Outcome(todo[1], "failed", "TraceInput")
           ELSE IF r.ok THEN Outcome(todo[1], "lifted", "none")
           ELSE Outcome(todo[1], "failed", IF r.kind = "panic" THEN "Other" ELSE r.kind))
  /\ todo' = Tail(todo)
  /\ UNCHANGED <<job, number, command, stage, infos, bundle, queue, ticks, over, hook, exit, before, files>>

Report ==
  /\ Done("coverage")
  /\ hook' = "default"
  /\ Ended("ok")
  /\ UNCHANGED <<job, number, command, todo, outcomes, infos, bundle, queue, ticks, over, before, files>>

Profile ==
  /\ Done("profile")
  /\ Ended(IF job.symbols THEN "ok" ELSE "error")
  /\ UNCHANGED <<job, number, command, todo, outcomes, infos, bundle, queue, ticks, over, hook, before, files>>

-----------------------------------------------------------------------------
Put(file, content) == [f \in DOMAIN files \cup {file} |-> IF f = file THEN content ELSE files[f]]

\* One module reaches the directory.
Write ==
  /\ stage = "work" /\ queue # <<>>
  /\ files' = Put(queue[1].file, queue[1].content)
  /\ queue' = Tail(queue)
  /\ UNCHANGED <<job, number, command, stage, todo, outcomes, infos, bundle, ticks, over, hook, exit, before>>

\* fs::write truncates the file before it writes: an end in between leaves a part of
\* the module, with some of its imports, and takes what the file held before.
Torn(content, some) == [run |-> number, arm |-> <<"torn", content.arm>>, imports |-> some]
Cut ==
  \/ files' = files
  \/ queue # <<>> /\ \E some \in SUBSET queue[1].content.imports : files' = Put(queue[1].file, Torn(queue[1].content, some))

WriteFails ==
  /\ stage = "work" /\ queue # <<>>
  /\ Ended("ioError") /\ Cut
  /\ UNCHANGED <<job, number, command, todo, outcomes, infos, bundle, queue, ticks, over, hook, before>>

\* A lift that panics takes the process with it, except in a survey.
Panic ==
  /\ stage = "work" /\ queue = <<>> /\ todo # <<>> /\ command # "coverage"
  /\ Panics
  /\ Ended("panic")
  /\ UNCHANGED <<job, number, command, todo, outcomes, infos, bundle, queue, ticks, over, hook, before, files>>

Kill ==
  /\ stage = "work"
  /\ Ended("killed") /\ Cut
  /\ UNCHANGED <<job, number, command, todo, outcomes, infos, bundle, queue, ticks, over, hook, before>>

Step ==
  \/ ParseArgs \/ Load
  \/ TransitionPath \/ TransitionBundle \/ TransitionEnd
  \/ MetaArm \/ MetaEnd \/ BatchArm \/ BatchEnd \/ SingleArm \/ SingleEnd
  \/ CpiLift \/ CpiWrite \/ CpiEnd \/ Attempt \/ Report \/ Profile
  \/ Write \/ WriteFails \/ Panic \/ Kill

Next == Step \/ Again

Spec == Init /\ [][Next]_vars
-----------------------------------------------------------------------------
\* An invocation that reports success has told the truth: every file it reported
\* holds a whole module it reported for that file (two arms may share a name once it
\* is in Pascal case), never one that an earlier run tore; a transition run covers every discovered trace, no arm of a
\* sidecar exceeds its budget, a refinement that was asked for was emitted, and a
\* survey accounts for every trace and gives the panic hook back.
SuccessIsHonest ==
  exit = "ok" =>
    /\ \A t \in ticks :
         t.file \in DOMAIN files /\ \E u \in ticks : u.file = t.file /\ files[t.file] = u.content
    /\ command = "transition" =>
         \A i \in DOMAIN Discovered : \E t \in ticks : t.content.arm = Discovered[i].name
    /\ command = "qedmeta" =>
         \A i \in DOMAIN Selected : Selected[i].budget >= 0 => Selected[i].cu <= Selected[i].budget
    /\ command = "single" /\ Has("descriptor") => outcomes[1].status = "emitted"
    /\ command = "coverage" =>
         Len(outcomes) = (IF Discovered = <<>> THEN 1 ELSE Len(Discovered)) /\ hook = "default"

\* The directory stays coherent whatever invocations were refused, killed or
\* unable to write: a bundle theorem never imports a path module that is not
\* there, and a refused run (of the modes that lift everything before they write
\* anything) leaves the directory as it was.
DirectoryIsCoherent ==
  /\ \A f \in DOMAIN files : f[1] = "bundle" => files[f].imports \subseteq DOMAIN files
  /\ exit = "error" /\ command \notin {"qedmeta", "batch"} => files = before

\* What a corollary says about a 64-bit field or a limb of a public key after the
\* path is what the lifted path left in the dword cell at its place.  A byte field is
\* stated without a look at the path's end (transition.rs:594-600), and a 64-bit field
\* that the path touches with narrower accesses only is framed (FramesAreOutside):
\* of these nothing is said, although transition.rs:522 has every change fail.
AfterIsTrue ==
  \A i \in DOMAIN infos :
    LET c == infos[i].info
        left == CleanBalanceShifts(infos[i].arm.path.post, TRUE).post
    IN  c.kind.end = "return" =>
          \A j \in {k \in DOMAIN c.post : ~c.post[k].byte} :
            LET cells == Held(left, c.post[j].base, c.post[j].off, Dword)
            IN  cells # <<>> => cells[1].value = c.post[j].value

\* The bundle applies every path's corollary to binders it has: each value is
\* bound, and each hypothesis under its name states, of the values handed over,
\* what the corollary asks for.
BundleAppliesEveryPath ==
  bundle # <<>> =>
    \A i \in DOMAIN infos :
      LET items == infos[i].info.items
          args == bundle[1].args[i]
          Passed(t) == LET at == {k \in DOMAIN items : items[k].kind = "val" /\ items[k].name = t}
                       IN  IF at = {} THEN t ELSE args[CHOOSE k \in at : TRUE]
      IN  \A k \in DOMAIN items :
            CASE items[k].kind = "guard" -> TRUE
              [] items[k].kind = "val" -> \E v \in DOMAIN bundle[1].vals : bundle[1].vals[v] = args[k]
              [] items[k].kind = "hyp" ->
                   \E h \in DOMAIN bundle[1].hyps :
                     /\ bundle[1].hyps[h].name = args[k]
                     /\ bundle[1].hyps[h].prop = [x \in DOMAIN items[k].prop |-> Passed(items[k].prop[x])]

\* "Tracked cells outside the prefix footprint are framed" (transition.rs): what a
\* corollary frames next to the path's own cells is disjoint from them.
FramesAreOutside ==
  \A i \in DOMAIN infos :
    \A j \in DOMAIN infos[i].info.frame, k \in DOMAIN infos[i].arm.path.pre :
      LET f == infos[i].info.frame[j]
          c == infos[i].arm.path.pre[k]
      IN  f.base = c.base => f.off + f.width <= c.off \/ c.off + c.width <= f.off
=============================================================================
