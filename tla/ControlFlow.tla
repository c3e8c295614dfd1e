---------------------------- MODULE ControlFlow ----------------------------
(***************************************************************************)
(* The static view qed-analysis takes of a program: how control leaves     *)
(* each instruction (cfg.rs decode_flow), the partition into functions,    *)
(* the exits of the entry function and what reaches r0 there, the panic    *)
(* chains of noreturn.rs and the successor graph of success_proofs.rs.     *)
(*                                                                         *)
(* A job is [code, entry, v3]: code is a sequence of instructions, the     *)
(* instruction at logical PC p is code[p + 1].  Instructions:              *)
(*   ja t    jcc t    call t    sys name    callx    exit                  *)
(* and the data instructions of Provenance, after which control goes on.   *)
(***************************************************************************)
EXTENDS Integers, Sequences, FiniteSets, SequencesExt

PCs(job) == 0 .. Len(job.code) - 1
At(job, p) == job.code[p + 1]
NoTarget == -1

\* Syscall names the analysis knows; "other" stands for a registered syscall
\* that is on no list, and for a hash that is no syscall at all.
NoReturnSyscalls == {"abort", "sol_panic_"}

\* decode_flow, with is_cond_jump.  A call that resolves to no function is
\* taken for a syscall in V0 and is unresolved in V3.
Flow(job, p) ==
  LET ins == At(job, p)
      ok == ins.t \in PCs(job)
  IN  CASE ins.op = "exit" -> [k |-> "exit", t |-> NoTarget]
        [] ins.op = "ja" -> [k |-> IF ok THEN "jump" ELSE "unresolved", t |-> ins.t]
        [] ins.op = "jcc" -> [k |-> IF ok THEN "branch" ELSE "unresolved", t |-> ins.t]
        [] ins.op = "call" -> [k |-> IF ok THEN "call" ELSE IF job.v3 THEN "unresolved" ELSE "syscall", t |-> ins.t]
        [] ins.op = "sys" -> [k |-> "syscall", t |-> NoTarget]
        [] ins.op = "callx" -> [k |-> "callx", t |-> NoTarget]
        [] OTHER -> [k |-> "seq", t |-> NoTarget]
Kind(job, p) == Flow(job, p).k
Target(job, p) == Flow(job, p).t
SyscallName(job, p) == IF At(job, p).op = "sys" THEN At(job, p).name ELSE "other"

\* The PCs reached from a set of PCs along a successor function.
Onward(next, T) == T \cup UNION {next[p] : p \in T}
Closure(next, S) ==
  LET grow[T \in SUBSET DOMAIN next] == IF Onward(next, T) = T THEN T ELSE grow[Onward(next, T)]
  IN  grow[S]
----------------------------------------------------------------------------
(* Cfg: functions, the ones that never return, and the outcomes. *)

\* Function entries: the program entry and every target of a call.
Entries(job) == {job.entry} \cup {Target(job, p) : p \in {q \in PCs(job) : Kind(job, q) = "call"}}

\* Whether control stops at p: a call that never returns.
IsTerminal(job, noret, p) ==
  \/ Kind(job, p) = "call" /\ Target(job, p) \in noret
  \/ Kind(job, p) = "syscall" /\ SyscallName(job, p) \in NoReturnSyscalls

\* Mutant of Successors: a conditional jump only goes where it is taken.
MutSuccessors(job, noret) == [p \in PCs(job) |->
   IF Kind(job, p) \in {"branch", "jump"} THEN {Target(job, p)} \cap PCs(job)
   ELSE IF Kind(job, p) = "exit" THEN {} ELSE {p + 1} \cap PCs(job)]
\* Cfg::successors; body drops the ones past the end of the code.
Successors(job, noret) == [p \in PCs(job) |->
  LET next == CASE IsTerminal(job, noret, p) -> {}
                [] ~ IsTerminal(job, noret, p) /\ Kind(job, p) \in {"exit", "unresolved"} -> {}
                [] Kind(job, p) = "jump" -> {Target(job, p)}
                [] Kind(job, p) = "branch" -> {Target(job, p), p + 1}
                [] OTHER -> {p + 1}
  IN  next \cap PCs(job)]

Bodies(job, noret) == [f \in Entries(job) |-> Closure(Successors(job, noret), {f})]
HasNoExit(job, fns) == {f \in DOMAIN fns : \A p \in fns[f] : Kind(job, p) # "exit"}

\* reachable_functions
ReachableFunctions(job, fns) ==
  Closure([f \in DOMAIN fns |-> {Target(job, p) : p \in {q \in fns[f] : Kind(job, q) = "call"}}], {job.entry})

\* r0_write: what an instruction defines r0 to be, "none" when it does not.
R0Write(job, p) ==
  CASE Kind(job, p) = "call" -> <<"call", Target(job, p)>>
    [] Kind(job, p) = "syscall" -> <<"sys">>
    [] Kind(job, p) \in {"callx", "unresolved"} -> <<"computed">>
    [] Kind(job, p) = "seq" /\ At(job, p).op \notin {"nop", "st"} /\ At(job, p).d = 0 ->
         IF At(job, p).op # "mov" THEN <<"computed">>
         ELSE IF At(job, p).imm = 0 THEN <<"zero">> ELSE <<"nonzero">>
    [] OTHER -> <<"none">>

\* outcomes and r0_defs: the definitions that reach the end of `from`, walking
\* back to the nearest write.
R0Defs(job, noret, body, from) ==
  LET succ == Successors(job, noret)
      pred == [p \in body |-> {q \in body : p \in succ[q]}]
      silent == [p \in body |-> {q \in pred[p] : R0Write(job, q) = <<"none">>}]
      walked == Closure(silent, {from})
  IN  IF R0Write(job, from) # <<"none">> THEN {R0Write(job, from)}
      ELSE {R0Write(job, q) : q \in UNION {pred[p] : p \in walked}} \ {<<"none">>}
ExitEdges(job, noret, fns) ==
  LET body == fns[job.entry]
  IN  {[from |-> e[1], r0 |-> R0Defs(job, noret, body, e[1])] :
         e \in {x \in body \X body : Kind(job, x[2]) = "exit" /\ x[2] \in Successors(job, noret)[x[1]]}}
\* Mutant of IsSuccess: one zero definition is enough.
MutIsSuccess(edge) == <<"zero">> \in edge.r0
IsSuccess(edge) == edge.r0 = {<<"zero">>}
ReachableCallx(job, fns) ==
  {p \in UNION {fns[f] : f \in ReachableFunctions(job, fns)} : Kind(job, p) = "callx"}
----------------------------------------------------------------------------
(* noreturn.rs: witnesses that a function ends in sol_panic_. *)

\* The length of the straight run of instructions at p.
Run(job, p) ==
  LET run[q \in Nat] == IF q \in PCs(job) /\ Kind(job, q) = "seq" THEN 1 + run[q + 1] ELSE 0
  IN  run[p]

\* Walk::visit: a step is pushed after the steps it continues at.
Push(w, p, step) == [w EXCEPT !.active = @ \ {p}, !.done = @ \cup {p}, !.steps = Append(@, step)]
Walks == [done : SUBSET Nat, active : SUBSET Nat, ok : BOOLEAN,
          steps : Seq([k : STRING, pc : Nat, next : Seq(Nat)])]
\* What is left open at p: the step of p and the PCs it continues at, none for a
\* step that is no link of a chain.
Link(job, p) ==
  LET n == Run(job, p)
      to(k, next) == <<[k |-> k, pc |-> p, next |-> next]>>
  IN  IF n > 0 THEN to("straight", <<p + n>>)
      ELSE IF p \notin PCs(job) THEN <<>>
      ELSE CASE Kind(job, p) = "call" -> to("callLocal", <<Target(job, p)>>)
             [] Kind(job, p) = "branch" -> to("branch", <<Target(job, p), p + 1>>)
             [] Kind(job, p) = "syscall" /\ SyscallName(job, p) = "sol_panic_" -> to("panicCall", <<>>)
             [] OTHER -> <<>>
Visit(job, first, start) ==
  LET visit[w \in Walks, p \in Nat] ==
        IF p \in w.done THEN w
        ELSE IF p \in w.active \/ Link(job, p) = <<>> THEN [w EXCEPT !.ok = FALSE]
        ELSE LET v == FoldLeft(LAMBDA acc, q : IF acc.ok THEN visit[acc, q] ELSE acc,
                               [w EXCEPT !.active = @ \cup {p}], Link(job, p)[1].next)
             IN  IF v.ok THEN Push(v, p, Link(job, p)[1]) ELSE v
  IN  visit[first, start]

\* Mutant of NoReturnWitness: a function whose chain fails is a head as well.
MutNoReturnWitness(job, noret, fns) ==
  [heads |-> noret \cap ReachableFunctions(job, fns), done |-> {}, steps |-> <<>>]
\* noreturn_witness: the functions in the order of their PCs; one whose chain fails
\* is skipped, with its steps.
AddHead(acc, f, v) ==
  IF v.ok THEN [heads |-> acc.heads \cup {f}, done |-> v.done, steps |-> v.steps] ELSE acc
NextHead(job, todo, acc, f) ==
  IF f \notin todo THEN acc
  ELSE AddHead(acc, f, Visit(job, [done |-> acc.done, active |-> {}, steps |-> acc.steps, ok |-> TRUE], f))
NoReturnWitness(job, noret, fns) ==
  LET upto[n \in 0 .. Len(job.code)] ==
        IF n = 0 THEN [heads |-> {}, done |-> {}, steps |-> <<>>]
        ELSE NextHead(job, noret \cap ReachableFunctions(job, fns), upto[n - 1], n - 1)
  IN  upto[Len(job.code)]
----------------------------------------------------------------------------
(* success_proofs.rs Graph: the successors the Lean path checker uses. *)

\* Graph::new.  A panic syscall continues here; an indirect call does not.
GraphSucc(job, heads) == [p \in PCs(job) |->
  CASE Kind(job, p) = "call" /\ Target(job, p) \in heads -> {}
    [] Kind(job, p) \in {"exit", "callx"} -> {}
    [] Kind(job, p) = "jump" -> {Target(job, p)}
    [] Kind(job, p) = "branch" -> {Target(job, p), p + 1}
    [] OTHER -> {p + 1}]
GraphError(job, heads) ==
  \/ \E p \in PCs(job) : Kind(job, p) = "unresolved"
  \/ \E p \in PCs(job) : ~ (GraphSucc(job, heads)[p] \subseteq PCs(job))

\* Graph::reach, forward and backward, not continuing at the stops.
GReach(succ, start, stops) ==
  Closure([p \in DOMAIN succ |-> IF p \in stops THEN {} ELSE succ[p]], {start})
GReachBack(succ, start) ==
  Closure([p \in DOMAIN succ |-> {q \in DOMAIN succ : p \in succ[q]}], {start})

\* Mutant of Guards: any branch with one side towards the edge.
MutGuards(job, succ, start, edge) ==
  LET back == GReachBack(succ, edge)
  IN  {[pc |-> p, on |-> CHOOSE q \in succ[p] \cap back : TRUE] :
        p \in {q \in GReach(succ, start, {}) \ {edge} :
                 q \in back /\ Kind(job, q) = "branch" /\ Cardinality(succ[q] \cap back) = 1}}
\* Graph::guards: a branch on every path from start to edge, one side of which
\* still reaches the edge.
Guards(job, succ, start, edge) ==
  LET back == GReachBack(succ, edge)
      sides(p) == {q \in {Target(job, p), p + 1} : q \in back}
  IN  {[pc |-> p, on |-> CHOOSE q \in sides(p) : TRUE] :
        p \in {q \in GReach(succ, start, {}) \ {edge} :
                 /\ q \in back /\ Kind(job, q) = "branch"
                 /\ Target(job, q) # q + 1 /\ Cardinality(sides(q)) = 1
                 /\ edge \notin GReach(succ, start, {q})}}
=============================================================================
