# A TLA+ model of qedsvm

qedsvm runs Solana programs (SBPF ELF images) under an interpreter written in
Lean and called from Rust, and generates Lean theorems about compiled programs.
This directory models both halves. The execution half decides what a transaction
instruction may do: the Rust host, the interpreter's cross-program-invocation
(CPI) runner and compute meter, the native System program, the account-change
rules, and the lock around the Lean runtime. The proof-generating half decides
what is claimed of a program: qedlift (a symbolic walk over one path, and the
theorems emitted from it) and qed-analysis (control flow, an abstract register
map, and theorems about every path to a success exit). TLC checks the models on
small instances; TLAPS proves, for every value of the constants, the safety
properties of the execution half, those of the qedlift command and of its walk,
and all that qed-analysis claims of the runs of a program.

Paths below are relative to the repository.

## 1. Inventory of the system

| Part | State | Operations | Talks to |
|---|---|---|---|
| Lean FFI lock (`qedsvm-rs/src/ffi.rs`, `lib.rs`) | `LEAN_LOCK` (a mutex around "initialised"), its poison bit, Lean objects owned by a call | `lock`, one-shot initialisation, `alloc_bytearray`, an entry point, `sarray_as_slice`, `dec_ref`, unlock; panics at each of them | every thread of the embedding process; the Lean runtime |
| Host (`svm.rs`) | registered programs, budget, rent switch; per call: submitted metas and accounts, result | `process_instruction`; builder methods | serialiser, Lean entry points, account-change check |
| Serialisation (`serialize.rs`, `deserialize.rs`) | none; the input buffer is shared with the program | `dup_map`, `serialize_parameters`, `read_account_writes` | host; programs edit the buffer in place |
| CPI runner (`SVM/SBPF/Runner.lean`, `SVM/Syscalls/Cpi.lean`) | a stack of VMs, each with fuel, compute units, budget, r0, exit, account blocks, privileges; `cpiReturnMem` | one instruction; invoke with its refusals; native dispatch; commit or roll back a callee | System program; itself, recursively |
| Instruction semantics and meter (`SVM/SBPF/Execute.lean`, `Machine.lean`, `Memory.lean`) | registers, memory, call stack, `cuConsumed` | `step`, `chargeExceeds`, `chargeOnly` | runner |
| System program (`SVM/Native/System.lean`) | none of its own; edits the caller's account memory | thirteen instructions | runner |
| Loader, compute-budget and precompile programs (`SVM/Native/`) | as System | native dispatch | runner, host |
| Account-change rules (`SVM/Lib/Runtime/Checks.lean`) | none | `postInstructionCheck` | host |
| Outcome and wire (`Outcome.lean`, `Ffi.lean`, `wire.rs`) | none | encode and decode a run | host, runner |
| ELF loader, decoder | none | parse, relocate, decode | runner |
| Other syscalls (`SVM/Syscalls/`) | log, return data, sysvars | hashing, curves, memory, PDAs, logging | runner |
| qedlift, symbolic walk (`qedlift/src/exec/`, `state.rs`, `core.rs`, `syscalls.rs`, `spec_call.rs`, `branch.rs`, `emit.rs`) | symbolic registers, memory cells, atoms of the precondition, region clauses, reserved names, hot regions and blob splits kept from pass to pass | a pass over a trace or over static control flow; a step with its spec call; a syscall's effect; retry; satisfiability witness | driver |
| qedlift, driver and transitions (`driver.rs`, `lib.rs`, `input.rs`, `api.rs`, `transition.rs`, parts of `lift.rs` and `refinement/`) | arguments, outcomes so far, the output directory | one lift, batch, coverage survey, sidecar, CPI and transition runs; corollaries and the bundle theorem | files on disk, shared between invocations |
| qed-analysis (`cfg.rs`, `discover/`, `success_proofs/`, `input_layout.rs`) | none between calls; a graph, maps and bindings within one | no-return fixpoint, exit edges, guards, abstract map, layout and dispatch discovery, theorems of an edge | qedrecover, the generated Lean checkers |
| qedrecover, qed-artifacts, lean-bridge | manifests, schemas | command lines and file formats around the two | artifacts on disk |
| Lean proof layer | none | theorems about the semantics | - |

What is hard here:

* **Two counters.** A run is bounded by fuel (structural recursion) and by
  compute units. A callee is metered by its caller's *fuel*, not by what is
  left of its caller's compute units. Which counter ends a run, at which depth,
  and whether a caller survives an exhausted callee, is not visible in any one
  function.
* **Nested commit and rollback.** A callee may commit the work of its own
  callees and then fail.
* **Privileges from untrusted memory.** The flags of an invoke come from memory
  the caller may edit.
* **Three states of an account.** A success is judged against the accounts at
  entry, the accounts when the last CPI returned, and the final buffer.
* **Aliasing.** One account under several references, in an instruction, in an
  invoke, in a System instruction.
* **Panics under a lock** around a runtime that is not thread safe and may be
  initialised once.

* **One memory, many renderings.** The symbolic walk identifies addresses by the
  expression that computes them; two expressions may be the same address, and
  two widths the same bytes. Getting it wrong yields a theorem that is false, or
  one whose precondition nothing satisfies.
* **Names before values.** The spec call of an instruction is written before the
  instruction is executed and cites names it will allocate.
* **Mutual recursion of facts.** Which calls return depends on bodies, which
  depend on which calls return; what a register holds depends on lengths that
  are found by looking at registers.
* **Several invocations, one directory.** A run of the command may be killed,
  refused or unable to write between two of the modules that import each other.

What makes each part correct: the lock serialises Lean, initialises it once and
never re-enters it after a panic; the runner terminates, charges what it runs,
lets no privilege appear and no failed write survive; the System program neither
spends nor reassigns without consent; the host reports a success only for
changes the main program was entitled to, with lamports conserved; every call
returns; a theorem that is generated is true of the machine, is not vacuous, and
cites only what it declares; a command that reports success did what it reports.
Section 4 states these as properties, `PROJECT.json` lists the hazards
they are for.

## 2. Modules

```
Accounts ── NativeSystem ──┬── SystemProgram ── MCSystemProgram
   │                       └── CpiRunner ── MCCpiRunner
   ├── AccountChecks ─────────── Svm ── MCSvm
   └── InstructionContract ·······┘ (refined by Svm)
LeanLock

SymState ── SymSyscalls ── SymStep ── Walker ── MCWalker
SymAlu ── MCSymAlu
ControlFlow ── Provenance ── Dispatch ── Analysis ── MCAnalysis
Transition ── Driver ── MCDriver

LeanLockProofs                                   (of LeanLock)
NativeSystemProofs ──┬── SystemProgramProofs     (of SystemProgram)
                     └── CpiRunnerProofs ── SvmProofs   (of CpiRunner, of Svm)
WalkerProofs                                     (of Walker and what it extends)
DriverProofs                                     (of Driver)
AnalysisProofs                                   (of Analysis and what it extends)
```

* `Accounts`: what an account is. Data is one value with the parts of a durable
  nonce, since those are the only parts any modelled code tells apart; it counts
  as present when the length is positive. `ZeroData` is a zeroed buffer.
* `NativeSystem`: the handlers of `System.lean` as operators from memory,
  account list and instruction to memory and success. Balances and lengths are
  read before anything is written and written in source order, so aliased
  lists behave as in the code. `create_with_seed` is the function `SeedAddress`.
* `SystemProgram`: sequences of System instructions under fixed signatures and
  write locks.
* `CpiRunner`: the runner. `vm[l]` is the `State` at invoke depth `l`; only
  `vm[level]` runs; `cpiReturn` is `cpiReturnMem` of the top-level VM. An
  instruction is an action (`Instruction`, `Store`, `Syscall`, `Fault`,
  `CallxFault`, `SyscallFault`, `InvalidPc`, `Exit`), and so is each arm of
  `cpiCallNextState` (`InvokeOverBudget`, `InvokeTooDeep`, `InvokeAliased`,
  `InvokeUnknown`, `InvokeNative`, `InvokeProgram`); `Return` is
  `commitCallee` followed by `applyResult`. Which instruction comes next is
  left open, so a behaviour is a run of some programs, and a property that
  holds of all behaviours holds of all programs.
* `AccountChecks`: `Checks.lean` rule by rule under its names, and the rent rule
  of `svm.rs`.
* `Svm`: `process_instruction` around `CpiRunner`. The refusals are actions in
  the order of the code (precompile, unknown program, writable sysvar, missing
  account, too many accounts, ELF), then `Start`, the run, and `Finish`
  (outcome, read back, judgement, result) or `FinishUnparsable`.
* `InstructionContract`: what the call promises, with the run reduced to the sizes
  it leaves the accounts with; `Svm` implements it (`stage = "answered"` stands for
  `answered`, the lengths in the top-level VM's memory for `left`). It promises
  nothing of the accounts a failed run reports, which hold what the programs wrote,
  nor of read-only accounts after a CPI (section 4).
* `LeanLock`: threads at program points of `lock` and `with_lean`.
* `SymState`: `state.rs`, as operators on a record: cells, atoms, footprints,
  clauses, reserved names, byte-granular regions, tail splits, and the load and
  store paths through them. An expression is a tuple; two renderings of one
  address are two tuples with one `CanonAddr`.
* `SymSyscalls`: the syscall table and the emitters of `syscalls.rs`, each with
  its refusals, atoms, footprints, clauses and postcondition.
* `SymStep`: `step` and `spec_call_for`, one operator per instruction class; a
  spec call is the set of names it cites.
* `Walker`: `walk_and_exec`, one action per way an iteration of its loops ends,
  then what the emitter adds (code requirement, witness). Beside the symbolic
  state it carries what an execution of the same instructions does to memory
  (`mem`, `seen`, `truthful`), which no action reads. Whether the witness can use
  or solve a root that is neither a variable, a constant, an aligned variable nor
  a combination of bytes of its own depends on operators and values this module leaves
  out, so for such roots both `Emit` and `RefuseWitness` are possible; a quotient by a
  register is text and always refused. `SymAlu` has the arithmetic.
* `SymAlu`: each ALU operation twice, as `Execute.lean` computes it and as the
  expression `step` keeps; `EvalExpr` and `SolveExpr` are `eval_expr` and
  `solve_expr`, `Witness` the passes of `build_sat_witness` that give bases to the
  roots of the accesses, in one assignment; a conditional jump leaves the path
  hypothesis that `lean_hyp` renders for its opcode (`LeanHyp`), beside what the
  machine decides (`Goes`).
* `ControlFlow`: `cfg.rs`, `noreturn.rs` and the `Graph` of `success_proofs.rs`.
  `Provenance`: the abstract interpreter of `provenance.rs`. `Dispatch`: layout
  and dispatch discovery, pinned facts, signers and keys, the theorem of an edge.
* `Analysis`: the analysis of one program (`Refine`, `DiscoverBindings`,
  `Generate`) followed by a run of the same program on the machine, so that an
  invariant of the run can say what the analysis claimed.
* `Transition`: from a lifted path and a descriptor to the corollary, or the
  reason there is none, and from corollaries to the bundle theorem. `Driver`: the
  command around it, with its directory; it may be killed (`Kill`) or fail to
  write at any step, with the module it is writing untouched, or torn since
  `fs::write` truncates first (`Cut`), and is invoked again on what is left.

Abstractions worth knowing: r0 and exit codes are zero or not; a fault is an
exit of its own; the account infos of an invoke point into the caller's own
input region, as the entrypoint deserialisers build them; a write past the
growth room of an account into its neighbour's block is not modelled, only the
length that results; logs and return data are left out; the registry is fixed
during a call (`process_instruction` takes `&self`); the saturation of
`rent_minimum_balance` at 2^64 is left out because lengths are bounded.
For the second half: words are narrower. `SymAlu` has 4 bits. In `Analysis` a
dword is two bytes, and the size of a byte, of a register and of an offset, the
places of the stack and of the input in the address space and the bitwise AND
are constants with assumptions (`LayoutAssumption`, `AndAssumption`), so addresses wrap
around as the code's do; the map is that of `abstract_map_with`, which discovery
and the edge theorems use (`abstract_map`, without assumed words, folds nothing);
an account header is 8 bytes instead of 88, generated text is
reduced to the names, cells and facts it mentions, and what the proof emitters
make of one arm is a property of the arm in `Driver`.
The definitions starting with `Mut` or ending in `Bug`, and the few others marked as variants, are
plausible mistakes of the code, kept to show that each property can fail; no
action uses them.

## 3. Runs and bounds

| Run | Instance | Distinct states | Shows |
|---|---|---|---|
| `lean_lock` | 3 threads, 2 calls each, up to 2 arguments | 56,925 | serialisation, one initialisation, no leak, poison is final, calls end |
| `system_program` | 2 accounts (one derived from the other), 2-bit balances, lists up to 3 with repetition, 4 grants | 3,364 | balances stay in range; nothing is spent, reassigned or taken over without consent |
| `cpi_runner` | depth 2, budget 7, invoke cost 2, surcharges 0 and 3, 2 accounts, one of them a PDA with every combination of flags, aliased lists, transfers | 323,682 | fuel never decides, exits are within budget and faults at most one unit over, exhaustion is fatal, privileges are inherited, a failed invoke leaves no trace, runs end |
| `svm` | 12 submissions (2 under rent enforcement), 3 accounts, budget 5 | 565,489 | contract, authorised changes, exact units, read-only sysvars, no new rent payers, every call returns |
| `walker` | all programs of up to three accesses of mixed width through two renderings, of up to three syscall blocks, hand-written control flow; 3 attempts, 16 static steps, 2 frames | 34,339 | what is emitted is true, not vacuous and well-formed; every lift ends |
| `sym_alu` | 4-bit words, 1-bit bytes, two inputs, five immediates (negative, zero, the width), all pairs of operations and every comparison, two accesses through any registers, two series of bases | 230,448 | evaluation mirrors the machine, what the witness steers stays at its base, path hypotheses hold in the direction taken and no other |
| `analysis` | 5,660 programs, call depth 3, bytes below 4, addresses below 512 (stack 100 to 200, input from 256), every input and every nondeterministic step | 135,215 | what the analysis claims holds of the run |
| `driver` | every mode with its refusals, 2 invocations on one directory | 25,247 | success is honest, the directory stays coherent, corollaries and bundle are right |

Bounds. The costs are scaled down (946 and 150 become 2 and 1) and keep the
orders that matter: a surcharge larger than the remaining budget, one that fits
exactly, an invoke that leaves its callee a larger budget than its caller has
left. With depth 2 the VM in the middle is both callee and caller; budget 7 pays
for an invoke within an invoke with stores in each and both returns. Two-bit
balances reach overflow in one transfer. Lengths change in `svm`, not in
`cpi_runner`. `MaxInvokeDepth` is 4 in the code; the depth-limit arm fires at 1
and 2 too, and the proofs hold for every depth and budget. In `svm`, `MaxMetas` is 2 so that the limit
of 255 is reached by a list of three.

For the proof generators the bound is on the program. Three accesses suffice for
a store, an overlapping store in another width and a reload, which is what a
demotion needs; the cap of 8 attempts is 3, and the programs include one that
needs them all and one that needs more. In `analysis` the short programs are all
those of five instructions over a few choices for each place, with helpers before
and behind the entry, so that recursion, no-return callees, joins of r0 and
indirect calls occur; the long ones are a program that checks its input as a
compiled one does, with each instruction replaced by each of a few dozen others.
A second invocation in `driver` is what it takes to meet the leavings of a killed
or failed first one.

Deadlock is checked except in `lean_lock`, `system_program` and `driver`, where
callers simply stop calling; a finished run, lift or call stutters explicitly.

Four runs find the code doing something other than a line of the repository
says; each is a finding in `PROJECT.json`:

* `system_self_transfer`: a transfer from an account to itself adds the amount
  (`System.lean:215` writes the credit last). At the host the resulting
  imbalance ends in `UnbalancedInstruction`, which `svm` covers.
* `driver_frames`: a tracked 64-bit field that a path reads with narrower loads
  is framed beside the cells the path owns, which it overlaps.
* `walker_forms`: a dword load into its own base register (`ldxdw r, [r+off]`) in
  a byte-granular region is executed over eight byte cells, but the spec call
  built for it is the whole-dword one and names a variable that the precondition
  does not declare (`spec_call.rs:181`). The run's second program is the store of
  a register that holds a reloaded word immediate, where `write_mem` looks at the
  value and `spec_call_for` at the opcode; the third reloads a dword cell that holds
  combined bytes, for which `spec_call.rs:259` cites a bound `hReloadLt` that
  `step.rs:54` does not record. All end as Lean text that does not
  elaborate, not as a wrong theorem. The programs of `walker` have none of the three
  forms, and `CitationsExist` holds of them; the theorem
  `Citations` shows that it can fail for no other form (section 5).
* `analysis_jmp32`: a length compared by a 32-bit jump of SBPF V3 is recorded as
  checked in full.

Smaller divergences met on the way, each visible in the named definition and
without a run of its own:

* Only `Transfer` has the writable and owner gates stated for debits
  (`NativeSystem`).
* A callee's budget is its caller's fuel, not what is left of the caller's units
  (`Runner.lean:793`; `ExhaustionIsFatal` shows why no caller profits), and an
  invoke costs its caller more than one unit (`Cpi.lean:57`).
* A `callx` into the second slot of an `lddw` charges two units although the budget
  was checked for one (`Execute.lean:244-246`, 471): a program on its last unit
  faults there with one unit more than its budget, which the report clamps
  (`Outcome.lean:43`). `ExitsWithinBudget` and `ReportedUnitsAreExact` name the case.
* Growth of an account is bounded per invoke, against its current length
  (`Runner.lean:837`); `KeepsContract` shows that the host does not report such a
  run as a success.
* `spec_call_for` knows no `sub64` with an immediate although `step` executes it
  (`spec_call.rs:1273`); a block with one has one spec call less. A loop body
  walked twice gives two hypotheses one name.
* A byte access that an earlier access's byte cell serves under another rendering
  gets its region clause at the first byte of that earlier access: `state.rs:648`
  and 747 push the cell's base and offset without its delta, and `emit.rs:694`
  renders them, while the comment at 642 has the clause at the accessed address.
  `EveryAccessHasItsClause` names the exception: up to seven bytes, and only for
  bytes.
* In a traced walk the successor of straight-line code, `ja` and `call` is the next
  PC of the trace, unchecked (`walk.rs:391-394`); a trace of another program than the
  one lifted would give a block that no run follows. `WalkIsAPath` says of these
  instructions only what holds if the trace agrees with the code (`TraceRuns`);
  branches, returns and indirect calls are checked by the walker and stated in full.
* In a transition, a byte field is stated to be preserved without a look at the
  postcondition, and `AddConst` does not ask that its operand is the entry value of
  the very cell it writes.
* An equality check whose branch goes to the next instruction counts as a check
  although both its sides lead on: `equality_side` (`discover/dispatch.rs:147`)
  names one side and `cut_by` (line 128) removes the edge between the two
  instructions, which is both. A compiler does not emit such a branch; the proof
  of `CheckedLengths` needs a hypothesis that excludes it (`TwoSidedChecks`).
* `--qedmeta --output` with several arms writes them all to one file; names that
  differ only in case or separators collide; `<stem>_` also selects the traces of
  a longer stem; batch mode has no guard against a panic, unlike coverage.

## 4. Properties

`LeanLock`: `LeanIsSerialized`, `NoObjectLeaks`, `PoisonIsFatal`, `CallsEnd`.
`SystemProgram`: `SpendingNeedsConsent`, `ReassigningNeedsConsent`,
`AuthorityIsHeld` (a balance that wraps counts as spent).
`CpiRunner`: `FuelNeverBinds`, `ExitsWithinBudget`, `ExhaustionIsFatal`,
`PrivilegesAreInherited`, `CpiIsAtomic`, `Terminates`. `Svm`:
`SysvarsStayReadOnly`, `ReportedUnitsAreExact`, `ChangesAreAuthorized`,
`NoNewRentPayers`, `KeepsContract`, `EverySubmissionIsAnswered`.
`Walker`: `LiftIsTrue`, `NoVacuousLift`, `EveryAccessHasItsClause`,
`CitationsExist`, `WalkIsAPath`, `CallsFollowBlock`, `LiftEnds`. `SymAlu`:
`EvalMirrorsMachine`, `SolvedMeansEvaluated`, `PathHypothesesHold`. `Analysis`:
`PartitionIsSound`, `ExitIsClassified`, `GuardsArePassed`, `AbstractMapHolds`,
`CheckedLengthsHold`, `ReadableHolds`, `HeadsPanic`. `Driver`: `SuccessIsHonest`,
`DirectoryIsCoherent`, `AfterIsTrue`, `BundleAppliesEveryPath`. The comment
before each says what it means and which code it is about.

`DirectoryIsCoherent` asks that the imports of a bundle are there, not that they are
of its own run: a second run that is killed between the path modules and the bundle
leaves the old bundle over new path modules, and nothing in the files tells the two
apart. `AfterIsTrue` speaks of 64-bit fields and key limbs that have a dword cell;
the fields it leaves out are those of the run `driver_frames` and of the last
divergence on transitions above.

`ChangesAreAuthorized` speaks of runs in which no CPI completed: what the main
program did before its last completed CPI is part of the state authorisation
compares against and is not judged, a gap `docs/COVERAGE.md` and the header of
`Checks.lean` describe.

Fairness. The runner is a total function and `process_instruction` runs on its
caller's thread, so weak fairness of "some step" is what any run that is not
suspended for ever provides (`CpiRunner!FairSpec`, `SvmSpec`). For the lock, weak
fairness of every thread that is inside a call: the operating system schedules
it; nobody is obliged to start a call, and a Rust mutex is not assumed to be
fair. `CallsEnd` therefore rests on each thread making finitely many calls
(`MaxCalls`): among threads that call for ever one may be overtaken for ever. No fairness is assumed of
programs: they may loop until the meter stops them. The walker and the analysis
are loops of one thread that go on until they end: weak fairness of their next
step. `Svm`, `Walker` and `Analysis` write weak fairness out with its enabling
condition (`stage # "answered"`, `~ Ended`, `halt = "no"`); that this is the
condition is what the deadlock check of the same run shows.

## 5. Proofs

All proofs are for arbitrary constants under the named `ASSUME`s, which TLC
evaluates on every run. What they assume of the constants is what the code fixes
(natural bounds and costs, the System program is not a registered program, a seed
address is a function of its arguments) or its types (a job's argument lists are
lists, a budget is a number, an instruction is one the decoder can deliver), or
what one part of the program hands to the next (`PathAssumption`, below). One
of them is a rule of the machine: no instruction has r10 as its destination
(`Decoded`), which is what lets the frame pointer move only at a call and a return.

* `LeanLockProofs`: `Invariance` proves an inductive invariant that ties the
  lock's owner to the program point of each thread and the objects it owns;
  `Serialization`, `InitializationOnce`, `NoLeaks` and `PoisoningIsFatal`
  follow, for any number of threads.
* `NativeSystemProofs`: first, what the sum of a function over a finite set does
  under removal and splitting. The library's induction theorems are out of the
  provers' reach, so `SumIsCount` goes through the number of units and a least
  counterexample. Then `DispatchResult`, by one lemma per handler: well-formed
  accounts stay well-formed (no debit goes below zero) and a failing instruction
  returns the memory it was given.
* `SystemProgramProofs`: `DispatchIsLawful` says for every handler and every
  account list, aliased ones included, that a smaller balance, a changed owner
  or changed nonce data has the signature it needs, or that the account was
  derived from one that signed. The induction then only has to show that the
  lists callers may pass carry no signature beyond the grant (`ListsAreRefs`).
  From this `SpendingIsConsented`, `ReassignmentIsConsented`, `AuthorityIsSafe`.
* `CpiRunnerProofs`: `Invariance` for
  `IInv == TypeOK /\ MeterInv /\ StackInv /\ Inherited`, with the top-level VM
  holding exactly the granted privileges.
  `FuelNeverBinds` is not inductive: whether fuel can run out first depends on
  how fuel and units moved together. `MeterInv` says that a live VM has
  `cu + fuel >= budget` (each instruction burns one unit of fuel and charges at
  least one unit) and that a VM that ended is within budget, or one unit over it
  at a fault. `StackInv` says
  that a VM below the running one is in the middle of an invoke and gave its
  callee exactly its remaining fuel as budget. From these: `FuelIsSlack`,
  `BudgetIsRespected`, `NoPrivilegeEscalation`; `ExhaustionReachesTheTop`
  (an exhausted callee spent at least `fuel - 1` units, which with the invoke's
  own unit and `cu + fuel >= budget` leaves the caller nothing) and `Atomicity`.
* `SvmProofs`: `SvmInvariance` carries the runner's invariant over to the run the
  host starts (`IInv` holds from `Start` on) and adds what each stage knows of
  the result. The work is in the judgement: `CheckAllPasses` and `Judged` say
  what "no error" from `postInstructionCheck` means for one key when the list of
  references may name it several times, `ReadBackFields` what reading back a
  grown account yields (with `Judged`, that a success reports the length that was
  written), `Balanced` that equal sums over the passed accounts mean
  that lamports are conserved. From these `UnitsAreExact`,
  `SuccessIsAuthorized`, `RentIsEnforced`, `SysvarsAreSafe`; and `ContractIsKept`, the
  refinement of `InstructionContract`: every step of the host and of the run
  under it is a step of the contract or a stutter.
* `WalkerProofs`: `WalkInvariant`, for any program, trace, number of retries and
  bounds. None of its properties is inductive, and all of them need
  `Typed(s)`, the well-formedness of the symbolic state, which every operator of
  `SymState`, `SymSyscalls` and `SymStep` preserves (one lemma each). The other
  conjuncts of `IInv`:
  `OnPath` relates the frames on the symbolic stack to the calls the walked block
  has open; the property finds those from the block alone, by a recursive
  function, and whether a traced call by hash opened a function depends on the
  instruction after it, so the invariant speaks of the block together with the
  address about to be walked (`PathOf`, `PathGrows`).
  `Claimed` says that clauses and accesses correspond one to one, each at its
  address but for the bytes named above (`IsClauseFor`, `HitClause`: a cell is found
  only under its own canonical address), or another pass is already asked for: a store whose shape is discarded may leave them apart,
  and only `Retry` being the one way on from there makes the accepted state
  exact. `AllAnswered` lines up specification calls with the rendered
  instructions by counting them. `Settled` records what `Accept` and `Emit` have
  tested, the witness included; `WitnessSeparates` is the argument that a witness
  without a clash puts no byte under two atoms. From these `LiftNotVacuous`,
  `AccessesHaveClauses`, `CallsFollow`, `AcceptedIsAPath`.

  `Citations` adds the invariant `Cites`. A specification call is built before its
  instruction is executed and names what the step has yet to declare, so nothing
  can be said of one call until its step is over, and the invariant has three parts:
  - `Full(s, NoWord)`: every variable in a cell, a register or a saved register is
    an atom of the precondition. Without it a later call that cites the content
    of a cell could cite a variable nobody declared. It also says that no value is
    a stored word immediate unless the walk has stored one, which decides
    whether a word register store may take the byte path of `write_mem`;
  - within one instruction, `Promised`: each name the call cites is declared, or is
    still reserved for the width the step uses, or is an alias equation the step
    has counted and not yet written out. `LoadKeeps`, `StoreRegKeeps` and
    `StoreImmKeeps` show that step and specification call look up the same cells
    and byte slots (`CellKeeps`, `SlotsKeep`, `BytesAgree`); the test that no
    reserved name is left over, with `AliasesKeep`, turns promises into
    declarations;
  - afterwards, `CallsFine`: declarations are never taken back within a pass
    (`More`, through every operator and the nine syscall emitters). As for the
    clauses, a pass that already asks for another one may be wrong.

  The hypothesis `FormsAgree` excludes what `walker_forms` refutes: with a
  byte-granular region in force, a dword load into its own base register, and a
  word register store together with a stored word immediate; and everywhere, a
  citation of the bound of a dword of combined bytes. The first two are said of the
  whole block and not of the region an access falls into, so they are coarser than
  the finding. Every program of the run `walker` satisfies it, the ones with
  byte-granular regions included.
* `DriverProofs`: `Invariance`. Neither property of the command is inductive.
  `SuccessIsHonest` speaks of the end, so `ProgressInv` lines up outcome `i` with
  work item `i` (what is not done is the rest of the list) and says what each
  outcome left behind; `QueueInv` says that every reported module is in the
  queue or landed in the directory, and that what a queued bundle imports is
  there or queued before it (until the run ends: a torn module may have taken the
  place of one that had landed); `UnwrittenInv` names the modes that write nothing
  until everything is lifted, which is why being killed leaves them without
  trace. From these `SuccessHonest` and `DirectoryCoherent`, for every
  invocation, however many precede it, wherever they are killed or fail to
  write.

  `Corollaries` adds `CorollaryInv`: every stated corollary is `Sound`, and a
  bundle is the union over all of them. A corollary is sound when it is
  - closed (`Closed`): each renaming is about an entry value that one of its
    binders carries, and no hypothesis mentions a name the bundle gives out
    (`m<offset>`). That is the strengthening `BundleAppliesEveryPath` needs: the
    bundle renames names one after the other, so a name introduced by one renaming
    must not be caught by a later one where a hypothesis uses it
    (`KeptName`, `BundleApplies`);
  - true (`TrueOf`): what it says of a 64-bit cell is what the path left there.
    For fields that are carried through, the walk compares; for the mutated
    field it does not, and truth rests on the account's base having been taken
    from the mutated cell, or checked against it by the binding, and on there being
    one 8-byte cell per place (`EnvReturns`).

  The argument follows the emitter: what the walk over the fields keeps
  (`Carried`, `Says`; one lemma per kind of field, `WalkedKeeps` for the layout),
  what it starts from (`BindersFine`), what the bundle gathers (`JoinWhole`,
  `UnionBinds`). The folds it is written with become sequences of states by
  `LayoutSteps`, `NameSteps`, `RenameSteps`, `JoinSteps` and `UnionSteps`, each
  proved from the definition of the library's fold. From these `AfterTrue` and
  `BundleSound`, for any number of paths, cells, binders and fields.
  The assumption they use, `PathAssumption`, is what the walk hands over:
  `post_atoms` renders the cells of the precondition at their places, cells are
  keyed by base, offset and width, `collect_pre_vars` binds every entry value,
  and neither registers nor cells are named `m<offset>` by the walk. Every run's
  jobs satisfy it.

* `AnalysisProofs`: qed-analysis against the machine, for every program, input,
  call depth and nondeterministic result. Its fixpoints are recursive functions,
  and nothing is proved of what they compute on the way; every argument starts
  from the test the code itself makes of the result (the no-return set is
  stable, `IsPostFixpoint` holds of the map, `GraphError` found nothing, an edge
  is not reached without the listed sides), which is why no fuel, order of the
  worklist or termination enters a theorem. The invariants:
  * `AnalysisInv`: each phase's results are those the source computes from the
    earlier ones, and the machine is at its start until the run is.
  * `RunInv`: every frame's caller is inside its body and at a call of it or at
    an indirect call; so `PartitionSound`. That a callee returned means it is
    not in the no-return set, which is what keeps the body of the caller closed.
  * `ExitInv`: what defined r0 last, said for every set of PCs the backward
    search of `r0_defs` may close (`GoesBack`), and that r0 is zero when that
    definition is a zero; so `ExitClassified`.
  * `ReachInv` and `PathInv`: without indirect calls, the steps of the entry
    function, calls made and returned from taken as one, form a path of the
    graph that avoids no guard; so `GuardsPassed`. Heads of the no-return
    witness never return (`HeadsAreNoReturn`, by the least step of a chain).
  * `MapInv`: every map that passes the check is true at the PC the entry
    function stands at, with r6 and r10 looked up in the suspended frame while a
    call runs; so `AbstractMapIsTrue`. A store to the stack leaves the input alone
    because the frame pointer is at most `MaxDepth` above `StackTop`.
  * `FactInv`: each branch taken was decided by values the map's operands
    denote. With the layout's arithmetic (`CursorIsInt`, `LengthsFacts`) it gives
    `CheckedLengths` and `ReadableTheorems`.

  The last two theorems have hypotheses, both about the programs.
  `WideBranches`: no branch compares 32-bit halves; without it the run
  `analysis_jmp32` refutes the first. `TwoSidedChecks` (only `CheckedLengths`): no
  equality check goes to the next instruction (see the end of section 3). The
  programs of the run `analysis` satisfy the first and not all of them the second,
  so there the run says more than the theorem.

Only model-checked:

* liveness (`CallsEnd`, `Terminates`, `EverySubmissionIsAnswered`, `LiftEnds`,
  `HeadsPanic`), which is outside the prover's reach;
* `SymAlu`: its expressions are recursive operators over data, and it works bit
  by bit;
* `LiftIsTrue`: it compares the bytes nested expressions stand for with those an
  execution leaves, by recursion over the expression.

## 6. Not modelled

The ELF loader and decoder, hashing and curve syscalls, and the byte formats of
the wire: functions of byte strings without state of their own, whose failure is
an outcome in the models. The 32-bit ALU operations beside `arsh32`. The loader
program, next in the plan. Of the proof generators, the text they produce: Lean
syntax, decode pins, tactic scripts, and `concept_map.rs`, which gives offsets
names. qedrecover, qed-artifacts and the build scripts are command lines and
schemas around the modelled parts. The Lean proof layer states theorems, not
behaviour.

## 7. Plan

Done: the lock, the System program, the runner with its meter, the account-change
rules, the host and its contract; proofs for the lock, the System program, the
runner, the host with its contract, the qedlift command, the walk and the analysis;
the symbolic walk, its expressions, transitions and the driver; control flow,
provenance and dispatch discovery against the machine.

Next, in this order:

1. `BpfLoaderUpgradeable` as a native program beside `NativeSystem`: its account
   states (uninitialised, buffer, program, program data), authorities, deploy,
   upgrade and close; who may replace the code of a program.
2. `InputBuffer`: `dup_map`, the layout of records, dup markers, read back with
   edited lengths; compare with `parseInputPrivileges` and with `buildAcctSlots`
   on the other side of an invoke.
3. Return data, log and heap allocation across invokes.
4. The registry of the host (`add_program`), for sequences of calls.

Proofs to follow: `LiftIsTrue`, for walks whose values nest no deeper than a fixed
number of reductions, where the recursion can be written out.
