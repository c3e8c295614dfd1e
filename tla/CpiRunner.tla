----------------------------- MODULE CpiRunner ------------------------------
(***************************************************************************)
(* The CPI-aware runner (SVM/SBPF/Runner.lean, Syscalls/Cpi.lean and the   *)
(* metering of Execute.lean): a transaction instruction runs a program     *)
(* that may invoke other programs, each in a sub-VM of its own, up to      *)
(* MaxInvokeDepth deep.  The stack of VMs is a function of the invoke      *)
(* depth; only the deepest one runs.                                       *)
(*                                                                         *)
(* A program is anything: every instruction it may execute is an action,   *)
(* so a behaviour is a run of some set of programs.  Of an instruction the *)
(* model keeps what it does to r0, to the account blocks in the VM's input *)
(* region, to the compute meter and to the fuel that bounds the recursion. *)
(* The account infos a program hands to an invoke point into its own input *)
(* region, as the entrypoint deserialisers build them.                     *)
(***************************************************************************)
EXTENDS NativeSystem

CONSTANTS
  Main,            \* the program the instruction names
  Registry,        \* the other programs that are registered and load
  MaxInvokeDepth,  \* 4: nested invokes below the top level
  InvokeUnits,     \* Cpi.cu
  NativeUnits,     \* System.CU_DEFAULT
  SyscallCosts,    \* surcharges of the other syscalls
  Budget,          \* cuBudget of the instruction
  Pdas,            \* program to the addresses its seeds derive
  Entry,           \* the accounts at instruction entry
  Granted,         \* their privileges in the instruction
  Stores,          \* values the programs store: [lamports, len, data, owner] to sets
  Requests,        \* account lists the programs hand to an invoke
  NativeIxs        \* System instructions the programs invoke

Levels == 0 .. MaxInvokeDepth

\* r0 and exit codes are told apart as zero and nonzero.  A VM fault is an exit
\* with vmError set; its sentinel is nonzero.
Codes == {"ok", "err"}
Exits == Codes \cup {"none", "fault"}

ASSUME MeterAssumption ==
  /\ MaxInvokeDepth \in Nat /\ InvokeUnits \in Nat /\ NativeUnits \in Nat
  /\ SyscallCosts \subseteq Nat /\ Budget \in Nat
ASSUME AccountsAssumption ==
  /\ Main \in Programs /\ Registry \subseteq Programs \ {Main}
  /\ Pdas \in [Programs -> SUBSET Keys]
  /\ Entry \in [Keys -> Content]
  /\ Granted \in [Keys -> Priv]
  /\ Requests \subseteq Seq(Ref)
  /\ NativeIxs \subseteq SystemIx
ASSUME StoresAssumption ==
  Stores \in [lamports : SUBSET Nat, len : SUBSET Nat, data : SUBSET Data, owner : SUBSET Owners]

VARIABLES
  level,     \* invokeDepth of the running VM
  vm,        \* one VM per level; those above `level` are blank
  cpiReturn  \* the top-level VM's cpiReturnMem: its accounts after the last good CPI

vars == <<level, vm, cpiReturn>>

VM == [prog : Programs, fuel : Nat, cu : Nat, budget : Nat, r0 : Codes, exit : Exits,
       mem : [Keys -> Content], held : SUBSET Keys, priv : [Keys -> Priv]]

\* A VM that has not run yet, with the blocks of the accounts it was handed
\* (`held`) in its input region.  `initialState` and `buildCalleeVM` give the fuel
\* and the budget the same value.
Fresh(prog, units, mem, held, priv) ==
  [prog |-> prog, fuel |-> units, cu |-> 0, budget |-> units, r0 |-> "ok",
   exit |-> "none", mem |-> mem, held |-> held, priv |-> priv]

Blank == Fresh(Main, 0, Entry, Keys, Granted)

Init ==
  /\ level = 0
  /\ vm = [l \in Levels |-> IF l = 0 THEN Fresh(Main, Budget, Entry, Keys, Granted) ELSE Blank]
  /\ cpiReturn = Entry

-----------------------------------------------------------------------------
\* Variants with one plausible bug each (a name that ends in Bug); no action uses
\* them.

\* One instruction too many at the end of the budget.
LiveBug(v) == v.exit = "none" /\ v.fuel > 0 /\ v.cu <= v.budget

\* An instruction that is not charged.
InstructionBug(c) ==
  /\ vm[level].exit = "none" /\ vm[level].fuel > 0 /\ vm[level].cu < vm[level].budget
  /\ vm' = [vm EXCEPT ![level] = [@ EXCEPT !.r0 = c]]
  /\ UNCHANGED <<level, cpiReturn>>

\* The flags in the program's own memory are believed.
ClampBug(v, refs, pdas) ==
  [i \in DOMAIN refs |->
     [refs[i] EXCEPT !.signer = refs[i].key \in pdas \/ refs[i].signer]]

\* A refused invoke is free.
RefuseInvokeBug ==
  vm' = [vm EXCEPT ![level] = [@ EXCEPT !.fuel = @ - 1, !.r0 = "err"]]

\* The callee's compute units are forgotten.
ApplyResultFreeBug(v, code, mem, units) ==
  [v EXCEPT !.fuel = @ - 1, !.cu = @ + 1 + InvokeUnits, !.r0 = code,
            !.mem = IF code = "ok" THEN mem ELSE @]

\* The callee's memory is committed whatever it returned.
ApplyResultCommitsBug(v, code, mem, units) ==
  [v EXCEPT !.fuel = @ - 1, !.cu = @ + 1 + InvokeUnits + units, !.r0 = code, !.mem = mem]

-----------------------------------------------------------------------------
\* executeFnCpiWithFuel executes another instruction of v.
Live(v) == v.exit = "none" /\ v.fuel > 0 /\ v.cu < v.budget

Running == vm[level]

\* One instruction: its compute units, and one unit of fuel.
Charge(v, units) == [v EXCEPT !.fuel = @ - 1, !.cu = @ + units]

Become(v) == vm' = [vm EXCEPT ![level] = v]

\* An instruction of the running program without memory effects.
Instruction(c) ==
  /\ Live(Running)
  /\ Become([Charge(Running, 1) EXCEPT !.r0 = c])
  /\ UNCHANGED <<level, cpiReturn>>

\* A store into one field of an account block, read-only or not.
Rewrites(acct) ==
  {[acct EXCEPT !.lamports = x] : x \in Stores.lamports}
    \cup {[acct EXCEPT !.len = x] : x \in Stores.len}
    \cup {[acct EXCEPT !.data = x] : x \in Stores.data}
    \cup {[acct EXCEPT !.owner = x] : x \in Stores.owner}

Store(k) ==
  /\ Live(Running)
  /\ \E acct \in Rewrites(Running.mem[k]) :
       Become([Charge(Running, 1) EXCEPT !.mem[k] = acct])
  /\ UNCHANGED <<level, cpiReturn>>

\* A syscall other than an invoke; it does not run when its charge does not fit
\* (chargeExceeds, chargeOnly).
Syscall(units, c) ==
  /\ Live(Running)
  /\ LET fits == Running.budget >= Running.cu + 1 + units
         v == Charge(Running, 1 + units)
     IN  Become(IF fits THEN [v EXCEPT !.r0 = c] ELSE v)
  /\ UNCHANGED <<level, cpiReturn>>

\* An instruction faults: the exit code is the sentinel of vmError.
Fault ==
  /\ Live(Running)
  /\ Become([Charge(Running, 1) EXCEPT !.exit = "fault"])
  /\ UNCHANGED <<level, cpiReturn>>

\* callx to the second slot of an lddw: execCallx charges that slot itself and
\* chargeCu the callx, and the budget is checked for neither.
CallxFault ==
  /\ Live(Running)
  /\ Become([Charge(Running, 2) EXCEPT !.exit = "fault"])
  /\ UNCHANGED <<level, cpiReturn>>

\* A fault inside a syscall body: `step` still adds the surcharge.
SyscallFault(units) ==
  /\ Live(Running)
  /\ Running.budget >= Running.cu + 1 + units
  /\ Become([Charge(Running, 1 + units) EXCEPT !.exit = "fault"])
  /\ UNCHANGED <<level, cpiReturn>>

\* Fetch past the program: faults without charging.
InvalidPc ==
  /\ Live(Running)
  /\ Become([Charge(Running, 0) EXCEPT !.exit = "fault"])
  /\ UNCHANGED <<level, cpiReturn>>

\* exit with an empty call stack: the exit code is r0.
Exit ==
  /\ Live(Running)
  /\ Become([Charge(Running, 1) EXCEPT !.exit = Running.r0])
  /\ UNCHANGED <<level, cpiReturn>>

-----------------------------------------------------------------------------
\* clampCpiPrivileges: a signature is a derived PDA's or one the caller holds; a
\* write lock is one the caller holds.
Clamp(v, refs, pdas) ==
  [i \in DOMAIN refs |->
     [key |-> refs[i].key,
      signer |-> refs[i].key \in pdas \/ (refs[i].signer /\ v.priv[refs[i].key].signer),
      writable |-> refs[i].writable /\ v.priv[refs[i].key].writable]]

\* Two references to one account, writable in one and not in the other.
Aliased(refs) ==
  \E i, j \in DOMAIN refs : refs[i].key = refs[j].key /\ refs[i].writable # refs[j].writable

\* buildAcctSlots, parseInputPrivileges: the first reference to a key is its
\* block; an account that is not passed has no privileges.
First(refs, k) ==
  refs[CHOOSE i \in DOMAIN refs :
         refs[i].key = k /\ \A j \in DOMAIN refs : refs[j].key = k => i <= j]
Passed(refs) == {refs[i].key : i \in DOMAIN refs}
SlotPriv(refs) ==
  [k \in Keys |->
     IF k \in Passed(refs)
     THEN [signer |-> First(refs, k).signer, writable |-> First(refs, k).writable]
     ELSE [signer |-> FALSE, writable |-> FALSE]]

\* The invoke charge fits (cpiCallNextState checks it before anything else).
InvokeFits(v) == v.budget >= v.cu + 1 + InvokeUnits

\* An invoke that runs no callee: r0 is 1 and only the invoke is charged.
RefuseInvoke == Become([Charge(Running, 1 + InvokeUnits) EXCEPT !.r0 = "err"])

InvokeOverBudget ==
  /\ Live(Running)
  /\ ~InvokeFits(Running)
  /\ RefuseInvoke
  /\ UNCHANGED <<level, cpiReturn>>

InvokeTooDeep ==
  /\ Live(Running)
  /\ InvokeFits(Running)
  /\ level + 1 > MaxInvokeDepth
  /\ RefuseInvoke
  /\ UNCHANGED <<level, cpiReturn>>

InvokeAliased(refs, pdas) ==
  /\ Live(Running)
  /\ InvokeFits(Running)
  /\ level + 1 <= MaxInvokeDepth
  /\ Aliased(Clamp(Running, refs, pdas))
  /\ RefuseInvoke
  /\ UNCHANGED <<level, cpiReturn>>

\* No such program (the registry leaves out the main program), or its ELF does
\* not load.
InvokeUnknown(refs, pdas) ==
  /\ Live(Running)
  /\ InvokeFits(Running)
  /\ level + 1 <= MaxInvokeDepth
  /\ ~Aliased(Clamp(Running, refs, pdas))
  /\ RefuseInvoke
  /\ UNCHANGED <<level, cpiReturn>>

\* Cpi.applyResult: the callee's code becomes r0, its memory is committed when
\* the code is zero and dropped otherwise; its compute units always count.
ApplyResult(v, code, mem, units) ==
  [Charge(v, 1 + InvokeUnits + units) EXCEPT
     !.r0 = code,
     !.mem = IF code = "ok" THEN mem ELSE @]

\* cpiReturnMem of the caller; that of a callee is dropped with it.
Snapshot(caller, code, mem) ==
  cpiReturn' = IF caller = 0 /\ code = "ok" THEN mem ELSE cpiReturn

\* An invoke of the System program, run on the caller's memory.
InvokeNative(refs, pdas, ix) ==
  /\ Live(Running)
  /\ InvokeFits(Running)
  /\ level + 1 <= MaxInvokeDepth
  /\ LET accts == Clamp(Running, refs, pdas)
         r == Dispatch(Running.mem, accts, ix)
         code == IF r.ok THEN "ok" ELSE "err"
     IN  /\ ~Aliased(accts)
         /\ Become(ApplyResult(Running, code, r.mem, NativeUnits))
         /\ Snapshot(level, code, r.mem)
  /\ UNCHANGED level

\* buildCalleeVM: the callee's meter is the caller's remaining fuel.
InvokeProgram(p, refs, pdas) ==
  /\ Live(Running)
  /\ InvokeFits(Running)
  /\ level + 1 <= MaxInvokeDepth
  /\ LET accts == Clamp(Running, refs, pdas)
     IN  /\ ~Aliased(accts)
         /\ vm' = [vm EXCEPT ![level + 1] =
                     Fresh(p, Running.fuel - 1, Running.mem, Passed(accts), SlotPriv(accts))]
  /\ level' = level + 1
  /\ UNCHANGED cpiReturn

-----------------------------------------------------------------------------
\* commitCallee: `before` is the account the caller handed over, `after` is the
\* callee's block for it.
Modified(before, after) ==
  \/ after.len # before.len
  \/ before.len > 0 /\ after.data # before.data
  \/ after.lamports # before.lamports
  \/ after.owner # before.owner

RoViolated(caller, callee) ==
  \E k \in callee.held : ~callee.priv[k].writable /\ Modified(caller.mem[k], callee.mem[k])

ReallocViolated(caller, callee) ==
  \E k \in callee.held :
    callee.priv[k].writable /\ callee.mem[k].len > caller.mem[k].len + MaxIncrease

WriteBack(before, after) ==
  [after EXCEPT !.data = IF after.len > 0 THEN @ ELSE before.data]

Committed(caller, callee) ==
  [k \in Keys |->
     IF callee.priv[k].writable
     THEN WriteBack(caller.mem[k], callee.mem[k])
     ELSE caller.mem[k]]

\* What the caller's r0 is set to: a violation, a fault and an exhausted callee
\* are all nonzero.
ReturnCode(caller, callee) ==
  IF ReallocViolated(caller, callee) \/ RoViolated(caller, callee) \/ callee.exit # "ok"
  THEN "err" ELSE "ok"

\* The callee halted; the invoke instruction of the caller completes.
Return ==
  /\ level > 0
  /\ ~Live(Running)
  /\ LET caller == vm[level - 1]
         code == ReturnCode(caller, Running)
         mem == Committed(caller, Running)
     IN  /\ vm' = [vm EXCEPT ![level - 1] = ApplyResult(caller, code, mem, Running.cu),
                             ![level] = Blank]
         /\ Snapshot(level - 1, code, mem)
  /\ level' = level - 1

Halted == level = 0 /\ ~Live(vm[0])

\* The run is over.
Halt == Halted /\ UNCHANGED vars

Invoke ==
  \/ InvokeOverBudget
  \/ InvokeTooDeep
  \/ \E refs \in Requests, pdas \in SUBSET Pdas[Running.prog] :
       \/ InvokeAliased(refs, pdas)
       \/ InvokeUnknown(refs, pdas)
       \/ \E ix \in NativeIxs : InvokeNative(refs, pdas, ix)
       \/ \E p \in Registry : InvokeProgram(p, refs, pdas)

Step ==
  \/ \E c \in Codes : Instruction(c)
  \/ \E k \in Running.held : Store(k)
  \/ \E units \in SyscallCosts : \E c \in Codes : Syscall(units, c)
  \/ Fault
  \/ CallxFault
  \/ \E units \in SyscallCosts : SyscallFault(units)
  \/ InvalidPc
  \/ Exit
  \/ Invoke
  \/ Return

Next == Step \/ Halt

Spec == Init /\ [][Next]_vars

\* The runner is a total function: it always takes its next step.
FairSpec == Spec /\ WF_vars(Step)

-----------------------------------------------------------------------------
\* Every VM on the stack is well-formed; its fuel never goes below zero.
TypeOK ==
  /\ level \in Levels
  /\ vm \in [Levels -> VM]
  /\ cpiReturn \in [Keys -> Content]

Active == 0 .. level

\* "The runner only stops a live state when it is over budget" (Outcome.lean): a
\* VM whose fuel runs out has spent its whole budget, at every depth.
FuelNeverBinds ==
  \A l \in Active : vm[l].exit = "none" /\ vm[l].fuel = 0 => vm[l].cu >= vm[l].budget

\* A program that exits is within its budget, callees included; so a successful
\* instruction never consumed more than it was given.  A program that faults is
\* over it by one unit at most, the second one of a callx into an lddw.
ExitsWithinBudget ==
  \A l \in Active :
    /\ vm[l].exit \in Codes => vm[l].cu <= vm[l].budget
    /\ vm[l].exit = "fault" => vm[l].cu <= vm[l].budget + 1

\* Nobody recovers from an exhausted callee: its caller has no budget left
\* either, although the callee was metered by the caller's fuel and not by its
\* remaining compute units.  So exhaustion at any depth ends the instruction.
ExhaustionIsFatal ==
  [][level' < level /\ vm[level].exit = "none" => ~Live(vm'[level'])]_vars

\* A privilege held at any depth comes from the instruction itself or, for a
\* signature, from the seeds of a program on the invoke stack.
PrivilegesAreInherited ==
  \A l \in Active : \A k \in Keys :
    /\ vm[l].priv[k].writable => Granted[k].writable
    /\ vm[l].priv[k].signer =>
         Granted[k].signer \/ \E i \in 0 .. l - 1 : k \in Pdas[vm[i].prog]

\* A callee that returns an error, whatever it and its own callees committed
\* before, leaves no trace in the accounts of its caller; and no return ever
\* changes an account that the instruction declares read-only.
CpiIsAtomic ==
  [][level' < level =>
       /\ vm'[level'].r0 = "err" => vm'[level'].mem = vm[level'].mem
       /\ \A k \in Keys : ~Granted[k].writable => vm'[level'].mem[k] = vm[level'].mem[k]]_vars

\* Every run ends: the runner is total (structural recursion on the fuel).
Terminates == <>Halted
=============================================================================
