--------------------------- MODULE CpiRunnerProofs ---------------------------
(* The runner's meter and privilege discipline, for every value of the         *)
(* constants.                                                                  *)
EXTENDS CpiRunner, NativeSystemProofs

\* The privileges a callee sees are those of the clamped references.
LEMMA SlotPrivilege ==
  ASSUME NEW refs \in Seq(Ref), NEW k \in Keys
  PROVE  /\ SlotPriv(refs)[k] \in Priv
         /\ SlotPriv(refs)[k].writable =>
              \E i \in DOMAIN refs : refs[i].key = k /\ refs[i].writable
         /\ SlotPriv(refs)[k].signer =>
              \E i \in DOMAIN refs : refs[i].key = k /\ refs[i].signer
<1>1. CASE k \notin Passed(refs)
  BY <1>1 DEF SlotPriv, Priv
<1>2. CASE k \in Passed(refs)
  <2> DEFINE T == {i \in DOMAIN refs : refs[i].key = k}
             least == CHOOSE i \in DOMAIN refs :
                        refs[i].key = k /\ \A j \in DOMAIN refs : refs[j].key = k => i <= j
  <2>1. T \subseteq Nat /\ T # {}
    BY <1>2 DEF Passed
  <2>2. PICK x \in T : \A y \in T : x <= y
    BY <2>1, LeastElement
  <2>3. least \in DOMAIN refs /\ refs[least].key = k
    BY <2>2
  <2>4. First(refs, k) = refs[least]
    BY DEF First
  <2> HIDE DEF least
  <2>5. refs[least] \in Ref
    BY <2>3
  <2>6. SlotPriv(refs)[k] = [signer |-> refs[least].signer, writable |-> refs[least].writable]
    BY <1>2, <2>4 DEF SlotPriv
  <2> QED
    BY <2>3, <2>5, <2>6 DEF Priv, Ref
<1> QED
  BY <1>1, <1>2

\* clampCpiPrivileges yields account references, and only privileges the caller
\* holds or, for a signature, addresses its seeds derive.
LEMMA ClampedRefs ==
  ASSUME NEW v \in VM, NEW refs \in Seq(Ref), NEW pdas
  PROVE  /\ Clamp(v, refs, pdas) \in Seq(Ref)
         /\ DOMAIN Clamp(v, refs, pdas) = DOMAIN refs
         /\ \A i \in DOMAIN refs :
              /\ Clamp(v, refs, pdas)[i].key \in Keys
              /\ Clamp(v, refs, pdas)[i].writable =>
                   v.priv[Clamp(v, refs, pdas)[i].key].writable
              /\ Clamp(v, refs, pdas)[i].signer =>
                   \/ Clamp(v, refs, pdas)[i].key \in pdas
                   \/ v.priv[Clamp(v, refs, pdas)[i].key].signer
<1> DEFINE E(i) == [key |-> refs[i].key,
      signer |-> refs[i].key \in pdas \/ (refs[i].signer /\ v.priv[refs[i].key].signer),
      writable |-> refs[i].writable /\ v.priv[refs[i].key].writable]
<1>1. DOMAIN refs = 1 .. Len(refs) /\ Len(refs) \in Nat
  OBVIOUS
<1>2. ASSUME NEW i \in 1 .. Len(refs) PROVE E(i) \in Ref
  <2>1. refs[i] \in Ref
    OBVIOUS
  <2> QED
    BY <2>1 DEF Ref
<1>3. Clamp(v, refs, pdas) = [i \in 1 .. Len(refs) |-> E(i)]
  BY <1>1 DEF Clamp
<1>4. Clamp(v, refs, pdas) \in Seq(Ref)
  BY <1>1, <1>2, <1>3
<1>5. ASSUME NEW i \in DOMAIN refs
      PROVE  Clamp(v, refs, pdas)[i] = E(i) /\ E(i).key = refs[i].key /\ refs[i].key \in Keys
  <2>1. refs[i] \in Ref
    BY <1>1
  <2> QED
    BY <1>1, <1>3, <2>1 DEF Ref
<1>6. ASSUME NEW i \in DOMAIN refs
      PROVE  /\ E(i).writable => v.priv[refs[i].key].writable
             /\ E(i).signer => refs[i].key \in pdas \/ v.priv[refs[i].key].signer
  OBVIOUS
<1>7. DOMAIN Clamp(v, refs, pdas) = DOMAIN refs
  BY <1>1, <1>3
<1> HIDE DEF E
<1> QED
  BY <1>4, <1>5, <1>6, <1>7

-----------------------------------------------------------------------------
\* The two counters of a VM: one instruction costs one unit of fuel and at least
\* one compute unit, so a live VM never runs out of fuel first; and the
\* instruction that ends a VM is within its budget, or one unit over at a fault.
Metered(v) ==
  /\ v.exit = "none" => v.cu + v.fuel >= v.budget
  /\ v.exit \in Codes => v.cu <= v.budget
  /\ v.exit = "fault" => v.cu <= v.budget + 1

MeterInv == \A l \in Active : Metered(vm[l])

\* A VM below the running one is in the middle of an invoke; its callee was
\* given the fuel it has left.
StackInv ==
  \A l \in Active : l < level => Live(vm[l]) /\ vm[l + 1].budget = vm[l].fuel - 1

\* A privilege held at any depth comes from the top-level VM or, for a signature,
\* from the seeds of a program on the stack: whatever the top-level VM was given.
Inherited ==
  \A l \in Active : \A k \in Keys :
    /\ vm[l].priv[k].writable => vm[0].priv[k].writable
    /\ vm[l].priv[k].signer =>
         vm[0].priv[k].signer \/ \E i \in 0 .. l - 1 : k \in Pdas[vm[i].prog]

IInv == TypeOK /\ MeterInv /\ StackInv /\ Inherited

\* What every step of the runner does: it keeps the invariant, and never changes
\* what the top-level VM was given.
Kept == IInv' /\ vm'[0].priv = vm[0].priv /\ vm'[0].budget = vm[0].budget

USE MeterAssumption, AccountsAssumption, StoresAssumption

\* The state runElfWithFuel starts in satisfies the invariant.
LEMMA InitIInv == Init => IInv /\ vm[0].priv = Granted
<1> SUFFICES ASSUME Init
             PROVE  IInv /\ vm[0].priv = Granted
  OBVIOUS
<1>1. Blank \in VM /\ Fresh(Main, Budget, Entry, Keys, Granted) \in VM
  BY DEF Blank, Fresh, VM, Codes, Exits
<1>2. TypeOK
  BY <1>1 DEF Init, TypeOK, Levels
<1>3. vm[0] = Fresh(Main, Budget, Entry, Keys, Granted) /\ level = 0 /\ Active = {0}
  BY DEF Init, Levels, Active
<1>4. MeterInv /\ StackInv
  BY <1>3 DEF MeterInv, StackInv, Metered, Fresh, Codes
<1>5. Inherited
  BY <1>3 DEF Inherited
<1> QED
  BY <1>2, <1>3, <1>4, <1>5 DEF IInv, Fresh

\* A step of the running VM that leaves its program, budget, accounts held and
\* privileges alone preserves the invariant if the VM stays metered.
LEMMA RunningStep ==
  ASSUME IInv, NEW v \in VM, vm' = [vm EXCEPT ![level] = v], level' = level,
         cpiReturn' \in Memory, Metered(v),
         v.prog = Running.prog, v.budget = Running.budget, v.priv = Running.priv
  PROVE  Kept
<1>1. level \in Levels /\ level \in Nat /\ Active' = Active /\ Active \subseteq Levels
  BY DEF IInv, TypeOK, Levels, Active
<1>2. vm'[level] = v /\ \A l \in Levels : l # level => vm'[l] = vm[l]
  BY <1>1 DEF IInv, TypeOK
<1>3. TypeOK'
  BY <1>1 DEF IInv, TypeOK, Memory
<1>4. MeterInv'
  BY <1>1, <1>2 DEF IInv, MeterInv
<1>5. \A l \in Levels : /\ vm'[l].prog = vm[l].prog
                        /\ vm'[l].budget = vm[l].budget
                        /\ vm'[l].priv = vm[l].priv
  BY <1>1, <1>2 DEF Running
<1>6. StackInv'
  <2> SUFFICES ASSUME NEW l \in Active, l < level
               PROVE  Live(vm'[l]) /\ vm'[l + 1].budget = vm'[l].fuel - 1
    BY <1>1 DEF StackInv
  <2>1. l \in Levels /\ l + 1 \in Levels /\ l # level
    BY <1>1 DEF Levels, Active
  <2>2. Live(vm[l]) /\ vm[l + 1].budget = vm[l].fuel - 1
    BY DEF IInv, StackInv
  <2> QED
    BY <1>2, <1>5, <2>1, <2>2
<1>7. 0 \in Levels
  BY DEF Levels
<1>8. Inherited'
  <2>1. \A l \in Active : \A i \in 0 .. l - 1 : i \in Levels
    BY <1>1 DEF Levels, Active
  <2> QED
    BY <1>1, <1>5, <2>1, <1>7 DEF IInv, Inherited
<1> QED
  BY <1>3, <1>4, <1>5, <1>6, <1>8, <1>7 DEF IInv, Kept

\* One charged instruction of a live VM.
LEMMA Charged ==
  ASSUME NEW v \in VM, Live(v), Metered(v), NEW units \in Nat
  PROVE  /\ Charge(v, units) \in VM
         /\ Charge(v, units).prog = v.prog /\ Charge(v, units).budget = v.budget
         /\ Charge(v, units).priv = v.priv /\ Charge(v, units).exit = "none"
         /\ Charge(v, units).cu = v.cu + units
         /\ Charge(v, units).mem = v.mem
         /\ units > 0 => Metered(Charge(v, units))
<1>1. v.fuel - 1 \in Nat /\ v.cu + units \in Nat /\ v.fuel \in Nat /\ v.cu \in Nat
      /\ v.budget \in Nat /\ v.exit = "none" /\ v.cu + v.fuel >= v.budget
  BY DEF Live, Metered, VM
<1>2. Charge(v, units) \in VM
  BY <1>1 DEF Charge, VM
<1>3. /\ Charge(v, units).prog = v.prog /\ Charge(v, units).budget = v.budget
      /\ Charge(v, units).priv = v.priv /\ Charge(v, units).exit = "none"
      /\ Charge(v, units).cu = v.cu + units /\ Charge(v, units).fuel = v.fuel - 1
      /\ Charge(v, units).mem = v.mem
  BY <1>1 DEF Charge, VM
<1>4. units > 0 => Metered(Charge(v, units))
  BY <1>1, <1>3 DEF Metered, Codes
<1> QED
  BY <1>2, <1>3, <1>4

\* Fields of a VM that the meter and the privileges do not depend on.
Same(v, w) == v.prog = w.prog /\ v.budget = w.budget /\ v.priv = w.priv
              /\ v.cu = w.cu /\ v.fuel = w.fuel

\* The components of a VM have their types.
LEMMA VmFields ==
  ASSUME NEW v \in VM
  PROVE  /\ \A c \in Codes : [v EXCEPT !.r0 = c] \in VM /\ Same([v EXCEPT !.r0 = c], v)
                              /\ [v EXCEPT !.r0 = c].exit = v.exit
                              /\ [v EXCEPT !.r0 = c].mem = v.mem
         /\ \A e \in Exits : [v EXCEPT !.exit = e] \in VM /\ Same([v EXCEPT !.exit = e], v)
                              /\ [v EXCEPT !.exit = e].exit = e
         /\ \A m \in Memory : [v EXCEPT !.mem = m] \in VM /\ Same([v EXCEPT !.mem = m], v)
                              /\ [v EXCEPT !.mem = m].exit = v.exit
<1>1. ASSUME NEW c \in Codes
      PROVE  [v EXCEPT !.r0 = c] \in VM /\ Same([v EXCEPT !.r0 = c], v)
             /\ [v EXCEPT !.r0 = c].exit = v.exit /\ [v EXCEPT !.r0 = c].mem = v.mem
  BY DEF VM, Same
<1>2. ASSUME NEW e \in Exits
      PROVE  [v EXCEPT !.exit = e] \in VM /\ Same([v EXCEPT !.exit = e], v)
             /\ [v EXCEPT !.exit = e].exit = e
  BY DEF VM, Same
<1>3. ASSUME NEW m \in Memory
      PROVE  [v EXCEPT !.mem = m] \in VM /\ Same([v EXCEPT !.mem = m], v)
             /\ [v EXCEPT !.mem = m].exit = v.exit
  BY DEF VM, Same, Memory
<1> QED
  BY <1>1, <1>2, <1>3

\* What the running VM looks like when it takes a step.
LEMMA RunningType ==
  ASSUME IInv
  PROVE  level \in Levels /\ level \in Nat /\ Running \in VM /\ Metered(Running)
         /\ cpiReturn \in Memory /\ Running.mem \in Memory
         /\ Running.prog \in Programs /\ Pdas[Running.prog] \subseteq Keys
<1>1. level \in Levels /\ level \in Nat /\ level \in Active /\ vm[level] \in VM
  BY DEF IInv, TypeOK, Levels, Active
<1>2. Running \in VM
  BY <1>1 DEF Running
<1> QED
  BY <1>1, <1>2 DEF IInv, TypeOK, MeterInv, Running, VM, Memory

\* One charged instruction of the running VM that ends up as v, with its fields
\* set and the VM still running, or ended as the meter allows.
LEMMA ChargedStep ==
  ASSUME IInv, Live(Running), NEW units \in Nat, NEW v \in VM,
         Same(v, Charge(Running, units)),
         \/ v.exit = "none" /\ units > 0
         \/ v.exit # "none" /\ Running.cu + units <= Running.budget
         \/ v.exit = "fault" /\ Running.cu + units <= Running.budget + 1,
         vm' = [vm EXCEPT ![level] = v], level' = level, cpiReturn' \in Memory
  PROVE  Kept
<1> DEFINE w == Charge(Running, units)
<1>1. w \in VM /\ w.prog = Running.prog /\ w.budget = Running.budget
      /\ w.priv = Running.priv /\ w.exit = "none" /\ w.cu = Running.cu + units
      /\ (units > 0 => Metered(w))
  BY RunningType, Charged
<1> HIDE DEF w
<1>2. Same(v, w)
  BY DEF w
<1>3. Metered(v)
  <2>1. Running.cu \in Nat /\ Running.budget \in Nat
    BY RunningType DEF VM
  <2> QED
    BY <1>1, <1>2, <2>1 DEF Metered, Same, Codes
<1>4. v.prog = Running.prog /\ v.budget = Running.budget /\ v.priv = Running.priv
  BY <1>1, <1>2 DEF Same
<1> QED
  BY <1>3, <1>4, RunningStep

\* An instruction that only sets r0.
LEMMA SetsR0 ==
  ASSUME IInv, Live(Running), NEW units \in Nat, units > 0, NEW c \in Codes,
         Become([Charge(Running, units) EXCEPT !.r0 = c]), UNCHANGED <<level, cpiReturn>>
  PROVE  Kept
<1> DEFINE w == Charge(Running, units)
           v == [w EXCEPT !.r0 = c]
<1>1. vm' = [vm EXCEPT ![level] = v] /\ level' = level /\ cpiReturn' \in Memory
  BY RunningType DEF Become
<1>2. w \in VM /\ w.exit = "none"
  BY RunningType, Charged
<1> HIDE DEF w
<1>3. v \in VM /\ Same(v, w) /\ v.exit = "none"
  BY <1>2, VmFields
<1> HIDE DEF v
<1>4. Same(v, Charge(Running, units))
  BY <1>3 DEF w
<1> QED
  BY <1>1, <1>3, <1>4, ChargedStep

\* An instruction that ends the program, as the meter allows.
LEMMA SetsExit ==
  ASSUME IInv, Live(Running), NEW units \in Nat, NEW e \in Exits \ {"none"},
         \/ Running.cu + units <= Running.budget
         \/ e = "fault" /\ Running.cu + units <= Running.budget + 1,
         Become([Charge(Running, units) EXCEPT !.exit = e]), UNCHANGED <<level, cpiReturn>>
  PROVE  Kept
<1> DEFINE w == Charge(Running, units)
           v == [w EXCEPT !.exit = e]
<1>1. vm' = [vm EXCEPT ![level] = v] /\ level' = level /\ cpiReturn' \in Memory
  BY RunningType DEF Become
<1>2. w \in VM /\ w.exit = "none"
  BY RunningType, Charged
<1> HIDE DEF w
<1>3. v \in VM /\ Same(v, w) /\ v.exit # "none" /\ v.exit = e
  BY <1>2, VmFields
<1> HIDE DEF v
<1>4. Same(v, Charge(Running, units))
  BY <1>3 DEF w
<1> QED
  BY <1>1, <1>3, <1>4, ChargedStep

\* The end of the budget is at least one compute unit away from a live VM.
LEMMA RoomForOne ==
  ASSUME IInv, Live(Running)
  PROVE  Running.cu \in Nat /\ Running.budget \in Nat /\ Running.cu + 1 <= Running.budget
         /\ Running.cu + 0 <= Running.budget /\ Running.cu + 2 <= Running.budget + 1
BY RunningType DEF Live, VM

\* A store preserves the invariant: it touches account memory and the meter only.
LEMMA StoreStep ==
  ASSUME IInv, NEW k \in Running.held, Store(k) PROVE Kept
<1> DEFINE w == Charge(Running, 1)
<1>1. k \in Keys /\ Running.mem[k] \in Content
  BY RunningType DEF VM, Memory
<1>2. PICK acct \in Rewrites(Running.mem[k]) :
        vm' = [vm EXCEPT ![level] = [w EXCEPT !.mem = [@ EXCEPT ![k] = acct]]]
  BY DEF Store, Become
<1>3. Live(Running) /\ level' = level /\ cpiReturn' \in Memory
  BY RunningType DEF Store
<1>4. acct \in Content
  BY <1>1, <1>2, Fields DEF Rewrites
<1>5. w \in VM /\ w.exit = "none" /\ w.mem = Running.mem
  BY <1>3, RunningType, Charged
<1> DEFINE m == [w.mem EXCEPT ![k] = acct]
           v == [w EXCEPT !.mem = m]
<1>6. m \in Memory
  BY <1>4, <1>5, RunningType DEF Memory
<1> HIDE DEF w, m
<1>7. v \in VM /\ Same(v, w) /\ v.exit = "none"
  BY <1>5, <1>6, VmFields
<1>8. vm' = [vm EXCEPT ![level] = v]
  BY <1>2 DEF m
<1> HIDE DEF v
<1>9. Same(v, Charge(Running, 1)) /\ 1 \in Nat /\ 1 > 0
  BY <1>7 DEF w
<1> QED
  BY <1>3, <1>7, <1>8, <1>9, ChargedStep

\* The instructions without memory effects and the syscalls.
LEMMA PlainSteps ==
  ASSUME IInv,
         \/ \E c \in Codes : Instruction(c)
         \/ \E units \in SyscallCosts : \E c \in Codes : Syscall(units, c)
         \/ Fault
         \/ CallxFault
         \/ \E units \in SyscallCosts : SyscallFault(units)
         \/ InvalidPc
         \/ Exit
  PROVE  Kept
<1>1. ASSUME NEW c \in Codes, Instruction(c) PROVE Kept
  <2>1. 1 \in Nat /\ 1 > 0
    OBVIOUS
  <2> QED
    BY <1>1, <2>1, SetsR0 DEF Instruction
<1>2. ASSUME NEW units \in SyscallCosts, NEW c \in Codes, Syscall(units, c) PROVE Kept
  <2>1. 1 + units \in Nat /\ 1 + units > 0
    OBVIOUS
  <2> DEFINE w == Charge(Running, 1 + units)
  <2>2. Live(Running) /\ UNCHANGED <<level, cpiReturn>>
    BY <1>2 DEF Syscall
  <2>3. CASE Running.budget >= Running.cu + 1 + units
    <3>1. Become([Charge(Running, 1 + units) EXCEPT !.r0 = c])
      BY <1>2, <2>3 DEF Syscall
    <3> QED
      BY <2>1, <2>2, <3>1, SetsR0
  <2>4. CASE ~(Running.budget >= Running.cu + 1 + units)
    <3>1. vm' = [vm EXCEPT ![level] = w] /\ level' = level /\ cpiReturn' \in Memory
      BY <1>2, <2>4, RunningType DEF Syscall, Become
    <3>2. w \in VM /\ w.exit = "none" /\ Same(w, w)
      BY <2>1, <2>2, RunningType, Charged DEF Same
    <3> QED
      BY <2>1, <2>2, <3>1, <3>2, ChargedStep
  <2> QED
    BY <2>3, <2>4
<1>3. ASSUME Fault PROVE Kept
  <2>1. 1 \in Nat /\ "fault" \in Exits \ {"none"}
    BY DEF Exits
  <2> QED
    BY <1>3, <2>1, SetsExit, RoomForOne DEF Fault
<1>4. ASSUME NEW units \in SyscallCosts, SyscallFault(units) PROVE Kept
  <2>1. 1 + units \in Nat /\ "fault" \in Exits \ {"none"} /\ units \in Nat
    BY DEF Exits
  <2>2. Running.cu + (1 + units) <= Running.budget
    BY <1>4, <2>1, RoomForOne DEF SyscallFault
  <2> QED
    BY <1>4, <2>1, <2>2, SetsExit DEF SyscallFault
<1>5. ASSUME InvalidPc PROVE Kept
  <2>1. 0 \in Nat /\ "fault" \in Exits \ {"none"}
    BY DEF Exits
  <2> QED
    BY <1>5, <2>1, SetsExit, RoomForOne DEF InvalidPc
<1>6. ASSUME Exit PROVE Kept
  <2>1. 1 \in Nat /\ Running.r0 \in Exits \ {"none"}
    BY RunningType DEF Exits, Codes, VM
  <2> QED
    BY <1>6, <2>1, SetsExit, RoomForOne DEF Exit
<1>7. ASSUME CallxFault PROVE Kept
  <2>1. 2 \in Nat /\ "fault" \in Exits \ {"none"}
    BY DEF Exits
  <2> QED
    BY <1>7, <2>1, SetsExit, RoomForOne DEF CallxFault
<1> QED
  BY <1>1, <1>2, <1>3, <1>4, <1>5, <1>6, <1>7

\* A refused invoke.
LEMMA RefusedStep ==
  ASSUME IInv, Live(Running), RefuseInvoke, UNCHANGED <<level, cpiReturn>>
  PROVE  Kept
<1>1. 1 + InvokeUnits \in Nat /\ 1 + InvokeUnits > 0 /\ "err" \in Codes
  BY DEF Codes
<1> QED
  BY <1>1, SetsR0 DEF RefuseInvoke

\* Cpi.applyResult on a live caller.
LEMMA Applied ==
  ASSUME NEW v \in VM, Live(v), Metered(v), NEW code \in Codes, NEW mem \in Memory,
         NEW units \in Nat, NEW total, total = 1 + InvokeUnits + units
  PROVE  /\ ApplyResult(v, code, mem, units) \in VM
         /\ Same(ApplyResult(v, code, mem, units), Charge(v, total))
         /\ ApplyResult(v, code, mem, units).exit = "none"
         /\ ApplyResult(v, code, mem, units).r0 = code
         /\ code = "ok" => ApplyResult(v, code, mem, units).mem = mem
         /\ code # "ok" => ApplyResult(v, code, mem, units).mem = v.mem
<1> DEFINE w == Charge(v, total)
           w1 == [w EXCEPT !.r0 = code]
           m == IF code = "ok" THEN mem ELSE w.mem
           w2 == [w1 EXCEPT !.mem = m]
<1>1. total \in Nat
  OBVIOUS
<1>2. w \in VM /\ w.exit = "none" /\ w.mem = v.mem
  BY <1>1, Charged
<1>3. m \in Memory
  BY <1>2 DEF VM, Memory
<1>4. ApplyResult(v, code, mem, units) = w2
  BY DEF ApplyResult
<1> HIDE DEF w
<1>5. w1 \in VM /\ Same(w1, w) /\ w1.exit = "none" /\ w1.r0 = code
  <2>1. w1.r0 = code
    BY <1>2 DEF VM
  <2> QED
    BY <1>2, <2>1, VmFields
<1> HIDE DEF w1, m
<1>6. w2 \in VM /\ Same(w2, w1) /\ w2.exit = "none"
  BY <1>3, <1>5, VmFields
<1>7. w2.r0 = w1.r0 /\ w2.mem = m
  BY <1>5 DEF VM
<1> HIDE DEF w2
<1>8. Same(w2, w)
  BY <1>5, <1>6 DEF Same
<1> QED
  BY <1>2, <1>4, <1>5, <1>6, <1>7, <1>8 DEF w, m

\* An invoke of the System program preserves the invariant.
LEMMA InvokeNativeStep ==
  ASSUME IInv, NEW refs \in Requests, NEW pdas, NEW ix \in NativeIxs,
         InvokeNative(refs, pdas, ix)
  PROVE  Kept
<1> DEFINE accts == Clamp(Running, refs, pdas)
           r == Dispatch(Running.mem, accts, ix)
           code == IF r.ok THEN "ok" ELSE "err"
           v == ApplyResult(Running, code, r.mem, NativeUnits)
           units == 1 + InvokeUnits + NativeUnits
<1>1. Live(Running) /\ vm' = [vm EXCEPT ![level] = v] /\ level' = level
      /\ Snapshot(level, code, r.mem)
  BY DEF InvokeNative, Become
<1>2. accts \in Seq(Ref) /\ ix \in SystemIx
  BY RunningType, ClampedRefs
<1>3. r.mem \in Memory /\ code \in Codes
  <2> HIDE DEF accts
  <2>1. r.mem \in Memory
    BY <1>2, RunningType, DispatchResult DEF Result
  <2> QED
    BY <2>1 DEF Codes
<1>4. cpiReturn' \in Memory
  <2> HIDE DEF r, code
  <2> QED
    BY <1>1, <1>3, RunningType DEF Snapshot
<1>5. units \in Nat /\ units > 0
  OBVIOUS
<1> HIDE DEF r, code
<1>6. v \in VM /\ Same(v, Charge(Running, units)) /\ v.exit = "none"
  <2>1. NativeUnits \in Nat /\ units = 1 + InvokeUnits + NativeUnits
    OBVIOUS
  <2>2. Running \in VM /\ Metered(Running)
    BY RunningType
  <2> HIDE DEF units
  <2> QED
    BY <1>1, <1>3, <2>1, <2>2, Applied
<1> HIDE DEF v, units
<1> QED
  BY <1>1, <1>4, <1>5, <1>6, ChargedStep

\* Starting a callee preserves the invariant: its meter is its fuel, and what it
\* is granted is clamped by its caller.
LEMMA InvokeProgramStep ==
  ASSUME IInv, NEW refs \in Requests, NEW pdas \in SUBSET Pdas[Running.prog],
         NEW p \in Registry, InvokeProgram(p, refs, pdas)
  PROVE  Kept
<1> DEFINE accts == Clamp(Running, refs, pdas)
           priv == SlotPriv(accts)
           v == Fresh(p, Running.fuel - 1, Running.mem, Passed(accts), priv)
<1>1. Live(Running) /\ vm' = [vm EXCEPT ![level + 1] = v] /\ level' = level + 1
      /\ level + 1 <= MaxInvokeDepth /\ cpiReturn' = cpiReturn
  BY DEF InvokeProgram
<1>2. accts \in Seq(Ref) /\ DOMAIN accts = DOMAIN refs
      /\ \A i \in DOMAIN refs :
           /\ accts[i].key \in Keys
           /\ accts[i].writable => Running.priv[accts[i].key].writable
           /\ accts[i].signer => accts[i].key \in pdas \/ Running.priv[accts[i].key].signer
  BY RunningType, ClampedRefs
<1> HIDE DEF accts
<1>3. \A k \in Keys : /\ priv[k] \in Priv
                      /\ priv[k].writable => Running.priv[k].writable
                      /\ priv[k].signer => k \in pdas \/ Running.priv[k].signer
  BY <1>2, SlotPrivilege
<1>4. priv \in [Keys -> Priv]
  BY <1>3 DEF SlotPriv
<1>5. Passed(accts) \subseteq Keys
  BY <1>2 DEF Passed
<1> HIDE DEF priv
<1>6. v \in VM
  BY <1>1, <1>4, <1>5, RunningType DEF Live, VM, Fresh, Codes, Exits, Memory
<1>7. Metered(v) /\ v.budget = Running.fuel - 1 /\ v.priv = priv
  BY <1>1, RunningType DEF Metered, Fresh, Live, VM, Codes
<1> HIDE DEF v
<1>8. level \in Levels /\ level + 1 \in Levels /\ level \in Nat
      /\ Active = 0 .. level /\ Active' = 0 .. level + 1 /\ Active' \subseteq Levels
  BY <1>1, RunningType DEF Active, Levels
<1>9. vm'[level + 1] = v /\ \A l \in Active : vm'[l] = vm[l]
  BY <1>1, <1>8 DEF IInv, TypeOK, Levels
<1>10. TypeOK'
  BY <1>1, <1>6, <1>8 DEF IInv, TypeOK
<1>11. \A l \in Active' : l = level + 1 \/ l \in Active
  BY <1>8
<1>12. MeterInv'
  BY <1>7, <1>9, <1>11 DEF IInv, MeterInv
<1>13. StackInv'
  <2> SUFFICES ASSUME NEW l \in Active', l < level + 1
               PROVE  Live(vm'[l]) /\ vm'[l + 1].budget = vm'[l].fuel - 1
    BY <1>1 DEF StackInv
  <2>1. CASE l = level
    BY <1>1, <1>7, <1>8, <1>9, <2>1 DEF Running
  <2>2. CASE l # level
    <3>1. l \in Active /\ l + 1 \in Active /\ l < level
      BY <1>8, <2>2
    <3> QED
      BY <1>9, <3>1 DEF IInv, StackInv
  <2> QED
    BY <2>1, <2>2
<1>14. 0 \in Active /\ vm'[0] = vm[0]
  BY <1>8, <1>9
<1>15. Inherited'
  <2> SUFFICES ASSUME NEW l \in Active', NEW k \in Keys
               PROVE  /\ vm'[l].priv[k].writable => vm'[0].priv[k].writable
                      /\ vm'[l].priv[k].signer =>
                           vm'[0].priv[k].signer \/ \E i \in 0 .. l - 1 : k \in Pdas[vm'[i].prog]
    BY DEF Inherited
  <2>1. CASE l \in Active
    <3>1. \A i \in 0 .. l - 1 : i \in Active
      BY <1>8, <2>1
    <3> QED
      BY <1>9, <1>14, <2>1, <3>1 DEF IInv, Inherited
  <2>2. CASE l = level + 1
    <3>1. /\ Running.priv[k].writable => vm[0].priv[k].writable
          /\ Running.priv[k].signer =>
               vm[0].priv[k].signer \/ \E i \in 0 .. level - 1 : k \in Pdas[vm[i].prog]
      BY <1>8 DEF IInv, Inherited, Running
    <3>2. level \in 0 .. l - 1 /\ \A i \in 0 .. level - 1 : i \in 0 .. l - 1 /\ i \in Active
      BY <1>8, <2>2
    <3>3. vm'[level] = Running
      BY <1>8, <1>9 DEF Running
    <3>4. vm'[l].priv[k] = priv[k]
      BY <1>7, <1>9, <2>2
    <3> QED
      BY <1>3, <1>9, <1>14, <3>1, <3>2, <3>3, <3>4
  <2> QED
    BY <1>11, <2>1, <2>2
<1> QED
  BY <1>10, <1>12, <1>13, <1>15, <1>14 DEF IInv, Kept

\* What a callee may commit is well-formed.
LEMMA CommittedType ==
  ASSUME NEW v \in VM, NEW w \in VM
  PROVE  /\ Committed(v, w) \in Memory /\ ReturnCode(v, w) \in Codes
         /\ \A k \in Keys : ~w.priv[k].writable => Committed(v, w)[k] = v.mem[k]
<1>1. ASSUME NEW k \in Keys PROVE WriteBack(v.mem[k], w.mem[k]) \in Content
  <2>1. v.mem[k] \in Content /\ w.mem[k] \in Content
    BY DEF VM
  <2>2. v.mem[k].data \in Data /\ w.mem[k].data \in Data
    BY <2>1, Fields
  <2> QED
    BY <2>1, <2>2, Fields DEF WriteBack
<1>2. \A k \in Keys : v.mem[k] \in Content
  BY DEF VM
<1>3. Committed(v, w) \in Memory
  BY <1>1, <1>2 DEF Committed, Memory
<1>4. \A k \in Keys : ~w.priv[k].writable => Committed(v, w)[k] = v.mem[k]
  BY DEF Committed
<1>5. ReturnCode(v, w) \in Codes
  BY DEF ReturnCode, Codes
<1> QED
  BY <1>3, <1>4, <1>5

\* Returning from a callee preserves the invariant: an invoke costs its caller at
\* least one unit, whatever the callee spent, and blanks the level above.
LEMMA ReturnStep ==
  ASSUME IInv, Return
  PROVE  Kept
<1> DEFINE caller == vm[level - 1]
           code == ReturnCode(caller, Running)
           mem == Committed(caller, Running)
           spent == Running.cu
           units == 1 + InvokeUnits + spent
           v == ApplyResult(caller, code, mem, spent)
<1>1. level > 0 /\ vm' = [vm EXCEPT ![level - 1] = v, ![level] = Blank]
      /\ level' = level - 1 /\ Snapshot(level - 1, code, mem)
  BY DEF Return
<1>2. level \in Levels /\ level - 1 \in Levels /\ level \in Nat
      /\ level - 1 \in Active /\ level - 1 < level /\ Active \subseteq Levels
      /\ Active' = 0 .. level - 1 /\ Active' \subseteq Active
  BY <1>1, RunningType DEF Levels, Active
<1>3. caller \in VM /\ Live(caller) /\ Metered(caller)
  BY <1>2 DEF IInv, TypeOK, StackInv, MeterInv
<1>4. mem \in Memory /\ code \in Codes /\ spent \in Nat /\ units \in Nat /\ units > 0
  <2>1. mem \in Memory /\ code \in Codes
    BY <1>3, RunningType, CommittedType
  <2>2. spent \in Nat
    BY RunningType DEF VM
  <2> HIDE DEF spent
  <2> QED
    BY <2>1, <2>2
<1>5. cpiReturn' \in Memory
  <2> HIDE DEF mem, code
  <2> QED
    BY <1>1, <1>4, RunningType DEF Snapshot
<1> HIDE DEF mem, code, caller
<1>6. v \in VM /\ v.exit = "none" /\ Same(v, Charge(caller, units))
  <2>1. units = 1 + InvokeUnits + spent /\ spent \in Nat
    BY <1>4
  <2> HIDE DEF units, spent
  <2> QED
    BY <1>3, <1>4, <2>1, Applied
<1>7. Charge(caller, units).prog = caller.prog /\ Charge(caller, units).budget = caller.budget
      /\ Charge(caller, units).priv = caller.priv /\ Charge(caller, units).exit = "none"
      /\ Metered(Charge(caller, units))
  BY <1>3, <1>4, Charged
<1> HIDE DEF v, units
<1>8. Metered(v) /\ v.prog = caller.prog /\ v.budget = caller.budget /\ v.priv = caller.priv
  BY <1>6, <1>7 DEF Metered, Same, Codes
<1>9. vm'[level - 1] = v /\ \A l \in Active' : l # level - 1 => vm'[l] = vm[l]
  BY <1>1, <1>2 DEF IInv, TypeOK, Levels
<1>10. Blank \in VM
  BY DEF Blank, Fresh, VM, Codes, Exits
<1>11. TypeOK'
  BY <1>1, <1>2, <1>5, <1>6, <1>10 DEF IInv, TypeOK, Memory
<1>12. MeterInv'
  BY <1>2, <1>8, <1>9 DEF IInv, MeterInv
<1>13. \A l \in Active' : /\ vm'[l].prog = vm[l].prog
                          /\ vm'[l].budget = vm[l].budget
                          /\ vm'[l].priv = vm[l].priv
  BY <1>8, <1>9 DEF caller
<1>14. StackInv'
  <2> SUFFICES ASSUME NEW l \in Active', l < level - 1
               PROVE  Live(vm'[l]) /\ vm'[l + 1].budget = vm'[l].fuel - 1
    BY <1>1 DEF StackInv
  <2>1. l \in Active /\ l < level /\ l + 1 \in Active' /\ l # level - 1
    BY <1>2
  <2> QED
    BY <1>9, <1>13, <2>1 DEF IInv, StackInv
<1>15. 0 \in Active' /\ vm'[0].priv = vm[0].priv /\ vm'[0].budget = vm[0].budget
  <2>1. level > 0 /\ level \in Nat /\ Active' = 0 .. level - 1
    BY <1>1, <1>2
  <2>2. 0 \in Active'
    BY <2>1
  <2> QED
    BY <1>13, <2>2
<1>16. Inherited'
  <2> SUFFICES ASSUME NEW l \in Active', NEW k \in Keys
               PROVE  /\ vm'[l].priv[k].writable => vm'[0].priv[k].writable
                      /\ vm'[l].priv[k].signer =>
                           vm'[0].priv[k].signer \/ \E i \in 0 .. l - 1 : k \in Pdas[vm'[i].prog]
    BY DEF Inherited
  <2>1. l \in Active /\ \A i \in 0 .. l - 1 : i \in Active'
    BY <1>2
  <2> QED
    BY <1>13, <1>15, <2>1 DEF IInv, Inherited
<1> QED
  BY <1>11, <1>12, <1>14, <1>16, <1>15 DEF IInv, Kept

\* Every step of the runner keeps the invariant and the top-level VM's privileges
\* and budget.
LEMMA StepKeeps ==
  ASSUME IInv, [Next]_vars
  PROVE  Kept
<1>1. CASE UNCHANGED vars
  BY <1>1 DEF vars, Kept, IInv, TypeOK, MeterInv, StackInv, Inherited, Active
<1>2. CASE \E k \in Running.held : Store(k)
  BY <1>2, StoreStep
<1>3. CASE Return
  BY <1>3, ReturnStep
<1>4. CASE Invoke
  <2>1. CASE InvokeOverBudget
    BY <2>1, RefusedStep DEF InvokeOverBudget
  <2>2. CASE InvokeTooDeep
    BY <2>2, RefusedStep DEF InvokeTooDeep
  <2>3. ASSUME NEW refs \in Requests, NEW pdas \in SUBSET Pdas[Running.prog],
               InvokeAliased(refs, pdas)
        PROVE  Kept
    BY <2>3, RefusedStep DEF InvokeAliased
  <2>4. ASSUME NEW refs \in Requests, NEW pdas \in SUBSET Pdas[Running.prog],
               InvokeUnknown(refs, pdas)
        PROVE  Kept
    BY <2>4, RefusedStep DEF InvokeUnknown
  <2>5. ASSUME NEW refs \in Requests, NEW pdas \in SUBSET Pdas[Running.prog],
               NEW ix \in NativeIxs, InvokeNative(refs, pdas, ix)
        PROVE  Kept
    BY <2>5, InvokeNativeStep
  <2>6. ASSUME NEW refs \in Requests, NEW pdas \in SUBSET Pdas[Running.prog],
               NEW p \in Registry, InvokeProgram(p, refs, pdas)
        PROVE  Kept
    BY <2>6, InvokeProgramStep
  <2> QED
    BY <1>4, <2>1, <2>2, <2>3, <2>4, <2>5, <2>6 DEF Invoke
<1>5. CASE Halt
  BY <1>1, <1>5 DEF Halt
<1> QED
  BY <1>1, <1>2, <1>3, <1>4, <1>5, PlainSteps DEF Next, Step

\* IInv holds in every reachable state, and the top-level VM keeps the privileges
\* of the instruction.
THEOREM Invariance == Spec => [](IInv /\ vm[0].priv = Granted)
<1>1. IInv /\ vm[0].priv = Granted /\ [Next]_vars => (IInv /\ vm[0].priv = Granted)'
  BY StepKeeps DEF Kept
<1> QED
  BY <1>1, InitIInv, PTL DEF Spec

\* The privileges of the top-level VM being those of the instruction, nobody holds
\* one that the instruction or a program on the stack did not give.
LEMMA InheritedPrivileges ==
  ASSUME IInv, vm[0].priv = Granted
  PROVE  PrivilegesAreInherited
BY DEF IInv, Inherited, PrivilegesAreInherited

-----------------------------------------------------------------------------
\* Account blocks, meters and privileges are always well-formed.
THEOREM TypeCorrectness == Spec => []TypeOK
BY Invariance, PTL DEF IInv

\* Fuel never runs out before the compute budget, at any depth, so the recursion
\* bound of executeFnCpiWithFuel is never what ends a run.
THEOREM FuelIsSlack == Spec => []FuelNeverBinds
<1>1. IInv => FuelNeverBinds
  <2> SUFFICES ASSUME IInv, NEW l \in Active, vm[l].exit = "none", vm[l].fuel = 0
               PROVE  vm[l].cu >= vm[l].budget
    BY DEF FuelNeverBinds
  <2>1. Metered(vm[l]) /\ vm[l] \in VM
    BY DEF IInv, MeterInv, TypeOK, Active, Levels
  <2> QED
    BY <2>1 DEF Metered, VM
<1> QED
  BY <1>1, Invariance, PTL

\* A program that exits is within its compute budget, with the units of all its
\* callees counted; a fault is over it by one unit at most.
THEOREM BudgetIsRespected == Spec => []ExitsWithinBudget
<1>1. IInv => ExitsWithinBudget
  BY DEF IInv, MeterInv, Metered, ExitsWithinBudget
<1> QED
  BY <1>1, Invariance, PTL

\* No privilege at any depth that the instruction or the seeds of a program on
\* the stack did not give.
THEOREM NoPrivilegeEscalation == Spec => []PrivilegesAreInherited
<1>1. IInv /\ vm[0].priv = Granted => PrivilegesAreInherited
  BY InheritedPrivileges
<1> QED
  BY <1>1, Invariance, PTL

\* Only the return of a callee lowers the level.
LEMMA OnlyReturnLowers ==
  ASSUME IInv, [Next]_vars, level' < level
  PROVE  Return
<1>1. level \in Nat
  BY RunningType
<1>2. level' # level /\ level' # level + 1
  BY <1>1
<1> QED
  BY <1>2 DEF Next, Step, Invoke, Halt, vars, Instruction, Store, Syscall, Fault,
              CallxFault, SyscallFault, InvalidPc, Exit, InvokeOverBudget, InvokeTooDeep,
              InvokeAliased, InvokeUnknown, InvokeNative, InvokeProgram

\* The caller of an exhausted callee is itself out of budget.
THEOREM ExhaustionReachesTheTop == Spec => ExhaustionIsFatal
<1>1. IInv /\ [Next]_vars =>
        [level' < level /\ vm[level].exit = "none" => ~Live(vm'[level'])]_vars
  <2> SUFFICES ASSUME IInv, [Next]_vars, level' < level, vm[level].exit = "none"
               PROVE  ~Live(vm'[level'])
    OBVIOUS
  <2>1. Return
    BY OnlyReturnLowers
  <2> DEFINE caller == vm[level - 1]
             spent == Running.cu
             code == ReturnCode(caller, Running)
             mem == Committed(caller, Running)
             v == ApplyResult(caller, code, mem, spent)
             total == 1 + InvokeUnits + spent
  <2>2. level > 0 /\ ~Live(Running) /\ level' = level - 1
        /\ vm' = [vm EXCEPT ![level - 1] = v, ![level] = Blank]
    BY <2>1 DEF Return
  <2>3. level \in Levels /\ level - 1 \in Levels /\ level - 1 \in Active
        /\ level - 1 < level /\ (level - 1) + 1 = level
    BY <2>2, RunningType DEF Levels, Active
  <2>4. caller \in VM /\ Live(caller) /\ Metered(caller) /\ Running.budget = caller.fuel - 1
    BY <2>3 DEF IInv, TypeOK, StackInv, MeterInv, Running
  <2>5. spent \in Nat /\ total \in Nat /\ spent >= caller.fuel - 1
    <3>1. Running \in VM /\ Metered(Running) /\ Running.exit = "none"
      BY RunningType DEF Running
    <3>2. Running.cu \in Nat /\ Running.fuel \in Nat /\ Running.budget \in Nat
          /\ Running.cu + Running.fuel >= Running.budget
      BY <3>1 DEF Metered, VM
    <3>3. Running.cu >= Running.budget
      BY <2>2, <3>1, <3>2 DEF Live
    <3> QED
      BY <2>4, <3>2, <3>3
  <2>6. mem \in Memory /\ code \in Codes
    BY <2>4, RunningType, CommittedType
  <2>7. vm'[level'] = v
    BY <2>2, <2>3 DEF IInv, TypeOK
  <2>8. total = 1 + InvokeUnits + spent
    OBVIOUS
  <2> HIDE DEF caller, spent, code, mem, total
  <2>9. Same(v, Charge(caller, total))
    BY <2>4, <2>5, <2>6, <2>8, Applied
  <2>10. Charge(caller, total).cu = caller.cu + total /\ Charge(caller, total).budget = caller.budget
    BY <2>4, <2>5, Charged
  <2> HIDE DEF v
  <2>11. v.cu = caller.cu + total /\ v.budget = caller.budget
    BY <2>9, <2>10 DEF Same
  <2>12. v.cu >= v.budget
    BY <2>4, <2>5, <2>8, <2>11 DEF Metered, Live, VM
  <2>13. v.cu \in Nat /\ v.budget \in Nat
    BY <2>4, <2>5, <2>11 DEF VM
  <2> QED
    BY <2>7, <2>12, <2>13 DEF Live
<1> QED
  BY <1>1, Invariance, PTL DEF Spec, ExhaustionIsFatal

\* A failed callee leaves its caller's accounts alone, and no return changes an
\* account the instruction declares read-only.
THEOREM Atomicity == Spec => CpiIsAtomic
<1>1. IInv /\ vm[0].priv = Granted /\ [Next]_vars =>
        [level' < level =>
           /\ vm'[level'].r0 = "err" => vm'[level'].mem = vm[level'].mem
           /\ \A k \in Keys :
                ~Granted[k].writable => vm'[level'].mem[k] = vm[level'].mem[k]]_vars
  <2> SUFFICES ASSUME IInv, vm[0].priv = Granted, [Next]_vars, level' < level
               PROVE  /\ vm'[level'].r0 = "err" => vm'[level'].mem = vm[level'].mem
                      /\ \A k \in Keys :
                           ~Granted[k].writable => vm'[level'].mem[k] = vm[level'].mem[k]
    OBVIOUS
  <2>1. Return
    BY OnlyReturnLowers
  <2> DEFINE caller == vm[level - 1]
             spent == Running.cu
             code == ReturnCode(caller, Running)
             mem == Committed(caller, Running)
             v == ApplyResult(caller, code, mem, spent)
             total == 1 + InvokeUnits + spent
  <2>2. level > 0 /\ level' = level - 1
        /\ vm' = [vm EXCEPT ![level - 1] = v, ![level] = Blank]
    BY <2>1 DEF Return
  <2>3. level \in Levels /\ level - 1 \in Levels /\ level - 1 \in Active /\ level \in Active
        /\ level - 1 < level
    BY <2>2, RunningType DEF Levels, Active
  <2>4. caller \in VM /\ Live(caller) /\ Metered(caller)
    BY <2>3 DEF IInv, TypeOK, StackInv, MeterInv
  <2>5. spent \in Nat
    BY RunningType DEF VM
  <2>6. mem \in Memory /\ code \in Codes
    BY <2>4, RunningType, CommittedType
  <2>7. \A k \in Keys : ~Running.priv[k].writable => mem[k] = caller.mem[k]
    BY <2>4, RunningType, CommittedType
  <2>8. vm'[level'] = v /\ vm[level'] = caller
    BY <2>2, <2>3 DEF IInv, TypeOK
  <2>9. total = 1 + InvokeUnits + spent
    OBVIOUS
  <2>10. \A k \in Keys : Running.priv[k].writable => Granted[k].writable
    BY <2>3, InheritedPrivileges DEF PrivilegesAreInherited, Running
  <2> HIDE DEF caller, spent, code, mem, total
  <2>11. v.r0 = code /\ (code = "ok" => v.mem = mem) /\ (code # "ok" => v.mem = caller.mem)
    <3>1. v.r0 = code
      BY <2>4, <2>5, <2>6, <2>9, Applied
    <3>2. code = "ok" => v.mem = mem
      BY <2>4, <2>5, <2>6, <2>9, Applied
    <3>3. code # "ok" => v.mem = caller.mem
      BY <2>4, <2>5, <2>6, <2>9, Applied
    <3> QED
      BY <3>1, <3>2, <3>3
  <2> HIDE DEF v
  <2> QED
    BY <2>6, <2>8, <2>10, <2>11, <2>7 DEF Codes
<1> QED
  BY <1>1, Invariance, PTL DEF Spec, CpiIsAtomic
=============================================================================
