--------------------------- MODULE LeanLockProofs ---------------------------
(* Theorems about the Lean FFI boundary, for every set of threads, every    *)
(* number of calls and every number of arguments.                           *)
EXTENDS LeanLock, TLAPS

\* The holder of LEAN_LOCK is exactly the thread between lock() and drop(g),
\* and a poisoned mutex has no holder.
HolderInv ==
  /\ \A t \in Threads : pc[t] \in InLean \cup {"unlock"} <=> owner = t
  /\ poisoned => owner = NoThread

\* How far the one-shot initialisation has got.
InitInv ==
  /\ runtime.inits <= 1
  /\ flag => runtime.inits = 1 /\ runtime.sealed
  /\ \/ runtime.inits = 0 \/ flag \/ poisoned
     \/ owner # NoThread /\ pc[owner] \in {"module", "mark"}
  /\ \A t \in Threads :
       /\ pc[t] = "runtime" => runtime.inits = 0 /\ ~flag
       /\ pc[t] \in {"module", "mark"} => runtime.inits = 1 /\ ~flag
       /\ pc[t] \in Calling => flag

\* Objects are owned only inside a call, until a panic loses track of them.
ObjectInv ==
  \A t \in Threads :
    /\ ~poisoned /\ pc[t] \notin Calling => live[t] = 0
    /\ pc[t] \in {"read", "release"} => live[t] = 1

IInv == TypeOK /\ HolderInv /\ InitInv /\ ObjectInv

-----------------------------------------------------------------------------
\* Before the first call nobody holds the lock and nothing is initialised.
LEMMA InitEstablishes == Init => IInv
<1> SUFFICES ASSUME Init PROVE IInv
  OBVIOUS
<1>1. TypeOK
  BY DEF Init, TypeOK, Points, InLean, Initialising, Calling
<1>2. HolderInv
  BY ThreadsAssumption DEF Init, HolderInv, InLean, Initialising, Calling
<1>3. InitInv
  BY DEF Init, InitInv, Calling
<1>4. ObjectInv
  BY DEF Init, ObjectInv, Calling
<1> QED
  BY <1>1, <1>2, <1>3, <1>4 DEF IInv

\* Every step of a thread, panics included, preserves the invariant.
LEMMA StepPreserves == IInv /\ [Next]_vars => IInv'
<1> SUFFICES ASSUME IInv, [Next]_vars PROVE IInv'
  OBVIOUS
<1> USE ThreadsAssumption, BoundsAssumption DEF IInv, TypeOK, HolderInv, InitInv, ObjectInv,
        Points, InLean, Initialising, Calling, Goto
<1>1. ASSUME NEW t \in Threads, NEW e \in Entry, StartCall(t, e) PROVE IInv'
  BY <1>1 DEF StartCall
<1>2. ASSUME NEW t \in Threads, Acquire(t) PROVE IInv'
  BY <1>2 DEF Acquire
<1>3. ASSUME NEW t \in Threads, AcquirePoisoned(t) PROVE IInv'
  BY <1>3 DEF AcquirePoisoned
<1>4. ASSUME NEW t \in Threads, InitRuntime(t) PROVE IInv'
  BY <1>4 DEF InitRuntime
<1>5. ASSUME NEW t \in Threads, InitModuleOk(t) PROVE IInv'
  BY <1>5 DEF InitModuleOk
<1>6. ASSUME NEW t \in Threads, InitModuleFails(t) PROVE IInv'
  BY <1>6 DEF InitModuleFails, UnwindWithGuard
<1>7. ASSUME NEW t \in Threads, MarkEndInitialization(t) PROVE IInv'
  BY <1>7 DEF MarkEndInitialization
<1>8. ASSUME NEW t \in Threads, Alloc(t) PROVE IInv'
  BY <1>8 DEF Alloc
<1>9. ASSUME NEW t \in Threads, CallEntryPoint(t) PROVE IInv'
  BY <1>9 DEF CallEntryPoint
<1>10. ASSUME NEW t \in Threads, ReadResult(t) PROVE IInv'
  BY <1>10 DEF ReadResult
<1>11. ASSUME NEW t \in Threads, DecRef(t) PROVE IInv'
  BY <1>11 DEF DecRef
<1>12. ASSUME NEW t \in Threads, Unlock(t) PROVE IInv'
  BY <1>12 DEF Unlock
<1>13. ASSUME NEW t \in Threads, PanicInCall(t) PROVE IInv'
  BY <1>13 DEF PanicInCall, UnwindWithGuard
<1>14. ASSUME NEW t \in Threads, CatchUnwind(t) PROVE IInv'
  BY <1>14 DEF CatchUnwind
<1>15. CASE UNCHANGED vars
  BY <1>15 DEF vars
<1> QED
  BY <1>1, <1>2, <1>3, <1>4, <1>5, <1>6, <1>7, <1>8, <1>9, <1>10, <1>11, <1>12,
     <1>13, <1>14, <1>15 DEF Next, Progress

\* IInv is an invariant of the specification.
THEOREM Invariance == Spec => []IInv
<1>1. Init => IInv
  BY InitEstablishes
<1>2. IInv /\ [Next]_vars => IInv'
  BY StepPreserves
<1> QED
  BY <1>1, <1>2, PTL DEF Spec

-----------------------------------------------------------------------------
\* The Lean runtime is never run by two threads at once: a thread between
\* lock() and drop(g) holds LEAN_LOCK (ffi.rs, lock).
THEOREM Serialization == Spec => []LeanIsSerialized
<1>1. IInv => LeanIsSerialized
  BY DEF IInv, HolderInv, LeanIsSerialized
<1> QED
  BY <1>1, Invariance, PTL

\* lean_initialize_runtime_module runs at most once in the life of a process,
\* failed initialisations and caught panics included, and every entry point
\* finds an initialised and sealed runtime (ffi.rs, lock).
THEOREM InitializationOnce == Spec => []InitializedOnce
<1>1. IInv => InitializedOnce
  BY DEF IInv, TypeOK, InitInv, InitializedOnce
<1> QED
  BY <1>1, Invariance, PTL

\* Reference counts balance over every call that does not panic (lib.rs,
\* with_lean and check_account_changes).
THEOREM NoLeaks == Spec => []NoObjectLeaks
<1>1. IInv => NoObjectLeaks
  BY ThreadsAssumption
  DEF IInv, HolderInv, ObjectInv, NoObjectLeaks, InLean, Calling
<1> QED
  BY <1>1, Invariance, PTL

\* After a panic with the guard held, no thread enters Lean again (ffi.rs:
\* "Lock poisoning is fatal").
THEOREM PoisoningIsFatal == Spec => PoisonIsFatal
<1> DEFINE Barred == poisoned => \A t \in Threads : pc'[t] \notin InLean /\ live'[t] = live[t]
<1>1. IInv /\ [Next]_vars => [Barred]_vars
  <2> SUFFICES ASSUME IInv, Next, poisoned, NEW u \in Threads
               PROVE  pc'[u] \notin InLean /\ live'[u] = live[u]
    OBVIOUS
  <2>1. \A t \in Threads : pc[t] \notin InLean \cup {"unlock"}
    BY ThreadsAssumption DEF IInv, HolderInv
  <2>2. PICK t \in Threads : (\E e \in Entry : StartCall(t, e)) \/ Progress(t) \/ CatchUnwind(t)
    BY DEF Next
  <2>3. CASE \E e \in Entry : StartCall(t, e)
    BY <2>1, <2>3 DEF StartCall, Goto, IInv, TypeOK, InLean, Initialising, Calling
  <2>4. CASE Progress(t)
    <3>1. AcquirePoisoned(t)
      BY <2>1, <2>4 DEF Progress, Acquire, InitRuntime, InitModuleOk, InitModuleFails,
         MarkEndInitialization, Alloc, CallEntryPoint, ReadResult, DecRef, Unlock,
         PanicInCall, InLean, Initialising, Calling
    <3> QED
      BY <2>1, <3>1 DEF AcquirePoisoned, Goto, IInv, TypeOK, InLean, Initialising, Calling
  <2>5. CASE CatchUnwind(t)
    BY <2>1, <2>5 DEF CatchUnwind, Goto, IInv, TypeOK, InLean, Initialising, Calling
  <2> QED
    BY <2>2, <2>3, <2>4, <2>5
<1> QED
  BY <1>1, Invariance, PTL DEF Spec, PoisonIsFatal
=============================================================================
