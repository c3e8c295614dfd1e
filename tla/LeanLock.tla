------------------------------ MODULE LeanLock ------------------------------
(***************************************************************************)
(* The Lean FFI boundary of qedsvm-rs (ffi.rs, and the two call protocols  *)
(* of lib.rs).  The Lean runtime is single threaded, so every entry takes  *)
(* the process-wide LEAN_LOCK, a Mutex<bool> whose flag records that the   *)
(* one-shot runtime and module initialisation has been done.  The first    *)
(* holder initialises; a panic while the guard is held poisons the mutex,  *)
(* and every later lock() panics.                                          *)
(*                                                                         *)
(* An entry point is either "bytes" (with_lean: a result object is read    *)
(* and released) or "code" (check_account_changes: a plain u64 comes       *)
(* back).  Both allocate argument objects that the callee consumes.        *)
(***************************************************************************)
EXTENDS Naturals, FiniteSets

CONSTANTS Threads,   \* the threads of the embedding process
          MaxArgs,   \* most argument objects an entry point allocates
          MaxCalls,  \* bound on the calls one thread starts
          NoThread   \* the mutex is free

ASSUME ThreadsAssumption == NoThread \notin Threads
ASSUME BoundsAssumption == MaxArgs \in Nat /\ MaxCalls \in Nat

VARIABLES
  pc,        \* where each thread is in lock() / with_lean
  call,      \* the entry point each thread is calling
  owner,     \* holder of LEAN_LOCK
  flag,      \* the bool behind the mutex: initialisation completed
  poisoned,  \* the mutex's poison bit
  runtime,   \* Lean runtime: how often it was initialised, and whether it is sealed
  live,      \* Lean objects each thread owns (reference counts it must give back)
  calls      \* calls each thread has started

vars == <<pc, call, owner, flag, poisoned, runtime, live, calls>>

Kinds == {"bytes", "code"}

Entry == [kind : Kinds, args : 1 .. MaxArgs]

NoEntry == [kind |-> "none", args |-> 0]

\* Program points at which a thread runs code of the Lean runtime.
Initialising == {"runtime", "module", "mark"}
Calling == {"alloc", "read", "release"}
InLean == Initialising \cup Calling

Points == {"idle", "lock", "unlock", "panicked"} \cup InLean

-----------------------------------------------------------------------------
Init ==
  /\ pc = [t \in Threads |-> "idle"]
  /\ call = [t \in Threads |-> NoEntry]
  /\ owner = NoThread
  /\ flag = FALSE
  /\ poisoned = FALSE
  /\ runtime = [inits |-> 0, sealed |-> FALSE]
  /\ live = [t \in Threads |-> 0]
  /\ calls = [t \in Threads |-> 0]

Goto(t, p) == pc' = [pc EXCEPT ![t] = p]

-----------------------------------------------------------------------------
\* Variants of the code with one plausible bug each; no action uses them.

\* The mutex is not waited for.
AcquireWithoutWaiting(t) ==
  /\ pc[t] = "lock"
  /\ ~poisoned
  /\ owner' = t
  /\ Goto(t, IF flag THEN "alloc" ELSE "runtime")
  /\ UNCHANGED <<call, flag, poisoned, runtime, live, calls>>

\* The poison error's guard is used: lock().unwrap_or_else(|e| e.into_inner()).
AcquireIgnoringPoison(t) ==
  /\ pc[t] = "lock"
  /\ owner = NoThread
  /\ poisoned
  /\ owner' = t
  /\ Goto(t, IF flag THEN "alloc" ELSE "runtime")
  /\ UNCHANGED <<call, flag, poisoned, runtime, live, calls>>

\* The result object is not released.
DecRefForgotten(t) ==
  /\ pc[t] = "release"
  /\ Goto(t, "unlock")
  /\ UNCHANGED <<call, owner, flag, poisoned, runtime, live, calls>>

\* The guard outlives the call.
UnlockForgotten(t) ==
  /\ pc[t] = "unlock"
  /\ Goto(t, "idle")
  /\ call' = [call EXCEPT ![t] = NoEntry]
  /\ UNCHANGED <<owner, flag, poisoned, runtime, live, calls>>

-----------------------------------------------------------------------------
\* A panic unwinds through the guard: the mutex is released and poisoned, and
\* the objects in flight are never released.
UnwindWithGuard(t) ==
  /\ Goto(t, "panicked")
  /\ owner' = NoThread
  /\ poisoned' = TRUE

\* A public function of the crate is called; the next thing is ffi::lock().
StartCall(t, e) ==
  /\ pc[t] = "idle"
  /\ calls[t] < MaxCalls
  /\ Goto(t, "lock")
  /\ call' = [call EXCEPT ![t] = e]
  /\ calls' = [calls EXCEPT ![t] = @ + 1]
  /\ UNCHANGED <<owner, flag, poisoned, runtime, live>>

\* LEAN_LOCK.lock() succeeds; the flag decides whether to initialise.
Acquire(t) ==
  /\ pc[t] = "lock"
  /\ owner = NoThread
  /\ ~poisoned
  /\ owner' = t
  /\ Goto(t, IF flag THEN "alloc" ELSE "runtime")
  /\ UNCHANGED <<call, flag, poisoned, runtime, live, calls>>

\* LEAN_LOCK.lock() returns the poison error and expect() panics; the guard
\* inside the error is dropped at once.
AcquirePoisoned(t) ==
  /\ pc[t] = "lock"
  /\ owner = NoThread
  /\ poisoned
  /\ Goto(t, "panicked")
  /\ UNCHANGED <<call, owner, flag, poisoned, runtime, live, calls>>

\* lean_initialize_runtime_module()
InitRuntime(t) ==
  /\ pc[t] = "runtime"
  /\ runtime' = [runtime EXCEPT !.inits = @ + 1]
  /\ Goto(t, "module")
  /\ UNCHANGED <<call, owner, flag, poisoned, live, calls>>

\* initialize_qedsvm_SVM_Ffi(1) returns an object, released on both paths.
InitModuleOk(t) ==
  /\ pc[t] = "module"
  /\ Goto(t, "mark")
  /\ UNCHANGED <<call, owner, flag, poisoned, runtime, live, calls>>

InitModuleFails(t) ==
  /\ pc[t] = "module"
  /\ UnwindWithGuard(t)
  /\ UNCHANGED <<call, flag, runtime, live, calls>>

\* lean_io_mark_end_initialization(); *guard = true
MarkEndInitialization(t) ==
  /\ pc[t] = "mark"
  /\ runtime' = [runtime EXCEPT !.sealed = TRUE]
  /\ flag' = TRUE
  /\ Goto(t, "alloc")
  /\ UNCHANGED <<call, owner, poisoned, live, calls>>

\* alloc_bytearray: one owned argument object.
Alloc(t) ==
  /\ pc[t] = "alloc"
  /\ live[t] < call[t].args
  /\ live' = [live EXCEPT ![t] = @ + 1]
  /\ UNCHANGED <<pc, call, owner, flag, poisoned, runtime, calls>>

\* The entry point consumes its arguments; a "bytes" one returns an owned
\* result object, a "code" one returns a u64 and the guard is dropped next.
CallEntryPoint(t) ==
  /\ pc[t] = "alloc"
  /\ live[t] = call[t].args
  /\ live' = [live EXCEPT ![t] = IF call[t].kind = "bytes" THEN 1 ELSE 0]
  /\ Goto(t, IF call[t].kind = "bytes" THEN "read" ELSE "unlock")
  /\ UNCHANGED <<call, owner, flag, poisoned, runtime, calls>>

\* sarray_as_slice(..).to_vec()
ReadResult(t) ==
  /\ pc[t] = "read"
  /\ Goto(t, "release")
  /\ UNCHANGED <<call, owner, flag, poisoned, runtime, live, calls>>

\* dec_ref on the result object.
DecRef(t) ==
  /\ pc[t] = "release"
  /\ live' = [live EXCEPT ![t] = @ - 1]
  /\ Goto(t, "unlock")
  /\ UNCHANGED <<call, owner, flag, poisoned, runtime, calls>>

\* drop(g)
Unlock(t) ==
  /\ pc[t] = "unlock"
  /\ owner' = NoThread
  /\ Goto(t, "idle")
  /\ call' = [call EXCEPT ![t] = NoEntry]
  /\ UNCHANGED <<flag, poisoned, runtime, live, calls>>

\* A panic between alloc and dec_ref, with the guard held.
PanicInCall(t) ==
  /\ pc[t] \in Calling
  /\ UnwindWithGuard(t)
  /\ UNCHANGED <<call, flag, runtime, live, calls>>

\* The embedder caught the panic (a test harness does) and goes on.
CatchUnwind(t) ==
  /\ pc[t] = "panicked"
  /\ Goto(t, "idle")
  /\ call' = [call EXCEPT ![t] = NoEntry]
  /\ UNCHANGED <<owner, flag, poisoned, runtime, live, calls>>

\* The steps of a call in progress.
Progress(t) ==
  \/ Acquire(t)
  \/ AcquirePoisoned(t)
  \/ InitRuntime(t)
  \/ InitModuleOk(t)
  \/ InitModuleFails(t)
  \/ MarkEndInitialization(t)
  \/ Alloc(t)
  \/ CallEntryPoint(t)
  \/ ReadResult(t)
  \/ DecRef(t)
  \/ Unlock(t)
  \/ PanicInCall(t)

Next ==
  \E t \in Threads :
    \/ \E e \in Entry : StartCall(t, e)
    \/ Progress(t)
    \/ CatchUnwind(t)

Spec == Init /\ [][Next]_vars

\* Every thread in a call is scheduled; a caller is never obliged to call.
FairSpec == Spec /\ \A t \in Threads : WF_vars(Progress(t))

-----------------------------------------------------------------------------
\* The mutex, the runtime and the reference counts are well-formed; a count never
\* goes below zero.
TypeOK ==
  /\ pc \in [Threads -> Points]
  /\ call \in [Threads -> Entry \cup {NoEntry}]
  /\ owner \in Threads \cup {NoThread}
  /\ flag \in BOOLEAN
  /\ poisoned \in BOOLEAN
  /\ runtime \in [inits : Nat, sealed : BOOLEAN]
  /\ live \in [Threads -> Nat]
  /\ calls \in [Threads -> Nat]

\* The Lean heap has at most one thread in it, and that thread holds LEAN_LOCK
\* (ffi.rs: "a single process-wide LEAN_LOCK serializes every entry").
LeanIsSerialized ==
  \A t \in Threads : pc[t] \in InLean => owner = t

\* The runtime is initialised at most once in the life of the process, even
\* when the module initialisation fails and other threads keep calling; and no
\* entry point runs before the initialisation is complete and sealed.
InitializedOnce ==
  /\ runtime.inits <= 1
  /\ \A t \in Threads :
       pc[t] \in Calling => runtime = [inits |-> 1, sealed |-> TRUE]

\* Reference counts balance across a call: while the mutex is free and no
\* holder ever panicked, no thread owns a Lean object.
NoObjectLeaks ==
  (owner = NoThread /\ ~poisoned) => \A t \in Threads : live[t] = 0

\* A poisoned runtime is never entered again: after a panic with the guard
\* held no thread runs Lean code any more (lock poisoning is fatal).
PoisonIsFatal ==
  [][poisoned => \A t \in Threads : pc'[t] \notin InLean /\ live'[t] = live[t]]_vars

\* Every call ends, normally or by a panic: nobody waits for LEAN_LOCK forever.
CallsEnd ==
  \A t \in Threads : pc[t] = "lock" ~> pc[t] \in {"idle", "panicked"}

=============================================================================
