-------------------------------- MODULE Svm ---------------------------------
(***************************************************************************)
(* The host (svm.rs, serialize.rs, deserialize.rs): one call of            *)
(* `process_instruction`, from the submitted instruction to its result,    *)
(* around a run of the CPI-aware runner.                                   *)
(*                                                                         *)
(* A submission names a program, lists account references, and supplies    *)
(* accounts; Entry gives their contents.  `process_instruction` takes      *)
(* &self, so calls do not influence each other.                            *)
(***************************************************************************)
EXTENDS CpiRunner, AccountChecks

CONSTANTS
  Precompiles,   \* the signature-verification precompiles
  PrecompileUnits,  \* what they report
  Broken,        \* registered programs whose ELF Lean does not decode
  Sysvars,       \* addresses of sysvars
  Incinerator,   \* its address, exempt from the rent rule
  MaxMetas,      \* 255: references of one instruction
  Submissions    \* the instructions submitted, and enforce_rent_state of the Svm

Submission ==
  [program : Programs \cup Precompiles, metas : Seq(Ref), supplied : SUBSET Keys, rent : BOOLEAN]

ASSUME HostAssumption ==
  /\ IsFiniteSet(Keys)
  /\ Precompiles \cap Programs = {} /\ Broken \subseteq Programs \ (Registry \cup {Main})
  /\ PrecompileUnits \in Nat
  /\ Sysvars \subseteq Keys /\ MaxMetas \in Nat
  /\ Submissions \subseteq Submission
  /\ \A s \in Submissions : s.program \notin Registry

VARIABLES
  stage,       \* "submitted", "running" or "answered"
  submission,  \* the instruction and the accounts supplied with it
  result       \* InstructionResult or SvmError

svmVars == <<vars, stage, submission, result>>

Refusals == {"UnknownProgram", "Serialize", "ElfDecodeFailed", "InvalidAccounts"}
RunResults == {"Success", "ProgramError", "VmFault", "OutOfBudget", "InvalidPoststate", "BufferParse"}
Results == [kind : Refusals \cup RunResults \cup {"none"}, accounts : [Keys -> Content], units : Nat]

Metas == submission.metas

SvmInit ==
  /\ level = 0 /\ vm = [l \in Levels |-> Blank] /\ cpiReturn = Entry
  /\ stage = "submitted"
  /\ submission \in Submissions
  /\ result = [kind |-> "none", accounts |-> Entry, units |-> 0]

-----------------------------------------------------------------------------
\* Variants with one plausible bug each (a name that ends in Bug); no action uses
\* them.

\* Only the first reference is looked at.
WritableSysvarBug(metas) == Len(metas) > 0 /\ metas[1].writable /\ metas[1].key \in Sysvars

\* The reported units are not clamped on exhaustion, and drained otherwise.
UnitsUsedBug(v) == IF v.exit = "none" THEN v.cu ELSE Budget

-----------------------------------------------------------------------------
Answer(kind, accounts, units) ==
  /\ stage' = "answered"
  /\ result' = [kind |-> kind, accounts |-> accounts, units |-> units]
  /\ UNCHANGED <<vars, submission>>

Refuse(kind) == Answer(kind, Entry, 0)

\* A precompile runs in Lean without a VM.
RunPrecompile(kind) ==
  /\ stage = "submitted"
  /\ submission.program \in Precompiles
  /\ Answer(kind, Entry, PrecompileUnits)

RefuseUnknownProgram ==
  /\ stage = "submitted"
  /\ submission.program \notin Precompiles \cup Registry \cup Broken \cup {Main}
  /\ Refuse("UnknownProgram")

Known == stage = "submitted" /\ submission.program \in {Main} \cup Broken

\* ix_accounts_writable_sysvar
WritableSysvar(metas) == \E i \in DOMAIN metas : metas[i].writable /\ metas[i].key \in Sysvars

RefuseWritableSysvar ==
  /\ Known
  /\ WritableSysvar(Metas)
  /\ Refuse("InvalidAccounts")

\* accounts_for_instruction
Missing == \E i \in DOMAIN Metas : Metas[i].key \notin submission.supplied

RefuseMissingAccount ==
  /\ Known /\ ~WritableSysvar(Metas)
  /\ Missing
  /\ Refuse("Serialize")

RefuseTooManyAccounts ==
  /\ Known /\ ~WritableSysvar(Metas) /\ ~Missing
  /\ Len(Metas) > MaxMetas
  /\ Refuse("Serialize")

Serializable == Known /\ ~WritableSysvar(Metas) /\ ~Missing /\ Len(Metas) <= MaxMetas

RefuseElf ==
  /\ Serializable
  /\ submission.program \in Broken
  /\ Refuse("ElfDecodeFailed")

\* serialize_parameters: the flags of an account are the OR over its references.
SerializedPriv(metas) ==
  [k \in Keys |->
     [signer |-> \E i \in DOMAIN metas : metas[i].key = k /\ metas[i].signer,
      writable |-> \E i \in DOMAIN metas : metas[i].key = k /\ metas[i].writable]]

\* run_buffer: the runner starts on the serialized input.
Start ==
  /\ Serializable
  /\ submission.program = Main
  /\ stage' = "running"
  /\ vm' = [vm EXCEPT ![0] = Fresh(Main, Budget, Entry, Passed(Metas), SerializedPriv(Metas))]
  /\ UNCHANGED <<level, cpiReturn, submission, result>>

Run == stage = "running" /\ Step /\ UNCHANGED <<stage, submission, result>>

-----------------------------------------------------------------------------
\* parse_non_dup_record: at most the bytes the record has room for.
HeldLen(k, acct) == Min({acct.len, Entry[k].len + MaxIncrease})
ReadBack(k, acct) == [acct EXCEPT !.len = HeldLen(k, acct)]

\* encode_account_changes: one record per reference; duplicates share the first
\* occurrence's account.
Changes ==
  [i \in DOMAIN Metas |->
     LET k == Metas[i].key
     IN  [key |-> k, writable |-> Metas[i].writable, entry |-> Entry[k],
          pre |-> ReadBack(k, cpiReturn[k]), post |-> vm[0].mem[k],
          held |-> HeldLen(k, vm[0].mem[k])]]

RentRule(refs) ==
  IF submission.rent /\ \E i \in DOMAIN refs : refs[i].key # Incinerator /\ ~rentOk(refs[i])
  THEN "rentStateTransitionInvalid" ELSE "none"

\* validate_post_state; a zero-account instruction has nothing to judge.
Validate(refs) ==
  IF refs = <<>> THEN "none" ELSE Then(postInstructionCheck(Main, refs), RentRule(refs))

\* Outcome.ofState and the match on ExitOutcome; a zero exit is judged.
Verdict(v) ==
  CASE v.exit = "none" -> "OutOfBudget"
    [] v.exit = "fault" -> "VmFault"
    [] v.exit = "err" -> "ProgramError"
    [] v.exit = "ok" -> IF Validate(Changes) = "none" THEN "Success" ELSE "InvalidPoststate"

\* Outcome.cuUsed
UnitsUsed(v) == IF v.exit = "none" THEN Budget ELSE Min({v.cu, Budget})

\* The accounts of the result hold what the programs wrote, on success or not.
ReadAccounts ==
  [k \in Keys |-> IF k \in Passed(Metas) THEN ReadBack(k, vm[0].mem[k]) ELSE Entry[k]]

\* A run that is out of its budget is started again.
FinishBug ==
  /\ stage = "running" /\ Halted
  /\ \/ /\ vm[0].exit = "none"
        /\ vm' = [vm EXCEPT ![0] = Fresh(Main, Budget, Entry, Passed(Metas), SerializedPriv(Metas))]
        /\ UNCHANGED <<level, cpiReturn, stage, submission, result>>
     \/ /\ vm[0].exit # "none"
        /\ Answer(Verdict(vm[0]), ReadAccounts, UnitsUsed(vm[0]))
Finish ==
  /\ stage = "running" /\ Halted
  /\ Answer(Verdict(vm[0]), ReadAccounts, UnitsUsed(vm[0]))

\* A program has overwritten a count or a length the host needs to parse the
\* buffer: an SvmError instead of a result.
FinishUnparsable ==
  /\ stage = "running" /\ Halted
  /\ vm[0].cu > 0 /\ (submission.supplied # {} \/ Metas # <<>>)
  /\ Answer("BufferParse", Entry, 0)

Answered == stage = "answered" /\ UNCHANGED svmVars

Process ==
  \/ \E kind \in {"Success", "ProgramError"} : RunPrecompile(kind)
  \/ RefuseUnknownProgram
  \/ RefuseWritableSysvar
  \/ RefuseMissingAccount
  \/ RefuseTooManyAccounts
  \/ RefuseElf
  \/ Start
  \/ Run
  \/ Finish
  \/ FinishUnparsable

SvmNext == Process \/ Answered

\* The call runs on the caller's thread until it returns.  This is
\* WF_svmVars(Process), with ENABLED <<Process>>_svmVars written out.
SvmSpec ==
  /\ SvmInit /\ [][SvmNext]_svmVars
  /\ <>[](stage # "answered") => []<><<Process>>_svmVars

-----------------------------------------------------------------------------
\* The host's state, the runner's included, is well-formed.
SvmTypeOK ==
  /\ TypeOK
  /\ stage \in {"submitted", "running", "answered"}
  /\ submission \in Submissions
  /\ result \in Results

\* No program at any depth ever holds a sysvar writable, duplicates and invokes
\* included (svm.rs: "agave's loader rejects writable sysvar accounts").
SysvarsStayReadOnly ==
  \A l \in Active, k \in Sysvars : stage = "running" => ~vm[l].priv[k].writable

\* "The clamp is the identity on every in-budget run" (Outcome.lean): the units
\* reported for a run that ended are exactly the units it was charged.  The one
\* run that ends over its budget is a fault, charged one unit more than reported.
ReportedUnitsAreExact ==
  result.kind \in {"Success", "ProgramError", "VmFault", "InvalidPoststate"}
    /\ submission.program = Main =>
      \/ result.units = vm[0].cu
      \/ result.kind = "VmFault" /\ result.units = Budget /\ vm[0].cu = Budget + 1

\* A run that succeeds without a completed CPI changed an account only as the
\* main program may: with a write reference, spending, editing or giving away
\* only what it owned at entry, and giving it away zeroed.
ChangesAreAuthorized ==
  result.kind = "Success" /\ submission.program = Main /\ cpiReturn = Entry =>
    \A k \in Keys :
      LET before == Entry[k]
          after == result.accounts[k]
          edited == after.len # before.len \/ (after.len > 0 /\ after.data # before.data)
          debited == after.lamports < before.lamports
          given == after.owner # before.owner
      IN  /\ edited \/ given \/ after.lamports # before.lamports =>
               \E i \in DOMAIN Metas : Metas[i].key = k /\ Metas[i].writable
          /\ edited \/ given \/ debited => before.owner = Main
          /\ given => after.len = 0 \/ after.data = ZeroData

\* Under rent enforcement no success leaves an account rent-paying unless it was
\* so before and was neither resized nor credited.
NoNewRentPayers ==
  submission.rent /\ result.kind = "Success" /\ submission.program = Main =>
    \A k \in Passed(Metas) \ {Incinerator} :
      LET after == result.accounts[k]
      IN  0 < after.lamports /\ after.lamports < (StorageOverhead + after.len) * LamportsPerByte =>
            /\ 0 < Entry[k].lamports /\ after.lamports <= Entry[k].lamports
            /\ after.len = Entry[k].len

\* The size the programs leave each account of the instruction with, whatever the
\* host reads back of it.
LeftLen == [k \in Keys |-> IF k \in Passed(Metas) THEN vm[0].mem[k].len ELSE Entry[k].len]

Contract == INSTANCE InstructionContract WITH answered <- stage = "answered", left <- LeftLen

\* process_instruction keeps its contract: a success conserves lamports and
\* reports every account at the size the programs and their callees left it with,
\* grown by no more than its room: what is judged is what they wrote and not the
\* length that was cut to the record.
KeepsContract == Contract!Spec

\* Every call returns.
EverySubmissionIsAnswered == <>(stage = "answered")
=============================================================================
