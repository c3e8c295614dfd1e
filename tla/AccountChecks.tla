--------------------------- MODULE AccountChecks ----------------------------
(***************************************************************************)
(* The runtime's judgement of one top-level instruction: the account       *)
(* change rules (SVM/Lib/Runtime/Checks.lean) and the rent-state rule of   *)
(* the host (svm.rs).                                                      *)
(*                                                                         *)
(* A change is one reference of the instruction: its key, its writable     *)
(* flag, the account at instruction entry, the account when the last CPI   *)
(* returned, and what the input buffer holds after the run.  `len` of the  *)
(* last is the raw length field; `held` is how many bytes are behind it.   *)
(***************************************************************************)
EXTENDS Accounts, FiniteSetsExt, Functions

CONSTANTS
  StorageOverhead,  \* ACCOUNT_STORAGE_OVERHEAD
  LamportsPerByte   \* RENT_LAMPORTS_PER_BYTE_EXEMPT

ASSUME RentAssumption == StorageOverhead \in Nat /\ LamportsPerByte \in Nat

AccountChange ==
  [key : Keys, writable : BOOLEAN, entry : Content, pre : Content, post : Content, held : Nat]

Errors == {"externalAccountLamportSpend", "readonlyLamportChange", "invalidRealloc",
           "readonlyDataModified", "externalAccountDataModified", "modifiedProgramId",
           "unbalancedInstruction", "rentStateTransitionInvalid"}

-----------------------------------------------------------------------------
\* Variants with one plausible bug each (a name that ends in Bug); no definition of
\* the model uses them.

\* The balance is taken from the last CPI return.
entryLamportsBug(xs) == SumFunction([k \in DOMAIN xs |-> xs[k].pre.lamports])

\* Ownership is decided by the owner the program has just written.
ownedBug(c, prog) == c.post.owner = prog

\* A rent-paying account may be credited.
rentTransitionAllowedBug(pre, post) ==
  post.kind = "paying" => pre.kind = "paying" /\ post.len = pre.len

-----------------------------------------------------------------------------
\* The accounts of an instruction, by key: the first reference to a key gives the
\* states, the others only widen its writable flag.
firstReference(refs, k) ==
  CHOOSE i \in DOMAIN refs :
    refs[i].key = k /\ \A j \in DOMAIN refs : refs[j].key = k => i <= j

uniqueChanges(refs) ==
  [k \in {refs[i].key : i \in DOMAIN refs} |->
     [refs[firstReference(refs, k)] EXCEPT
        !.writable = \E i \in DOMAIN refs : refs[i].key = k /\ refs[i].writable]]

\* Decided on the owner before the program's own change.
owned(c, prog) == c.pre.owner = prog

canDataBeChanged(prog, c) ==
  IF ~c.writable THEN "readonlyDataModified"
  ELSE IF ~owned(c, prog) THEN "externalAccountDataModified"
  ELSE "none"

\* The data differs where both have bytes.
contentChanged(c) == c.pre.len > 0 /\ c.held > 0 /\ c.post.data # c.pre.data

checkDataWrite(prog, c) == IF contentChanged(c) THEN canDataBeChanged(prog, c) ELSE "none"

checkLamports(prog, c) ==
  IF c.post.lamports = c.pre.lamports THEN "none"
  ELSE IF c.post.lamports < c.pre.lamports /\ ~owned(c, prog) THEN "externalAccountLamportSpend"
  ELSE IF ~c.writable THEN "readonlyLamportChange"
  ELSE "none"

\* The growth bound looks back to instruction entry, the resize right does not.
checkDataLen(prog, c) ==
  IF c.post.len > c.entry.len + MaxIncrease \/ c.post.len > MaxDataLen THEN "invalidRealloc"
  ELSE IF c.post.len = c.pre.len THEN "none"
  ELSE canDataBeChanged(prog, c)

\* An account may be given away only with its data zeroed.
checkOwner(prog, c) ==
  IF \/ c.post.owner = c.pre.owner
     \/ owned(c, prog) /\ c.writable /\ (c.held = 0 \/ c.post.data = ZeroData)
  THEN "none" ELSE "modifiedProgramId"

\* The first of two verdicts that is an error.
Then(e1, e2) == IF e1 # "none" THEN e1 ELSE e2

checkAccount(prog, c) ==
  Then(checkLamports(prog, c), Then(checkDataLen(prog, c), checkOwner(prog, c)))

\* `f` on every account, in the order of the references, stopping at the first
\* error.
checkAll(f(_), refs, xs) ==
  LET bad == {i \in DOMAIN refs : f(xs[refs[i].key]) # "none"}
  IN  IF bad = {} THEN "none" ELSE f(xs[refs[Min(bad)].key])

entryLamports(xs) == SumFunction([k \in DOMAIN xs |-> xs[k].entry.lamports])
postLamports(xs) == SumFunction([k \in DOMAIN xs |-> xs[k].post.lamports])

postInstructionCheck(prog, refs) ==
  LET xs == uniqueChanges(refs)
  IN  Then(checkAll(LAMBDA c : checkDataWrite(prog, c), refs, xs),
           Then(checkAll(LAMBDA c : checkAccount(prog, c), refs, xs),
                IF postLamports(xs) = entryLamports(xs) THEN "none" ELSE "unbalancedInstruction"))

-----------------------------------------------------------------------------
rentMinimumBalance(len) == (StorageOverhead + len) * LamportsPerByte

getAccountRentState(lamports, len) ==
  [kind |-> IF lamports = 0 THEN "uninitialized"
            ELSE IF lamports >= rentMinimumBalance(len) THEN "exempt" ELSE "paying",
   lamports |-> lamports, len |-> len]

\* To rent-paying only from rent-paying, with the same size and no credit.
rentTransitionAllowed(pre, post) ==
  post.kind = "paying" =>
    pre.kind = "paying" /\ post.len = pre.len /\ post.lamports <= pre.lamports

rentOk(c) ==
  rentTransitionAllowed(getAccountRentState(c.entry.lamports, c.entry.len),
                        getAccountRentState(c.post.lamports, c.held))
=============================================================================
