------------------------ MODULE InstructionContract -------------------------
(***************************************************************************)
(* What `Svm::process_instruction` promises its caller, with the run of    *)
(* the programs reduced to the sizes they leave the accounts with: a       *)
(* submission is answered once; an answer that reports success changed the *)
(* accounts without creating or destroying lamports, reports each at the   *)
(* size the programs left it, and none grew beyond its room; a refusal of  *)
(* the host reports the accounts as they were.                             *)
(***************************************************************************)
EXTENDS Accounts, Functions

CONSTANTS
  Entry,    \* the accounts the caller supplies
  Budget    \* compute units of the instruction

VARIABLES
  answered,  \* process_instruction has returned
  result,    \* [kind, accounts, units]
  left       \* the size the programs leave each account with

contractVars == <<answered, result, left>>

Refusals == {"UnknownProgram", "Serialize", "ElfDecodeFailed", "InvalidAccounts"}
Failures == {"ProgramError", "VmFault", "OutOfBudget", "InvalidPoststate", "BufferParse"}
Kinds == {"none", "Success"} \cup Refusals \cup Failures

Results == [kind : Kinds, accounts : [Keys -> Content], units : Nat]

Lamports(accounts) == SumFunction([k \in Keys |-> accounts[k].lamports])

Init ==
  /\ answered = FALSE
  /\ result = [kind |-> "none", accounts |-> Entry, units |-> 0]
  /\ left = [k \in Keys |-> Entry[k].len]

\* The programs may leave any sizes.
Resize ==
  /\ ~answered
  /\ left' \in [Keys -> Nat]
  /\ UNCHANGED <<answered, result>>

Lawful(r) ==
  /\ r.kind = "Success" =>
       /\ Lamports(r.accounts) = Lamports(Entry)
       /\ \A k \in Keys :
            r.accounts[k].len = left[k] /\ left[k] <= Entry[k].len + MaxIncrease
  /\ r.kind \in Refusals => r.accounts = Entry /\ r.units = 0
  /\ r.kind = "OutOfBudget" => r.units = Budget

Answer ==
  /\ ~answered
  /\ answered' = TRUE
  /\ Lawful(result')
  /\ result'.kind # "none"
  /\ UNCHANGED left

Spec == Init /\ [][Resize \/ Answer]_contractVars
=============================================================================
