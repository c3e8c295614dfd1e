--------------------------- MODULE SystemProgram ----------------------------
(***************************************************************************)
(* Sequences of System instructions against one set of accounts, the way a *)
(* BPF program issues them by CPI within one transaction: the grants       *)
(* (signatures and write locks) are fixed, each call takes the accounts of *)
(* the previous one, and a failed call leaves them alone.                  *)
(***************************************************************************)
EXTENDS NativeSystem, Functions

CONSTANTS
  Ixs,       \* the instructions issued
  Grants,    \* transactions: which keys signed, which are writable
  Balances,  \* balances the accounts may start with
  MaxRefs    \* longest account list

ASSUME IxsAssumption == Ixs \subseteq SystemIx
ASSUME GrantsAssumption == Grants \subseteq [signers : SUBSET Keys, writables : SUBSET Keys]
ASSUME StartAssumption == Balances \subseteq 0 .. U64Modulus - 1 /\ MaxRefs \in Nat

VARIABLES acct, grant

vars == <<acct, grant>>

RefOf(k) == [key |-> k, signer |-> k \in grant.signers, writable |-> k \in grant.writables]

AccountLists == UNION {[1 .. n -> {RefOf(k) : k \in Keys}] : n \in 0 .. MaxRefs}

Init ==
  /\ acct \in [Keys -> [lamports : Balances, len : {0}, data : {ZeroData}, owner : Owners]]
  /\ grant \in Grants

\* One successful call; a failed one changes nothing (Cpi.applyResult rolls back).
Invoke(op) ==
  \E ix \in {x \in Ixs : x.op = op} : \E a \in AccountLists :
    LET r == Dispatch(acct, a, ix)
    IN  /\ r.ok
        /\ acct' = r.mem
        /\ UNCHANGED grant

Transfer == Invoke("Transfer")
CreateAccount == Invoke("CreateAccount")
Allocate == Invoke("Allocate")
Assign == Invoke("Assign")
CreateAccountWithSeed == Invoke("CreateAccountWithSeed")
AllocateWithSeed == Invoke("AllocateWithSeed")
AssignWithSeed == Invoke("AssignWithSeed")
TransferWithSeed == Invoke("TransferWithSeed")
AuthorizeNonce == Invoke("AuthorizeNonce")
InitializeNonce == Invoke("InitializeNonce")
AdvanceNonce == Invoke("AdvanceNonce")
WithdrawNonce == Invoke("WithdrawNonce")
UpgradeNonce == Invoke("UpgradeNonce")

Next ==
  \/ Transfer
  \/ CreateAccount
  \/ Allocate
  \/ Assign
  \/ CreateAccountWithSeed
  \/ AllocateWithSeed
  \/ AssignWithSeed
  \/ TransferWithSeed
  \/ AuthorizeNonce
  \/ InitializeNonce
  \/ AdvanceNonce
  \/ WithdrawNonce
  \/ UpgradeNonce

Spec == Init /\ [][Next]_vars

-----------------------------------------------------------------------------
\* Account memory stays well-formed: no handler stores a negative balance.
TypeOK == acct \in [Keys -> Content] /\ grant \in Grants

\* k consents to a change: it signed, or the base its address derives from did.
Consents(k) ==
  \/ k \in grant.signers
  \/ \E x \in SeedTriple :
       x.base \in grant.signers /\ x.seed \notin LongSeeds /\ SeedAddress[x] = k

\* Nobody's lamports are spent without the consent of the account, through any of
\* the thirteen instructions; a credit that wraps around the u64 range would be
\* such a loss.
SpendingNeedsConsent ==
  [][\A k \in Keys : acct'[k].lamports % U64Modulus < acct[k].lamports => Consents(k)]_vars

\* Nobody's account changes hands without the consent of the account (Assign,
\* AssignWithSeed, and the creation and allocation of accounts).
ReassigningNeedsConsent ==
  [][\A k \in Keys : acct'[k].owner # acct[k].owner => Consents(k)]_vars

\* While a nonce account stays initialised, its authority is replaced only when
\* the account signs and is its own authority; no other instruction, and no
\* drain and refill, takes it over.
AuthorityIsHeld ==
  [][\A k \in Keys :
       acct[k].data.tag = 1 /\ acct'[k].data.tag = 1
         /\ acct'[k].data.authority # acct[k].data.authority
       => k \in grant.signers /\ acct[k].data.authority = k]_vars

\* Every call the accounts allow now, with its result.
Calls == {Dispatch(acct, a, ix) : ix \in Ixs, a \in AccountLists}

Total(f) == SumFunction([k \in Keys |-> f[k].lamports])

\* "Decrements from.lamports by lamports, increments to.lamports" (System.lean,
\* execTransfer): no instruction creates or destroys lamports.
LamportsAreConserved == \A r \in Calls : Total(r.mem) = Total(acct)
=============================================================================
