---------------------------- MODULE NativeSystem ----------------------------
(***************************************************************************)
(* The native System program (SVM/Native/System.lean): the effect of each  *)
(* of its thirteen instructions on the account memory of its caller.       *)
(*                                                                         *)
(* A reference is one element of the account list of the instruction, with *)
(* the privileges the runtime grants.  A handler reads every account       *)
(* before it writes any, and writes in the order of the code, so two       *)
(* references to one account overwrite each other exactly as they do there.*)
(***************************************************************************)
EXTENDS Accounts

CONSTANTS
  Seeds,        \* seeds of the with-seed instructions
  LongSeeds,    \* those longer than MAX_SEED_LEN
  SeedAddress,  \* create_with_seed: [base, seed, owner] to an address
  U64Modulus,   \* 2^64
  NonceSize     \* NONCE_TOTAL_SIZE

SeedTriple == [base : Keys, seed : Seeds, owner : Owners]

ASSUME SeedAssumption ==
  LongSeeds \subseteq Seeds /\ SeedAddress \in [SeedTriple -> Keys \cup {NoKey}]
ASSUME SizeAssumption == U64Modulus \in Nat /\ NonceSize \in Nat /\ U64Modulus > 0

SystemIx ==
  [op : {"Transfer"}, lamports : Nat]
    \cup [op : {"CreateAccount"}, lamports : Nat, space : Nat, owner : Owners]
    \cup [op : {"Allocate"}, space : Nat]
    \cup [op : {"Assign"}, owner : Owners]
    \cup [op : {"CreateAccountWithSeed"}, base : Keys, seed : Seeds,
          lamports : Nat, space : Nat, owner : Owners]
    \cup [op : {"AllocateWithSeed"}, base : Keys, seed : Seeds, space : Nat, owner : Owners]
    \cup [op : {"AssignWithSeed"}, base : Keys, seed : Seeds, owner : Owners]
    \cup [op : {"TransferWithSeed"}, lamports : Nat, seed : Seeds, owner : Owners]
    \cup [op : {"AuthorizeNonce", "InitializeNonce"}, authority : Keys]
    \cup [op : {"AdvanceNonce", "UpgradeNonce", "Unknown"}]
    \cup [op : {"WithdrawNonce"}, lamports : Nat]

-----------------------------------------------------------------------------
\* The result of a native call: r0 = 0 with new memory, or r0 = 1.
Failed(mem) == [ok |-> FALSE, mem |-> mem]
Done(mem) == [ok |-> TRUE, mem |-> mem]
Gated(gate, mem, newMem) == IF gate THEN Done(newMem) ELSE Failed(mem)

-----------------------------------------------------------------------------
\* Variants with one plausible bug each; no definition of the model uses them.

\* Transfer without the payer's signature.
execTransferUnsigned(mem, a, n) ==
  Gated(/\ Len(a) >= 2
        /\ a[1].writable /\ a[2].writable
        /\ mem[a[1].key].owner = System
        /\ mem[a[1].key].lamports >= n
        /\ mem[a[2].key].lamports + n < U64Modulus,
        mem, [mem EXCEPT ![a[1].key].lamports = @ - n, ![a[2].key].lamports = @ + n])

\* Assign without the signature gate.
execAssignUnsigned(mem, a, owner) ==
  Gated(/\ Len(a) >= 1
        /\ a[1].writable
        /\ mem[a[1].key].owner = System,
        mem, [mem EXCEPT ![a[1].key].owner = owner])

\* Any signer rotates the authority.
execAuthorizeNonceByAnySigner(mem, a, authority) ==
  Gated(/\ Len(a) >= 1 /\ mem[a[1].key].len >= NonceSize
        /\ mem[a[1].key].data.version = 1 /\ mem[a[1].key].data.tag = 1
        /\ a[1].signer,
        mem, [mem EXCEPT ![a[1].key].data.authority = authority])

-----------------------------------------------------------------------------
\* Debit and credit, both computed from the values read before either write.
Move(mem, from, to, n) ==
  LET m1 == [mem EXCEPT ![from].lamports = @ - n]
  IN  [m1 EXCEPT ![to].lamports = mem[to].lamports + n]

Fits(mem, to, n) == mem[to].lamports + n < U64Modulus

Uninitialized(acct) == acct.len = 0 /\ acct.owner = System

\* create_with_seed(base, seed, owner) gives this address, with a short seed.
Derives(key, base, seed, owner) ==
  /\ seed \notin LongSeeds
  /\ SeedAddress[[base |-> base, seed |-> seed, owner |-> owner]] = key

execTransfer(mem, a, n) ==
  Gated(/\ Len(a) >= 2
        /\ a[1].signer
        /\ a[1].writable /\ a[2].writable
        /\ mem[a[1].key].owner = System
        /\ mem[a[1].key].lamports >= n
        /\ Fits(mem, a[2].key, n),
        mem, Move(mem, a[1].key, a[2].key, n))

\* Debit, then the new account: lamports, both length slots, owner.
Create(mem, from, to, n, space, owner) ==
  LET m1 == [mem EXCEPT ![from].lamports = @ - n]
  IN  [m1 EXCEPT ![to].lamports = n, ![to].len = space, ![to].owner = owner]

Creatable(mem, from, to, n, space) ==
  /\ mem[to].lamports = 0
  /\ Uninitialized(mem[to])
  /\ mem[from].lamports >= n
  /\ space <= MaxDataLen

execCreateAccount(mem, a, n, space, owner) ==
  Gated(/\ Len(a) >= 2
        /\ a[1].signer /\ a[2].signer
        /\ Creatable(mem, a[1].key, a[2].key, n, space),
        mem, Create(mem, a[1].key, a[2].key, n, space, owner))

execAllocate(mem, a, space) ==
  Gated(/\ Len(a) >= 1
        /\ a[1].signer
        /\ Uninitialized(mem[a[1].key])
        /\ space <= MaxDataLen,
        mem, [mem EXCEPT ![a[1].key].len = space])

execAssign(mem, a, owner) ==
  Gated(/\ Len(a) >= 1
        /\ a[1].signer /\ a[1].writable
        /\ mem[a[1].key].owner = System,
        mem, [mem EXCEPT ![a[1].key].owner = owner])

execCreateAccountWithSeed(mem, a, base, seed, n, space, owner) ==
  Gated(/\ Len(a) >= 3
        /\ Derives(a[2].key, base, seed, owner)
        /\ a[3].key = base
        /\ a[1].signer /\ a[3].signer
        /\ Creatable(mem, a[1].key, a[2].key, n, space),
        mem, Create(mem, a[1].key, a[2].key, n, space, owner))

execAllocateWithSeed(mem, a, base, seed, space, owner) ==
  Gated(/\ Len(a) >= 2
        /\ Derives(a[1].key, base, seed, owner)
        /\ a[2].key = base /\ a[2].signer
        /\ Uninitialized(mem[a[1].key])
        /\ space <= MaxDataLen,
        mem, [mem EXCEPT ![a[1].key].len = space, ![a[1].key].owner = owner])

execAssignWithSeed(mem, a, base, seed, owner) ==
  Gated(/\ Len(a) >= 2
        /\ Derives(a[1].key, base, seed, owner)
        /\ a[2].key = base /\ a[2].signer,
        mem, [mem EXCEPT ![a[1].key].owner = owner])

execTransferWithSeed(mem, a, n, seed, owner) ==
  Gated(/\ Len(a) >= 3
        /\ Derives(a[1].key, a[2].key, seed, owner)
        /\ a[2].signer
        /\ mem[a[1].key].lamports >= n
        /\ Fits(mem, a[3].key, n),
        mem, Move(mem, a[1].key, a[3].key, n))

-----------------------------------------------------------------------------
\* Durable nonces.  The authority signs as the nonce account itself.
Sized(mem, a) == Len(a) >= 1 /\ mem[a[1].key].len >= NonceSize

SelfAuthorized(mem, a) ==
  /\ a[1].signer
  /\ mem[a[1].key].data.authority = a[1].key

execAuthorizeNonceAccount(mem, a, authority) ==
  Gated(/\ Sized(mem, a)
        /\ mem[a[1].key].data.version = 1 /\ mem[a[1].key].data.tag = 1
        /\ SelfAuthorized(mem, a),
        mem, [mem EXCEPT ![a[1].key].data.authority = authority])

execInitializeNonceAccount(mem, a, authority) ==
  Gated(/\ Sized(mem, a)
        /\ mem[a[1].key].data.tag = 0,
        mem, [mem EXCEPT ![a[1].key].data =
                [version |-> 1, tag |-> 1, authority |-> authority, nonce |-> 0]])

execAdvanceNonceAccount(mem, a) ==
  Gated(/\ Sized(mem, a)
        /\ mem[a[1].key].data.tag = 1
        /\ SelfAuthorized(mem, a),
        mem, [mem EXCEPT ![a[1].key].data.nonce = 0])

\* A full drain returns the account to the uninitialised state.
execWithdrawNonceAccount(mem, a, n) ==
  LET from == a[1].key
      drained == mem[from].lamports = n
      moved == Move(mem, from, a[2].key, n)
  IN  Gated(/\ Len(a) >= 2
            /\ mem[from].lamports >= n
            /\ Fits(mem, a[2].key, n)
            /\ a[1].signer,
            mem, IF drained THEN [moved EXCEPT ![from].data.tag = 0] ELSE moved)

execUpgradeNonceAccount(mem, a) ==
  Gated(Sized(mem, a) /\ mem[a[1].key].data.version = 1, mem, mem)

\* Native.System.dispatch: every call is consumed, unknown variants fail.
Dispatch(mem, a, ix) ==
  CASE ix.op = "Transfer" -> execTransfer(mem, a, ix.lamports)
    [] ix.op = "CreateAccount" -> execCreateAccount(mem, a, ix.lamports, ix.space, ix.owner)
    [] ix.op = "Allocate" -> execAllocate(mem, a, ix.space)
    [] ix.op = "Assign" -> execAssign(mem, a, ix.owner)
    [] ix.op = "CreateAccountWithSeed" ->
         execCreateAccountWithSeed(mem, a, ix.base, ix.seed, ix.lamports, ix.space, ix.owner)
    [] ix.op = "AllocateWithSeed" ->
         execAllocateWithSeed(mem, a, ix.base, ix.seed, ix.space, ix.owner)
    [] ix.op = "AssignWithSeed" -> execAssignWithSeed(mem, a, ix.base, ix.seed, ix.owner)
    [] ix.op = "TransferWithSeed" ->
         execTransferWithSeed(mem, a, ix.lamports, ix.seed, ix.owner)
    [] ix.op = "AuthorizeNonce" -> execAuthorizeNonceAccount(mem, a, ix.authority)
    [] ix.op = "InitializeNonce" -> execInitializeNonceAccount(mem, a, ix.authority)
    [] ix.op = "AdvanceNonce" -> execAdvanceNonceAccount(mem, a)
    [] ix.op = "WithdrawNonce" -> execWithdrawNonceAccount(mem, a, ix.lamports)
    [] ix.op = "UpgradeNonce" -> execUpgradeNonceAccount(mem, a)
    [] ix.op = "Unknown" -> Failed(mem)
=============================================================================
