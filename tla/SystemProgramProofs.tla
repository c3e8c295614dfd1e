------------------------ MODULE SystemProgramProofs -------------------------
(* Who must have signed for what a System instruction does: first for one      *)
(* instruction on any accounts, then for every sequence of them.               *)
EXTENDS SystemProgram, NativeSystemProofs

-----------------------------------------------------------------------------
(* One instruction.                                                            *)

\* A reference of the list carries k's signature.
Signed(a, k) == \E i \in DOMAIN a : a[i].key = k /\ a[i].signer

\* k signed, or the base that its address derives from did.
Authorized(a, k) ==
  \/ Signed(a, k)
  \/ \E x \in SeedTriple : Signed(a, x.base) /\ x.seed \notin LongSeeds /\ SeedAddress[x] = k

\* Balances stay inside the u64 range.
InRange(mem) == \A k \in Keys : mem[k].lamports < U64Modulus

\* What may happen to the account k, with the references a at hand.
Lawful(mem, a, new, k) ==
  /\ new[k].lamports < U64Modulus
  /\ new[k].lamports < mem[k].lamports => Authorized(a, k)
  /\ new[k].owner # mem[k].owner => Authorized(a, k)
  /\ mem[k].data.tag = 1 /\ new[k].data.tag = 1 /\ new[k].data.authority # mem[k].data.authority
       => Signed(a, k) /\ mem[k].data.authority = k

LawfulResult(mem, a, r) == r.ok => \A k \in Keys : Lawful(mem, a, r.mem, k)

USE SizeAssumption, SeedAssumption

\* What Move leaves in each account: only the payer can lose, and the payer and
\* the payee keep everything but their balances.
LEMMA MoveEffect ==
  ASSUME NEW mem \in Memory, NEW from \in Keys, NEW to \in Keys, NEW n \in Nat,
         mem[from].lamports >= n, NEW k \in Keys
  PROVE  LET new == Move(mem, from, to, n)
         IN  /\ new[k].owner = mem[k].owner /\ new[k].data = mem[k].data
             /\ new[k].len = mem[k].len
             /\ new[k].lamports = IF k = to THEN mem[k].lamports + n
                                  ELSE IF k = from THEN mem[k].lamports - n
                                  ELSE mem[k].lamports
<1>1. mem[k] \in Content /\ mem[from] \in Content /\ mem[to] \in Content /\ DOMAIN mem = Keys
  BY DEF Memory
<1> QED
  BY <1>1 DEF Move, Content

\* What Create leaves in each account.
LEMMA CreateEffect ==
  ASSUME NEW mem \in Memory, NEW from \in Keys, NEW to \in Keys, NEW n \in Nat,
         NEW space \in Nat, NEW owner \in Owners, mem[from].lamports >= n, NEW k \in Keys
  PROVE  LET new == Create(mem, from, to, n, space, owner)
         IN  /\ new[k].data = mem[k].data
             /\ k # to => new[k].owner = mem[k].owner
             /\ new[k].lamports = IF k = to THEN n
                                  ELSE IF k = from THEN mem[k].lamports - n
                                  ELSE mem[k].lamports
<1>1. mem[k] \in Content /\ mem[from] \in Content /\ mem[to] \in Content /\ DOMAIN mem = Keys
  BY DEF Memory
<1> QED
  BY <1>1 DEF Create, Content

\* The signer flags of the first references of a list are signatures.
LEMMA SignedElements ==
  ASSUME NEW a \in Seq(Ref)
  PROVE  /\ Len(a) >= 1 /\ a[1].signer => Signed(a, a[1].key)
         /\ Len(a) >= 2 /\ a[2].signer => Signed(a, a[2].key)
         /\ Len(a) >= 3 /\ a[3].signer => Signed(a, a[3].key)
<1>1. Len(a) \in Nat /\ DOMAIN a = 1 .. Len(a)
  OBVIOUS
<1>2. /\ Len(a) >= 1 => 1 \in DOMAIN a
      /\ Len(a) >= 2 => 2 \in DOMAIN a
      /\ Len(a) >= 3 => 3 \in DOMAIN a
  BY <1>1
<1> QED
  BY <1>2 DEF Signed

\* A signed base authorizes the address derived from it.
LEMMA DerivedAuthority ==
  ASSUME NEW a \in Seq(Ref), NEW key, NEW base \in Keys, NEW seed \in Seeds, NEW owner \in Owners,
         Derives(key, base, seed, owner), Signed(a, base)
  PROVE  Authorized(a, key)
<1> DEFINE x == [base |-> base, seed |-> seed, owner |-> owner]
<1>1. x \in SeedTriple /\ x.base = base /\ x.seed = seed
  BY DEF SeedTriple
<1>2. x.seed \notin LongSeeds /\ SeedAddress[x] = key
  BY <1>1 DEF Derives
<1> QED
  BY <1>1, <1>2 DEF Authorized

\* A move by an authorized payer is lawful when the credit fits.
LEMMA MoveLawful ==
  ASSUME NEW mem \in Memory, InRange(mem), NEW a \in Seq(Ref), NEW from \in Keys, NEW to \in Keys,
         NEW n \in Nat, mem[from].lamports >= n, Fits(mem, to, n), Authorized(a, from),
         NEW k \in Keys
  PROVE  Lawful(mem, a, Move(mem, from, to, n), k)
<1> DEFINE new == Move(mem, from, to, n)
<1>1. mem[k].lamports \in Nat /\ mem[k].lamports < U64Modulus
  BY DEF Memory, Content, InRange
<1>2. new[k].owner = mem[k].owner /\ new[k].data = mem[k].data
  BY MoveEffect
<1>3. new[k].lamports = IF k = to THEN mem[k].lamports + n
                        ELSE IF k = from THEN mem[k].lamports - n
                        ELSE mem[k].lamports
  BY MoveEffect
<1> HIDE DEF new
<1>4. new[k].lamports < U64Modulus
  BY <1>1, <1>3 DEF Fits
<1>5. new[k].lamports < mem[k].lamports => k = from
  BY <1>1, <1>3
<1> QED
  BY <1>2, <1>4, <1>5 DEF Lawful, new

\* A creation paid by an authorized payer, of an authorized account without
\* lamports, is lawful.
LEMMA CreateLawful ==
  ASSUME NEW mem \in Memory, InRange(mem), NEW a \in Seq(Ref), NEW from \in Keys, NEW to \in Keys,
         NEW n \in Nat, NEW space \in Nat, NEW owner \in Owners,
         Creatable(mem, from, to, n, space), Authorized(a, from), Authorized(a, to),
         NEW k \in Keys
  PROVE  Lawful(mem, a, Create(mem, from, to, n, space, owner), k)
<1> DEFINE new == Create(mem, from, to, n, space, owner)
<1>1. /\ mem[k].lamports \in Nat /\ mem[k].lamports < U64Modulus
      /\ mem[from].lamports \in Nat /\ mem[from].lamports < U64Modulus
      /\ mem[from].lamports >= n /\ mem[to].lamports = 0
  BY DEF Memory, Content, InRange, Creatable
<1>2. new[k].data = mem[k].data /\ (k # to => new[k].owner = mem[k].owner)
  BY <1>1, CreateEffect
<1>3. new[k].lamports = IF k = to THEN n
                        ELSE IF k = from THEN mem[k].lamports - n
                        ELSE mem[k].lamports
  BY <1>1, CreateEffect
<1> HIDE DEF new
<1>4. new[k].lamports < U64Modulus
  BY <1>1, <1>3
<1>5. new[k].lamports < mem[k].lamports => k = from \/ k = to
  BY <1>1, <1>3
<1> QED
  BY <1>2, <1>4, <1>5 DEF Lawful, new

\* The transfers and creations, with and without a seed.
LEMMA PaymentsLawful ==
  ASSUME NEW mem \in Memory, InRange(mem), NEW a \in Seq(Ref), NEW n \in Nat
  PROVE  /\ LawfulResult(mem, a, execTransfer(mem, a, n))
         /\ \A seed \in Seeds, owner \in Owners :
              LawfulResult(mem, a, execTransferWithSeed(mem, a, n, seed, owner))
         /\ \A space \in Nat, owner \in Owners :
              LawfulResult(mem, a, execCreateAccount(mem, a, n, space, owner))
         /\ \A base \in Keys, seed \in Seeds, space \in Nat, owner \in Owners :
              LawfulResult(mem, a, execCreateAccountWithSeed(mem, a, base, seed, n, space, owner))
<1>1. LawfulResult(mem, a, execTransfer(mem, a, n))
  <2> SUFFICES ASSUME Len(a) >= 2, a[1].signer, mem[a[1].key].lamports >= n,
                      Fits(mem, a[2].key, n), NEW k \in Keys
               PROVE  Lawful(mem, a, Move(mem, a[1].key, a[2].key, n), k)
    BY DEF LawfulResult, execTransfer, Gated, Done, Failed
  <2>1. Authorized(a, a[1].key) /\ a[1].key \in Keys /\ a[2].key \in Keys
    BY SignedElements, Elements DEF Authorized
  <2> QED
    BY <2>1, MoveLawful
<1>2. ASSUME NEW seed \in Seeds, NEW owner \in Owners
      PROVE  LawfulResult(mem, a, execTransferWithSeed(mem, a, n, seed, owner))
  <2> SUFFICES ASSUME Len(a) >= 3, Derives(a[1].key, a[2].key, seed, owner), a[2].signer,
                      mem[a[1].key].lamports >= n, Fits(mem, a[3].key, n), NEW k \in Keys
               PROVE  Lawful(mem, a, Move(mem, a[1].key, a[3].key, n), k)
    BY DEF LawfulResult, execTransferWithSeed, Gated, Done, Failed
  <2>1. Signed(a, a[2].key) /\ a[1].key \in Keys /\ a[2].key \in Keys /\ a[3].key \in Keys
    BY SignedElements, Elements
  <2>2. Authorized(a, a[1].key)
    BY <2>1, DerivedAuthority
  <2> QED
    BY <2>1, <2>2, MoveLawful
<1>3. ASSUME NEW space \in Nat, NEW owner \in Owners
      PROVE  LawfulResult(mem, a, execCreateAccount(mem, a, n, space, owner))
  <2> SUFFICES ASSUME Len(a) >= 2, a[1].signer, a[2].signer,
                      Creatable(mem, a[1].key, a[2].key, n, space), NEW k \in Keys
               PROVE  Lawful(mem, a, Create(mem, a[1].key, a[2].key, n, space, owner), k)
    BY DEF LawfulResult, execCreateAccount, Gated, Done, Failed
  <2>1. /\ Authorized(a, a[1].key) /\ Authorized(a, a[2].key)
        /\ a[1].key \in Keys /\ a[2].key \in Keys
    BY SignedElements, Elements DEF Authorized
  <2> QED
    BY <2>1, CreateLawful
<1>4. ASSUME NEW base \in Keys, NEW seed \in Seeds, NEW space \in Nat, NEW owner \in Owners
      PROVE  LawfulResult(mem, a, execCreateAccountWithSeed(mem, a, base, seed, n, space, owner))
  <2> SUFFICES ASSUME Len(a) >= 3, Derives(a[2].key, base, seed, owner), a[3].key = base,
                      a[1].signer, a[3].signer,
                      Creatable(mem, a[1].key, a[2].key, n, space), NEW k \in Keys
               PROVE  Lawful(mem, a, Create(mem, a[1].key, a[2].key, n, space, owner), k)
    BY DEF LawfulResult, execCreateAccountWithSeed, Gated, Done, Failed
  <2>1. Signed(a, base) /\ Authorized(a, a[1].key) /\ a[1].key \in Keys /\ a[2].key \in Keys
    BY SignedElements, Elements DEF Authorized
  <2>2. Authorized(a, a[2].key)
    BY <2>1, DerivedAuthority
  <2> QED
    BY <2>1, <2>2, CreateLawful
<1> QED
  BY <1>1, <1>2, <1>3, <1>4

\* Allocations and assignments: the account's own fields, under its authority.
LEMMA OwnershipLawful ==
  ASSUME NEW mem \in Memory, InRange(mem), NEW a \in Seq(Ref)
  PROVE  /\ \A space \in Nat : LawfulResult(mem, a, execAllocate(mem, a, space))
         /\ \A owner \in Owners : LawfulResult(mem, a, execAssign(mem, a, owner))
         /\ \A base \in Keys, seed \in Seeds, space \in Nat, owner \in Owners :
              LawfulResult(mem, a, execAllocateWithSeed(mem, a, base, seed, space, owner))
         /\ \A base \in Keys, seed \in Seeds, owner \in Owners :
              LawfulResult(mem, a, execAssignWithSeed(mem, a, base, seed, owner))
<1>1. \A k \in Keys : mem[k] \in Content /\ mem[k].lamports \in Nat /\ mem[k].lamports < U64Modulus
  BY DEF Memory, Content, InRange
<1>2. DOMAIN mem = Keys
  BY DEF Memory
<1>3. ASSUME NEW to \in Keys, Authorized(a, to), NEW new, NEW k \in Keys,
             new[k].lamports = mem[k].lamports, new[k].data = mem[k].data,
             k # to => new[k].owner = mem[k].owner
      PROVE  Lawful(mem, a, new, k)
  BY <1>1, <1>3 DEF Lawful
<1>4. ASSUME NEW to \in Keys, Authorized(a, to), NEW k \in Keys, NEW space \in Nat,
             NEW owner \in Owners
      PROVE  /\ Lawful(mem, a, [mem EXCEPT ![to].len = space], k)
             /\ Lawful(mem, a, [mem EXCEPT ![to].owner = owner], k)
             /\ Lawful(mem, a, [mem EXCEPT ![to].len = space, ![to].owner = owner], k)
  <2>1. Lawful(mem, a, [mem EXCEPT ![to].len = space], k)
    BY <1>1, <1>2, <1>3, <1>4 DEF Content
  <2>2. Lawful(mem, a, [mem EXCEPT ![to].owner = owner], k)
    BY <1>1, <1>2, <1>3, <1>4 DEF Content
  <2>3. Lawful(mem, a, [mem EXCEPT ![to].len = space, ![to].owner = owner], k)
    BY <1>1, <1>2, <1>3, <1>4 DEF Content
  <2> QED
    BY <2>1, <2>2, <2>3
<1>5. Len(a) >= 1 => a[1].key \in Keys
  BY Elements
<1>6. Len(a) >= 1 /\ a[1].signer => Authorized(a, a[1].key)
  BY SignedElements DEF Authorized
<1>7. \A base \in Keys, seed \in Seeds, owner \in Owners :
        Len(a) >= 2 /\ Derives(a[1].key, base, seed, owner) /\ a[2].key = base /\ a[2].signer
          => Authorized(a, a[1].key)
  BY SignedElements, DerivedAuthority
<1>8. Len(a) >= 2 => Len(a) >= 1
  BY Elements
<1>9. ASSUME NEW space \in Nat
      PROVE  LawfulResult(mem, a, execAllocate(mem, a, space))
  <2>1. \A to \in Keys, k \in Keys : Authorized(a, to) => Lawful(mem, a, [mem EXCEPT ![to].len = space], k)
    BY <1>4, SystemAssumption DEF Owners
  <2> QED
    BY <2>1, <1>5, <1>6 DEF LawfulResult, execAllocate, Gated, Done, Failed
<1>10. ASSUME NEW owner \in Owners
       PROVE  LawfulResult(mem, a, execAssign(mem, a, owner))
  <2>1. \A to \in Keys, k \in Keys : Authorized(a, to) => Lawful(mem, a, [mem EXCEPT ![to].owner = owner], k)
    BY <1>4
  <2> QED
    BY <2>1, <1>5, <1>6 DEF LawfulResult, execAssign, Gated, Done, Failed
<1>11. ASSUME NEW base \in Keys, NEW seed \in Seeds, NEW space \in Nat, NEW owner \in Owners
       PROVE  LawfulResult(mem, a, execAllocateWithSeed(mem, a, base, seed, space, owner))
  BY <1>4, <1>5, <1>7, <1>8 DEF LawfulResult, execAllocateWithSeed, Gated, Done, Failed
<1>12. ASSUME NEW base \in Keys, NEW seed \in Seeds, NEW owner \in Owners
       PROVE  LawfulResult(mem, a, execAssignWithSeed(mem, a, base, seed, owner))
  <2>1. \A to \in Keys, k \in Keys : Authorized(a, to) => Lawful(mem, a, [mem EXCEPT ![to].owner = owner], k)
    BY <1>4
  <2> QED
    BY <2>1, <1>5, <1>7, <1>8 DEF LawfulResult, execAssignWithSeed, Gated, Done, Failed
<1> QED
  BY <1>9, <1>10, <1>11, <1>12

\* The durable nonces: the authority is replaced only by its holder, and a
\* withdrawal is the signer's.
LEMMA NoncesLawful ==
  ASSUME NEW mem \in Memory, InRange(mem), NEW a \in Seq(Ref)
  PROVE  /\ \A authority \in Keys : LawfulResult(mem, a, execAuthorizeNonceAccount(mem, a, authority))
         /\ \A authority \in Keys : LawfulResult(mem, a, execInitializeNonceAccount(mem, a, authority))
         /\ LawfulResult(mem, a, execAdvanceNonceAccount(mem, a))
         /\ LawfulResult(mem, a, execUpgradeNonceAccount(mem, a))
         /\ \A n \in Nat : LawfulResult(mem, a, execWithdrawNonceAccount(mem, a, n))
<1>1. \A k \in Keys : /\ mem[k] \in Content /\ mem[k].lamports \in Nat /\ mem[k].data \in Data
                      /\ mem[k].lamports < U64Modulus
  BY DEF Memory, Content, InRange
<1>2. DOMAIN mem = Keys
  BY DEF Memory
<1>3. Len(a) >= 1 => a[1].key \in Keys
  BY Elements
<1>4. Len(a) >= 1 /\ a[1].signer => Signed(a, a[1].key)
  BY SignedElements
<1>5. ASSUME NEW to \in Keys, NEW d, NEW k \in Keys
      PROVE  LET new == [mem EXCEPT ![to].data = d]
             IN  /\ new[k].lamports = mem[k].lamports /\ new[k].owner = mem[k].owner
                 /\ new[k].data = IF k = to THEN d ELSE mem[k].data
  BY <1>1, <1>2 DEF Content
<1>6. ASSUME NEW authority \in Keys
      PROVE  LawfulResult(mem, a, execAuthorizeNonceAccount(mem, a, authority))
  <2> SUFFICES ASSUME Len(a) >= 1, SelfAuthorized(mem, a), NEW k \in Keys
               PROVE  Lawful(mem, a, [mem EXCEPT ![a[1].key].data =
                                        [@ EXCEPT !.authority = authority]], k)
    BY DEF LawfulResult, execAuthorizeNonceAccount, Sized, Gated, Done, Failed
  <2> DEFINE new == [mem EXCEPT ![a[1].key].data = [@ EXCEPT !.authority = authority]]
  <2>1. /\ new[k].lamports = mem[k].lamports /\ new[k].owner = mem[k].owner
        /\ k # a[1].key => new[k].data = mem[k].data
    BY <1>1, <1>2, <1>3 DEF Content
  <2>2. Signed(a, a[1].key) /\ mem[a[1].key].data.authority = a[1].key
    BY <1>4 DEF SelfAuthorized
  <2> HIDE DEF new
  <2>3. Lawful(mem, a, new, k)
    BY <1>1, <2>1, <2>2 DEF Lawful
  <2> QED
    BY <2>3 DEF new
<1>7. ASSUME NEW authority \in Keys
      PROVE  LawfulResult(mem, a, execInitializeNonceAccount(mem, a, authority))
  <2> DEFINE d == [version |-> 1, tag |-> 1, authority |-> authority, nonce |-> 0]
  <2> SUFFICES ASSUME Len(a) >= 1, mem[a[1].key].data.tag = 0, NEW k \in Keys
               PROVE  Lawful(mem, a, [mem EXCEPT ![a[1].key].data = d], k)
    BY DEF LawfulResult, execInitializeNonceAccount, Sized, Gated, Done, Failed
  <2> QED
    BY <1>1, <1>3, <1>5 DEF Lawful
<1>8. LawfulResult(mem, a, execAdvanceNonceAccount(mem, a))
  <2> SUFFICES ASSUME Len(a) >= 1, NEW k \in Keys
               PROVE  Lawful(mem, a, [mem EXCEPT ![a[1].key].data = [@ EXCEPT !.nonce = 0]], k)
    BY DEF LawfulResult, execAdvanceNonceAccount, Sized, Gated, Done, Failed
  <2>1. [mem[a[1].key].data EXCEPT !.nonce = 0].authority = mem[a[1].key].data.authority
    BY <1>1, <1>3 DEF Data
  <2> QED
    BY <1>1, <1>3, <1>5, <2>1 DEF Lawful
<1>9. LawfulResult(mem, a, execUpgradeNonceAccount(mem, a))
  <2>1. execUpgradeNonceAccount(mem, a).mem = mem
    BY DEF execUpgradeNonceAccount, Gated, Done, Failed
  <2>2. \A k \in Keys : ~(mem[k].lamports < mem[k].lamports)
    <3>1. \A x \in Nat : ~(x < x)
      OBVIOUS
    <3> QED
      BY <1>1, <3>1, Zenon
  <2>3. \A k \in Keys : Lawful(mem, a, mem, k)
    BY <1>1, <2>2, Zenon DEF Lawful
  <2> QED
    BY <2>1, <2>3 DEF LawfulResult
<1>10. ASSUME NEW n \in Nat
       PROVE  LawfulResult(mem, a, execWithdrawNonceAccount(mem, a, n))
  <2> DEFINE moved == Move(mem, a[1].key, a[2].key, n)
             drained == [moved EXCEPT ![a[1].key].data.tag = 0]
  <2> SUFFICES ASSUME Len(a) >= 2, mem[a[1].key].lamports >= n, Fits(mem, a[2].key, n),
                      a[1].signer, NEW k \in Keys
               PROVE  Lawful(mem, a, moved, k) /\ Lawful(mem, a, drained, k)
    BY DEF LawfulResult, execWithdrawNonceAccount, Gated, Done, Failed
  <2>1. a[1].key \in Keys /\ a[2].key \in Keys
    BY Elements
  <2>2. Signed(a, a[1].key)
    BY SignedElements, Elements
  <2>3. Lawful(mem, a, moved, k)
    BY <2>1, <2>2, MoveLawful DEF Authorized
  <2>4. moved \in Memory
    BY <2>1, MoveType
  <2>5. moved[k].data = mem[k].data
    BY <2>1, MoveEffect
  <2> HIDE DEF moved
  <2>6. /\ drained[k].lamports = moved[k].lamports /\ drained[k].owner = moved[k].owner
        /\ k = a[1].key => drained[k].data.tag = 0
        /\ k # a[1].key => drained[k].data = moved[k].data
    BY <2>1, <2>4 DEF Memory, Content, Data
  <2>7. Lawful(mem, a, drained, k)
    BY <2>3, <2>5, <2>6 DEF Lawful
  <2> QED
    BY <2>3, <2>7
<1> QED
  BY <1>6, <1>7, <1>8, <1>9, <1>10

\* A System instruction, whoever issues it at whatever depth, takes lamports or
\* ownership from no account whose address or base did not sign, replaces no
\* nonce authority but at its holder's own signature, and pushes no balance out
\* of the u64 range.
THEOREM DispatchIsLawful ==
  ASSUME NEW mem \in Memory, InRange(mem), NEW a \in Seq(Ref), NEW ix \in SystemIx
  PROVE  LawfulResult(mem, a, Dispatch(mem, a, ix))
<1>1. CASE ix \in [op : {"Transfer"}, lamports : Nat]
  BY <1>1, PaymentsLawful DEF Dispatch
<1>2. CASE ix \in [op : {"CreateAccount"}, lamports : Nat, space : Nat, owner : Owners]
  BY <1>2, PaymentsLawful DEF Dispatch
<1>3. CASE ix \in [op : {"Allocate"}, space : Nat]
  BY <1>3, OwnershipLawful DEF Dispatch
<1>4. CASE ix \in [op : {"Assign"}, owner : Owners]
  BY <1>4, OwnershipLawful DEF Dispatch
<1>5. CASE ix \in [op : {"CreateAccountWithSeed"}, base : Keys, seed : Seeds,
                   lamports : Nat, space : Nat, owner : Owners]
  BY <1>5, PaymentsLawful DEF Dispatch
<1>6. CASE ix \in [op : {"AllocateWithSeed"}, base : Keys, seed : Seeds, space : Nat,
                   owner : Owners]
  BY <1>6, OwnershipLawful DEF Dispatch
<1>7. CASE ix \in [op : {"AssignWithSeed"}, base : Keys, seed : Seeds, owner : Owners]
  BY <1>7, OwnershipLawful DEF Dispatch
<1>8. CASE ix \in [op : {"TransferWithSeed"}, lamports : Nat, seed : Seeds, owner : Owners]
  BY <1>8, PaymentsLawful DEF Dispatch
<1>9. CASE ix \in [op : {"AuthorizeNonce", "InitializeNonce"}, authority : Keys]
  BY <1>9, NoncesLawful DEF Dispatch
<1>10. CASE ix \in [op : {"AdvanceNonce", "UpgradeNonce", "Unknown"}]
  <2>1. CASE ix.op = "Unknown"
    BY <2>1 DEF Dispatch, LawfulResult, Failed
  <2>2. CASE ix.op # "Unknown"
    BY <1>10, <2>2, NoncesLawful DEF Dispatch
  <2> QED
    BY <2>1, <2>2
<1>11. CASE ix \in [op : {"WithdrawNonce"}, lamports : Nat]
  BY <1>11, NoncesLawful DEF Dispatch
<1> QED
  BY <1>1, <1>2, <1>3, <1>4, <1>5, <1>6, <1>7, <1>8, <1>9, <1>10, <1>11 DEF SystemIx

-----------------------------------------------------------------------------
(* Sequences of instructions.                                                  *)

\* The inductive invariant: a balance outside the u64 range would make a later
\* credit look like a loss.
IInv == TypeOK /\ InRange(acct)

\* The account lists of a call are references to Keys, with the grant's flags.
LEMMA ListsAreRefs ==
  ASSUME TypeOK, NEW a \in AccountLists
  PROVE  /\ a \in Seq(Ref)
         /\ \A k : Signed(a, k) => k \in grant.signers
<1>1. PICK n \in 0 .. MaxRefs : a \in [1 .. n -> {RefOf(k) : k \in Keys}]
  BY DEF AccountLists
<1>2. n \in Nat
  BY StartAssumption
<1>3. \A k \in Keys : RefOf(k) \in Ref
  BY DEF RefOf, Ref
<1>4. a \in Seq(Ref)
  BY <1>1, <1>2, <1>3
<1>5. ASSUME NEW k, Signed(a, k)
      PROVE  k \in grant.signers
  <2>1. PICK i \in DOMAIN a : a[i].key = k /\ a[i].signer
    BY <1>5 DEF Signed
  <2>2. PICK j \in Keys : a[i] = RefOf(j)
    BY <1>1, <2>1
  <2>3. RefOf(j).key = j /\ (RefOf(j).signer <=> j \in grant.signers)
    BY Zenon DEF RefOf
  <2> QED
    BY <2>1, <2>2, <2>3, Zenon
<1> QED
  BY <1>4, <1>5

\* The initial accounts.
LEMMA InitIInv == Init => IInv
<1> SUFFICES ASSUME Init
             PROVE  IInv
  OBVIOUS
<1>1. ZeroData \in Data
  BY DEF ZeroData, Data
<1>2. Balances \subseteq Nat /\ \A x \in Balances : x < U64Modulus
  BY StartAssumption
<1>3. TypeOK
  <2>1. [lamports : Balances, len : {0}, data : {ZeroData}, owner : Owners] \subseteq Content
    <3>1. {ZeroData} \subseteq Data /\ {0} \subseteq Nat
      BY <1>1
    <3> QED
      BY <1>2, <3>1 DEF Content
  <2> QED
    BY <2>1 DEF Init, TypeOK
<1>4. \A k \in Keys : acct[k].lamports \in Balances
  BY DEF Init
<1> QED
  BY <1>2, <1>3, <1>4 DEF IInv, InRange

\* One call: the accounts move as one lawful Dispatch moves them.
LEMMA CallIsLawful ==
  ASSUME IInv, Next
  PROVE  /\ acct' \in Memory /\ grant' = grant
         /\ \E a \in AccountLists : \A k \in Keys : Lawful(acct, a, acct', k)
<1>1. PICK op : Invoke(op)
  BY DEF Next, Transfer, CreateAccount, Allocate, Assign, CreateAccountWithSeed, AllocateWithSeed,
         AssignWithSeed, TransferWithSeed, AuthorizeNonce, InitializeNonce, AdvanceNonce,
         WithdrawNonce, UpgradeNonce
<1>2. PICK ix \in Ixs, a \in AccountLists :
        /\ Dispatch(acct, a, ix).ok
        /\ acct' = Dispatch(acct, a, ix).mem
        /\ grant' = grant
  BY <1>1 DEF Invoke
<1>3. ix \in SystemIx /\ acct \in Memory /\ InRange(acct) /\ TypeOK /\ a \in Seq(Ref)
  BY IxsAssumption, ListsAreRefs DEF IInv, TypeOK, Memory
<1>4. Result(acct, Dispatch(acct, a, ix))
  BY <1>3, DispatchResult
<1>5. LawfulResult(acct, a, Dispatch(acct, a, ix))
  BY <1>3, DispatchIsLawful
<1> QED
  BY <1>2, <1>4, <1>5 DEF Result, LawfulResult

\* Every step keeps the balances in range and changes accounts only with consent.
LEMMA StepIsLawful ==
  ASSUME IInv, [Next]_vars
  PROVE  /\ IInv'
         /\ UNCHANGED vars \/
              \A k \in Keys :
                /\ acct'[k].lamports < acct[k].lamports => Consents(k)
                /\ acct'[k].owner # acct[k].owner => Consents(k)
                /\ acct[k].data.tag = 1 /\ acct'[k].data.tag = 1
                     /\ acct'[k].data.authority # acct[k].data.authority
                     => k \in grant.signers /\ acct[k].data.authority = k
<1>1. CASE UNCHANGED vars
  BY <1>1 DEF IInv, TypeOK, InRange, vars
<1>2. CASE Next
  <2>1. acct' \in Memory /\ grant' = grant
    BY <1>2, CallIsLawful
  <2>2. PICK a \in AccountLists : \A k \in Keys : Lawful(acct, a, acct', k)
    BY <1>2, CallIsLawful
  <2>3. \A k : Signed(a, k) => k \in grant.signers
    BY ListsAreRefs DEF IInv
  <2>4. \A k \in Keys : Authorized(a, k) => Consents(k)
    BY <2>3 DEF Authorized, Consents
  <2>5. IInv'
    BY <2>1, <2>2 DEF IInv, TypeOK, InRange, Memory, Lawful
  <2> QED
    BY <2>2, <2>3, <2>4, <2>5 DEF Lawful
<1> QED
  BY <1>1, <1>2

\* No sequence of System instructions stores a malformed account, and no balance
\* leaves the u64 range.
THEOREM Invariance == Spec => []IInv
<1>1. Init => IInv
  BY InitIInv
<1>2. IInv /\ [Next]_vars => IInv'
  BY StepIsLawful
<1> QED
  BY <1>1, <1>2, PTL DEF Spec

\* Account memory stays well-formed under the thirteen instructions.
THEOREM TypeCorrectness == Spec => []TypeOK
<1>1. IInv => TypeOK
  BY DEF IInv
<1> QED
  BY <1>1, Invariance, PTL

\* No account loses lamports, to a debit or to a wrapped credit, unless it or its
\* base signed.
THEOREM SpendingIsConsented == Spec => SpendingNeedsConsent
<1>1. IInv /\ [Next]_vars =>
        [\A k \in Keys : acct'[k].lamports % U64Modulus < acct[k].lamports => Consents(k)]_vars
  <2> SUFFICES ASSUME IInv, [Next]_vars, ~UNCHANGED vars, NEW k \in Keys,
                      acct'[k].lamports % U64Modulus < acct[k].lamports
               PROVE  Consents(k)
    OBVIOUS
  <2>1. acct'[k].lamports \in Nat /\ acct'[k].lamports < U64Modulus
    BY StepIsLawful DEF IInv, TypeOK, InRange, Content
  <2>2. acct'[k].lamports % U64Modulus = acct'[k].lamports
    BY <2>1
  <2> QED
    BY <2>2, StepIsLawful
<1> QED
  BY <1>1, Invariance, PTL DEF Spec, SpendingNeedsConsent

\* No account changes hands unless it or its base signed.
THEOREM ReassignmentIsConsented == Spec => ReassigningNeedsConsent
<1>1. IInv /\ [Next]_vars =>
        [\A k \in Keys : acct'[k].owner # acct[k].owner => Consents(k)]_vars
  BY StepIsLawful
<1> QED
  BY <1>1, Invariance, PTL DEF Spec, ReassigningNeedsConsent

\* The authority of an initialised nonce account is only ever replaced by itself.
THEOREM AuthorityIsSafe == Spec => AuthorityIsHeld
<1>1. IInv /\ [Next]_vars =>
        [\A k \in Keys :
           acct[k].data.tag = 1 /\ acct'[k].data.tag = 1
             /\ acct'[k].data.authority # acct[k].data.authority
           => k \in grant.signers /\ acct[k].data.authority = k]_vars
  BY StepIsLawful
<1> QED
  BY <1>1, Invariance, PTL DEF Spec, AuthorityIsHeld
=============================================================================
