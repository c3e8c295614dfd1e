------------------------- MODULE NativeSystemProofs -------------------------
(* What an instruction of the System program does to well-formed accounts,   *)
(* and the arithmetic of lamport totals.                                     *)
EXTENDS NativeSystem, FiniteSetTheorems, NaturalsInduction, TLAPS

-----------------------------------------------------------------------------
(* Totals.                                                                   *)

\* A nonempty set of naturals has a least element.
LEMMA LeastElement ==
  ASSUME NEW T, T \subseteq Nat, T # {}
  PROVE  \E x \in T : \A y \in T : x <= y
<1> DEFINE R == OpToRel(<, Nat)
<1>1. R = {ss \in Nat \X Nat : ss[1] < ss[2]}
  BY DEF OpToRel
<1>2. IsWellFoundedOn(R, Nat)
  BY NatLessThanWellFounded
<1> HIDE DEF R
<1>3. \E x \in T : \A y \in T : ~(<<y, x>> \in R)
  BY <1>2, WFMin
<1>4. PICK x \in T : \A y \in T : ~(<<y, x>> \in R)
  BY <1>3
<1>5. ASSUME NEW y \in T
      PROVE  x <= y
  <2>1. x \in Nat /\ y \in Nat
    OBVIOUS
  <2>2. y < x => <<y, x>> \in {ss \in Nat \X Nat : ss[1] < ss[2]}
    BY <2>1
  <2>3. ~(y < x)
    BY <1>1, <1>4, <2>2, Zenon
  <2> QED
    BY <2>1, <2>3
<1> QED
  BY <1>5

\* One pair for each unit of f on s: the sum of f is how many there are.
Units(f, s) == {p \in s \X Nat : p[2] < f[p[1]]}

\* Adding an element to s adds its units.
LEMMA AddUnits ==
  ASSUME NEW S, NEW f \in [S -> Nat], NEW s \in SUBSET S, NEW x \in s,
         IsFiniteSet(Units(f, s \ {x}))
  PROVE  /\ IsFiniteSet(Units(f, s))
         /\ Cardinality(Units(f, s)) = f[x] + Cardinality(Units(f, s \ {x}))
<1> DEFINE A == {x} \X (0 .. f[x] - 1)
           B == Units(f, s \ {x})
<1>1. f[x] \in Nat
  OBVIOUS
<1>2. IsFiniteSet(A) /\ Cardinality(A) = f[x]
  <2>1. IsFiniteSet(0 .. f[x] - 1) /\ Cardinality(0 .. f[x] - 1) = f[x]
    BY <1>1, FS_Interval
  <2>2. IsFiniteSet({x}) /\ Cardinality({x}) = 1
    BY FS_Singleton
  <2>3. IsFiniteSet(A) /\ Cardinality(A) = Cardinality({x}) * Cardinality(0 .. f[x] - 1)
    BY <2>1, <2>2, FS_Product
  <2> HIDE DEF A
  <2> QED
    BY <1>1, <2>1, <2>2, <2>3
<1>3. A \cap B = {}
  BY DEF Units
<1>4. Units(f, s) = A \cup B
  <2>1. ASSUME NEW p \in Units(f, s) PROVE p \in A \cup B
    BY <1>1 DEF Units
  <2>2. ASSUME NEW p \in A PROVE p \in Units(f, s)
    BY <1>1 DEF Units
  <2>3. ASSUME NEW p \in B PROVE p \in Units(f, s)
    BY DEF Units
  <2> QED
    BY <2>1, <2>2, <2>3
<1>5. Cardinality(B) \in Nat /\ Cardinality({}) = 0
  BY FS_CardinalityType, FS_EmptySet
<1> HIDE DEF A, B
<1> QED
  <2>1. IsFiniteSet(B)
    BY DEF B
  <2>2. IsFiniteSet(A \cup B) /\ Cardinality(A \cup B) = Cardinality(A) + Cardinality(B) - Cardinality(A \cap B)
    BY <2>1, <1>2, FS_Union
  <2>3. Cardinality(A \cap B) = 0
    BY <1>3, <1>5, Zenon
  <2>4. Cardinality(A \cup B) = f[x] + Cardinality(B)
    BY <2>2, <2>3, <1>1, <1>2, <1>5
  <2> QED
   BY <2>2, <2>4, <1>4 DEF B

\* A finite set has finitely many units (a least counterexample would have one
\* element fewer).
LEMMA FiniteUnits ==
  ASSUME NEW S, IsFiniteSet(S), NEW f \in [S -> Nat], NEW t \in SUBSET S
  PROVE  IsFiniteSet(Units(f, t))
<1> DEFINE Bad == {s \in SUBSET S : ~IsFiniteSet(Units(f, s))}
           Sizes == {Cardinality(s) : s \in Bad}
<1> SUFFICES Bad = {}
  OBVIOUS
<1>1. \A s \in SUBSET S : IsFiniteSet(s) /\ Cardinality(s) \in Nat
  BY FS_Subset, FS_CardinalityType
<1> SUFFICES ASSUME Bad # {} PROVE FALSE
  OBVIOUS
<1>2. Sizes \subseteq Nat /\ Sizes # {}
  BY <1>1
<1>3. PICK n \in Sizes : \A m \in Sizes : n <= m
  BY <1>2, LeastElement
<1>4. PICK s \in Bad : Cardinality(s) = n
  BY <1>3
<1>5. s # {}
  <2>1. Units(f, {}) = {}
    BY DEF Units
  <2> QED
    BY <2>1, FS_EmptySet
<1>6. PICK x \in s : TRUE
  BY <1>5
<1>7. Cardinality(s \ {x}) = n - 1 /\ n \in Nat
  BY <1>1, <1>2, <1>4, FS_RemoveElement
<1>8. s \ {x} \notin Bad
  BY <1>3, <1>7
<1> QED
  BY <1>4, <1>8, AddUnits

\* SumFunction counts the units: the recursion it is defined by has a solution,
\* the count, and no other.
LEMMA SumIsCount ==
  ASSUME NEW S, IsFiniteSet(S), NEW f \in [S -> Nat]
  PROVE  SumFunction(f) = Cardinality(Units(f, S))
<1> DEFINE Body(h) == [s \in SUBSET S |->
                         IF s = {} THEN 0
                         ELSE f[CHOOSE x \in s : TRUE] + h[s \ {CHOOSE x \in s : TRUE}]]
           count == [s \in SUBSET S |-> Cardinality(Units(f, s))]
           iter == CHOOSE h : h = Body(h)
<1>1. SumFunction(f) = iter[S]
  <2>1. DOMAIN f = S
    OBVIOUS
  <2> QED
    BY <2>1 DEF SumFunction, SumFunctionOnSet, FoldFunctionOnSet, MapThenFoldSet
<1>2. \A s \in SUBSET S : IsFiniteSet(Units(f, s)) /\ Cardinality(Units(f, s)) \in Nat
  BY FiniteUnits, FS_CardinalityType
<1>3. \A s \in SUBSET S : IsFiniteSet(s) /\ Cardinality(s) \in Nat
  BY FS_Subset, FS_CardinalityType
<1>4. Cardinality(Units(f, {})) = 0
  <2>1. Units(f, {}) = {}
    BY DEF Units
  <2> QED
    BY <2>1, FS_EmptySet, Zenon
<1>5. \A s \in SUBSET S : s # {} =>
        LET x == CHOOSE x \in s : TRUE
        IN  x \in s /\ count[s] = f[x] + count[s \ {x}]
  <2> TAKE s \in SUBSET S
  <2> DEFINE x == CHOOSE x \in s : TRUE
  <2> SUFFICES ASSUME s # {} PROVE x \in s /\ count[s] = f[x] + count[s \ {x}]
    OBVIOUS
  <2>1. x \in s
    OBVIOUS
  <2> HIDE DEF x
  <2>2. s \ {x} \in SUBSET S
    OBVIOUS
  <2>3. Cardinality(Units(f, s)) = f[x] + Cardinality(Units(f, s \ {x}))
    BY <1>2, <2>1, <2>2, AddUnits
  <2> QED
    BY <2>1, <2>2, <2>3
<1>6. count = Body(count)
  BY <1>4, <1>5
<1>7. iter = Body(iter)
  BY <1>6
<1> HIDE DEF iter
<1> SUFFICES \A s \in SUBSET S : iter[s] = count[s]
  BY <1>1
<1> DEFINE Bad == {s \in SUBSET S : iter[s] # count[s]}
           Sizes == {Cardinality(s) : s \in Bad}
<1> SUFFICES ASSUME Bad # {} PROVE FALSE
  OBVIOUS
<1>8. Sizes \subseteq Nat /\ Sizes # {}
  BY <1>3
<1>9. PICK n \in Sizes : \A m \in Sizes : n <= m
  BY <1>8, LeastElement
<1>10. PICK s \in Bad : Cardinality(s) = n
  BY <1>9
<1>11. s # {}
  <2>1. {} \in SUBSET S
    OBVIOUS
  <2>2. iter[{}] = 0
    BY <1>7, <2>1
  <2> QED
    BY <2>1, <2>2, <1>4, <1>10
<1> DEFINE x == CHOOSE x \in s : TRUE
<1>12. x \in s /\ count[s] = f[x] + count[s \ {x}]
  BY <1>5, <1>10, <1>11
<1>13. iter[s] = f[x] + iter[s \ {x}]
  BY <1>7, <1>10, <1>11
<1> HIDE DEF x
<1>14. s \ {x} \in SUBSET S
  BY <1>10
<1>15. Cardinality(s \ {x}) = n - 1 /\ n \in Nat
  BY <1>3, <1>8, <1>10, <1>12, FS_RemoveElement
<1>16. s \ {x} \notin Bad
  BY <1>9, <1>15
<1> QED
  BY <1>10, <1>12, <1>13, <1>14, <1>16

\* A sum of naturals is a natural.
LEMMA SumIsNat ==
  ASSUME NEW S, IsFiniteSet(S), NEW f \in [S -> Nat]
  PROVE  SumFunction(f) \in Nat
BY SumIsCount, FiniteUnits, FS_CardinalityType

\* One element taken out of a sum.
LEMMA SumRemove ==
  ASSUME NEW S, IsFiniteSet(S), NEW f \in [S -> Nat], NEW x \in S
  PROVE  SumFunction(f) = f[x] + SumFunction([y \in S \ {x} |-> f[y]])
<1> DEFINE T == S \ {x}
           g == [y \in T |-> f[y]]
<1>1. IsFiniteSet(T) /\ g \in [T -> Nat] /\ T \in SUBSET S
  BY FS_RemoveElement
<1>2. Units(g, T) = Units(f, T)
  BY DEF Units
<1>3. SumFunction(f) = Cardinality(Units(f, S)) /\ SumFunction(g) = Cardinality(Units(g, T))
  BY <1>1, SumIsCount
<1>4. Cardinality(Units(f, S)) = f[x] + Cardinality(Units(f, T))
  BY <1>1, FiniteUnits, AddUnits
<1> QED
  BY <1>2, <1>3, <1>4

\* A sum splits along a set of its indices.
LEMMA SumSplit ==
  ASSUME NEW S, IsFiniteSet(S), NEW f \in [S -> Nat], NEW T \in SUBSET S
  PROVE  SumFunction(f) = SumFunction([x \in T |-> f[x]]) + SumFunction([x \in S \ T |-> f[x]])
<1> DEFINE U == S \ T
           g == [x \in T |-> f[x]]
           h == [x \in U |-> f[x]]
<1>1. /\ IsFiniteSet(T) /\ g \in [T -> Nat]
      /\ IsFiniteSet(U) /\ h \in [U -> Nat] /\ U \in SUBSET S
  BY FS_Subset
<1>2. Units(g, T) = Units(f, T) /\ Units(h, U) = Units(f, U)
  BY DEF Units
<1>3. Units(f, S) = Units(f, T) \cup Units(f, U) /\ Units(f, T) \cap Units(f, U) = {}
  BY DEF Units
<1>4. /\ SumFunction(f) = Cardinality(Units(f, S))
      /\ SumFunction(g) = Cardinality(Units(f, T))
      /\ SumFunction(h) = Cardinality(Units(f, U))
  BY <1>1, <1>2, SumIsCount
<1>5. IsFiniteSet(Units(f, T)) /\ IsFiniteSet(Units(f, U))
  BY <1>1, FiniteUnits
<1>6. /\ Cardinality(Units(f, T)) \in Nat /\ Cardinality(Units(f, U)) \in Nat
      /\ Cardinality(Units(f, T) \cap Units(f, U)) = 0
  BY <1>3, <1>5, FS_CardinalityType, FS_EmptySet, Zenon
<1>7. Cardinality(Units(f, T) \cup Units(f, U))
        = Cardinality(Units(f, T)) + Cardinality(Units(f, U)) - Cardinality(Units(f, T) \cap Units(f, U))
  BY <1>5, FS_Union
<1>8. Cardinality(Units(f, S)) = Cardinality(Units(f, T) \cup Units(f, U))
  BY <1>3, Zenon
<1> QED
  BY <1>4, <1>6, <1>7, <1>8

-----------------------------------------------------------------------------
(* The handlers.                                                             *)

Memory == [Keys -> Content]

\* Storing one well-typed field of an account keeps memory well-formed.
LEMMA Fields ==
  ASSUME NEW acct \in Content
  PROVE  /\ acct.lamports \in Nat /\ acct.len \in Nat /\ acct.data \in Data /\ acct.owner \in Owners
         /\ \A x \in Nat : [acct EXCEPT !.lamports = x] \in Content
         /\ \A x \in Nat : [acct EXCEPT !.len = x] \in Content
         /\ \A x \in Data : [acct EXCEPT !.data = x] \in Content
         /\ \A x \in Owners : [acct EXCEPT !.owner = x] \in Content
BY DEF Content

\* A debit the balance covers, and a credit, keep memory well-formed.
LEMMA MoveType ==
  ASSUME NEW mem \in Memory, NEW from \in Keys, NEW to \in Keys, NEW n \in Nat,
         mem[from].lamports >= n
  PROVE  Move(mem, from, to, n) \in Memory
<1> DEFINE m1 == [mem EXCEPT ![from] = [@ EXCEPT !.lamports = mem[from].lamports - n]]
<1>1. mem[from] \in Content /\ mem[to] \in Content
  BY DEF Memory
<1>2. mem[from].lamports - n \in Nat /\ mem[to].lamports + n \in Nat
  BY <1>1 DEF Content
<1>3. m1 \in Memory
  BY <1>1, <1>2, Fields DEF Memory
<1>4. Move(mem, from, to, n) = [m1 EXCEPT ![to] = [@ EXCEPT !.lamports = mem[to].lamports + n]]
  BY DEF Move
<1> QED
  BY <1>2, <1>3, <1>4, Fields DEF Memory

\* A creation the payer can cover keeps memory well-formed.
LEMMA CreateType ==
  ASSUME NEW mem \in Memory, NEW from \in Keys, NEW to \in Keys, NEW n \in Nat,
         NEW space \in Nat, NEW owner \in Owners, mem[from].lamports >= n
  PROVE  Create(mem, from, to, n, space, owner) \in Memory
<1> DEFINE m1 == [mem EXCEPT ![from] = [@ EXCEPT !.lamports = mem[from].lamports - n]]
           m2 == [m1 EXCEPT ![to] = [@ EXCEPT !.lamports = n]]
           m3 == [m2 EXCEPT ![to] = [@ EXCEPT !.len = space]]
           m4 == [m3 EXCEPT ![to] = [@ EXCEPT !.owner = owner]]
<1>1. mem[from].lamports - n \in Nat
  BY DEF Memory, Content
<1>2. m1 \in Memory
  BY <1>1, Fields DEF Memory
<1>3. m2 \in Memory
  BY <1>2, Fields DEF Memory
<1>4. m3 \in Memory
  BY <1>3, Fields DEF Memory
<1>5. m4 \in Memory
  BY <1>4, Fields DEF Memory
<1>6. Create(mem, from, to, n, space, owner) = m4
  BY DEF Create
<1> QED
  BY <1>5, <1>6

\* The result of a handler: a Boolean and well-formed memory, unchanged on failure.
Result(mem, r) == r.ok \in BOOLEAN /\ r.mem \in Memory /\ (~r.ok => r.mem = mem)

\* The accounts a handler takes from its list have addresses among Keys.
LEMMA Elements ==
  ASSUME NEW a \in Seq(Ref)
  PROVE  /\ Len(a) \in Nat
         /\ Len(a) >= 1 => a[1].key \in Keys
         /\ Len(a) >= 2 => a[2].key \in Keys
         /\ Len(a) >= 3 => a[3].key \in Keys
<1>1. Len(a) \in Nat /\ \A i \in 1 .. Len(a) : a[i] \in Ref
  OBVIOUS
<1>2. \A r \in Ref : r.key \in Keys
  BY DEF Ref
<1>3. /\ Len(a) >= 1 => 1 \in 1 .. Len(a)
      /\ Len(a) >= 2 => 2 \in 1 .. Len(a)
      /\ Len(a) >= 3 => 3 \in 1 .. Len(a)
  BY <1>1
<1> QED
  BY <1>1, <1>2, <1>3

\* execTransfer yields a well-formed result.
LEMMA TransferType ==
  ASSUME NEW mem \in Memory, NEW a \in Seq(Ref), NEW n \in Nat
  PROVE  Result(mem, execTransfer(mem, a, n))
<1>1. Len(a) >= 2 /\ mem[a[1].key].lamports >= n
        => Move(mem, a[1].key, a[2].key, n) \in Memory
  BY MoveType, Elements
<1> QED
  BY <1>1 DEF execTransfer, Result, Gated, Done, Failed

\* execCreateAccount yields a well-formed result.
LEMMA CreateAccountType ==
  ASSUME NEW mem \in Memory, NEW a \in Seq(Ref), NEW n \in Nat, NEW space \in Nat,
         NEW owner \in Owners
  PROVE  Result(mem, execCreateAccount(mem, a, n, space, owner))
<1>1. Len(a) >= 2 /\ mem[a[1].key].lamports >= n
        => Create(mem, a[1].key, a[2].key, n, space, owner) \in Memory
  BY CreateType, Elements
<1> QED
  BY <1>1 DEF execCreateAccount, Creatable, Result, Gated, Done, Failed

\* execAllocate yields a well-formed result.
LEMMA AllocateType ==
  ASSUME NEW mem \in Memory, NEW a \in Seq(Ref), NEW space \in Nat
  PROVE  Result(mem, execAllocate(mem, a, space))
<1>1. Len(a) >= 1 => [mem EXCEPT ![a[1].key] = [@ EXCEPT !.len = space]] \in Memory
  BY Fields, Elements DEF Memory
<1> QED
  BY <1>1 DEF execAllocate, Result, Gated, Done, Failed

\* execAssign yields a well-formed result.
LEMMA AssignType ==
  ASSUME NEW mem \in Memory, NEW a \in Seq(Ref), NEW owner \in Owners
  PROVE  Result(mem, execAssign(mem, a, owner))
<1>1. Len(a) >= 1 => [mem EXCEPT ![a[1].key] = [@ EXCEPT !.owner = owner]] \in Memory
  BY Fields, Elements DEF Memory
<1> QED
  BY <1>1 DEF execAssign, Result, Gated, Done, Failed

\* execCreateAccountWithSeed yields a well-formed result.
LEMMA CreateAccountWithSeedType ==
  ASSUME NEW mem \in Memory, NEW a \in Seq(Ref), NEW base, NEW seed, NEW n \in Nat,
         NEW space \in Nat, NEW owner \in Owners
  PROVE  Result(mem, execCreateAccountWithSeed(mem, a, base, seed, n, space, owner))
<1>1. Len(a) >= 3 /\ mem[a[1].key].lamports >= n
        => Create(mem, a[1].key, a[2].key, n, space, owner) \in Memory
  BY CreateType, Elements
<1> QED
  BY <1>1 DEF execCreateAccountWithSeed, Creatable, Result, Gated, Done, Failed

\* execAllocateWithSeed yields a well-formed result.
LEMMA AllocateWithSeedType ==
  ASSUME NEW mem \in Memory, NEW a \in Seq(Ref), NEW base, NEW seed,
         NEW space \in Nat, NEW owner \in Owners
  PROVE  Result(mem, execAllocateWithSeed(mem, a, base, seed, space, owner))
<1> DEFINE m1 == [mem EXCEPT ![a[1].key] = [@ EXCEPT !.len = space]]
           m2 == [m1 EXCEPT ![a[1].key] = [@ EXCEPT !.owner = owner]]
<1>1. Len(a) >= 2 => m1 \in Memory
  BY Fields, Elements DEF Memory
<1>2. Len(a) >= 2 => m2 \in Memory
  BY <1>1, Fields, Elements DEF Memory
<1> QED
  BY <1>2 DEF execAllocateWithSeed, Result, Gated, Done, Failed

\* execAssignWithSeed yields a well-formed result.
LEMMA AssignWithSeedType ==
  ASSUME NEW mem \in Memory, NEW a \in Seq(Ref), NEW base, NEW seed, NEW owner \in Owners
  PROVE  Result(mem, execAssignWithSeed(mem, a, base, seed, owner))
<1>1. Len(a) >= 2 => [mem EXCEPT ![a[1].key] = [@ EXCEPT !.owner = owner]] \in Memory
  BY Fields, Elements DEF Memory
<1> QED
  BY <1>1 DEF execAssignWithSeed, Result, Gated, Done, Failed

\* execTransferWithSeed yields a well-formed result.
LEMMA TransferWithSeedType ==
  ASSUME NEW mem \in Memory, NEW a \in Seq(Ref), NEW n \in Nat, NEW seed, NEW owner
  PROVE  Result(mem, execTransferWithSeed(mem, a, n, seed, owner))
<1>1. Len(a) >= 3 /\ mem[a[1].key].lamports >= n
        => Move(mem, a[1].key, a[3].key, n) \in Memory
  BY MoveType, Elements
<1> QED
  BY <1>1 DEF execTransferWithSeed, Result, Gated, Done, Failed

\* One field of the nonce layout.
LEMMA DataFields ==
  ASSUME NEW mem \in Memory, NEW k \in Keys
  PROVE  /\ \A x \in Keys : [mem EXCEPT ![k].data.authority = x] \in Memory
         /\ \A x \in {0, 1} : [mem EXCEPT ![k].data.tag = x] \in Memory
         /\ [mem EXCEPT ![k].data.nonce = 0] \in Memory
         /\ \A x \in Data : [mem EXCEPT ![k].data = x] \in Memory
<1>1. \A x \in Data : [mem EXCEPT ![k] = [@ EXCEPT !.data = x]] \in Memory
  BY Fields DEF Memory
<1>2. mem[k].data \in Data
  BY Fields DEF Memory
<1>3. \A x \in Keys : [mem[k].data EXCEPT !.authority = x] \in Data
  BY <1>2 DEF Data
<1>4. \A x \in {0, 1} : [mem[k].data EXCEPT !.tag = x] \in Data
  BY <1>2 DEF Data
<1>5. [mem[k].data EXCEPT !.nonce = 0] \in Data
  BY <1>2 DEF Data
<1> QED
  BY <1>1, <1>3, <1>4, <1>5

\* The handlers that write a nonce authority yield well-formed results.
LEMMA AuthorityType ==
  ASSUME NEW mem \in Memory, NEW a \in Seq(Ref), NEW authority \in Keys
  PROVE  /\ Result(mem, execAuthorizeNonceAccount(mem, a, authority))
         /\ Result(mem, execInitializeNonceAccount(mem, a, authority))
<1>1. Result(mem, execAuthorizeNonceAccount(mem, a, authority))
  <2>1. Len(a) >= 1 => [mem EXCEPT ![a[1].key].data.authority = authority] \in Memory
    BY DataFields, Elements
  <2> QED
    BY <2>1 DEF execAuthorizeNonceAccount, Sized, Result, Gated, Done, Failed
<1>2. Result(mem, execInitializeNonceAccount(mem, a, authority))
  <2> DEFINE d == [version |-> 1, tag |-> 1, authority |-> authority, nonce |-> 0]
  <2>1. d \in Data
    BY DEF Data
  <2>2. Len(a) >= 1 => [mem EXCEPT ![a[1].key].data = d] \in Memory
    BY <2>1, DataFields, Elements
  <2> QED
    BY <2>2 DEF execInitializeNonceAccount, Sized, Result, Gated, Done, Failed
<1> QED
  BY <1>1, <1>2

\* Advancing and upgrading a nonce yield well-formed results.
LEMMA NonceType ==
  ASSUME NEW mem \in Memory, NEW a \in Seq(Ref)
  PROVE  /\ Result(mem, execAdvanceNonceAccount(mem, a))
         /\ Result(mem, execUpgradeNonceAccount(mem, a))
<1>1. Result(mem, execAdvanceNonceAccount(mem, a))
  <2>1. Len(a) >= 1 => [mem EXCEPT ![a[1].key].data.nonce = 0] \in Memory
    BY DataFields, Elements
  <2> QED
    BY <2>1 DEF execAdvanceNonceAccount, Sized, Result, Gated, Done, Failed
<1>2. Result(mem, execUpgradeNonceAccount(mem, a))
  BY DEF execUpgradeNonceAccount, Result, Gated, Done, Failed
<1> QED
  BY <1>1, <1>2

\* execWithdrawNonceAccount, the drain included, yields a well-formed result.
LEMMA WithdrawNonceType ==
  ASSUME NEW mem \in Memory, NEW a \in Seq(Ref), NEW n \in Nat
  PROVE  Result(mem, execWithdrawNonceAccount(mem, a, n))
<1> DEFINE moved == Move(mem, a[1].key, a[2].key, n)
<1>1. Len(a) >= 2 /\ mem[a[1].key].lamports >= n => moved \in Memory
  BY MoveType, Elements
<1>2. Len(a) >= 2 /\ mem[a[1].key].lamports >= n
        => [moved EXCEPT ![a[1].key].data.tag = 0] \in Memory
  <2>1. \A mm \in Memory, k \in Keys : [mm EXCEPT ![k].data.tag = 0] \in Memory
    BY DataFields
  <2>2. Len(a) >= 2 => a[1].key \in Keys
    BY Elements
  <2> HIDE DEF moved
  <2> QED
    BY <1>1, <2>1, <2>2, Zenon
<1> QED
  BY <1>1, <1>2 DEF execWithdrawNonceAccount, Result, Gated, Done, Failed

\* Whatever instruction a program hands to the System program, well-formed
\* accounts stay well-formed, and a failing instruction changes nothing.
THEOREM DispatchResult ==
  ASSUME NEW mem \in Memory, NEW a \in Seq(Ref), NEW ix \in SystemIx
  PROVE  Result(mem, Dispatch(mem, a, ix))
<1>1. CASE ix \in [op : {"Transfer"}, lamports : Nat]
  BY <1>1, TransferType DEF Dispatch
<1>2. CASE ix \in [op : {"CreateAccount"}, lamports : Nat, space : Nat, owner : Owners]
  BY <1>2, CreateAccountType DEF Dispatch
<1>3. CASE ix \in [op : {"Allocate"}, space : Nat]
  BY <1>3, AllocateType DEF Dispatch
<1>4. CASE ix \in [op : {"Assign"}, owner : Owners]
  BY <1>4, AssignType DEF Dispatch
<1>5. CASE ix \in [op : {"CreateAccountWithSeed"}, base : Keys, seed : Seeds,
                   lamports : Nat, space : Nat, owner : Owners]
  BY <1>5, CreateAccountWithSeedType DEF Dispatch
<1>6. CASE ix \in [op : {"AllocateWithSeed"}, base : Keys, seed : Seeds, space : Nat,
                   owner : Owners]
  BY <1>6, AllocateWithSeedType DEF Dispatch
<1>7. CASE ix \in [op : {"AssignWithSeed"}, base : Keys, seed : Seeds, owner : Owners]
  BY <1>7, AssignWithSeedType DEF Dispatch
<1>8. CASE ix \in [op : {"TransferWithSeed"}, lamports : Nat, seed : Seeds, owner : Owners]
  BY <1>8, TransferWithSeedType DEF Dispatch
<1>9. CASE ix \in [op : {"AuthorizeNonce", "InitializeNonce"}, authority : Keys]
  BY <1>9, AuthorityType DEF Dispatch
<1>10. CASE ix \in [op : {"AdvanceNonce", "UpgradeNonce", "Unknown"}]
  BY <1>10, NonceType DEF Dispatch, Failed, Result
<1>11. CASE ix \in [op : {"WithdrawNonce"}, lamports : Nat]
  BY <1>11, WithdrawNonceType DEF Dispatch
<1> QED
  BY <1>1, <1>2, <1>3, <1>4, <1>5, <1>6, <1>7, <1>8, <1>9, <1>10, <1>11 DEF SystemIx
=============================================================================
