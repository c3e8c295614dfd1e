--------------------------- MODULE AnalysisProofs ---------------------------
(* What qed-analysis says of a program is true of its runs, for every program. *)
EXTENDS Analysis, SequenceTheorems, FiniteSetTheorems, NaturalsInduction, TLAPS

-----------------------------------------------------------------------------
(* Least elements, sets closed under a successor function, remainders.         *)

\* A set of numbers has a least one.
LEMMA LeastOf ==
  ASSUME NEW T, T \subseteq Nat, T # {}
  PROVE  Min(T) \in T /\ \A y \in T : Min(T) <= y
<1> DEFINE R == OpToRel(<, Nat)
<1>1. R = {ss \in Nat \X Nat : ss[1] < ss[2]}
  BY DEF OpToRel
<1>2. IsWellFoundedOn(R, Nat)
  BY NatLessThanWellFounded
<1> HIDE DEF R
<1>3. PICK x \in T : \A y \in T : ~(<<y, x>> \in R)
  BY <1>2, WFMin
<1>4. ASSUME NEW y \in T PROVE x <= y
  <2>1. x \in Nat /\ y \in Nat
    OBVIOUS
  <2>2. y < x => <<y, x>> \in {ss \in Nat \X Nat : ss[1] < ss[2]}
    BY <2>1
  <2>3. ~(y < x)
    BY <1>1, <1>3, <2>2, Zenon
  <2> QED
    BY <2>1, <2>3
<1> QED
  BY <1>4, Zenon DEF Min

\* U is closed under the successors next gives.
Closed(next, U) == \A u \in U : next[u] \subseteq U

\* Closure is a closed set of nodes around the ones it starts from.
LEMMA ClosureFacts ==
  ASSUME NEW D, IsFiniteSet(D), NEW next \in [D -> SUBSET D], NEW S \in SUBSET D
  PROVE  /\ S \subseteq Closure(next, S) /\ Closure(next, S) \subseteq D
         /\ Closed(next, Closure(next, S))
<1> DEFINE F(g) == [T \in SUBSET DOMAIN next |->
                      IF Onward(next, T) = T THEN T ELSE g[Onward(next, T)]]
           hull(T) == {p \in D : \A U \in SUBSET D : T \subseteq U /\ Closed(next, U) => p \in U}
           w == [T \in SUBSET D |-> hull(T)]
           grow == CHOOSE g : g = F(g)
<1>1. DOMAIN next = D
  OBVIOUS
<1>2. ASSUME NEW T \in SUBSET D
      PROVE  /\ Onward(next, T) \in SUBSET D /\ T \subseteq Onward(next, T)
             /\ Closed(next, T) <=> Onward(next, T) = T
  BY DEF Onward, Closed
<1>3. ASSUME NEW T \in SUBSET D, Closed(next, T) PROVE hull(T) = T
  BY <1>3
<1>4. ASSUME NEW T \in SUBSET D PROVE hull(T) = hull(Onward(next, T))
  <2>1. ASSUME NEW U \in SUBSET D, Closed(next, U)
        PROVE  T \subseteq U <=> Onward(next, T) \subseteq U
    BY <2>1 DEF Onward, Closed
  <2> QED
    BY <2>1
<1>5. w = F(w)
  <2>1. ASSUME NEW T \in SUBSET D
        PROVE  w[T] = IF Onward(next, T) = T THEN T ELSE w[Onward(next, T)]
    <3> HIDE DEF hull
    <3> QED
      BY <1>2, <1>3, <1>4
  <2>2. w = [T \in SUBSET D |-> w[T]]
    OBVIOUS
  <2> HIDE DEF w
  <2> QED
    BY <1>1, <2>1, <2>2
<1>6. grow = F(grow)
  <2> HIDE DEF w, F
  <2> QED
    BY <1>5
<1>7. Closure(next, S) = grow[S]
  BY DEF Closure
<1> HIDE DEF grow
<1>8. ASSUME NEW T \in SUBSET D
      PROVE  grow[T] = IF Onward(next, T) = T THEN T ELSE grow[Onward(next, T)]
  BY <1>1, <1>6
<1> DEFINE Good(T) == T \subseteq grow[T] /\ grow[T] \subseteq D /\ Closed(next, grow[T])
           left(T) == Cardinality(D \ T)
<1>9. ASSUME NEW T \in SUBSET D PROVE left(T) \in Nat
  BY FS_Difference, FS_CardinalityType
<1>10. ASSUME NEW T \in SUBSET D, Onward(next, T) # T PROVE left(Onward(next, T)) < left(T)
  <2> DEFINE A == D \ T
             B == D \ Onward(next, T)
  <2>1. IsFiniteSet(A) /\ B \subseteq A /\ B # A
    BY <1>2, <1>10, FS_Difference
  <2>2. Cardinality(B) <= Cardinality(A) /\ Cardinality(B) # Cardinality(A)
    BY <2>1, FS_Subset
  <2>3. Cardinality(A) \in Nat /\ Cardinality(B) \in Nat
    BY <1>2, <1>9
  <2> QED
    BY <2>2, <2>3
<1>11. \A T \in SUBSET D : Good(T)
  <2> DEFINE Bad == {n \in Nat : \E T \in SUBSET D : left(T) = n /\ ~Good(T)}
  <2> SUFFICES ASSUME Bad # {} PROVE FALSE
    <3> HIDE DEF Good, left
    <3> QED
      BY <1>9
  <2> DEFINE n == Min(Bad)
  <2>1. n \in Bad /\ \A m \in Bad : n <= m
    BY LeastOf
  <2> HIDE DEF left, Good
  <2>2. PICK T \in SUBSET D : left(T) = n /\ ~Good(T)
    BY <2>1
  <2>3. Onward(next, T) # T
    BY <1>2, <1>8, <2>2 DEF Good
  <2>4. Good(Onward(next, T))
    <3> SUFFICES ASSUME ~Good(Onward(next, T)) PROVE FALSE
      OBVIOUS
    <3>1. left(Onward(next, T)) \in Bad /\ left(Onward(next, T)) < n
      BY <1>2, <1>9, <1>10, <2>2, <2>3
    <3> HIDE DEF Bad, n
    <3> QED
      BY <2>1, <2>2, <3>1, <1>2, <1>9
  <2>5. grow[T] = grow[Onward(next, T)]
    BY <1>8, <2>3
  <2> QED
    BY <1>2, <2>2, <2>4, <2>5 DEF Good
<1> QED
  BY <1>7, <1>11

\* Remainders of what is near the modulus.
LEMMA Remainders ==
  ASSUME NEW z \in Int
  PROVE  /\ z % Modulus \in Words
         /\ z \in Words => z % Modulus = z
         /\ z - Modulus \in Words => z % Modulus = z - Modulus
         /\ z + Modulus \in Words => z % Modulus = z + Modulus
<1> DEFINE M == Modulus
           q == z \div M
           r == z % M
<1>1. M \in Nat /\ M > 0
  BY LayoutAssumption
<1>2. q \in Int /\ r \in 0 .. M - 1 /\ z = M * q + r
  BY <1>1
<1> HIDE DEF q, r
<1>3. ASSUME NEW k \in Int, NEW s \in 0 .. M - 1, z = M * k + s PROVE r = s
  <2>1. M * (q - k) = s - r
    BY <1>1, <1>2, <1>3
  <2>2. q - k > 0 => M * (q - k) >= M
    BY <1>1, <1>2, <1>3
  <2>3. q - k < 0 => M * (q - k) <= -M
    BY <1>1, <1>2, <1>3
  <2>4. q - k = 0 => M * (q - k) = 0
    BY <1>1
  <2> QED
    BY <1>1, <1>2, <2>1, <2>2, <2>3, <2>4
<1>4. z \in Words => r = z
  BY <1>1, <1>3 DEF Words
<1>5. z - M \in Words => r = z - M
  BY <1>1, <1>3 DEF Words
<1>6. z + M \in Words => r = z + M
  BY <1>1, <1>3 DEF Words
<1> QED
  BY <1>2, <1>4, <1>5, <1>6 DEF r, Words
-----------------------------------------------------------------------------
(* The tables the analysis builds one entry after another.                     *)

\* The heads of the panic chains are functions that do not return.
LEMMA HeadsAreNoReturn ==
  ASSUME NEW j, Len(j.code) \in Nat, NEW nr, NEW fs
  PROVE  NoReturnWitness(j, nr, fs).heads \subseteq nr
<1> DEFINE n == Len(j.code)
           none == [heads |-> {}, done |-> {}, steps |-> <<>>]
           todo == nr \cap ReachableFunctions(j, fs)
           Then(a, i) == NextHead(j, todo, a, i - 1)
           Upto(k, g) == [i \in 0 .. k |-> IF i = 0 THEN none ELSE Then(g[i - 1], i)]
<1>0. ASSUME NEW acc, acc.heads \subseteq nr, NEW i PROVE Then(acc, i).heads \subseteq nr
  BY <1>0 DEF NextHead, AddHead
<1>01. none.heads = {}
  OBVIOUS
<1>02. NoReturnWitness(j, nr, fs) = (CHOOSE h : h = Upto(n, h))[n]
  BY Zenon DEF NoReturnWitness
<1> HIDE DEF Then, none
<1>1. ASSUME NEW k \in Nat, NEW g, g = Upto(k, g)
      PROVE  \E h : h = Upto(k + 1, h)
  <2> DEFINE h == [i \in 0 .. k + 1 |-> IF i \in 0 .. k THEN g[i] ELSE Then(g[k], k + 1)]
  <2>1. ASSUME NEW i \in 0 .. k + 1 PROVE h[i] = IF i = 0 THEN none ELSE Then(h[i - 1], i)
    <3>1. CASE i \in 0 .. k
      <4>1. g[i] = IF i = 0 THEN none ELSE Then(g[i - 1], i)
        BY <1>1, <3>1, Zenon
      <4>2. h[i] = g[i] /\ (i # 0 => h[i - 1] = g[i - 1])
        BY <3>1
      <4> HIDE DEF h
      <4> QED
        BY <4>1, <4>2, Zenon
    <3>2. CASE i \notin 0 .. k
      <4>1. i = k + 1 /\ i # 0 /\ i - 1 = k /\ k \in 0 .. k + 1 /\ k \in 0 .. k
        BY <3>2
      <4>2. h[i] = Then(g[k], i) /\ h[k] = g[k]
        BY <3>2, <4>1, Zenon
      <4> HIDE DEF h
      <4> QED
        BY <4>1, <4>2, Zenon
    <3> QED
      BY <3>1, <3>2
  <2>2. h = [i \in 0 .. k + 1 |-> h[i]]
    OBVIOUS
  <2> HIDE DEF h
  <2>3. h = Upto(k + 1, h)
    BY <2>1, <2>2, Zenon
  <2> QED
    BY <2>3, Zenon
<1>2. \E h : h = Upto(0, h)
  <2> DEFINE h == [i \in 0 .. 0 |-> none]
  <2>1. h = Upto(0, h)
    OBVIOUS
  <2> HIDE DEF h
  <2> QED
    BY <2>1
<1> HIDE DEF Upto
<1>3. \E h : h = Upto(n, h)
  <2> DEFINE Bad == {k \in Nat : ~ \E h : h = Upto(k, h)}
  <2> SUFFICES ASSUME Bad # {} PROVE FALSE
    OBVIOUS
  <2>1. Min(Bad) \in Bad /\ \A m \in Bad : Min(Bad) <= m
    BY LeastOf
  <2>2. PICK k \in Nat : k \in Bad /\ \A m \in Bad : k <= m
    BY <2>1
  <2>3. k # 0
    BY <1>2, <2>2
  <2>4. k - 1 \in Nat /\ k - 1 + 1 = k /\ ~(k <= k - 1)
    BY <2>3
  <2>5. \E h : h = Upto(k - 1, h)
    BY <2>2, <2>4
  <2>6. \E h : h = Upto(k, h)
    BY <1>1, <2>4, <2>5
  <2> QED
    BY <2>2, <2>6
<1> DEFINE u == CHOOSE h : h = Upto(n, h)
<1>4. u = Upto(n, u)
  BY <1>3, Zenon
<1> HIDE DEF u
<1>6. ASSUME NEW i \in 0 .. n
      PROVE  u[i] = IF i = 0 THEN none ELSE Then(u[i - 1], i)
  BY <1>4, Zenon DEF Upto
<1>7. \A i \in 0 .. n : u[i].heads \subseteq nr
  <2> DEFINE Bad == {i \in 0 .. n : ~(u[i].heads \subseteq nr)}
  <2> SUFFICES ASSUME Bad # {} PROVE FALSE
    OBVIOUS
  <2>0. Bad \subseteq Nat
    OBVIOUS
  <2>1. Min(Bad) \in Bad /\ \A m \in Bad : Min(Bad) <= m
    BY <2>0, LeastOf
  <2>2. PICK i \in 0 .. n : ~(u[i].heads \subseteq nr) /\ \A m \in Bad : i <= m
    BY <2>1
  <2>3. i # 0
    BY <1>01, <1>6, <2>2
  <2>4. i - 1 \in 0 .. n /\ ~(i <= i - 1)
    BY <2>3
  <2>5. u[i - 1].heads \subseteq nr
    BY <2>2, <2>4
  <2> QED
    BY <1>0, <1>6, <2>2, <2>3, <2>5, Zenon
<1>8. u[n].heads \subseteq nr
  BY <1>7
<1> QED
  BY <1>02, <1>8, Zenon DEF u

\* Where an account starts is a number.
LEMMA CursorIsInt ==
  ASSUME NEW n \in Nat, NEW lengths, \A i \in 1 .. n : lengths[i] \in Int
  PROVE  Cursor(lengths, n) \in Int
<1> DEFINE Past(a, i) == a + HeaderLen + Dword + Padded(lengths[i])
           Upto(k, g) == [i \in 0 .. k |-> IF i = 0 THEN Dword ELSE Past(g[i - 1], i)]
<1>0. ASSUME NEW a \in Int, NEW i \in 1 .. n PROVE Past(a, i) \in Int
  BY DEF HeaderLen, Dword, Padded, Growth
<1>01. Dword \in Int
  BY DEF Dword
<1>02. Cursor(lengths, n) = (CHOOSE h : h = Upto(n, h))[n]
  BY Zenon DEF Cursor
<1> HIDE DEF Past
<1>1. ASSUME NEW k \in Nat, NEW g, g = Upto(k, g)
      PROVE  \E h : h = Upto(k + 1, h)
  <2> DEFINE h == [i \in 0 .. k + 1 |-> IF i \in 0 .. k THEN g[i] ELSE Past(g[k], k + 1)]
  <2>1. ASSUME NEW i \in 0 .. k + 1 PROVE h[i] = IF i = 0 THEN Dword ELSE Past(h[i - 1], i)
    <3>1. CASE i \in 0 .. k
      <4>1. g[i] = IF i = 0 THEN Dword ELSE Past(g[i - 1], i)
        BY <1>1, <3>1, Zenon
      <4>2. h[i] = g[i] /\ (i # 0 => h[i - 1] = g[i - 1])
        BY <3>1
      <4> HIDE DEF h
      <4> QED
        BY <4>1, <4>2, Zenon
    <3>2. CASE i \notin 0 .. k
      <4>1. i = k + 1 /\ i # 0 /\ i - 1 = k /\ k \in 0 .. k + 1 /\ k \in 0 .. k
        BY <3>2
      <4>2. h[i] = Past(g[k], i) /\ h[k] = g[k]
        BY <3>2, <4>1, Zenon
      <4> HIDE DEF h
      <4> QED
        BY <4>1, <4>2, Zenon
    <3> QED
      BY <3>1, <3>2
  <2>2. h = [i \in 0 .. k + 1 |-> h[i]]
    OBVIOUS
  <2> HIDE DEF h
  <2>3. h = Upto(k + 1, h)
    BY <2>1, <2>2, Zenon
  <2> QED
    BY <2>3, Zenon
<1>2. \E h : h = Upto(0, h)
  <2> DEFINE h == [i \in 0 .. 0 |-> Dword]
  <2>1. h = Upto(0, h)
    OBVIOUS
  <2> HIDE DEF h
  <2> QED
    BY <2>1
<1> HIDE DEF Upto
<1>3. \E h : h = Upto(n, h)
  <2> DEFINE Bad == {k \in Nat : ~ \E h : h = Upto(k, h)}
  <2> SUFFICES ASSUME Bad # {} PROVE FALSE
    OBVIOUS
  <2>1. Min(Bad) \in Bad /\ \A m \in Bad : Min(Bad) <= m
    BY LeastOf
  <2>2. PICK k \in Nat : k \in Bad /\ \A m \in Bad : k <= m
    BY <2>1
  <2>3. k # 0
    BY <1>2, <2>2
  <2>4. k - 1 \in Nat /\ k - 1 + 1 = k /\ ~(k <= k - 1)
    BY <2>3
  <2>5. \E h : h = Upto(k - 1, h)
    BY <2>2, <2>4
  <2>6. \E h : h = Upto(k, h)
    BY <1>1, <2>4, <2>5
  <2> QED
    BY <2>2, <2>6
<1> DEFINE u == CHOOSE h : h = Upto(n, h)
<1>4. u = Upto(n, u)
  BY <1>3, Zenon
<1> HIDE DEF u
<1>6. ASSUME NEW i \in 0 .. n
      PROVE  u[i] = IF i = 0 THEN Dword ELSE Past(u[i - 1], i)
  BY <1>4, Zenon DEF Upto
<1>7. \A i \in 0 .. n : u[i] \in Int
  <2> DEFINE Bad == {i \in 0 .. n : ~(u[i] \in Int)}
  <2> SUFFICES ASSUME Bad # {} PROVE FALSE
    OBVIOUS
  <2>0. Bad \subseteq Nat
    OBVIOUS
  <2>1. Min(Bad) \in Bad /\ \A m \in Bad : Min(Bad) <= m
    BY <2>0, LeastOf
  <2>2. PICK i \in 0 .. n : ~(u[i] \in Int) /\ \A m \in Bad : i <= m
    BY <2>1
  <2>3. i # 0
    BY <1>01, <1>6, <2>2
  <2>4. i - 1 \in 0 .. n /\ ~(i <= i - 1) /\ i \in 1 .. n
    BY <2>3
  <2>5. u[i - 1] \in Int
    BY <2>2, <2>4
  <2> QED
    BY <1>0, <1>6, <2>2, <2>3, <2>4, <2>5, Zenon
<1> QED
  BY <1>02, <1>7 DEF u
-----------------------------------------------------------------------------
(* Programs and the flow of their instructions.                                *)

\* A program is a list of decoded instructions with an entry among them.
LEMMA JobFacts ==
  ASSUME NEW j \in Jobs
  PROVE  /\ Len(j.code) \in Nat /\ IsFiniteSet(PCs(j)) /\ PCs(j) \subseteq Nat
         /\ j.entry \in PCs(j) /\ j.inputs \subseteq Seq(Bytes)
         /\ \A p \in PCs(j) : Decoded(At(j, p))
<1>1. j.code \in Seq(Range(j.code)) /\ j.entry \in PCs(j) /\ j.inputs \subseteq Seq(Bytes)
      /\ \A i \in DOMAIN j.code : Decoded(j.code[i])
  BY JobAssumption
<1>2. Len(j.code) \in Nat /\ DOMAIN j.code = 1 .. Len(j.code)
  BY <1>1
<1>3. IsFiniteSet(PCs(j))
  BY <1>2, FS_Interval DEF PCs
<1>4. ASSUME NEW p \in PCs(j) PROVE Decoded(At(j, p))
  <2>1. p + 1 \in 1 .. Len(j.code)
    BY <1>2 DEF PCs
  <2> QED
    BY <1>1, <1>2, <2>1 DEF At
<1> QED
  BY <1>1, <1>2, <1>3, <1>4 DEF PCs

\* How control leaves an instruction, by its operation.
LEMMA FlowFacts ==
  ASSUME NEW j, NEW p
  PROVE  LET op == At(j, p).op
             t == At(j, p).t
         IN  /\ op = "exit" => Kind(j, p) = "exit"
             /\ op = "ja" => Kind(j, p) \in {"jump", "unresolved"} /\ (t \in PCs(j) => Kind(j, p) = "jump") /\ Target(j, p) = t
             /\ op = "jcc" => Kind(j, p) \in {"branch", "unresolved"} /\ (t \in PCs(j) => Kind(j, p) = "branch") /\ Target(j, p) = t
             /\ op = "call" => Kind(j, p) \in {"call", "unresolved", "syscall"} /\ (t \in PCs(j) => Kind(j, p) = "call") /\ Target(j, p) = t
             /\ op = "sys" => Kind(j, p) = "syscall"
             /\ op = "callx" => Kind(j, p) = "callx"
             /\ op \notin {"exit", "ja", "jcc", "call", "sys", "callx"} => Kind(j, p) = "seq"
BY DEF Kind, Target, Flow

\* The operation behind a flow.
LEMMA KindFacts ==
  ASSUME NEW j, NEW p
  PROVE  LET op == At(j, p).op
             t == At(j, p).t
         IN  /\ Kind(j, p) = "exit" => op = "exit"
             /\ Kind(j, p) = "jump" => op = "ja" /\ Target(j, p) = t /\ t \in PCs(j)
             /\ Kind(j, p) = "branch" => op = "jcc" /\ Target(j, p) = t /\ t \in PCs(j)
             /\ Kind(j, p) = "call" => op = "call" /\ Target(j, p) = t /\ t \in PCs(j)
             /\ Kind(j, p) = "callx" => op = "callx"
             /\ Kind(j, p) = "syscall" => op \in {"sys", "call"}
             /\ Kind(j, p) = "seq" => op \notin {"exit", "ja", "jcc", "call", "sys", "callx"}
<1> DEFINE op == At(j, p).op
<1>1. CASE op = "exit"
  BY <1>1 DEF Kind, Target, Flow
<1>2. CASE op = "ja"
  BY <1>2 DEF Kind, Target, Flow
<1>3. CASE op = "jcc"
  BY <1>3 DEF Kind, Target, Flow
<1>4. CASE op = "call"
  BY <1>4 DEF Kind, Target, Flow
<1>5. CASE op = "sys"
  BY <1>5 DEF Kind, Target, Flow
<1>6. CASE op = "callx"
  BY <1>6 DEF Kind, Target, Flow
<1>7. CASE op \notin {"exit", "ja", "jcc", "call", "sys", "callx"}
  BY <1>7, FlowFacts
<1> QED
  BY <1>1, <1>2, <1>3, <1>4, <1>5, <1>6, <1>7

\* Functions start at instructions.
LEMMA EntriesFacts ==
  ASSUME NEW j \in Jobs
  PROVE  /\ Entries(j) \subseteq PCs(j) /\ IsFiniteSet(Entries(j)) /\ j.entry \in Entries(j)
         /\ \A p \in PCs(j) : Kind(j, p) = "call" => Target(j, p) \in Entries(j)
<1>1. Entries(j) \subseteq PCs(j)
  BY JobFacts, KindFacts DEF Entries
<1> QED
  BY <1>1, JobFacts, FS_Subset DEF Entries

\* The successors of an instruction are instructions.
LEMMA SuccessorsType ==
  ASSUME NEW j, NEW nr
  PROVE  Successors(j, nr) \in [PCs(j) -> SUBSET PCs(j)]
BY DEF Successors

\* The body of a function is a set of instructions with its entry, closed under successors.
LEMMA BodyFacts ==
  ASSUME NEW j \in Jobs, NEW nr, NEW f \in Entries(j)
  PROVE  /\ f \in Bodies(j, nr)[f] /\ Bodies(j, nr)[f] \subseteq PCs(j)
         /\ Closed(Successors(j, nr), Bodies(j, nr)[f])
<1> DEFINE next == Successors(j, nr)
           D == PCs(j)
<1>1. IsFiniteSet(D) /\ next \in [D -> SUBSET D] /\ {f} \in SUBSET D
  BY JobFacts, EntriesFacts, SuccessorsType
<1> HIDE DEF next, D
<1>2. {f} \subseteq Closure(next, {f}) /\ Closure(next, {f}) \subseteq D /\ Closed(next, Closure(next, {f}))
  BY <1>1, ClosureFacts
<1>3. Bodies(j, nr)[f] = Closure(next, {f})
  BY DEF Bodies, next
<1> QED
  BY <1>2, <1>3 DEF next, D
-----------------------------------------------------------------------------
(* The analysis.                                                               *)

Built == {"built", "discovered", "generated", "running"}
Discovered == {"discovered", "generated", "running"}
Frame0 == [fn |-> job.entry, back |-> NoTarget, r6 |-> 0]
Regs0 == [r \in Regs |-> CASE r = 1 -> InputStart [] r = 10 -> StackTop [] OTHER -> 0]
AtStart ==
  /\ pc = job.entry /\ frames = <<Frame0>> /\ regs = Regs0 /\ input = <<>> /\ input0 = <<>>
  /\ def = <<"init">> /\ from = NoTarget /\ taken = {} /\ halt = "no"
AnalysisInv ==
  /\ job \in Jobs
  /\ phase \in Built \cup {"building"}
  /\ phase \in Built =>
       /\ fns = Bodies(job, noret) /\ noret = HasNoExit(job, fns)
       /\ edges = ExitEdges(job, noret, fns)
       /\ witness = NoReturnWitness(job, noret, fns) /\ graph = GraphSucc(job, witness.heads)
  /\ phase \in Discovered =>
       bindings = IF GraphError(job, witness.heads) THEN << >> ELSE Discover(job, graph, SuccessEdges)
  /\ phase \in {"generated", "running"} => theorems = [e \in Found |-> EdgeTheorem(job, graph, bindings[e], e)]
  /\ phase # "running" => AtStart

\* A step of the machine leaves the analysis alone and happens when it is over.
LEMMA StepStays ==
  Step => phase = "running" /\ Stay
BY DEF Step, Compute, NoEffect, Store, Jump, Call, Callx, Enter, Syscall, Return, ProgramExit, Fault, Fetched, Running, Halt

\* What the analysis has computed when it is over is what its passes compute from
\* the stable no-return set, and the machine has not moved before.
LEMMA AnalysisIsDone == Spec => []AnalysisInv
<1>1. Init => AnalysisInv
  BY DEF Init, AnalysisInv, AtStart, Frame0, Regs0, Built, Discovered
<1>2. AnalysisInv /\ [Next]_vars => AnalysisInv'
  <2> SUFFICES ASSUME AnalysisInv, [Next]_vars PROVE AnalysisInv'
    OBVIOUS
  <2>1. CASE Refine
    <3>1. UNCHANGED <<job, bindings, theorems, machine>> /\ phase = "building" /\ AtStart
      BY <2>1 DEF Refine, AnalysisInv
    <3>2. AtStart'
      BY <3>1 DEF AtStart, machine, Frame0, Regs0
    <3>3. CASE noret' = noret
      <4>1. /\ phase' = "built" /\ fns' = Bodies(job, noret') /\ noret' = HasNoExit(job, fns')
            /\ edges' = ExitEdges(job, noret', fns') /\ witness' = NoReturnWitness(job, noret', fns')
            /\ graph' = GraphSucc(job, witness'.heads)
        BY <2>1, <3>3, Zenon DEF Refine
      <4> QED
        BY <3>1, <3>2, <4>1 DEF AnalysisInv, Built, Discovered
    <3>4. CASE noret' # noret
      <4>1. phase' = phase
        BY <2>1, <3>4 DEF Refine
      <4> QED
        BY <3>1, <3>2, <4>1 DEF AnalysisInv, Built, Discovered
    <3> QED
      BY <3>3, <3>4
  <2>2. CASE DiscoverBindings
    <3>1. AtStart /\ AtStart'
      BY <2>2 DEF DiscoverBindings, AnalysisInv, AtStart, machine, Frame0, Regs0
    <3> QED
      BY <2>2, <3>1 DEF DiscoverBindings, AnalysisInv, Built, Discovered, SuccessEdges
  <2>3. CASE Generate
    <3>1. AtStart /\ AtStart'
      BY <2>3 DEF Generate, AnalysisInv, AtStart, machine, Frame0, Regs0
    <3> QED
      BY <2>3, <3>1 DEF Generate, AnalysisInv, Built, Discovered, SuccessEdges, Found
  <2>4. CASE Load
    BY <2>4 DEF Load, AnalysisInv, Built, Discovered, SuccessEdges, Found
  <2>5. CASE Step
    BY <2>5, StepStays DEF Stay, analysis, AnalysisInv, SuccessEdges, Found
  <2>6. CASE UNCHANGED vars
    BY <2>6 DEF vars, analysis, machine, AnalysisInv, SuccessEdges, Found, AtStart, Frame0, Regs0
  <2> QED
    BY <2>1, <2>2, <2>3, <2>4, <2>5, <2>6 DEF Next, Done
<1> QED
  BY <1>1, <1>2, PTL DEF Spec
-----------------------------------------------------------------------------
(* The shapes of the machine's steps.                                          *)

\* A step inside the function: where it goes is what the flow says.
Walking ==
  /\ Compute \/ NoEffect \/ Store \/ Jump \/ Syscall
  /\ pc \in PCs(job) /\ frames' = frames /\ from' = pc /\ halt' = halt
  /\ taken' = IF Depth = 1 THEN taken \cup {<<pc, pc'>>} ELSE taken
  /\ \/ Kind(job, pc) = "seq" /\ pc' = pc + 1
     \/ Kind(job, pc) = "syscall" /\ SyscallName(job, pc) \notin NoReturnSyscalls /\ pc' = pc + 1
     \/ Kind(job, pc) = "jump" /\ pc' = Target(job, pc)
     \/ Kind(job, pc) = "branch" /\ pc' \in {Target(job, pc), pc + 1}
Entering(t) ==
  /\ pc \in PCs(job) /\ Enter(t)
  /\ (Kind(job, pc) = "call" /\ t = Target(job, pc)) \/ Kind(job, pc) = "callx"
Returning == pc \in PCs(job) /\ Kind(job, pc) = "exit" /\ Return
Halting == UNCHANGED <<pc, frames, regs, input, def, from, taken>>

\* Every step walks, enters a function, returns from one or halts.
LEMMA StepShapes ==
  ASSUME job \in Jobs, Step
  PROVE  Walking \/ (\E t \in Entries(job) : Entering(t)) \/ Returning \/ Halting
<1>1. CASE Compute
  <2>1. pc \in PCs(job) /\ At(job, pc).op \in {"mov", "movr", "add", "and", "ld", "alu"} /\ Goto(pc + 1)
        /\ frames' = frames /\ halt' = halt
    BY <1>1 DEF Compute, Fetched, Here
  <2> QED
    BY <1>1, <2>1, FlowFacts DEF Walking, Goto
<1>2. CASE NoEffect
  <2>1. pc \in PCs(job) /\ At(job, pc).op = "nop" /\ Goto(pc + 1) /\ frames' = frames /\ halt' = halt
    BY <1>2 DEF NoEffect, Fetched, Here
  <2> QED
    BY <1>2, <2>1, FlowFacts DEF Walking, Goto
<1>3. CASE Store
  <2>1. pc \in PCs(job) /\ At(job, pc).op = "st" /\ Goto(pc + 1) /\ frames' = frames /\ halt' = halt
    BY <1>3 DEF Store, Fetched, Here
  <2> QED
    BY <1>3, <2>1, FlowFacts DEF Walking, Goto
<1>4. CASE Jump
  <2>1. pc \in PCs(job) /\ At(job, pc).op \in {"ja", "jcc"} /\ At(job, pc).t \in PCs(job)
        /\ frames' = frames /\ halt' = halt
    BY <1>4 DEF Jump, Fetched, Here
  <2>2. PICK q \in Outcomes : Goto(q)
    BY <1>4 DEF Jump
  <2>3. CASE At(job, pc).op = "ja"
    <3>1. q = At(job, pc).t
      BY <2>3, <2>2 DEF Outcomes, Here
    <3> QED
      BY <1>4, <2>1, <2>2, <2>3, <3>1, FlowFacts DEF Walking, Goto
  <2>4. CASE At(job, pc).op = "jcc"
    <3>1. q \in {At(job, pc).t, pc + 1}
      BY <2>4, <2>2 DEF Outcomes, Here
    <3> QED
      BY <1>4, <2>1, <2>2, <2>4, <3>1, FlowFacts DEF Walking, Goto
  <2> QED
    BY <2>1, <2>3, <2>4
<1>5. CASE Call
  <2>1. pc \in PCs(job) /\ At(job, pc).op = "call" /\ At(job, pc).t \in PCs(job) /\ Enter(At(job, pc).t)
    BY <1>5 DEF Call, Fetched, Here
  <2>2. Kind(job, pc) = "call" /\ Target(job, pc) = At(job, pc).t
    BY <2>1, FlowFacts
  <2> QED
    BY <2>1, <2>2, EntriesFacts DEF Entering
<1>6. CASE Callx
  <2>1. pc \in PCs(job) /\ Kind(job, pc) = "callx"
    BY <1>6, FlowFacts DEF Callx, Fetched, Here
  <2> QED
    BY <1>6, <2>1 DEF Callx, Entering
<1>7. CASE Syscall
  <2>1. pc \in PCs(job) /\ At(job, pc).op = "sys"
    BY <1>7 DEF Syscall, Fetched, Here
  <2>2. CASE At(job, pc).name \in NoReturnSyscalls
    BY <1>7, <2>2 DEF Syscall, Halt, Halting, Here
  <2>3. CASE At(job, pc).name \notin NoReturnSyscalls
    <3>1. Goto(pc + 1) /\ frames' = frames /\ halt' = halt
      BY <1>7, <2>3 DEF Syscall, Here
    <3> QED
      BY <1>7, <2>1, <2>3, <3>1, FlowFacts DEF Walking, Goto, SyscallName
  <2> QED
    BY <2>2, <2>3
<1>8. CASE Return
  BY <1>8, FlowFacts DEF Return, Returning, Fetched, Here
<1>9. CASE ProgramExit
  BY <1>9 DEF ProgramExit, Halt, Halting
<1>10. CASE Fault
  BY <1>10 DEF Fault, Halt, Halting
<1> QED
  BY <1>1, <1>2, <1>3, <1>4, <1>5, <1>6, <1>7, <1>8, <1>9, <1>10 DEF Step

\* Where a step inside a function goes is a successor in both graphs.
LEMMA WalkingFollows ==
  ASSUME job \in Jobs, NEW nr, NEW hs, Walking
  PROVE  /\ pc' \in PCs(job) => pc' \in Successors(job, nr)[pc]
         /\ pc' \in GraphSucc(job, hs)[pc]
         /\ pc' \in Int
<1>1. pc \in PCs(job) /\ pc \in Nat /\ (Target(job, pc) \in Int \/ Kind(job, pc) \notin {"jump", "branch"})
  BY JobFacts, KindFacts DEF Walking
<1>2. pc' \in Int
  BY <1>1, JobFacts DEF Walking
<1>3. pc' \in GraphSucc(job, hs)[pc]
  BY Zenon DEF Walking, GraphSucc
<1>4. pc' \in PCs(job) => pc' \in Successors(job, nr)[pc]
  <2>1. ~ IsTerminal(job, nr, pc)
    BY DEF IsTerminal, Walking
  <2> QED
    BY <2>1 DEF Successors, Walking
<1> QED
  BY <1>2, <1>3, <1>4
-----------------------------------------------------------------------------
(* Registers, memory and frames.                                               *)

FrameType == [fn : Entries(job), back : Int, r6 : Words]
DataType ==
  /\ regs \in [Regs -> Words] /\ regs[10] = StackTop + Depth - 1
  /\ input \in Seq(Bytes) /\ input0 \in Seq(Bytes) /\ Len(input) = Len(input0)
FramesType ==
  /\ frames \in Seq(FrameType) /\ Depth \in 1 .. MaxDepth /\ frames[1].fn = job.entry
  /\ pc \in Int /\ taken \subseteq Int \X Int

\* Words are numbers.
LEMMA WordsAreNumbers == Words \subseteq Nat /\ Words \subseteq Int /\ 0 \in Words
BY LayoutAssumption DEF Words

\* A dword is a word.
LEMMA DwordIsWord ==
  ASSUME NEW x \in Bytes, NEW y \in Bytes
  PROVE  x \in Words /\ x + ByteValues * y \in Words
<1> DEFINE B == ByteValues
<1>1. B \in Nat /\ B >= 1 /\ B * B <= Modulus /\ Modulus \in Nat
  BY LayoutAssumption
<1>2. x \in 0 .. B - 1 /\ y \in 0 .. B - 1
  BY DEF Bytes
<1>3. B * y <= B * (B - 1) /\ B * y \in Nat
  BY <1>1, <1>2
<1>4. B * (B - 1) = B * B - B
  BY <1>1
<1>5. B * B >= B
  BY <1>1
<1> QED
  BY <1>1, <1>2, <1>3, <1>4, <1>5 DEF Words

\* A stored byte is a byte.
LEMMA StoredByteType ==
  ASSUME NEW v \in Int, NEW i
  PROVE  StoredByte(v, i) \in Bytes
<1>1. ByteValues \in Nat /\ ByteValues > 0
  BY LayoutAssumption
<1>2. v % ByteValues \in 0 .. ByteValues - 1 /\ (v \div ByteValues) \in Int
  BY <1>1
<1>3. (v \div ByteValues) % ByteValues \in 0 .. ByteValues - 1
  BY <1>1, <1>2
<1> QED
  BY <1>2, <1>3 DEF StoredByte, Bytes

\* A function of the indices of a list that yields bytes is a list as long.
LEMMA ByteList ==
  ASSUME NEW s \in Seq(Bytes), NEW f, DOMAIN f = DOMAIN s, f = [i \in DOMAIN f |-> f[i]],
         \A i \in DOMAIN s : f[i] \in Bytes
  PROVE  f \in Seq(Bytes) /\ Len(f) = Len(s)
<1>1. DOMAIN s = 1 .. Len(s) /\ Len(s) \in Nat
  OBVIOUS
<1>2. f \in [1 .. Len(s) -> Bytes]
  BY <1>1
<1> QED
  BY <1>1, <1>2

\* What is loaded is a word.
LEMMA LoadedWord ==
  ASSUME NEW s \in Seq(Bytes), NEW o \in Nat, NEW w \in {"byte", "dword"}, o + WidthBytes(w) <= Len(s)
  PROVE  ReadInput(s, o, w) \in Words
<1>1. CASE w = "byte"
  <2>1. s[o + 1] \in Bytes
    BY <1>1 DEF WidthBytes
  <2> QED
    BY <1>1, <2>1, DwordIsWord DEF ReadInput
<1>2. CASE w = "dword"
  <2>1. s[o + 1] \in Bytes /\ s[o + 2] \in Bytes
    BY <1>2 DEF WidthBytes, Dword
  <2> QED
    BY <1>2, <2>1, DwordIsWord DEF ReadInput
<1> QED
  BY <1>1, <1>2

\* The address of an access is a word.
LEMMA AddressIsWord ==
  ASSUME job \in Jobs, DataType, pc \in PCs(job), Here.op \in {"ld", "st"}
  PROVE  Address \in Words
<1>1. Decoded(Here)
  BY JobFacts DEF Here
<1>2. Here.off \in Int
  BY <1>1, LayoutAssumption DEF Decoded
<1>3. (IF Here.op = "ld" THEN Here.s ELSE Here.d) \in Regs
  BY <1>1 DEF Decoded
<1>4. regs[IF Here.op = "ld" THEN Here.s ELSE Here.d] \in Int
  BY <1>3, LayoutAssumption DEF DataType, Words
<1> QED
  BY <1>2, <1>4, Remainders DEF Address

\* The right operand of an addition or a mask is a word.
LEMMA RightHandIsWord ==
  ASSUME job \in Jobs, DataType, pc \in PCs(job), Here.op \in {"add", "and"}
  PROVE  RightHand \in Words /\ Here.d \in Regs /\ regs[Here.d] \in Words
<1>1. Decoded(Here)
  BY JobFacts DEF Here
<1>2. Here.reg \in BOOLEAN /\ (IF Here.reg THEN Here.s \in Regs ELSE Here.imm \in Int) /\ Here.d \in Regs
  BY <1>1 DEF Decoded
<1>3. CASE Here.reg
  BY <1>2, <1>3 DEF RightHand, DataType
<1>4. CASE ~ Here.reg
  <2>1. Here.imm % Modulus \in Words
    BY <1>2, <1>4, Remainders
  <2> QED
    BY <1>2, <1>4, <2>1 DEF RightHand, DataType
<1> QED
  BY <1>3, <1>4

\* What an instruction computes is a word.
LEMMA ResultsAreWords ==
  ASSUME job \in Jobs, DataType, pc \in PCs(job), ~ Faults(Here),
         Here.op \in {"mov", "movr", "add", "and", "ld", "alu"}
  PROVE  Results \subseteq Words
<1>1. Decoded(Here)
  BY JobFacts DEF Here
<1>2. CASE Here.op = "mov"
  BY <1>1, <1>2, Remainders DEF Results, Decoded
<1>3. CASE Here.op = "movr"
  BY <1>1, <1>3 DEF Results, Decoded, DataType
<1>4. CASE Here.op = "add"
  <2>1. RightHand \in Int /\ regs[Here.d] \in Int
    BY <1>4, RightHandIsWord, WordsAreNumbers
  <2>2. (regs[Here.d] + RightHand) % Modulus \in Words
    BY <2>1, Remainders
  <2> QED
    BY <1>4, <2>2 DEF Results
<1>5. CASE Here.op = "and"
  <2>1. RightHand \in Words /\ regs[Here.d] \in Words
    BY <1>5, RightHandIsWord
  <2>2. BitAnd(regs[Here.d], RightHand) \in Words
    BY <2>1, AndAssumption
  <2>3. BitAnd(regs[Here.d], RightHand) % Modulus \in Words
    BY <2>2, Remainders, LayoutAssumption DEF Words
  <2> QED
    BY <1>5, <2>3 DEF Results
<1>6. CASE Here.op = "ld"
  <2>1. Address \in Words /\ Here.w \in {"byte", "dword"}
    BY <1>1, <1>6, AddressIsWord DEF Decoded
  <2>2. CASE InStack(Address)
    BY <1>6, <2>2, AnalysisAssumption DEF Results
  <2>3. CASE ~ InStack(Address)
    <3>1. Mapped(Address, WidthBytes(Here.w))
      BY <1>6, <2>3 DEF Faults
    <3> DEFINE o == Address - InputStart
    <3>2. o \in Nat /\ o + WidthBytes(Here.w) <= Len(input)
      BY <2>1, <3>1, LayoutAssumption DEF Mapped, Words, WidthBytes, Dword, DataType
    <3>3. ReadInput(input, o, Here.w) \in Words
      BY <2>1, <3>2, LoadedWord DEF DataType
    <3> QED
      BY <1>6, <2>3, <3>3 DEF Results
  <2> QED
    BY <2>2, <2>3
<1>7. CASE Here.op = "alu"
  BY <1>7, AnalysisAssumption DEF Results
<1> QED
  BY <1>2, <1>3, <1>4, <1>5, <1>6, <1>7

\* A register is set.
LEMMA RegisterSet ==
  ASSUME NEW f \in [Regs -> Words], NEW d, NEW v \in Words
  PROVE  /\ [f EXCEPT ![d] = v] \in [Regs -> Words]
         /\ d # 10 => [f EXCEPT ![d] = v][10] = f[10]
         /\ d \in Regs => [f EXCEPT ![d] = v][d] = v
         /\ \A r \in Regs : r # d => [f EXCEPT ![d] = v][r] = f[r]
BY DEF Regs

\* Registers stay words, r10 follows the depth and the input keeps its length.
LEMMA DataStep ==
  ASSUME job \in Jobs, DataType, FramesType, Step
  PROVE  DataType'
<1> USE DEF DataType
<1>0. input0' = input0 /\ Depth \in Nat
  BY StepStays DEF Stay, FramesType
<1>1. ASSUME UNCHANGED <<frames, input>>, NEW d, NEW v \in Words, SetR(d, v)
      PROVE  DataType'
  <2>1. regs' \in [Regs -> Words] /\ regs'[10] = regs[10]
    BY <1>1, RegisterSet DEF SetR
  <2> QED
    BY <1>0, <1>1, <2>1 DEF Depth
<1>2. ASSUME UNCHANGED <<frames, regs, input>> PROVE DataType'
  BY <1>0, <1>2 DEF Depth
<1>3. CASE Compute
  <2>1. PICK v \in Results : SetR(Here.d, v)
    BY <1>3 DEF Compute
  <2>2. v \in Words
    BY <1>3, ResultsAreWords DEF Compute, Fetched
  <2> QED
    BY <1>1, <1>3, <2>1, <2>2 DEF Compute
<1>4. CASE NoEffect
  BY <1>2, <1>4 DEF NoEffect
<1>5. CASE Store
  <2>1. Here.imm \in Int
    BY <1>5, JobFacts DEF Store, Fetched, Here, Decoded
  <2> DEFINE o == Address - InputStart
             m == Put(input, o, Here.w, Here.imm)
  <2>2. m \in Seq(Bytes) /\ Len(m) = Len(input)
    <3>1. DOMAIN m = DOMAIN input /\ m = [i \in DOMAIN m |-> m[i]]
      BY DEF Put
    <3>2. ASSUME NEW i \in DOMAIN input PROVE m[i] \in Bytes
      BY <2>1, StoredByteType DEF Put
    <3> HIDE DEF m
    <3> QED
      BY <3>1, <3>2, ByteList
  <2>3. frames' = frames /\ regs' = regs /\ input' \in {input, m}
    BY <1>5 DEF Store
  <2> HIDE DEF m
  <2> QED
    BY <1>0, <2>2, <2>3 DEF Depth
<1>6. CASE Jump
  BY <1>2, <1>6 DEF Jump
<1>7. ASSUME NEW t, Enter(t) PROVE DataType'
  <2>1. regs' = [regs EXCEPT ![10] = @ + 1] /\ Depth < MaxDepth /\ input' = input
        /\ frames' = Append(frames, [fn |-> t, back |-> pc + 1, r6 |-> regs[6]])
    BY <1>7 DEF Enter
  <2>2. Len(frames') = Depth + 1
    BY <2>1 DEF FramesType, Depth
  <2>3. regs[10] + 1 \in Words
    BY <1>0, <2>1, LayoutAssumption, AnalysisAssumption DEF Words, FramesType
  <2>4. regs' = [regs EXCEPT ![10] = regs[10] + 1] /\ 10 \in Regs
    BY <2>1 DEF Regs
  <2>5. regs' \in [Regs -> Words] /\ regs'[10] = regs[10] + 1
    BY <2>3, <2>4, RegisterSet
  <2>6. regs'[10] = StackTop + Len(frames') - 1
    BY <1>0, <2>2, <2>5, LayoutAssumption
  <2> QED
    BY <1>0, <2>1, <2>5, <2>6 DEF Depth
<1>8. CASE Call
  BY <1>7, <1>8 DEF Call
<1>9. CASE Callx
  BY <1>7, <1>9 DEF Callx
<1>10. CASE Syscall
  <2>1. CASE Here.name \in NoReturnSyscalls
    BY <1>2, <1>10, <2>1 DEF Syscall, Halt
  <2>2. CASE Here.name \notin NoReturnSyscalls
    <3>1. PICK v \in AnyWord : regs' = [r \in Regs |-> IF r <= 5 THEN (IF r = 0 THEN v ELSE 0) ELSE regs[r]]
      BY <1>10, <2>2 DEF Syscall
    <3>2. frames' = frames /\ input' \in Rewritten
      BY <1>10, <2>2 DEF Syscall
    <3>3. v \in Words
      BY AnalysisAssumption
    <3>4. regs' \in [Regs -> Words] /\ regs'[10] = regs[10]
      BY <3>1, <3>3, WordsAreNumbers DEF Regs
    <3>5. PICK c \in [SyscallReach \cap DOMAIN input -> Bytes] :
             input' = [i \in DOMAIN input |-> IF i \in DOMAIN c THEN c[i] ELSE input[i]]
      BY <3>2 DEF Rewritten
    <3>6. \A i \in DOMAIN input : input'[i] \in Bytes
      BY <3>5
    <3>7. DOMAIN input' = DOMAIN input /\ input' = [i \in DOMAIN input' |-> input'[i]]
      BY <3>5
    <3>8. input' \in Seq(Bytes) /\ Len(input') = Len(input)
      BY <3>6, <3>7, ByteList
    <3> QED
      BY <1>0, <3>2, <3>4, <3>8 DEF Depth
  <2> QED
    BY <2>1, <2>2
<1>11. CASE Return
  <2>1. regs' = [regs EXCEPT ![6] = TopFrame.r6, ![10] = @ - 1] /\ Depth > 1 /\ input' = input
        /\ frames' = Front(frames)
    BY <1>11 DEF Return
  <2>2. TopFrame \in FrameType
    BY DEF FramesType, TopFrame, Depth
  <2>3. Len(frames') = Depth - 1
    BY <2>1 DEF Front, FramesType, Depth
  <2>4. regs[10] - 1 \in Words
    <3>1. regs[10] \in Words /\ regs[10] = StackTop + Depth - 1
      BY DEF Regs
    <3> HIDE DEF DataType
    <3> QED
      BY <1>0, <2>1, <3>1, LayoutAssumption DEF Words
  <2> DEFINE f == [regs EXCEPT ![6] = TopFrame.r6]
  <2>5. f \in [Regs -> Words] /\ f[10] = regs[10] /\ TopFrame.r6 \in Words
    BY <2>2, RegisterSet DEF FrameType
  <2>6. regs' = [f EXCEPT ![10] = regs[10] - 1] /\ 10 \in Regs
    BY <2>1 DEF Regs
  <2> HIDE DEF f
  <2>7. regs' \in [Regs -> Words] /\ regs'[10] = regs[10] - 1
    BY <2>4, <2>5, <2>6, RegisterSet
  <2>8. regs'[10] = StackTop + Len(frames') - 1
    BY <1>0, <2>3, <2>7, LayoutAssumption
  <2> QED
    BY <1>0, <2>1, <2>7, <2>8 DEF Depth
<1>12. CASE ProgramExit
  BY <1>2, <1>12 DEF ProgramExit, Halt
<1>13. CASE Fault
  BY <1>2, <1>13 DEF Fault, Halt
<1> QED
  BY <1>3, <1>4, <1>5, <1>6, <1>8, <1>9, <1>10, <1>11, <1>12, <1>13 DEF Step
-----------------------------------------------------------------------------
(* The partition into functions.                                               *)

\* fr was pushed by a call in the body of f.
CalledFrom(f, fr) ==
  /\ fr.back - 1 \in fns[f]
  /\ (Kind(job, fr.back - 1) = "call" /\ Target(job, fr.back - 1) = fr.fn) \/ Kind(job, fr.back - 1) = "callx"
OnFunctions ==
  /\ \A i \in 2 .. Depth : CalledFrom(frames[i - 1].fn, frames[i])
  /\ pc \in PCs(job) => pc \in fns[TopFrame.fn]
RunInv == phase = "running" => DataType /\ FramesType /\ OnFunctions

\* A frame is pushed.
LEMMA Pushed ==
  ASSUME NEW T, NEW s \in Seq(T), NEW x \in T
  PROVE  /\ Append(s, x) \in Seq(T) /\ Len(Append(s, x)) = Len(s) + 1
         /\ \A i \in 1 .. Len(s) : Append(s, x)[i] = s[i]
         /\ Append(s, x)[Len(s) + 1] = x
OBVIOUS

\* A frame is popped.
LEMMA Popped ==
  ASSUME NEW T, NEW s \in Seq(T), Len(s) > 1
  PROVE  /\ Front(s) \in Seq(T) /\ Len(Front(s)) = Len(s) - 1
         /\ \A i \in 1 .. Len(s) - 1 : Front(s)[i] = s[i]
BY DEF Front

\* The number of frames and the places of the machine are numbers.
LEMMA FramesStep ==
  ASSUME job \in Jobs, DataType, FramesType, OnFunctions, fns = Bodies(job, noret), Step
  PROVE  FramesType'
<1> DEFINE T == FrameType
<1>1. job' = job /\ T' = T
  BY StepStays DEF Stay, FrameType
<1> HIDE DEF T
<1>2. frames \in Seq(T) /\ Depth \in 1 .. MaxDepth /\ frames[1].fn = job.entry /\ pc \in Int /\ taken \subseteq Int \X Int
      /\ Depth = Len(frames) /\ Depth \in Nat /\ MaxDepth \in Nat
  BY AnalysisAssumption DEF FramesType, T, Depth
<1>3. ASSUME frames' \in Seq(T), Len(frames') \in 1 .. MaxDepth, frames'[1].fn = job.entry,
             pc' \in Int, taken' \subseteq Int \X Int
      PROVE  FramesType'
  BY <1>1, <1>3 DEF FramesType, T, Depth
<1>4. CASE Walking
  <2>1. pc' \in Int
    BY <1>4, WalkingFollows
  <2>2. taken' \subseteq Int \X Int /\ frames' = frames
    BY <1>2, <1>4, <2>1 DEF Walking
  <2> QED
    BY <1>2, <1>3, <2>1, <2>2
<1>5. ASSUME NEW t \in Entries(job), Entering(t) PROVE FramesType'
  <2> DEFINE x == [fn |-> t, back |-> pc + 1, r6 |-> regs[6]]
  <2>1. frames' = Append(frames, x) /\ Depth < MaxDepth /\ pc' = t /\ taken' = taken
    BY <1>5 DEF Entering, Enter
  <2>2. regs[6] \in Words
    BY DEF DataType, Regs
  <2>3. x \in T
    BY <1>2, <2>2 DEF T, FrameType
  <2>4. t \in Int
    BY EntriesFacts, JobFacts
  <2> HIDE DEF x
  <2>5. frames' \in Seq(T) /\ Len(frames') = Depth + 1 /\ frames'[1] = frames[1]
    BY <1>2, <2>1, <2>3, Pushed
  <2> QED
    BY <1>2, <1>3, <2>1, <2>4, <2>5
<1>6. CASE Returning
  <2>1. frames' = Front(frames) /\ Depth > 1 /\ pc' = TopFrame.back
        /\ taken' = IF Depth = 2 THEN taken \cup {<<TopFrame.back - 1, TopFrame.back>>} ELSE taken
    BY <1>6 DEF Returning, Return
  <2>2. TopFrame.back \in Int
    <3>1. TopFrame \in T
      BY <1>2 DEF TopFrame
    <3> QED
      BY <3>1 DEF T, FrameType
  <2>3. frames' \in Seq(T) /\ Len(frames') = Depth - 1 /\ frames'[1] = frames[1]
    BY <1>2, <2>1, Popped
  <2> QED
    BY <1>2, <1>3, <2>1, <2>2, <2>3
<1>7. CASE Halting
  BY <1>2, <1>3, <1>7 DEF Halting
<1> QED
  BY <1>4, <1>5, <1>6, <1>7, StepShapes

\* A function that is returned from has an exit, so the call that entered it has
\* a successor.
LEMMA ReturnFollows ==
  ASSUME job \in Jobs, NEW s \in PCs(job), NEW f, f \notin noret,
         (Kind(job, s) = "call" /\ Target(job, s) = f) \/ Kind(job, s) = "callx", s + 1 \in PCs(job)
  PROVE  s + 1 \in Successors(job, noret)[s]
<1>1. ~ IsTerminal(job, noret, s)
  BY DEF IsTerminal
<1> QED
  BY <1>1 DEF Successors

\* A frame's function is not one without an exit when the machine is at an exit.
LEMMA ExitReturns ==
  ASSUME job \in Jobs, fns = Bodies(job, noret), noret = HasNoExit(job, fns),
         NEW f \in Entries(job), NEW p \in fns[f], Kind(job, p) = "exit"
  PROVE  f \notin noret
<1>1. DOMAIN fns = Entries(job)
  BY DEF Bodies
<1> QED
  BY <1>1 DEF HasNoExit

\* A run stays on its functions.
LEMMA FunctionsStep ==
  ASSUME job \in Jobs, fns = Bodies(job, noret), noret = HasNoExit(job, fns),
         DataType, FramesType, OnFunctions, Step
  PROVE  OnFunctions'
<1> DEFINE T == FrameType
<1>1. job' = job /\ fns' = fns /\ noret' = noret
  BY StepStays DEF Stay, analysis
<1>2. frames \in Seq(T) /\ Depth = Len(frames) /\ Depth \in Nat /\ Depth >= 1 /\ TopFrame = frames[Depth]
  BY AnalysisAssumption DEF FramesType, Depth, TopFrame
<1> HIDE DEF T
<1>3. \A i \in 1 .. Depth : frames[i] \in T /\ frames[i].fn \in Entries(job) /\ frames[i].back \in Int
  <2>1. \A i \in 1 .. Depth : frames[i] \in T
    BY <1>2
  <2>2. \A x \in T : x.fn \in Entries(job) /\ x.back \in Int
    BY DEF T, FrameType
  <2> QED
    BY <2>1, <2>2
<1>4. ASSUME NEW f \in Entries(job), NEW p \in fns[f], NEW q \in Successors(job, noret)[p]
      PROVE  q \in fns[f]
  BY BodyFacts DEF Closed
<1>5. ASSUME NEW f, NEW fr PROVE CalledFrom(f, fr)' <=> CalledFrom(f, fr)
  BY <1>1 DEF CalledFrom
<1>6. ASSUME \A i \in 2 .. Len(frames') : CalledFrom(frames'[i - 1].fn, frames'[i]),
             pc' \in PCs(job) => pc' \in fns[frames'[Len(frames')].fn]
      PROVE  OnFunctions'
  BY <1>1, <1>5, <1>6 DEF OnFunctions, CalledFrom, TopFrame, Depth
<1>7. \A i \in 2 .. Depth : CalledFrom(frames[i - 1].fn, frames[i])
  BY DEF OnFunctions
<1>8. TopFrame.fn \in Entries(job) /\ (pc \in PCs(job) => pc \in fns[TopFrame.fn])
  BY <1>2, <1>3 DEF OnFunctions
<1>9. CASE Walking
  <2>1. pc' \in PCs(job) => pc' \in fns[TopFrame.fn]
    <3>1. pc \in PCs(job)
      BY <1>9 DEF Walking
    <3> QED
      BY <1>4, <1>8, <1>9, <3>1, WalkingFollows
  <2>2. frames' = frames
    BY <1>9 DEF Walking
  <2> QED
    BY <1>2, <1>6, <1>7, <2>1, <2>2
<1>10. ASSUME NEW t \in Entries(job), Entering(t) PROVE OnFunctions'
  <2> DEFINE x == [fn |-> t, back |-> pc + 1, r6 |-> regs[6]]
  <2>1. frames' = Append(frames, x) /\ pc' = t
    BY <1>10 DEF Entering, Enter
  <2>2. regs[6] \in Words /\ pc \in Int
    BY DEF DataType, Regs, FramesType
  <2>3. x \in T
    BY <2>2 DEF T, FrameType
  <2>4. x.back - 1 = pc /\ x.fn = t
    BY <2>2
  <2>5. CalledFrom(TopFrame.fn, x)
    BY <1>8, <1>10, <2>4 DEF CalledFrom, Entering
  <2> HIDE DEF x
  <2>6. Len(frames') = Depth + 1 /\ frames'[Depth + 1] = x /\ \A i \in 1 .. Depth : frames'[i] = frames[i]
    BY <1>2, <2>1, <2>3, Pushed
  <2>7. ASSUME NEW i \in 2 .. Len(frames') PROVE CalledFrom(frames'[i - 1].fn, frames'[i])
    <3>1. CASE i = Depth + 1
      <4>1. i - 1 = Depth /\ Depth \in 1 .. Depth
        BY <1>2, <3>1
      <4> QED
        BY <1>2, <2>5, <2>6, <3>1, <4>1
    <3>2. CASE i # Depth + 1
      <4>1. i \in 2 .. Depth /\ i - 1 \in 1 .. Depth /\ i \in 1 .. Depth
        BY <1>2, <2>6, <3>2
      <4> QED
        BY <1>7, <2>6, <4>1
    <3> QED
      BY <3>1, <3>2
  <2>8. pc' \in fns[frames'[Len(frames')].fn]
    BY <2>1, <2>4, <2>6, BodyFacts
  <2> QED
    BY <1>6, <2>7, <2>8
<1>11. CASE Returning
  <2>1. frames' = Front(frames) /\ Depth > 1 /\ pc' = TopFrame.back /\ pc \in PCs(job) /\ Kind(job, pc) = "exit"
    BY <1>11 DEF Returning, Return
  <2>2. Len(frames') = Depth - 1 /\ \A i \in 1 .. Depth - 1 : frames'[i] = frames[i]
    BY <1>2, <2>1, Popped
  <2>3. ASSUME NEW i \in 2 .. Len(frames') PROVE CalledFrom(frames'[i - 1].fn, frames'[i])
    <3>1. i \in 2 .. Depth /\ i - 1 \in 1 .. Depth - 1 /\ i \in 1 .. Depth - 1
      BY <1>2, <2>2
    <3> QED
      BY <1>7, <2>2, <3>1
  <2> DEFINE f == frames[Depth - 1].fn
             c == TopFrame.back - 1
  <2>4. f \in Entries(job) /\ frames'[Len(frames')].fn = f /\ TopFrame.back \in Int
    BY <1>2, <1>3, <2>1, <2>2
  <2>5. CalledFrom(f, TopFrame)
    BY <1>2, <1>7, <2>1
  <2>6. TopFrame.fn \notin noret
    BY <1>8, <2>1, ExitReturns
  <2>7. c \in fns[f] /\ c \in PCs(job) /\ c + 1 = TopFrame.back
    BY <2>4, <2>5, BodyFacts DEF CalledFrom
  <2>8. pc' \in PCs(job) => pc' \in Successors(job, noret)[c]
    BY <2>1, <2>5, <2>6, <2>7, ReturnFollows DEF CalledFrom
  <2> HIDE DEF f, c
  <2>9. pc' \in PCs(job) => pc' \in fns[f]
    BY <1>4, <2>4, <2>7, <2>8
  <2> QED
    BY <1>6, <2>3, <2>4, <2>9
<1>12. CASE Halting
  BY <1>2, <1>6, <1>7, <1>8, <1>12 DEF Halting
<1> QED
  BY <1>9, <1>10, <1>11, <1>12, StepShapes

\* The state in which a run starts.
LEMMA RunStarts ==
  ASSUME AnalysisInv, Load
  PROVE  RunInv'
<1>1. /\ job \in Jobs /\ job' = job /\ fns' = fns /\ fns = Bodies(job, noret)
      /\ pc' = job.entry /\ frames' = <<Frame0>> /\ regs' = Regs0 /\ taken' = {}
      /\ input' \in job.inputs /\ input0' = input'
  BY DEF AnalysisInv, Load, AtStart, Built
<1>2. job.entry \in Entries(job) /\ job.entry \in PCs(job) /\ job.entry \in Int /\ job.inputs \subseteq Seq(Bytes)
  BY <1>1, JobFacts, EntriesFacts
<1>3. FrameType' = FrameType
  BY <1>1 DEF FrameType
<1>4. Frame0 \in FrameType /\ Frame0.fn = job.entry
  BY <1>2, WordsAreNumbers DEF Frame0, FrameType, NoTarget
<1>5. Regs0 \in [Regs -> Words] /\ Regs0[10] = StackTop
  BY LayoutAssumption DEF Regs0, Regs, Words
<1> DEFINE x == Frame0
<1> HIDE DEF x
<1>6. <<x>> \in Seq(FrameType) /\ Len(<<x>>) = 1 /\ <<x>>[1] = x
  BY <1>4 DEF x
<1>7. DataType'
  BY <1>1, <1>2, <1>5, <1>6, LayoutAssumption DEF DataType, Depth, x
<1>8. FramesType'
  BY <1>1, <1>2, <1>3, <1>4, <1>6, AnalysisAssumption DEF FramesType, Depth, x
<1>9. OnFunctions'
  BY <1>1, <1>2, <1>4, <1>6, BodyFacts DEF OnFunctions, Depth, TopFrame, x
<1> QED
  BY <1>7, <1>8, <1>9 DEF RunInv

\* Runs stay on their functions, with registers that are words.
LEMMA RunIsOnFunctions == Spec => []RunInv
<1>1. Init => RunInv
  BY DEF Init, RunInv
<1>2. AnalysisInv /\ RunInv /\ [Next]_vars => RunInv'
  <2> SUFFICES ASSUME AnalysisInv, RunInv, [Next]_vars PROVE RunInv'
    OBVIOUS
  <2>1. CASE Refine \/ DiscoverBindings \/ Generate
    BY <2>1 DEF Refine, DiscoverBindings, Generate, RunInv
  <2>2. CASE Load
    BY <2>2, RunStarts
  <2>3. CASE Step
    <3>1. phase = "running"
      BY <2>3, StepStays
    <3>2. job \in Jobs /\ fns = Bodies(job, noret) /\ noret = HasNoExit(job, fns)
      BY <3>1 DEF AnalysisInv, Built
    <3> QED
      BY <2>3, <3>1, <3>2, DataStep, FramesStep, FunctionsStep DEF RunInv
  <2>4. CASE UNCHANGED vars
    BY <2>4 DEF vars, analysis, machine, RunInv, DataType, FramesType, FrameType, OnFunctions, CalledFrom, Depth, TopFrame
  <2> QED
    BY <2>1, <2>2, <2>3, <2>4 DEF Next, Done
<1> QED
  BY <1>1, <1>2, AnalysisIsDone, PTL DEF Spec

\* A run stays inside the bodies Cfg::build computed, and no function of the
\* no-return set is ever returned from.
THEOREM PartitionSound == Spec => []PartitionIsSound
<1>1. AnalysisInv /\ RunInv => PartitionIsSound
  <2> SUFFICES ASSUME AnalysisInv, RunInv, Running, pc \in PCs(job), TopFrame.fn \in DOMAIN fns
               PROVE  pc \in fns[TopFrame.fn] /\ (Here.op = "exit" => TopFrame.fn \notin noret)
    BY DEF PartitionIsSound
  <2>1. job \in Jobs /\ fns = Bodies(job, noret) /\ noret = HasNoExit(job, fns) /\ OnFunctions
    BY DEF AnalysisInv, RunInv, Running, Built
  <2>2. pc \in fns[TopFrame.fn] /\ TopFrame.fn \in Entries(job)
    BY <2>1 DEF OnFunctions, Bodies
  <2>3. Here.op = "exit" => Kind(job, pc) = "exit"
    BY FlowFacts DEF Here
  <2> QED
    BY <2>1, <2>2, <2>3, ExitReturns
<1> QED
  BY <1>1, AnalysisIsDone, RunIsOnFunctions, PTL
-----------------------------------------------------------------------------
(* The exits of the program.                                                   *)

Quiet == <<"none">>
\* The instructions of the entry function that p follows.
Preds(p) == {q \in fns[job.entry] : p \in Successors(job, noret)[q]}
\* W goes back over instructions that leave r0 alone.
GoesBack(W) == \A p \in W : \A q \in Preds(p) : R0Write(job, q) = Quiet => q \in W
\* r0 was defined by an instruction in front of those of W.
DefinedBefore(W, d) == d # Quiet /\ \E p \in W : \E q \in Preds(p) : R0Write(job, q) = d
LastDefined ==
  IF R0Write(job, from) # Quiet THEN def = R0Write(job, from)
  ELSE def = <<"init">> \/ \A W \in SUBSET fns[job.entry] : from \in W /\ GoesBack(W) => DefinedBefore(W, def)
ExitInv ==
  /\ halt = "exit" => phase = "running" /\ Depth = 1 /\ pc \in PCs(job) /\ Kind(job, pc) = "exit"
  /\ phase = "running" /\ Depth = 1 =>
       /\ def \in {<<"init">>, <<"zero">>} => regs[0] = 0
       /\ from = NoTarget => def = <<"init">>
       /\ from # NoTarget => /\ from \in fns[job.entry] /\ (pc \in PCs(job) => pc \in Successors(job, noret)[from])
                             /\ LastDefined

\* r0_write is right about the machine: r0 keeps its value over the instructions
\* that define nothing, and is zero after the ones that define zero.
LEMMA R0Walk ==
  ASSUME job \in Jobs, DataType, Walking
  PROVE  /\ def' = IF R0Write(job, pc) = Quiet THEN def ELSE R0Write(job, pc)
         /\ R0Write(job, pc) = Quiet => regs'[0] = regs[0]
         /\ R0Write(job, pc) = <<"zero">> => regs'[0] = 0
         /\ R0Write(job, pc) # <<"init">>
<1>0. pc \in PCs(job) /\ Decoded(Here)
  BY JobFacts DEF Walking, Here
<1>1. CASE Compute
  <2>1. Here.op \in {"mov", "movr", "add", "and", "ld", "alu"} /\ Kind(job, pc) = "seq"
    BY <1>1, FlowFacts DEF Compute, Fetched, Here
  <2>2. PICK v \in Results : SetR(Here.d, v)
    BY <1>1 DEF Compute
  <2>3. Define
    BY <1>1 DEF Compute
  <2>4. CASE Here.d = 0
    <3>1. R0Write(job, pc) = IF Here.op # "mov" THEN <<"computed">> ELSE IF Here.imm = 0 THEN <<"zero">> ELSE <<"nonzero">>
      BY <2>1, <2>4 DEF R0Write, Here
    <3>2. Here.op = "mov" /\ Here.imm = 0 => v = 0
      <4>1. Here.op = "mov" => Results = {Here.imm % Modulus}
        BY Zenon DEF Results
      <4>2. 0 % Modulus = 0
        BY Remainders, WordsAreNumbers
      <4> QED
        BY <2>2, <4>1, <4>2
    <3>3. regs'[0] = v
      BY <2>2, <2>4 DEF SetR, DataType, Regs
    <3> QED
      BY <2>3, <3>1, <3>2, <3>3 DEF Define, Quiet
  <2>5. CASE Here.d # 0
    <3>1. R0Write(job, pc) = Quiet
      BY <2>1, <2>5 DEF R0Write, Here, Quiet
    <3>2. regs'[0] = regs[0]
      BY <2>2, <2>5 DEF SetR, DataType, Regs
    <3> QED
      BY <2>3, <3>1, <3>2 DEF Define, Quiet
  <2> QED
    BY <2>4, <2>5
<1>2. CASE NoEffect \/ Store \/ Jump
  <2>1. regs' = regs /\ def' = def
    BY <1>2 DEF NoEffect, Store, Jump
  <2>2. (Kind(job, pc) = "seq" /\ At(job, pc).op \in {"nop", "st"}) \/ Kind(job, pc) \in {"jump", "branch"}
    BY <1>2, FlowFacts DEF NoEffect, Store, Jump, Fetched, Here
  <2>3. R0Write(job, pc) = Quiet
    BY <2>2 DEF R0Write, Quiet
  <2> QED
    BY <2>1, <2>3 DEF Quiet
<1>3. CASE Syscall
  <2>1. Kind(job, pc) = "syscall" /\ At(job, pc).name \notin NoReturnSyscalls
    BY <1>3, FlowFacts DEF Syscall, Fetched, Here, Walking, SyscallName
  <2>2. R0Write(job, pc) = <<"sys">>
    BY <2>1 DEF R0Write
  <2>3. Define
    BY <1>3, <2>1 DEF Syscall, Here
  <2> QED
    BY <2>2, <2>3 DEF Define, Quiet
<1> QED
  BY <1>1, <1>2, <1>3 DEF Walking

\* The program exits from its entry function.
LEMMA ExitAtTop ==
  ASSUME Step
  PROVE  /\ halt = "no"
         /\ halt' = "exit" => Depth = 1 /\ pc \in PCs(job) /\ Kind(job, pc) = "exit" /\ UNCHANGED <<pc, frames>>
<1>1. halt = "no"
  BY DEF Step, Compute, NoEffect, Store, Jump, Call, Callx, Syscall, Return, ProgramExit, Fault, Fetched, Running
<1>2. CASE ProgramExit
  BY <1>1, <1>2, FlowFacts DEF ProgramExit, Halt, Fetched, Here
<1>3. CASE Syscall
  BY <1>1, <1>3 DEF Syscall, Halt
<1>4. CASE Fault
  BY <1>1, <1>4 DEF Fault, Halt
<1>5. CASE ~ (ProgramExit \/ Syscall \/ Fault)
  <2>1. halt' = halt
    BY <1>5 DEF Step, Compute, NoEffect, Store, Jump, Call, Callx, Enter, Return
  <2> QED
    BY <1>1, <2>1
<1> QED
  BY <1>1, <1>2, <1>3, <1>4, <1>5

\* What is known of r0 when the entry function is being run stays true.
LEMMA ExitStep ==
  ASSUME AnalysisInv, RunInv, RunInv', ExitInv, Step
  PROVE  ExitInv'
<1>1. /\ phase = "running" /\ phase' = phase /\ job' = job /\ fns' = fns /\ noret' = noret
      /\ job \in Jobs /\ fns = Bodies(job, noret) /\ noret = HasNoExit(job, fns)
  BY StepStays DEF Stay, analysis, AnalysisInv, Built
<1>2. DataType /\ FramesType /\ OnFunctions
  BY <1>1 DEF RunInv
<1>3. halt = "no" /\ (halt' = "exit" => Depth = 1 /\ pc \in PCs(job) /\ Kind(job, pc) = "exit" /\ UNCHANGED <<pc, frames>>)
  BY ExitAtTop
<1>4. (halt = "exit" => phase = "running" /\ Depth = 1 /\ pc \in PCs(job) /\ Kind(job, pc) = "exit")'
  BY <1>1, <1>3 DEF Depth
<1> DEFINE body == fns[job.entry]
<1>5. /\ Preds(pc)' = Preds(pc')
      /\ \A W : GoesBack(W)' <=> GoesBack(W)
      /\ \A W, d : DefinedBefore(W, d)' <=> DefinedBefore(W, d)
  BY <1>1 DEF Preds, GoesBack, DefinedBefore
<1>6. frames \in Seq(FrameType) /\ Depth = Len(frames) /\ Depth \in Nat /\ Depth >= 1 /\ frames[1].fn = job.entry
  BY <1>2, AnalysisAssumption DEF FramesType, Depth
<1>7. body \subseteq PCs(job) /\ NoTarget \notin PCs(job)
  BY <1>1, BodyFacts, EntriesFacts, JobFacts DEF NoTarget
<1> DEFINE Zeroed == def \in {<<"init">>, <<"zero">>} => regs[0] = 0
           Followed == from \in body /\ (pc \in PCs(job) => pc \in Successors(job, noret)[from])
<1>8. ASSUME Depth' = 1 => Zeroed' /\ from' # NoTarget /\ Followed' /\ LastDefined'
      PROVE  ExitInv'
  BY <1>1, <1>4, <1>8 DEF ExitInv
<1>9. Depth = 1 => /\ Zeroed /\ (from = NoTarget => def = <<"init">>)
                   /\ (from # NoTarget => Followed /\ LastDefined)
  BY <1>1 DEF ExitInv
<1>10. CASE Walking
  <2> SUFFICES ASSUME Depth' = 1 PROVE Zeroed' /\ from' # NoTarget /\ Followed' /\ LastDefined'
    BY <1>8
  <2>1. Depth = 1 /\ from' = pc /\ pc \in PCs(job)
    BY <1>10 DEF Walking, Depth
  <2>2. pc \in body
    BY <1>2, <1>6, <2>1 DEF OnFunctions, TopFrame
  <2>3. from' # NoTarget
    BY <1>7, <2>1
  <2>4. Followed'
    BY <1>1, <1>10, <2>1, <2>2, WalkingFollows
  <2>5. /\ def' = IF R0Write(job, pc) = Quiet THEN def ELSE R0Write(job, pc)
        /\ R0Write(job, pc) = Quiet => regs'[0] = regs[0]
        /\ R0Write(job, pc) = <<"zero">> => regs'[0] = 0
        /\ R0Write(job, pc) # <<"init">>
    BY <1>1, <1>2, <1>10, R0Walk
  <2>6. Zeroed'
    BY <1>9, <2>1, <2>5
  <2> HIDE DEF Zeroed
  <2>7. LastDefined'
    <3>1. CASE R0Write(job, pc) # Quiet
      BY <1>1, <2>1, <2>5, <3>1, Zenon DEF LastDefined, Quiet
    <3>2. CASE R0Write(job, pc) = Quiet
      <4>1. def' = def
        BY <2>5, <3>2
      <4>2. ASSUME def # <<"init">>, NEW W \in SUBSET body, pc \in W, GoesBack(W)
            PROVE  DefinedBefore(W, def)
        <5>1. from # NoTarget /\ Followed /\ LastDefined
          BY <1>9, <2>1, <4>2
        <5>2. from \in Preds(pc)
          BY <2>1, <5>1 DEF Preds
        <5>3. CASE R0Write(job, from) # Quiet
          BY <4>2, <5>1, <5>2, <5>3 DEF LastDefined, DefinedBefore
        <5>4. CASE R0Write(job, from) = Quiet
          <6>1. from \in W
            BY <4>2, <5>2, <5>4 DEF GoesBack
          <6> QED
            BY <4>2, <5>1, <5>4, <6>1 DEF LastDefined
        <5> QED
          BY <5>3, <5>4
      <4>3. def = <<"init">> \/ \A W \in SUBSET body : pc \in W /\ GoesBack(W) => DefinedBefore(W, def)
        BY <4>2
      <4> QED
        BY <1>1, <1>5, <2>1, <3>2, <4>1, <4>3 DEF LastDefined, Quiet
    <3> QED
      BY <3>1, <3>2
  <2> QED
    BY <2>3, <2>4, <2>6, <2>7
<1>11. ASSUME NEW t \in Entries(job), Entering(t) PROVE ExitInv'
  <2>1. frames' = Append(frames, [fn |-> t, back |-> pc + 1, r6 |-> regs[6]])
    BY <1>11 DEF Entering, Enter
  <2>2. Depth' = Depth + 1
    BY <1>6, <2>1 DEF Depth
  <2> QED
    BY <1>6, <1>8, <2>2
<1>12. CASE Returning
  <2> SUFFICES ASSUME Depth' = 1 PROVE Zeroed' /\ from' # NoTarget /\ Followed' /\ LastDefined'
    BY <1>8
  <2>1. /\ frames' = Front(frames) /\ Depth > 1 /\ pc' = TopFrame.back /\ from' = TopFrame.back - 1
        /\ pc \in PCs(job) /\ Kind(job, pc) = "exit"
        /\ def' = IF At(job, TopFrame.back - 1).op = "call" THEN <<"call", TopFrame.fn>> ELSE <<"computed">>
    BY <1>12 DEF Returning, Return
  <2>2. Depth = 2
    <3>1. Len(Front(frames)) = Len(frames) - 1
      BY <1>6, <2>1, Popped
    <3>2. Len(Front(frames)) = 1
      BY <2>1 DEF Depth
    <3>3. Len(frames) \in Nat /\ Depth = Len(frames)
      BY <1>6
    <3>4. Depth - 1 = 1
      BY <3>1, <3>2, <3>3, Zenon
    <3>5. \A n \in Nat : n - 1 = 1 => n = 2
      OBVIOUS
    <3> QED
      BY <1>6, <3>4, <3>5, Zenon
  <2>3. TopFrame \in FrameType /\ TopFrame.fn \in Entries(job) /\ TopFrame.back \in Int
    <3>1. TopFrame \in FrameType
      BY <1>6 DEF TopFrame
    <3> QED
      BY <3>1 DEF FrameType
  <2> DEFINE c == TopFrame.back - 1
  <2>4. CalledFrom(job.entry, TopFrame) /\ c \in body
    BY <1>2, <1>6, <2>2 DEF OnFunctions, CalledFrom, TopFrame
  <2>5. TopFrame.fn \notin noret
    BY <1>1, <1>2, <2>1, <2>3, ExitReturns DEF OnFunctions
  <2>6. R0Write(job, c) = def'
    <3>1. CASE Kind(job, c) = "call" /\ Target(job, c) = TopFrame.fn
      BY <2>1, <3>1, KindFacts DEF R0Write
    <3>2. CASE Kind(job, c) = "callx"
      <4>1. At(job, c).op = "callx"
        BY <3>2, KindFacts
      <4> QED
        BY <2>1, <3>2, <4>1 DEF R0Write
    <3> QED
      BY <2>4, <3>1, <3>2 DEF CalledFrom
  <2>7. def' # Quiet /\ def' \notin {<<"init">>, <<"zero">>}
    BY <2>1 DEF Quiet
  <2>8. LastDefined'
    BY <1>1, <2>1, <2>6, <2>7, Zenon DEF LastDefined, Quiet
  <2>9. c + 1 = TopFrame.back /\ c \in PCs(job)
    BY <1>7, <2>3, <2>4
  <2>10. pc' \in PCs(job) => pc' \in Successors(job, noret)[c]
    BY <1>1, <2>1, <2>4, <2>5, <2>9, ReturnFollows DEF CalledFrom
  <2>11. Followed' /\ from' # NoTarget
    BY <1>1, <1>7, <2>1, <2>4, <2>9, <2>10
  <2> QED
    BY <2>7, <2>8, <2>11
<1>13. CASE Halting
  <2>1. UNCHANGED <<pc, frames, regs, input, def, from, taken, job, fns, noret, phase>>
    BY <1>1, <1>13 DEF Halting
  <2> QED
    BY <1>4, <2>1 DEF ExitInv, Depth, LastDefined, GoesBack, DefinedBefore, Preds
<1> QED
  BY <1>1, <1>10, <1>11, <1>12, <1>13, StepShapes

\* What is known of r0 and of the exit is an invariant.
LEMMA ExitsAreKnown == Spec => []ExitInv
<1>1. Init => ExitInv
  BY DEF Init, ExitInv
<1>2. AnalysisInv /\ RunInv /\ RunInv' /\ ExitInv /\ [Next]_vars => ExitInv'
  <2> SUFFICES ASSUME AnalysisInv, RunInv, RunInv', ExitInv, [Next]_vars PROVE ExitInv'
    OBVIOUS
  <2>1. CASE Refine \/ DiscoverBindings \/ Generate
    <3>1. AtStart /\ halt' = halt /\ phase' # "running"
      BY <2>1 DEF Refine, DiscoverBindings, Generate, AnalysisInv, machine
    <3> QED
      BY <3>1 DEF ExitInv, AtStart
  <2>2. CASE Load
    <3>1. AtStart /\ halt' = halt /\ def' = def /\ from' = from /\ regs' = regs
      BY <2>2 DEF Load, AnalysisInv
    <3>2. Regs0[0] = 0
      BY DEF Regs0, Regs
    <3> QED
      BY <3>1, <3>2 DEF ExitInv, AtStart
  <2>3. CASE Step
    BY <2>3, ExitStep
  <2>4. CASE UNCHANGED vars
    BY <2>4 DEF vars, analysis, machine, ExitInv, Depth, LastDefined, GoesBack, DefinedBefore, Preds
  <2> QED
    BY <2>1, <2>2, <2>3, <2>4 DEF Next, Done
<1> QED
  BY <1>1, <1>2, AnalysisIsDone, RunIsOnFunctions, PTL DEF Spec

\* The definitions r0_defs lists for an edge are the ones a walk back finds.
LEMMA R0DefsFacts ==
  ASSUME job \in Jobs, fns = Bodies(job, noret), NEW f \in fns[job.entry], R0Write(job, f) = Quiet,
         NEW d, \A W \in SUBSET fns[job.entry] : f \in W /\ GoesBack(W) => DefinedBefore(W, d)
  PROVE  d \in R0Defs(job, noret, fns[job.entry], f)
<1> DEFINE body == fns[job.entry]
           succ == Successors(job, noret)
           pred == [p \in body |-> {q \in body : p \in succ[q]}]
           silent == [p \in body |-> {q \in pred[p] : R0Write(job, q) = <<"none">>}]
           walked == Closure(silent, {f})
<1>1. R0Defs(job, noret, body, f) = {R0Write(job, q) : q \in UNION {pred[p] : p \in walked}} \ {<<"none">>}
  BY Zenon DEF R0Defs, Quiet
<1>2. \A p \in body : pred[p] = Preds(p)
  BY DEF Preds
<1>3. silent \in [body -> SUBSET body]
  OBVIOUS
<1>4. IsFiniteSet(body)
  BY BodyFacts, EntriesFacts, JobFacts, FS_Subset
<1>5. \A p \in body : silent[p] = {q \in Preds(p) : R0Write(job, q) = Quiet}
  BY <1>2 DEF Quiet
<1> HIDE DEF silent, body, pred
<1>6. f \in walked /\ walked \subseteq body /\ Closed(silent, walked)
  BY <1>3, <1>4, ClosureFacts DEF body
<1> HIDE DEF walked
<1>7. GoesBack(walked)
  BY <1>5, <1>6 DEF GoesBack, Closed
<1>8. DefinedBefore(walked, d)
  BY <1>6, <1>7 DEF body
<1> QED
  BY <1>1, <1>2, <1>6, <1>8 DEF DefinedBefore, Quiet, body

\* The exit of the program is reached along a listed edge, r0 was defined last by
\* one of the definitions given for it, and on a success edge r0 is zero.
THEOREM ExitClassified == Spec => []ExitIsClassified
<1>1. AnalysisInv /\ RunInv /\ ExitInv => ExitIsClassified
  <2> SUFFICES ASSUME AnalysisInv, RunInv, ExitInv, halt = "exit", from # NoTarget
               PROVE  \E e \in edges : /\ e.from = from /\ def \in e.r0 \cup {<<"init">>}
                                       /\ IsSuccess(e) => regs[0] = 0
    BY DEF ExitIsClassified
  <2> DEFINE body == fns[job.entry]
             r == R0Defs(job, noret, body, from)
             e == [from |-> from, r0 |-> r]
  <2>1. /\ job \in Jobs /\ fns = Bodies(job, noret) /\ edges = ExitEdges(job, noret, fns)
        /\ phase = "running" /\ Depth = 1 /\ pc \in PCs(job) /\ Kind(job, pc) = "exit"
    BY DEF AnalysisInv, ExitInv, Built
  <2>2. /\ def \in {<<"init">>, <<"zero">>} => regs[0] = 0
        /\ from \in body /\ pc \in Successors(job, noret)[from] /\ LastDefined
    BY <2>1 DEF ExitInv
  <2>3. pc \in body
    BY <2>1 DEF RunInv, OnFunctions, TopFrame, FramesType
  <2>4. e \in edges
    <3> HIDE DEF r
    <3>1. <<from, pc>> \in {x \in body \X body : Kind(job, x[2]) = "exit" /\ x[2] \in Successors(job, noret)[x[1]]}
      BY <2>1, <2>2, <2>3
    <3>2. e = [from |-> <<from, pc>>[1], r0 |-> R0Defs(job, noret, body, <<from, pc>>[1])]
      BY DEF r
    <3> QED
      BY <2>1, <3>1, <3>2, Zenon DEF ExitEdges
  <2>5. def \in r \cup {<<"init">>}
    <3>1. CASE R0Write(job, from) # Quiet
      BY <2>2, <3>1 DEF LastDefined, R0Defs, Quiet
    <3>2. CASE R0Write(job, from) = Quiet
      BY <2>1, <2>2, <3>2, R0DefsFacts DEF LastDefined
    <3> QED
      BY <3>1, <3>2
  <2>6. IsSuccess(e) => regs[0] = 0
    BY <2>2, <2>5 DEF IsSuccess
  <2> QED
    BY <2>4, <2>5, <2>6
<1> QED
  BY <1>1, AnalysisIsDone, RunIsOnFunctions, ExitsAreKnown, PTL
-----------------------------------------------------------------------------
(* Paths over a graph and the edges they take.                                 *)

\* Ts are edges of the graph G that lead to the nodes V.
Trace(j, G, Ts, V) ==
  \A x \in Ts : x = <<x[1], x[2]>> /\ x[1] \in PCs(j) /\ x[2] \in G[x[1]] /\ x[2] \in V
\* The edges Ts lead from every node of V to e.
LeadTo(j, Ts, V, e) ==
  \A C \in SUBSET PCs(j) : (\E v \in V : v \in C) /\ (\A x \in Ts : x[1] \in C => x[2] \in C) => e \in C

\* What is reached forward, without going on at the stops.
LEMMA ReachFacts ==
  ASSUME NEW j \in Jobs, NEW G \in [PCs(j) -> SUBSET PCs(j)], NEW s \in PCs(j), NEW stops
  PROVE  /\ s \in GReach(G, s, stops) /\ GReach(G, s, stops) \subseteq PCs(j)
         /\ \A p \in GReach(G, s, stops) : p \notin stops => G[p] \subseteq GReach(G, s, stops)
<1> DEFINE next == [p \in DOMAIN G |-> IF p \in stops THEN {} ELSE G[p]]
<1>1. next \in [PCs(j) -> SUBSET PCs(j)] /\ IsFiniteSet(PCs(j)) /\ {s} \in SUBSET PCs(j)
  BY JobFacts
<1>2. \A p \in PCs(j) : p \notin stops => next[p] = G[p]
  OBVIOUS
<1>3. GReach(G, s, stops) = Closure(next, {s})
  BY DEF GReach
<1> HIDE DEF next
<1>4. {s} \subseteq Closure(next, {s}) /\ Closure(next, {s}) \subseteq PCs(j) /\ Closed(next, Closure(next, {s}))
  BY <1>1, ClosureFacts
<1> QED
  BY <1>2, <1>3, <1>4 DEF Closed

\* What is reached backward.
LEMMA ReachBackFacts ==
  ASSUME NEW j \in Jobs, NEW G \in [PCs(j) -> SUBSET PCs(j)], NEW e \in PCs(j)
  PROVE  /\ e \in GReachBack(G, e) /\ GReachBack(G, e) \subseteq PCs(j)
         /\ \A p \in PCs(j) : \A q \in G[p] : q \in GReachBack(G, e) => p \in GReachBack(G, e)
<1> DEFINE next == [p \in DOMAIN G |-> {q \in DOMAIN G : p \in G[q]}]
<1>1. next \in [PCs(j) -> SUBSET PCs(j)] /\ IsFiniteSet(PCs(j)) /\ {e} \in SUBSET PCs(j)
  BY JobFacts
<1>2. \A p \in PCs(j) : \A q \in G[p] : p \in next[q]
  OBVIOUS
<1>3. GReachBack(G, e) = Closure(next, {e})
  BY DEF GReachBack
<1> HIDE DEF next
<1>4. {e} \subseteq Closure(next, {e}) /\ Closure(next, {e}) \subseteq PCs(j) /\ Closed(next, Closure(next, {e}))
  BY <1>1, ClosureFacts
<1> DEFINE B == Closure(next, {e})
<1> HIDE DEF B
<1>5. ASSUME NEW p \in PCs(j), NEW q \in G[p], q \in B PROVE p \in B
  BY <1>2, <1>4, <1>5 DEF Closed, B
<1> QED
  BY <1>3, <1>4, <1>5 DEF B

\* A branch Graph::guards lists between s and e is passed by a path over s to e, on
\* the side listed and on no other.
LEMMA GuardPassed ==
  ASSUME NEW j \in Jobs, NEW G \in [PCs(j) -> SUBSET PCs(j)], NEW Ts, NEW V, NEW s \in V, s \in PCs(j),
         NEW e \in PCs(j), Trace(j, G, Ts, V), LeadTo(j, Ts, V, e),
         \A p \in PCs(j) : Kind(j, p) = "branch" => G[p] \subseteq {Target(j, p), p + 1},
         NEW g \in Guards(j, G, s, e)
  PROVE  /\ g.pc \in PCs(j) /\ Kind(j, g.pc) = "branch" /\ Target(j, g.pc) # g.pc + 1
         /\ <<g.pc, g.on>> \in Ts
         /\ \A q : <<g.pc, q>> \in Ts => q = g.on
<1> DEFINE back == GReachBack(G, e)
           sides(p) == {q \in {Target(j, p), p + 1} : q \in back}
<1>1. PICK p : /\ p \in GReach(G, s, {}) /\ p # e /\ p \in back /\ Kind(j, p) = "branch"
               /\ Target(j, p) # p + 1 /\ Cardinality(sides(p)) = 1
               /\ e \notin GReach(G, s, {p})
               /\ g = [pc |-> p, on |-> CHOOSE q \in sides(p) : TRUE]
  BY Zenon DEF Guards
<1>2. e \in back /\ back \subseteq PCs(j) /\ \A x \in PCs(j) : \A q \in G[x] : q \in back => x \in back
  BY ReachBackFacts
<1> HIDE DEF back
<1>3. p \in PCs(j)
  BY <1>1, <1>2
<1>4. PICK x : sides(p) = {x}
  <2>1. IsFiniteSet({Target(j, p), p + 1})
    <3>1. IsFiniteSet({Target(j, p)} \cup {p + 1})
      BY FS_Singleton, FS_AddElement
    <3>2. {Target(j, p)} \cup {p + 1} = {Target(j, p), p + 1}
      OBVIOUS
    <3> QED
      BY <3>1, <3>2
  <2>2. sides(p) \in SUBSET {Target(j, p), p + 1}
    OBVIOUS
  <2>3. IsFiniteSet(sides(p))
    BY <2>1, <2>2, FS_Subset
  <2> HIDE DEF sides
  <2> QED
    BY <1>1, <2>3, FS_Singleton
<1>5. g.pc = p /\ g.on = x
  <2>1. (CHOOSE q \in sides(p) : TRUE) = x
    BY <1>4
  <2> HIDE DEF sides
  <2> QED
    BY <1>1, <2>1
<1>6. ASSUME NEW q, <<p, q>> \in Ts PROVE q = x
  <2>1. q \in G[p] /\ q \in V /\ q \in PCs(j)
    BY <1>3, <1>6 DEF Trace
  <2>2. q \in back
    <3> DEFINE C == PCs(j) \ back
    <3> SUFFICES ASSUME q \in C PROVE FALSE
      BY <2>1
    <3>1. ASSUME NEW y \in Ts, y[1] \in C PROVE y[2] \in C
      BY <1>2, <3>1 DEF Trace
    <3>2. e \in C
      BY <2>1, <3>1 DEF LeadTo
    <3> QED
      BY <1>2, <3>2
  <2>3. q \in {Target(j, p), p + 1}
    BY <1>1, <1>3, <2>1
  <2> QED
    BY <1>4, <2>2, <2>3
<1>7. \E q : <<p, q>> \in Ts
  <2> SUFFICES ASSUME \A q : <<p, q>> \notin Ts PROVE FALSE
    OBVIOUS
  <2> DEFINE C == GReach(G, s, {p})
  <2>1. s \in C /\ C \subseteq PCs(j) /\ \A y \in C : y \notin {p} => G[y] \subseteq C
    BY ReachFacts
  <2> HIDE DEF C
  <2>2. ASSUME NEW y \in Ts, y[1] \in C PROVE y[2] \in C
    <3>1. y[1] # p
      BY DEF Trace
    <3> QED
      BY <2>1, <2>2, <3>1 DEF Trace
  <2>3. e \in C
    BY <2>1, <2>2 DEF LeadTo
  <2> QED
    BY <1>1, <2>3 DEF C
<1> QED
  BY <1>1, <1>3, <1>5, <1>6, <1>7
-----------------------------------------------------------------------------
(* The entry function's path: where it stands while its calls run.             *)

Site == IF Depth = 1 THEN pc ELSE frames[2].back - 1
ReachInv ==
  phase = "running" /\ NoIndirectCall => \A i \in 1 .. Depth : frames[i].fn \in ReachableFunctions(job, fns)

\* The functions calls lead to, and no indirect call among them.
LEMMA ReachableFacts ==
  ASSUME job \in Jobs, fns = Bodies(job, noret)
  PROVE  /\ job.entry \in ReachableFunctions(job, fns) /\ ReachableFunctions(job, fns) \subseteq Entries(job)
         /\ \A f \in ReachableFunctions(job, fns) : \A p \in fns[f] :
              /\ Kind(job, p) = "call" => Target(job, p) \in ReachableFunctions(job, fns)
              /\ NoIndirectCall => Kind(job, p) # "callx"
<1> DEFINE D == Entries(job)
           next == [f \in DOMAIN fns |-> {Target(job, p) : p \in {q \in fns[f] : Kind(job, q) = "call"}}]
           R == Closure(next, {job.entry})
<1>1. DOMAIN fns = D /\ IsFiniteSet(D) /\ job.entry \in D
  BY EntriesFacts DEF Bodies
<1>2. \A f \in D : next[f] = {Target(job, p) : p \in {q \in fns[f] : Kind(job, q) = "call"}}
  BY <1>1
<1>3. \A f \in D : next[f] \subseteq D
  BY <1>2, BodyFacts, EntriesFacts
<1>4. next \in [D -> SUBSET D]
  BY <1>1, <1>3
<1>5. ReachableFunctions(job, fns) = R
  BY DEF ReachableFunctions
<1> HIDE DEF next, D
<1>6. job.entry \in R /\ R \subseteq D /\ Closed(next, R)
  BY <1>1, <1>4, ClosureFacts
<1> HIDE DEF R
<1>7. ASSUME NEW f \in R, NEW p \in fns[f], Kind(job, p) = "call" PROVE Target(job, p) \in R
  <2>1. Target(job, p) \in next[f] /\ next[f] \subseteq R
    BY <1>2, <1>6, <1>7 DEF Closed
  <2> QED
    BY <2>1
<1>8. ASSUME NEW f \in R, NEW p \in fns[f], NoIndirectCall PROVE Kind(job, p) # "callx"
  BY <1>5, <1>8 DEF NoIndirectCall, ReachableCallx
<1> QED
  BY <1>5, <1>6, <1>7, <1>8 DEF D

\* Only functions that calls lead to are run in a program without indirect calls.
LEMMA ReachStep ==
  ASSUME AnalysisInv, RunInv, ReachInv, Step
  PROVE  ReachInv'
<1>1. /\ phase = "running" /\ phase' = phase /\ job' = job /\ fns' = fns /\ noret' = noret
      /\ job \in Jobs /\ fns = Bodies(job, noret)
  BY StepStays DEF Stay, analysis, AnalysisInv, Built
<1>2. FramesType /\ OnFunctions
  BY <1>1 DEF RunInv
<1> DEFINE R == ReachableFunctions(job, fns)
<1>3. R' = R /\ (NoIndirectCall' <=> NoIndirectCall)
  BY <1>1 DEF NoIndirectCall
<1> SUFFICES ASSUME NoIndirectCall PROVE \A i \in 1 .. Len(frames') : frames'[i].fn \in R
  BY <1>3 DEF ReachInv, Depth
<1>4. frames \in Seq(FrameType) /\ Depth = Len(frames) /\ Depth \in Nat /\ Depth >= 1
  BY <1>2, AnalysisAssumption DEF FramesType, Depth
<1>5. \A i \in 1 .. Depth : frames[i].fn \in R
  BY <1>1 DEF ReachInv
<1> HIDE DEF R
<1>6. CASE Walking \/ Halting
  BY <1>4, <1>5, <1>6 DEF Walking, Halting
<1>7. ASSUME NEW t \in Entries(job), Entering(t) PROVE \A i \in 1 .. Len(frames') : frames'[i].fn \in R
  <2> DEFINE x == [fn |-> t, back |-> pc + 1, r6 |-> regs[6]]
  <2>1. frames' = Append(frames, x) /\ pc \in PCs(job)
    BY <1>7 DEF Entering, Enter
  <2>2. TopFrame.fn \in R /\ pc \in fns[TopFrame.fn]
    BY <1>2, <1>4, <1>5, <2>1 DEF OnFunctions, TopFrame
  <2>3. Kind(job, pc) = "call" /\ t = Target(job, pc)
    BY <1>1, <1>7, <2>2, ReachableFacts DEF Entering, R
  <2>4. t \in R
    BY <1>1, <2>2, <2>3, ReachableFacts DEF R
  <2>5. x.fn \in R
    BY <2>4
  <2> HIDE DEF x
  <2> QED
    BY <1>4, <1>5, <2>1, <2>5
<1>8. CASE Returning
  <2>1. frames' = Front(frames) /\ Len(frames) > 1
    BY <1>4, <1>8 DEF Returning, Return
  <2>2. Len(frames') = Depth - 1 /\ \A i \in 1 .. Depth - 1 : frames'[i] = frames[i]
    BY <1>4, <2>1, Popped
  <2> QED
    BY <1>4, <1>5, <2>2
<1> QED
  BY <1>1, <1>6, <1>7, <1>8, StepShapes

\* The functions of the frames are reachable ones.
LEMMA RunIsReachable == Spec => []ReachInv
<1>1. Init => ReachInv
  BY DEF Init, ReachInv
<1>2. AnalysisInv /\ RunInv /\ ReachInv /\ [Next]_vars => ReachInv'
  <2> SUFFICES ASSUME AnalysisInv, RunInv, ReachInv, [Next]_vars PROVE ReachInv'
    OBVIOUS
  <2>1. CASE Refine \/ DiscoverBindings \/ Generate
    BY <2>1 DEF Refine, DiscoverBindings, Generate, ReachInv
  <2>2. CASE Load
    <3>1. job' = job /\ fns' = fns /\ job \in Jobs /\ fns = Bodies(job, noret) /\ frames' = <<Frame0>>
      BY <2>2 DEF Load, AnalysisInv, AtStart, Built
    <3>2. Frame0.fn = job.entry
      BY DEF Frame0
    <3> DEFINE x == Frame0
    <3> HIDE DEF x
    <3>3. Len(frames') = 1 /\ frames'[1].fn = job.entry
      BY <3>1, <3>2 DEF x
    <3> QED
      BY <3>1, <3>3, ReachableFacts DEF ReachInv, Depth
  <2>3. CASE Step
    BY <2>3, ReachStep
  <2>4. CASE UNCHANGED vars
    BY <2>4 DEF vars, analysis, machine, ReachInv, Depth, NoIndirectCall
  <2> QED
    BY <2>1, <2>2, <2>3, <2>4 DEF Next, Done
<1> QED
  BY <1>1, <1>2, AnalysisIsDone, RunIsOnFunctions, PTL DEF Spec

\* The entry function goes from its site along an edge of the graph.
Advance ==
  /\ Site \in PCs(job) /\ Site' \in graph[Site] /\ taken' = taken \cup {<<Site, Site'>>}
  /\ Depth' = 1 /\ Site' = pc'
Pause == Site' = Site /\ taken' = taken

\* A step takes the entry function along the graph, or does not move it: it calls,
\* or one of its calls runs on.
LEMMA SiteStep ==
  ASSUME AnalysisInv, RunInv, ReachInv, NoIndirectCall, Step
  PROVE  \/ Depth = 1 /\ Walking /\ Site = pc /\ Advance
         \/ Depth = 2 /\ Returning /\ Kind(job, Site) = "call" /\ Site' = Site + 1 /\ Advance
         \/ Halting /\ Pause
         \/ Depth = 1 /\ Depth' = 2 /\ Kind(job, pc) = "call" /\ frames'[2].r6 = regs[6] /\ Pause
         \/ Depth >= 2 /\ Depth' >= 2 /\ frames'[2] = frames[2] /\ Pause
<1>1. /\ phase = "running" /\ job \in Jobs /\ fns = Bodies(job, noret) /\ noret = HasNoExit(job, fns)
      /\ witness = NoReturnWitness(job, noret, fns) /\ graph = GraphSucc(job, witness.heads)
  BY StepStays DEF AnalysisInv, Built
<1>2. DataType /\ FramesType /\ OnFunctions
  BY <1>1 DEF RunInv
<1>3. witness.heads \subseteq noret
  BY <1>1, HeadsAreNoReturn, JobFacts
<1>4. frames \in Seq(FrameType) /\ Depth = Len(frames) /\ Depth \in Nat /\ Depth >= 1
  BY <1>2, AnalysisAssumption DEF FramesType, Depth
<1>5. \A i \in 1 .. Depth : frames[i].fn \in ReachableFunctions(job, fns) /\ frames[i].fn \in Entries(job)
  BY <1>1, ReachableFacts DEF ReachInv
<1>6. Depth' = Len(frames')
  BY DEF Depth
<1>7. CASE Walking
  <2>1. frames' = frames /\ pc \in PCs(job) /\ taken' = IF Depth = 1 THEN taken \cup {<<pc, pc'>>} ELSE taken
    BY <1>7 DEF Walking
  <2>2. CASE Depth = 1
    BY <1>1, <1>6, <1>7, <2>1, <2>2, WalkingFollows DEF Advance, Site, Depth
  <2>3. CASE Depth # 1
    <3>1. Depth >= 2 /\ Depth' = Depth
      BY <1>4, <1>6, <2>1, <2>3
    <3>2. Site' = Site /\ taken' = taken
      BY <2>1, <2>3, <3>1 DEF Site
    <3> QED
      BY <2>1, <3>1, <3>2 DEF Pause
  <2> QED
    BY <2>2, <2>3
<1>8. ASSUME NEW t \in Entries(job), Entering(t)
      PROVE  \/ Depth = 1 /\ Depth' = 2 /\ Kind(job, pc) = "call" /\ frames'[2].r6 = regs[6] /\ Pause
             \/ Depth >= 2 /\ Depth' >= 2 /\ frames'[2] = frames[2] /\ Pause
  <2> DEFINE x == [fn |-> t, back |-> pc + 1, r6 |-> regs[6]]
  <2>1. frames' = Append(frames, x) /\ pc \in PCs(job) /\ taken' = taken
    BY <1>8 DEF Entering, Enter
  <2>2. pc \in Int /\ regs[6] \in Words
    BY <1>2 DEF FramesType, DataType, Regs
  <2>3. x \in FrameType /\ x.back - 1 = pc /\ x.r6 = regs[6]
    BY <2>2 DEF FrameType
  <2> HIDE DEF x
  <2>4. Len(frames') = Depth + 1 /\ frames'[Depth + 1] = x /\ \A i \in 1 .. Depth : frames'[i] = frames[i]
    BY <1>4, <2>1, <2>3, Pushed
  <2>5. CASE Depth = 1
    <3>1. pc \in fns[frames[1].fn] /\ frames[1].fn \in ReachableFunctions(job, fns)
      BY <1>2, <1>5, <2>1, <2>5 DEF OnFunctions, TopFrame
    <3>2. Kind(job, pc) = "call"
      BY <1>1, <1>8, <3>1, ReachableFacts DEF Entering
    <3>3. Depth' = 2 /\ frames'[2] = x
      BY <1>6, <2>4, <2>5
    <3>4. Site' = pc /\ Site = pc
      BY <2>3, <2>5, <3>3 DEF Site
    <3> QED
      BY <2>1, <2>3, <2>5, <3>2, <3>3, <3>4 DEF Pause
  <2>6. CASE Depth # 1
    <3>1. Depth >= 2 /\ Depth' >= 2 /\ Depth' # 1 /\ frames'[2] = frames[2]
      BY <1>4, <1>6, <2>4, <2>6
    <3> QED
      BY <2>1, <2>6, <3>1 DEF Pause, Site
  <2> QED
    BY <2>5, <2>6
<1>9. CASE Returning
  <2>1. /\ frames' = Front(frames) /\ Depth > 1 /\ pc' = TopFrame.back /\ pc \in PCs(job) /\ Kind(job, pc) = "exit"
        /\ taken' = IF Depth = 2 THEN taken \cup {<<TopFrame.back - 1, TopFrame.back>>} ELSE taken
    BY <1>9 DEF Returning, Return
  <2>2. Len(frames') = Depth - 1 /\ \A i \in 1 .. Depth - 1 : frames'[i] = frames[i]
    BY <1>4, <2>1, Popped
  <2>3. CASE Depth = 2
    <3> DEFINE c == TopFrame.back - 1
               f == frames[1].fn
    <3>1. TopFrame = frames[2] /\ Site = c
      BY <2>3 DEF TopFrame, Site
    <3>2. CalledFrom(f, TopFrame) /\ f \in Entries(job) /\ f \in ReachableFunctions(job, fns)
      BY <1>2, <1>5, <2>3, <3>1 DEF OnFunctions
    <3>3. TopFrame.back \in Int /\ TopFrame.fn \in Entries(job)
      <4>0. \A i \in 1 .. Depth : frames[i] \in FrameType
        BY <1>4
      <4>1. TopFrame \in FrameType
        BY <2>3, <3>1, <4>0
      <4> QED
        BY <4>1 DEF FrameType
    <3>4. c \in fns[f] /\ c \in PCs(job) /\ c + 1 = TopFrame.back
      BY <1>1, <3>2, <3>3, BodyFacts DEF CalledFrom
    <3>5. Kind(job, c) = "call" /\ Target(job, c) = TopFrame.fn
      BY <1>1, <3>2, <3>4, ReachableFacts DEF CalledFrom
    <3>6. TopFrame.fn \notin witness.heads
      BY <1>1, <1>2, <1>3, <2>1, <3>3, ExitReturns DEF OnFunctions
    <3>7. c + 1 \in graph[c]
      BY <1>1, <3>4, <3>5, <3>6 DEF GraphSucc
    <3>8. Depth' = 1 /\ Site' = pc'
      BY <1>6, <2>2, <2>3 DEF Site
    <3> HIDE DEF c
    <3>9. pc' = c + 1 /\ taken' = taken \cup {<<c, pc'>>}
      BY <2>1, <2>3, <3>4 DEF c
    <3> QED
      BY <1>9, <2>3, <3>1, <3>4, <3>5, <3>7, <3>8, <3>9 DEF Advance
  <2>4. CASE Depth # 2
    <3>1. Depth >= 2 /\ Depth' >= 2 /\ Depth' # 1 /\ Depth # 1 /\ frames'[2] = frames[2] /\ taken' = taken
      BY <1>4, <1>6, <2>1, <2>2, <2>4
    <3> QED
      BY <3>1 DEF Pause, Site
  <2> QED
    BY <2>3, <2>4
<1>10. CASE Halting
  BY <1>10 DEF Halting, Pause, Site, Depth
<1> QED
  BY <1>1, <1>7, <1>8, <1>9, <1>10, StepShapes

GraphOk == NoIndirectCall /\ ~ GraphError(job, witness.heads)
NodesOf(start, Ts) == {start} \cup {x[2] : x \in Ts}
Visited == NodesOf(job.entry, taken)
PathInv ==
  phase = "running" /\ GraphOk =>
    /\ Site \in PCs(job)
    /\ Trace(job, graph, taken, Visited) /\ LeadTo(job, taken, Visited, Site)
    /\ \A v \in Visited : \A g \in Guards(job, graph, job.entry, v) : <<g.pc, g.on>> \in taken

\* A graph without an error is one of instructions; a branch has two successors.
LEMMA GraphFacts ==
  ASSUME NEW j \in Jobs, NEW hs, ~ GraphError(j, hs)
  PROVE  /\ GraphSucc(j, hs) \in [PCs(j) -> SUBSET PCs(j)]
         /\ \A p \in PCs(j) : Kind(j, p) = "branch" => GraphSucc(j, hs)[p] = {Target(j, p), p + 1}
<1>1. \A p \in PCs(j) : GraphSucc(j, hs)[p] \subseteq PCs(j)
  BY DEF GraphError
<1>2. GraphSucc(j, hs) = [p \in PCs(j) |-> GraphSucc(j, hs)[p]]
  BY DEF GraphSucc
<1>3. ASSUME NEW p \in PCs(j), Kind(j, p) = "branch" PROVE GraphSucc(j, hs)[p] = {Target(j, p), p + 1}
  BY <1>3 DEF GraphSucc
<1> QED
  BY <1>1, <1>2, <1>3

\* One more edge of a path.
LEMMA TraceGrows ==
  ASSUME NEW j, NEW G, NEW start, NEW Ts, NEW s \in PCs(j), NEW q \in G[s], NEW Ts2, Ts2 = Ts \cup {<<s, q>>},
         Trace(j, G, Ts, NodesOf(start, Ts)), LeadTo(j, Ts, NodesOf(start, Ts), s)
  PROVE  /\ NodesOf(start, Ts2) = NodesOf(start, Ts) \cup {q}
         /\ Trace(j, G, Ts2, NodesOf(start, Ts2)) /\ LeadTo(j, Ts2, NodesOf(start, Ts2), q)
<1> DEFINE V == NodesOf(start, Ts)
           V2 == NodesOf(start, Ts2)
<1>1. V2 = V \cup {q}
  <2>1. <<s, q>>[2] = q
    OBVIOUS
  <2>2. {x[2] : x \in Ts2} = {x[2] : x \in Ts} \cup {q}
    BY <2>1, Zenon
  <2> QED
    BY <2>2, Zenon DEF NodesOf
<1>2. Trace(j, G, Ts2, V2)
  <2> HIDE DEF V, V2
  <2>1. ASSUME NEW x \in Ts2
        PROVE  x = <<x[1], x[2]>> /\ x[1] \in PCs(j) /\ x[2] \in G[x[1]] /\ x[2] \in V2
    <3>1. CASE x \in Ts
      BY <1>1, <3>1 DEF Trace, V
    <3>2. CASE x = <<s, q>>
      BY <1>1, <3>2
    <3> QED
      BY <3>1, <3>2
  <2> QED
    BY <2>1, Zenon DEF Trace, V2
<1>3. LeadTo(j, Ts2, V2, q)
  <2> SUFFICES ASSUME NEW C \in SUBSET PCs(j), \E v \in V2 : v \in C, \A x \in Ts2 : x[1] \in C => x[2] \in C
               PROVE  q \in C
    BY Zenon DEF LeadTo
  <2>1. s \in C => q \in C
    <3>1. <<s, q>> \in Ts2 /\ <<s, q>>[1] = s /\ <<s, q>>[2] = q
      OBVIOUS
    <3> QED
      BY <3>1
  <2>2. CASE q \notin C
    <3>1. \E v \in V : v \in C
      BY <1>1, <2>2
    <3>2. s \in C
      BY <3>1 DEF LeadTo
    <3> QED
      BY <2>1, <3>2
  <2> QED
    BY <2>2
<1> QED
  BY <1>1, <1>2, <1>3

\* The path of the entry function is one of the graph, and it has passed the guards
\* of every instruction it got to.
LEMMA PathStep ==
  ASSUME AnalysisInv, RunInv, ReachInv, PathInv, Step
  PROVE  PathInv'
<1>1. /\ phase = "running" /\ phase' = phase /\ UNCHANGED <<job, fns, witness, graph>>
      /\ job \in Jobs /\ graph = GraphSucc(job, witness.heads)
  BY StepStays DEF Stay, analysis, AnalysisInv, Built
<1>2. GraphOk' <=> GraphOk
  BY <1>1 DEF GraphOk, NoIndirectCall
<1> SUFFICES ASSUME GraphOk PROVE PathInv'
  BY <1>2 DEF PathInv
<1>3. /\ Site \in PCs(job)
      /\ Trace(job, graph, taken, Visited) /\ LeadTo(job, taken, Visited, Site)
      /\ \A v \in Visited : \A g \in Guards(job, graph, job.entry, v) : <<g.pc, g.on>> \in taken
  BY <1>1 DEF PathInv
<1>4. CASE Pause
  BY <1>1, <1>3, <1>4 DEF Pause, PathInv, Visited
<1>5. CASE Advance
  <2> DEFINE V2 == NodesOf(job.entry, taken')
             q == Site'
  <2>1. Site \in PCs(job) /\ q \in graph[Site] /\ taken' = taken \cup {<<Site, q>>}
    BY <1>5 DEF Advance
  <2>2. graph \in [PCs(job) -> SUBSET PCs(job)]
        /\ \A p \in PCs(job) : Kind(job, p) = "branch" => graph[p] = {Target(job, p), p + 1}
    BY <1>1, GraphFacts DEF GraphOk
  <2>3. q \in PCs(job)
    BY <2>1, <2>2
  <2> HIDE DEF q
  <2>4. V2 = Visited \cup {q} /\ Trace(job, graph, taken', V2) /\ LeadTo(job, taken', V2, q)
    BY <1>3, <2>1, TraceGrows DEF Visited
  <2>5. job.entry \in V2 /\ job.entry \in PCs(job)
    BY <1>1, JobFacts DEF NodesOf
  <2> HIDE DEF V2
  <2>6. ASSUME NEW v \in V2, NEW g \in Guards(job, graph, job.entry, v) PROVE <<g.pc, g.on>> \in taken'
    <3>1. CASE v \in Visited
      BY <1>3, <2>1, <3>1
    <3>2. CASE v = q
      BY <1>1, <2>2, <2>3, <2>4, <2>5, <3>2, GuardPassed
    <3> QED
      BY <2>4, <3>1, <3>2
  <2>7. Visited' = V2
    BY <1>1 DEF V2, Visited
  <2> QED
    BY <1>1, <2>3, <2>4, <2>6, <2>7 DEF PathInv, q
<1> QED
  BY <1>4, <1>5, SiteStep DEF GraphOk

\* The path is an invariant.
LEMMA RunIsAPath == Spec => []PathInv
<1>1. Init => PathInv
  BY DEF Init, PathInv
<1>2. AnalysisInv /\ RunInv /\ ReachInv /\ PathInv /\ [Next]_vars => PathInv'
  <2> SUFFICES ASSUME AnalysisInv, RunInv, ReachInv, PathInv, [Next]_vars PROVE PathInv'
    OBVIOUS
  <2>1. CASE Refine \/ DiscoverBindings \/ Generate
    BY <2>1 DEF Refine, DiscoverBindings, Generate, PathInv
  <2>2. CASE Load
    <3>1. UNCHANGED <<job, fns, witness, graph>> /\ job \in Jobs /\ graph = GraphSucc(job, witness.heads)
          /\ frames' = <<Frame0>> /\ pc' = job.entry /\ taken' = {}
      BY <2>2 DEF Load, AnalysisInv, AtStart, Built
    <3> DEFINE x == Frame0
    <3> HIDE DEF x
    <3>2. Len(frames') = 1
      BY <3>1 DEF x
    <3>3. Site' = job.entry /\ job.entry \in PCs(job)
      BY <3>1, <3>2, JobFacts DEF Site, Depth
    <3>4. Visited' = {job.entry}
      BY <3>1 DEF Visited, NodesOf
    <3>5. GraphOk' <=> GraphOk
      BY <3>1 DEF GraphOk, NoIndirectCall
    <3>6. Trace(job, graph, {}, {job.entry}) /\ LeadTo(job, {}, {job.entry}, job.entry)
      BY DEF Trace, LeadTo
    <3>7. ASSUME GraphOk PROVE Guards(job, graph, job.entry, job.entry) = {}
      <4>1. graph \in [PCs(job) -> SUBSET PCs(job)]
        BY <3>1, <3>7, GraphFacts DEF GraphOk
      <4>2. \A q : job.entry \in GReach(graph, job.entry, {q})
        BY <3>1, <3>3, <4>1, ReachFacts
      <4> QED
        BY <4>2, Zenon DEF Guards
    <3>8. ASSUME GraphOk PROVE \A v \in Visited' : \A g \in Guards(job, graph, job.entry, v) : <<g.pc, g.on>> \in taken'
      BY <3>4, <3>7, <3>8
    <3> QED
      BY <3>1, <3>3, <3>4, <3>5, <3>6, <3>8 DEF PathInv
  <2>3. CASE Step
    BY <2>3, PathStep
  <2>4. CASE UNCHANGED vars
    BY <2>4 DEF vars, analysis, machine, PathInv, Site, Visited, Depth, GraphOk, NoIndirectCall
  <2> QED
    BY <2>1, <2>2, <2>3, <2>4 DEF Next, Done
<1> QED
  BY <1>1, <1>2, AnalysisIsDone, RunIsOnFunctions, RunIsReachable, PTL DEF Spec

\* A branch Graph::guards lists for a success edge is passed by every run that
\* reaches the edge, on the side listed and on no other.
THEOREM GuardsPassed == Spec => []GuardsArePassed
<1>1. AnalysisInv /\ PathInv => GuardsArePassed
  <2> SUFFICES ASSUME AnalysisInv, PathInv, AtTop, ~ GraphError(job, witness.heads),
                      NEW g \in Guards(job, graph, job.entry, pc)
               PROVE  <<g.pc, g.on>> \in taken /\ \A q \in PCs(job) \ {g.on} : <<g.pc, q>> \notin taken
    BY DEF GuardsArePassed
  <2>1. /\ GraphOk /\ phase = "running" /\ pc \in PCs(job) /\ Site = pc
        /\ job \in Jobs /\ graph = GraphSucc(job, witness.heads)
    BY DEF AtTop, GraphOk, Site, AnalysisInv, Built
  <2>2. graph \in [PCs(job) -> SUBSET PCs(job)]
        /\ \A p \in PCs(job) : Kind(job, p) = "branch" => graph[p] = {Target(job, p), p + 1}
    BY <2>1, GraphFacts DEF GraphOk
  <2>3. job.entry \in Visited /\ job.entry \in PCs(job)
    BY <2>1, JobFacts DEF Visited, NodesOf
  <2>4. Trace(job, graph, taken, Visited) /\ LeadTo(job, taken, Visited, pc)
    BY <2>1 DEF PathInv
  <2> QED
    BY <2>1, <2>2, <2>3, <2>4, GuardPassed
<1> QED
  BY <1>1, AnalysisIsDone, RunIsAPath, PTL
-----------------------------------------------------------------------------
(* Abstract values.                                                            *)

\* v is an abstract value and it is true of x.
Describes(v, x) ==
  \/ v = Top
  \/ v = Fp /\ x = StackTop
  \/ v = <<"const", x>>
  \/ \E o \in Nat : v = InPtr(o) /\ x = InputStart + o
  \/ \E w \in {"byte", "dword"}, o \in Nat :
       v = InLoad(w, o) /\ o + WidthBytes(w) <= Len(input0) /\ x = ReadInput(input0, o, w)
Assumed(asm) == DOMAIN asm \subseteq Nat /\ \A i \in DOMAIN asm : Holds(asm[i])

\* What the tag of an abstract value says.
LEMMA TagFacts ==
  ASSUME NEW v, NEW x, Describes(v, x)
  PROVE  /\ v[1] \in {"top", "fp", "const", "inptr", "inload"}
         /\ v[1] = "top" => v = Top
         /\ v[1] = "fp" => v = Fp /\ x = StackTop
         /\ v[1] = "const" => x = v[2]
         /\ v[1] = "inptr" => v[2] \in Nat /\ x = InputStart + v[2]
         /\ v[1] = "inload" => /\ v[2] \in {"byte", "dword"} /\ v[3] \in Nat /\ v[3] + WidthBytes(v[2]) <= Len(input0)
                               /\ x = ReadInput(input0, v[3], v[2])
<1>1. CASE v = Top
  BY <1>1 DEF Top
<1>2. CASE v = Fp /\ x = StackTop
  BY <1>2 DEF Fp
<1>3. CASE v = <<"const", x>>
  BY <1>3
<1>4. ASSUME NEW o \in Nat, v = InPtr(o), x = InputStart + o
      PROVE  v[1] = "inptr" /\ v[2] \in Nat /\ x = InputStart + v[2]
  BY <1>4 DEF InPtr
<1>5. ASSUME NEW w \in {"byte", "dword"}, NEW o \in Nat, v = InLoad(w, o), o + WidthBytes(w) <= Len(input0),
             x = ReadInput(input0, o, w)
      PROVE  /\ v[1] = "inload" /\ v[2] \in {"byte", "dword"} /\ v[3] \in Nat
             /\ v[3] + WidthBytes(v[2]) <= Len(input0) /\ x = ReadInput(input0, v[3], v[2])
  <2>1. v[1] = "inload" /\ v[2] = w /\ v[3] = o
    BY <1>5 DEF InLoad
  <2> QED
    BY <1>5, <2>1
<1> QED
  BY <1>1, <1>2, <1>3, <1>4, <1>5 DEF Describes

\* An abstract value denotes what it describes.
LEMMA DescribesDenotes ==
  ASSUME NEW v, NEW x, Describes(v, x)
  PROVE  Denotes(v, x)
<1>1. CASE v[1] = "top"
  BY <1>1 DEF Denotes
<1>2. CASE v[1] = "fp"
  BY <1>2, TagFacts DEF Denotes
<1>3. CASE v[1] = "const"
  BY <1>3, TagFacts DEF Denotes
<1>4. CASE v[1] = "inptr"
  BY <1>4, TagFacts DEF Denotes
<1>5. CASE v[1] = "inload"
  BY <1>5, TagFacts DEF Denotes
<1> QED
  BY <1>1, <1>2, <1>3, <1>4, <1>5, TagFacts

\* A value other than Top says what the number is.
LEMMA DescribesValue ==
  ASSUME NEW v, NEW x, Describes(v, x), v # Top
  PROVE  Value(v) = x
<1>0. v[1] # "top"
  BY TagFacts
<1>2. CASE v[1] = "fp"
  BY <1>2, TagFacts DEF Value
<1>3. CASE v[1] = "const"
  BY <1>3, TagFacts DEF Value
<1>4. CASE v[1] = "inptr"
  BY <1>4, TagFacts DEF Value
<1>5. CASE v[1] = "inload"
  BY <1>5, TagFacts DEF Value
<1> QED
  BY <1>0, <1>2, <1>3, <1>4, <1>5, TagFacts

\* A known operand is the operand.
LEMMA KnownIsTrue ==
  ASSUME NEW v, NEW x, Describes(v, x), NEW asm, Assumed(asm), Known(v, asm) # Unknown
  PROVE  Known(v, asm) = x
<1>1. CASE v[1] \in {"top", "fp"}
  BY <1>1 DEF Known
<1>2. CASE v[1] = "const"
  BY <1>2, TagFacts DEF Known
<1>3. CASE v[1] = "inptr"
  BY <1>3, TagFacts DEF Known
<1>4. CASE v[1] = "inload"
  <2> DEFINE found == {i \in DOMAIN asm : asm[i].off = v[3] /\ v[2] = "dword"}
  <2>1. Known(v, asm) = IF found = {} THEN Unknown ELSE asm[Min(found)].value
    BY <1>4 DEF Known
  <2>2. found # {} /\ found \subseteq Nat
    BY <2>1 DEF Assumed
  <2>3. Min(found) \in found
    BY <2>2, LeastOf
  <2> DEFINE i == Min(found)
  <2> HIDE DEF i
  <2>4. i \in DOMAIN asm /\ asm[i].off = v[3] /\ v[2] = "dword"
    BY <2>3 DEF i
  <2>5. ReadInput(input0, v[3], "dword") = asm[i].value
    BY <2>4 DEF Assumed, Holds
  <2> QED
    BY <1>4, <2>1, <2>2, <2>4, <2>5, TagFacts DEF i
<1> QED
  BY <1>1, <1>2, <1>3, <1>4, TagFacts

\* A folded result is described.
LEMMA OfKnownTrue ==
  ASSUME NEW ptr, NEW r \in Words
  PROVE  Describes(OfKnown(ptr, r), r)
<1>1. r \in Nat /\ InputStart \in Nat /\ r % Modulus = r
  BY WordsAreNumbers, LayoutAssumption, Remainders
<1>2. CASE ptr /\ r >= InputStart
  <2>1. OfKnown(ptr, r) = InPtr(r - InputStart)
    BY <1>2 DEF OfKnown
  <2>2. r - InputStart \in Nat /\ r = InputStart + (r - InputStart)
    BY <1>1, <1>2
  <2> QED
    BY <2>1, <2>2 DEF Describes
<1>3. CASE ~ (ptr /\ r >= InputStart)
  <2>1. OfKnown(ptr, r) = <<"const", r>>
    BY <1>1, <1>3 DEF OfKnown, K
  <2> QED
    BY <2>1 DEF Describes
<1> QED
  BY <1>2, <1>3
-----------------------------------------------------------------------------
(* Abstract states.                                                            *)

\* a is true of registers rg and memory mem.
TrueOf(a, rg, mem) ==
  /\ \A r \in Regs : Describes(a.regs[r], rg[r])
  /\ a.written.known => \A i \in DOMAIN mem : mem[i] # input0[i] =>
                          \E o \in a.written.ranges : o \in Int /\ i - 1 \in o .. o + Dword - 1

\* The order of abstract states is sound.
LEMMA LeKeeps ==
  ASSUME NEW a, NEW b, NEW rg, NEW mem, TrueOf(a, rg, mem), Le(a, b)
  PROVE  TrueOf(b, rg, mem)
<1>1. ASSUME NEW r \in Regs PROVE Describes(b.regs[r], rg[r])
  <2>1. b.regs[r] = Top \/ a.regs[r] = b.regs[r]
    BY DEF Le
  <2>2. Describes(Top, rg[r])
    BY DEF Describes
  <2> QED
    BY <2>1, <2>2, Zenon DEF TrueOf
<1>2. ASSUME b.written.known, NEW i \in DOMAIN mem, mem[i] # input0[i]
      PROVE  \E o \in b.written.ranges : o \in Int /\ i - 1 \in o .. o + Dword - 1
  BY <1>2, Zenon DEF Le, TrueOf
<1> QED
  BY <1>1, <1>2, Zenon DEF TrueOf

\* A register write is mirrored.
LEMMA SetTrue ==
  ASSUME NEW a, NEW rg \in [Regs -> Words], NEW mem, TrueOf(a, rg, mem), NEW d, NEW v, NEW x, Describes(v, x)
  PROVE  TrueOf(SetReg(a, d, v), IF d = 10 THEN rg ELSE [rg EXCEPT ![d] = x], mem)
<1>1. CASE d = 10
  BY <1>1 DEF SetReg
<1>2. CASE d # 10
  <2> DEFINE b == SetReg(a, d, v)
             f == [rg EXCEPT ![d] = x]
  <2>1. b.written = a.written /\ \A r \in Regs : b.regs[r] = IF r = d THEN v ELSE a.regs[r]
    BY <1>2 DEF SetReg
  <2>2. \A r \in Regs : f[r] = IF r = d THEN x ELSE rg[r]
    OBVIOUS
  <2> HIDE DEF b, f
  <2>3. ASSUME NEW r \in Regs PROVE Describes(b.regs[r], f[r])
    <3>1. CASE r = d
      BY <2>1, <2>2, <3>1
    <3>2. CASE r # d
      <4>1. b.regs[r] = a.regs[r] /\ f[r] = rg[r]
        BY <2>1, <2>2, <3>2
      <4> QED
        BY <4>1, Zenon DEF TrueOf
    <3> QED
      BY <3>1, <3>2
  <2>4. TrueOf(b, f, mem)
    BY <2>1, <2>3, Zenon DEF TrueOf
  <2> QED
    BY <1>2, <2>4 DEF b, f
<1> QED
  BY <1>1, <1>2

\* An access through a pointer into the input reaches the offset the analysis
\* computes, or faults.
LEMMA InputAddress ==
  ASSUME job \in Jobs, DataType, pc \in PCs(job), Here.op \in {"ld", "st"}, ~ Faults(Here),
         NEW b \in Nat, regs[IF Here.op = "ld" THEN Here.s ELSE Here.d] = InputStart + b, InRange(b + Here.off)
  PROVE  /\ Address = InputStart + (b + Here.off) /\ ~ InStack(Address)
         /\ Here.w \in {"byte", "dword"} /\ b + Here.off \in Nat
         /\ b + Here.off + WidthBytes(Here.w) <= Len(input)
<1>1. Decoded(Here)
  BY JobFacts DEF Here
<1>2. Here.w \in {"byte", "dword"} /\ Here.off \in -MaxOff .. MaxOff
        /\ (IF Here.op = "ld" THEN Here.s ELSE Here.d) \in Regs
  BY <1>1 DEF Decoded
<1>3. InputStart + b \in Words
  BY <1>2 DEF DataType
<1> DEFINE o == b + Here.off
           z == InputStart + b + Here.off
<1>4. Address = z % Modulus
  BY DEF Address
<1>5. z \in Int /\ o \in Nat /\ z = InputStart + o /\ InputStart \in Nat /\ Modulus \in Nat /\ Here.off \in Int
      /\ Here.off <= MaxOff /\ MaxOff \in Nat
  BY <1>2, LayoutAssumption DEF InRange
<1>6. z < Modulus
  <2> SUFFICES ASSUME z >= Modulus PROVE FALSE
    BY <1>5
  <2>1. z - Modulus \in Words /\ z - Modulus < MaxOff
    BY <1>3, <1>5, LayoutAssumption DEF Words
  <2>2. Address = z - Modulus
    BY <1>4, <1>5, <2>1, Remainders
  <2>3. Address < StackStart /\ Address < InputStart
    BY <1>5, <2>1, <2>2, LayoutAssumption
  <2>4. ~ InStack(Address) /\ ~ Mapped(Address, WidthBytes(Here.w))
    BY <1>5, <2>1, <2>2, <2>3, LayoutAssumption DEF InStack, Mapped
  <2> QED
    BY <2>4 DEF Faults
<1>7. Address = z
  <2>1. z \in Words
    BY <1>5, <1>6 DEF Words
  <2> QED
    BY <1>4, <1>5, <2>1, Remainders
<1>8. ~ InStack(Address)
  BY <1>5, <1>7 DEF InStack
<1>9. Mapped(Address, WidthBytes(Here.w))
  BY <1>8 DEF Faults
<1>10. o + WidthBytes(Here.w) <= Len(input)
  <2>1. Len(input) \in Nat /\ WidthBytes(Here.w) \in Nat
    BY DEF DataType, WidthBytes, Dword
  <2>2. Address + WidthBytes(Here.w) <= InputStart + Len(input)
    BY <1>9 DEF Mapped
  <2> HIDE DEF o, z
  <2>3. z + WidthBytes(Here.w) <= InputStart + Len(input)
    BY <1>7, <2>2
  <2> QED
    BY <1>5, <2>1, <2>3
<1> QED
  BY <1>2, <1>5, <1>7, <1>8, <1>10

\* What is loaded is what the analysis says of it.
LEMMA LoadTrue ==
  ASSUME job \in Jobs, DataType, pc \in PCs(job), Here.op = "ld", ~ Faults(Here),
         NEW a, TrueOf(a, regs, input), NEW x \in Results
  PROVE  Describes(LoadValue(a, Here), x)
<1> DEFINE base == a.regs[Here.s]
           o == base[2] + Here.off
           clear == \A y \in a.written.ranges : o + Dword <= y \/ y + Dword <= o
<1>1. Decoded(Here)
  BY JobFacts DEF Here
<1>2. Here.s \in Regs
  BY <1>1 DEF Decoded
<1>3. Describes(base, regs[Here.s])
  BY <1>2 DEF TrueOf
<1>4. CASE base[1] = "inptr" /\ a.written.known /\ InRange(o) /\ clear
  <2>1. LoadValue(a, Here) = InLoad(Here.w, o)
    BY <1>4, Zenon DEF LoadValue
  <2>2. base[2] \in Nat /\ regs[Here.s] = InputStart + base[2]
    BY <1>3, <1>4, TagFacts
  <2>3. /\ Address = InputStart + o /\ ~ InStack(Address)
        /\ Here.w \in {"byte", "dword"} /\ o \in Nat /\ o + WidthBytes(Here.w) <= Len(input)
    BY <1>4, <2>2, InputAddress
  <2> HIDE DEF base, o
  <2>4. x = ReadInput(input, o, Here.w)
    <3>1. Results = IF InStack(Address) THEN AnyWord ELSE {ReadInput(input, Address - InputStart, Here.w)}
      BY DEF Results
    <3>2. Address - InputStart = o
      BY <2>3, LayoutAssumption
    <3> QED
      BY <2>3, <3>1, <3>2
  <2>5. Len(input) = Len(input0) /\ DOMAIN input = 1 .. Len(input) /\ Len(input) \in Nat
    BY DEF DataType
  <2>6. ASSUME NEW i \in DOMAIN input, i \in {o + 1, o + 2} PROVE input[i] = input0[i]
    <3> SUFFICES ASSUME input[i] # input0[i] PROVE FALSE
      OBVIOUS
    <3>1. PICK y \in a.written.ranges : y \in Int /\ i - 1 \in y .. y + Dword - 1
      BY <1>4, Zenon DEF TrueOf
    <3>2. o + Dword <= y \/ y + Dword <= o
      BY <1>4
    <3> QED
      BY <2>3, <2>5, <2>6, <3>1, <3>2 DEF Dword
  <2>7. ReadInput(input, o, Here.w) = ReadInput(input0, o, Here.w)
    <3>1. o + 1 \in DOMAIN input /\ (Here.w = "dword" => o + 2 \in DOMAIN input)
      BY <2>3, <2>5 DEF WidthBytes, Dword
    <3> QED
      BY <2>3, <2>6, <3>1 DEF ReadInput
  <2> QED
    BY <2>1, <2>3, <2>4, <2>5, <2>7 DEF Describes
<1>5. CASE ~ (base[1] = "inptr" /\ a.written.known /\ InRange(o) /\ clear)
  <2>1. LoadValue(a, Here) = Top
    BY <1>5, Zenon DEF LoadValue
  <2> QED
    BY <2>1 DEF Describes
<1> QED
  BY <1>4, <1>5

\* A store changes what the analysis says it may change.
LEMMA StoreTrue ==
  ASSUME job \in Jobs, DataType, Store, NEW a, TrueOf(a, regs, input)
  PROVE  TrueOf(AfterStore(a, Here), regs, input')
<1> DEFINE base == a.regs[Here.d]
           o == base[2] + Here.off
           m == Put(input, Address - InputStart, Here.w, Here.imm)
<1>1. /\ pc \in PCs(job) /\ Here.op = "st" /\ ~ Faults(Here)
      /\ input' = IF InStack(Address) THEN input ELSE m
  BY DEF Store, Fetched
<1>2. Decoded(Here)
  BY <1>1, JobFacts DEF Here
<1>3. Here.d \in Regs /\ Here.w \in {"byte", "dword"} /\ Here.off \in -MaxOff .. MaxOff
  BY <1>1, <1>2 DEF Decoded
<1>4. Describes(base, regs[Here.d])
  BY <1>3 DEF TrueOf
<1>5. CASE base = Fp /\ Here.off <= FpReach
  <2>1. AfterStore(a, Here) = a
    BY <1>5, Zenon DEF AfterStore
  <2>2. regs[Here.d] = StackTop
    <3>1. base[1] = "fp"
      BY <1>5 DEF Fp
    <3> QED
      BY <1>4, <3>1, TagFacts
  <2> DEFINE z == StackTop + Here.off
  <2>3. z \in Words /\ z < InputStart /\ z \in Int
    BY <1>3, <1>5, LayoutAssumption DEF Words
  <2>4. Address = z % Modulus
    BY <1>1, <2>2 DEF Address
  <2>5. Address = z
    BY <2>3, <2>4, Remainders
  <2>6. ~ Mapped(Address, WidthBytes(Here.w))
    BY <2>3, <2>5, LayoutAssumption DEF Mapped
  <2>7. InStack(Address)
    BY <1>1, <2>6 DEF Faults
  <2>8. input' = input
    BY <1>1, <2>7
  <2> QED
    BY <2>1, <2>8
<1>6. CASE ~ (base = Fp /\ Here.off <= FpReach) /\ base[1] = "inptr" /\ InRange(o)
  <2>1. AfterStore(a, Here) = IF a.written.known THEN Touched(a, a.written.ranges \cup {o}) ELSE a
    BY <1>6, Zenon DEF AfterStore
  <2>2. base[2] \in Nat /\ regs[Here.d] = InputStart + base[2]
    BY <1>4, <1>6, TagFacts
  <2>3. Address = InputStart + o /\ ~ InStack(Address) /\ o \in Nat
    BY <1>1, <1>6, <2>2, InputAddress
  <2>4. Address - InputStart = o
    BY <2>3, LayoutAssumption
  <2> HIDE DEF o
  <2>5. DOMAIN input' = DOMAIN input
        /\ \A i \in DOMAIN input : i - 1 \notin o .. o + Dword - 1 => input'[i] = input[i]
    <3>1. input' = Put(input, o, Here.w, Here.imm)
      BY <1>1, <2>3, <2>4
    <3>2. o .. o + WidthBytes(Here.w) - 1 \subseteq o .. o + Dword - 1
      BY <1>3, <2>3 DEF WidthBytes, Dword
    <3> QED
      BY <3>1, <3>2 DEF Put
  <2>6. CASE a.written.known
    <3> DEFINE b == Touched(a, a.written.ranges \cup {o})
    <3>1. b.regs = a.regs /\ b.written.known /\ b.written.ranges = a.written.ranges \cup {o}
      BY DEF Touched
    <3> HIDE DEF b
    <3>2. ASSUME NEW i \in DOMAIN input, input'[i] # input0[i]
          PROVE  \E y \in b.written.ranges : y \in Int /\ i - 1 \in y .. y + Dword - 1
      <4>1. CASE i - 1 \in o .. o + Dword - 1
        BY <2>3, <3>1, <4>1
      <4>2. CASE i - 1 \notin o .. o + Dword - 1
        <5>1. input[i] # input0[i]
          BY <2>5, <3>2, <4>2
        <5>2. PICK y \in a.written.ranges : y \in Int /\ i - 1 \in y .. y + Dword - 1
          BY <2>6, <5>1, Zenon DEF TrueOf
        <5> QED
          BY <3>1, <5>2
      <4> QED
        BY <4>1, <4>2
    <3>3. \A r \in Regs : Describes(b.regs[r], regs[r])
      BY <3>1, Zenon DEF TrueOf
    <3>4. TrueOf(b, regs, input')
      BY <2>5, <3>2, <3>3, Zenon DEF TrueOf
    <3> QED
      BY <2>1, <2>6, <3>4 DEF b
  <2>7. CASE ~ a.written.known
    BY <2>1, <2>7, Zenon DEF TrueOf
  <2> QED
    BY <2>6, <2>7
<1>7. CASE ~ (base = Fp /\ Here.off <= FpReach) /\ ~ (base[1] = "inptr" /\ InRange(o))
  <2> DEFINE b == [regs |-> a.regs, written |-> Anywhere]
  <2>1. AfterStore(a, Here) = b
    BY <1>7, Zenon DEF AfterStore
  <2>2. b.regs = a.regs /\ ~ b.written.known
    BY DEF Anywhere
  <2> HIDE DEF b
  <2> QED
    BY <2>1, <2>2, Zenon DEF TrueOf
<1> QED
  BY <1>5, <1>6, <1>7

\* The right operand of a folded instruction is described.
LEMMA OperandTrue ==
  ASSUME job \in Jobs, DataType, pc \in PCs(job), Here.op \in {"add", "and"},
         NEW a, TrueOf(a, regs, input)
  PROVE  Describes(FoldOperand(a, Here), RightHand)
<1>1. Decoded(Here)
  BY JobFacts DEF Here
<1>2. CASE Here.reg
  <2>1. Here.s \in Regs
    BY <1>1, <1>2 DEF Decoded
  <2>2. Describes(a.regs[Here.s], regs[Here.s])
    BY <2>1 DEF TrueOf
  <2> QED
    BY <1>2, <2>2 DEF FoldOperand, RightHand
<1>3. CASE ~ Here.reg
  <2>1. Describes(K(Here.imm), Here.imm % Modulus)
    BY DEF K, Describes
  <2> QED
    BY <1>3, <2>1 DEF FoldOperand, RightHand
<1> QED
  BY <1>2, <1>3

\* A folded addition or mask is the machine's.
LEMMA FoldTrue ==
  ASSUME job \in Jobs, DataType, pc \in PCs(job), Here.op \in {"add", "and"},
         NEW a, TrueOf(a, regs, input), NEW asm, Assumed(asm), NEW x \in Results
  PROVE  Describes(Folded(a, Here, asm), x)
<1> DEFINE v == a.regs[Here.d]
           y == FoldOperand(a, Here)
           known == Known(v, asm)
           k == Known(y, asm)
           ptr == v[1] = "inptr" \/ y[1] = "inptr"
           res == IF Here.op = "add" THEN (known + k) % Modulus ELSE BitAnd(known, k) % Modulus
<1>1. Decoded(Here)
  BY JobFacts DEF Here
<1>2. Here.d \in Regs
  BY <1>1 DEF Decoded
<1>3. Describes(v, regs[Here.d])
  BY <1>2 DEF TrueOf
<1>4. Folded(a, Here, asm) = IF known = Unknown \/ k = Unknown THEN Top ELSE OfKnown(ptr, res)
  BY Zenon DEF Folded
<1>5. CASE known = Unknown \/ k = Unknown
  BY <1>4, <1>5 DEF Describes
<1>6. CASE ~ (known = Unknown \/ k = Unknown)
  <2>0. Describes(y, RightHand)
    BY OperandTrue
  <2>1. known = regs[Here.d] /\ k = RightHand
    BY <1>3, <1>6, <2>0, KnownIsTrue
  <2>2. res = x
    <3>1. CASE Here.op = "add"
      <4>1. Results = {(regs[Here.d] + RightHand) % Modulus}
        BY <3>1 DEF Results
      <4> QED
        BY <2>1, <3>1, <4>1
    <3>2. CASE Here.op = "and"
      <4>1. Results = {BitAnd(regs[Here.d], RightHand) % Modulus}
        BY <3>2 DEF Results
      <4> QED
        BY <2>1, <3>2, <4>1
    <3> QED
      BY <3>1, <3>2
  <2>3. x \in Words
    <3>1. ~ Faults(Here)
      BY DEF Faults
    <3> QED
      BY <3>1, ResultsAreWords
  <2> HIDE DEF ptr, res
  <2>4. Describes(OfKnown(ptr, res), x)
    BY <2>2, <2>3, OfKnownTrue
  <2> QED
    BY <1>4, <1>6, <2>4, Zenon
<1> QED
  BY <1>5, <1>6

\* Each arm of AState::step.
LEMMA AbsStepArms ==
  ASSUME NEW a, NEW j, NEW p, NEW asm
  PROVE  LET ins == At(j, p)
             b == AbsStep(a, j, p, asm)
         IN  /\ ins.op \in {"add", "and"} => b = SetReg(a, ins.d, Folded(a, ins, asm))
             /\ ins.op = "mov" => b = SetReg(a, ins.d, K(ins.imm))
             /\ ins.op = "movr" => b = SetReg(a, ins.d, a.regs[ins.s])
             /\ ins.op = "ld" => b = SetReg(a, ins.d, LoadValue(a, ins))
             /\ ins.op = "st" => b = AfterStore(a, ins)
             /\ ins.op = "alu" => b = SetReg(a, ins.d, Top)
             /\ ins.op = "nop" => b = a
             /\ ins.op \in {"ja", "jcc"} => b = a
             /\ ins.op = "call" /\ Kind(j, p) = "call" => b = Forget(a, Regs \cap 0 .. 5)
             /\ ins.op = "sys" => b = Forget(a, Regs \cap 0 .. 9)
<1> DEFINE op == At(j, p).op
           kind == Kind(j, p)
<1>1. /\ op \in {"add", "and", "mov", "movr", "ld", "st", "alu", "nop"} => kind = "seq"
      /\ op = "ja" => kind \in {"jump", "unresolved"}
      /\ op = "jcc" => kind \in {"branch", "unresolved"}
      /\ op = "sys" => kind = "syscall"
  BY FlowFacts
<1>2. CASE op \in {"add", "and"}
  BY <1>1, <1>2 DEF AbsStep
<1>3. CASE op = "mov"
  BY <1>1, <1>3 DEF AbsStep
<1>4. CASE op = "movr"
  BY <1>1, <1>4 DEF AbsStep
<1>5. CASE op = "ld"
  BY <1>1, <1>5 DEF AbsStep
<1>6. CASE op = "st"
  BY <1>1, <1>6 DEF AbsStep
<1>7. CASE op = "alu"
  BY <1>1, <1>7 DEF AbsStep
<1>8. CASE op = "nop"
  BY <1>1, <1>8 DEF AbsStep
<1>9. CASE op \in {"ja", "jcc"}
  BY <1>1, <1>9 DEF AbsStep
<1>10. CASE op = "call"
  BY <1>10 DEF AbsStep
<1>11. CASE op = "sys"
  BY <1>1, <1>11 DEF AbsStep
<1> QED
  BY <1>2, <1>3, <1>4, <1>5, <1>6, <1>7, <1>8, <1>9, <1>10, <1>11

\* AState::step is right about the machine.
LEMMA AbsStepTrue ==
  ASSUME job \in Jobs, DataType, Walking, NEW a, TrueOf(a, regs, input), NEW asm, Assumed(asm)
  PROVE  TrueOf(AbsStep(a, job, pc, asm), regs', input')
<1>0. pc \in PCs(job) /\ Here = At(job, pc) /\ regs \in [Regs -> Words]
  BY DEF Walking, Here, DataType
<1>1. CASE Compute
  <2>1. /\ Here.op \in {"mov", "movr", "add", "and", "ld", "alu"} /\ ~ Faults(Here) /\ input' = input
    BY <1>1 DEF Compute, Fetched
  <2>2. PICK x \in Results : SetR(Here.d, x)
    BY <1>1 DEF Compute
  <2>3. regs' = IF Here.d = 10 THEN regs ELSE [regs EXCEPT ![Here.d] = x]
    BY <2>2 DEF SetR
  <2>4. Decoded(Here)
    BY <1>0, JobFacts
  <2>5. ASSUME NEW v, Describes(v, x), AbsStep(a, job, pc, asm) = SetReg(a, Here.d, v)
        PROVE  TrueOf(AbsStep(a, job, pc, asm), regs', input')
    <3>1. TrueOf(SetReg(a, Here.d, v), IF Here.d = 10 THEN regs ELSE [regs EXCEPT ![Here.d] = x], input)
      BY <1>0, <2>5, SetTrue
    <3> QED
      BY <2>1, <2>3, <2>5, <3>1, Zenon
  <2>6. CASE Here.op = "mov"
    <3>1. x = Here.imm % Modulus
      BY <2>2, <2>6 DEF Results
    <3>2. Describes(K(Here.imm), x)
      BY <3>1 DEF K, Describes
    <3> QED
      BY <1>0, <2>5, <2>6, <3>2, AbsStepArms
  <2>7. CASE Here.op = "movr"
    <3>1. x = regs[Here.s] /\ Here.s \in Regs
      BY <2>2, <2>4, <2>7 DEF Results, Decoded
    <3>2. Describes(a.regs[Here.s], x)
      BY <3>1 DEF TrueOf
    <3> QED
      BY <1>0, <2>5, <2>7, <3>2, AbsStepArms
  <2>8. CASE Here.op \in {"add", "and"}
    <3>1. Describes(Folded(a, Here, asm), x)
      BY <1>0, <2>2, <2>8, FoldTrue
    <3> QED
      BY <1>0, <2>5, <2>8, <3>1, AbsStepArms
  <2>9. CASE Here.op = "ld"
    <3>1. Describes(LoadValue(a, Here), x)
      BY <1>0, <2>1, <2>2, <2>9, LoadTrue
    <3> QED
      BY <1>0, <2>5, <2>9, <3>1, AbsStepArms
  <2>10. CASE Here.op = "alu"
    <3>1. Describes(Top, x)
      BY DEF Describes
    <3> QED
      BY <1>0, <2>5, <2>10, <3>1, AbsStepArms
  <2> QED
    BY <2>1, <2>6, <2>7, <2>8, <2>9, <2>10
<1>2. CASE NoEffect \/ Jump
  <2>1. regs' = regs /\ input' = input /\ Here.op \in {"nop", "ja", "jcc"}
    BY <1>2 DEF NoEffect, Jump, Fetched
  <2>2. AbsStep(a, job, pc, asm) = a
    BY <1>0, <2>1, AbsStepArms
  <2> QED
    BY <2>1, <2>2
<1>3. CASE Store
  <2>1. regs' = regs /\ Here.op = "st"
    BY <1>3 DEF Store, Fetched
  <2>2. AbsStep(a, job, pc, asm) = AfterStore(a, Here)
    BY <1>0, <2>1, AbsStepArms
  <2>3. TrueOf(AfterStore(a, Here), regs, input')
    BY <1>3, StoreTrue
  <2> QED
    BY <2>1, <2>2, <2>3
<1>4. CASE Syscall
  <2>1. Here.op = "sys" /\ Here.name \notin NoReturnSyscalls
    BY <1>0, <1>4, FlowFacts DEF Syscall, Fetched, Walking, SyscallName
  <2>2. AbsStep(a, job, pc, asm) = Forget(a, Regs \cap 0 .. 9)
    BY <1>0, <2>1, AbsStepArms
  <2>3. PICK v \in AnyWord : regs' = [r \in Regs |-> IF r <= 5 THEN (IF r = 0 THEN v ELSE 0) ELSE regs[r]]
    BY <1>4, <2>1 DEF Syscall
  <2> DEFINE b == Forget(a, Regs \cap 0 .. 9)
  <2>4. /\ \A r \in Regs : b.regs[r] = IF r \in Regs \cap 0 .. 9 THEN Top ELSE a.regs[r]
        /\ ~ b.written.known
    BY DEF Forget, Anywhere
  <2> HIDE DEF b
  <2>5. ASSUME NEW r \in Regs PROVE Describes(b.regs[r], regs'[r])
    <3>1. CASE r \in 0 .. 9
      BY <2>4, <3>1 DEF Describes
    <3>2. CASE r \notin 0 .. 9
      <4>1. r = 10
        BY <3>2 DEF Regs
      <4>2. b.regs[r] = a.regs[r] /\ regs'[r] = regs[r]
        BY <2>3, <2>4, <4>1
      <4> QED
        BY <4>2, Zenon DEF TrueOf
    <3> QED
      BY <3>1, <3>2
  <2>6. TrueOf(b, regs', input')
    BY <2>4, <2>5, Zenon DEF TrueOf
  <2> QED
    BY <2>2, <2>6 DEF b
<1> QED
  BY <1>1, <1>2, <1>3, <1>4 DEF Walking

\* A call that returns has kept the registers the analysis says it keeps.
LEMMA CallTrue ==
  ASSUME NEW a, NEW rg, NEW mem, Describes(a.regs[6], rg[6]), Describes(a.regs[10], rg[10]),
         NEW j, NEW p, Kind(j, p) = "call", NEW asm
  PROVE  TrueOf(AbsStep(a, j, p, asm), rg, mem)
<1> DEFINE b == Forget(a, Regs \cap 0 .. 5)
<1>1. AbsStep(a, j, p, asm) = b
  <2>1. At(j, p).op = "call"
    BY KindFacts
  <2> QED
    BY <2>1, AbsStepArms
<1>2. /\ \A r \in Regs : b.regs[r] = IF r \in Regs \cap 0 .. 5 THEN Top ELSE a.regs[r]
      /\ ~ b.written.known
  BY DEF Forget, Anywhere
<1> HIDE DEF b
<1>3. ASSUME NEW r \in Regs PROVE Describes(b.regs[r], rg[r])
  <2>1. CASE r \in 0 .. 5
    BY <1>2, <2>1 DEF Describes
  <2>2. CASE r \notin 0 .. 5
    <3>1. r \in {6, 10}
      BY <2>2 DEF Regs
    <3>2. b.regs[r] = a.regs[r]
      BY <1>2, <2>2
    <3> QED
      BY <3>1, <3>2
  <2> QED
    BY <2>1, <2>2
<1> QED
  BY <1>1, <1>2, <1>3, Zenon DEF TrueOf
-----------------------------------------------------------------------------
(* Maps that are post-fixpoints are true of runs.                              *)

MapOk(asm, map) == Assumed(asm) /\ IsPostFixpoint(job, graph, asm, map)
\* While a call runs, only what it keeps is known.
MapTrue(map) ==
  /\ map[Site] # NoState
  /\ Depth = 1 => TrueOf(map[Site], regs, input)
  /\ Depth # 1 => Describes(map[Site].regs[6], frames[2].r6) /\ Describes(map[Site].regs[10], StackTop)
MapInv == phase = "running" /\ GraphOk => \A asm, map : MapOk(asm, map) => MapTrue(map)

\* Nothing a description depends on changes during a run.
LEMMA DescriptionsStay ==
  ASSUME Step
  PROVE  /\ input0' = input0
         /\ \A v, x : Describes(v, x)' <=> Describes(v, x)
         /\ \A a, rg, mem : TrueOf(a, rg, mem)' <=> TrueOf(a, rg, mem)
         /\ \A asm, map : MapOk(asm, map)' <=> MapOk(asm, map)
<1>1. UNCHANGED <<input0, job, graph>>
  BY StepStays DEF Stay, analysis
<1>2. \A v, x : Describes(v, x)' <=> Describes(v, x)
  BY <1>1 DEF Describes
<1>3. \A a, rg, mem : TrueOf(a, rg, mem)' <=> TrueOf(a, rg, mem)
  BY <1>1, <1>2, Zenon DEF TrueOf
<1>4. \A asm, map : MapOk(asm, map)' <=> MapOk(asm, map)
  BY <1>1, Zenon DEF MapOk, Assumed, Holds
<1> QED
  BY <1>1, <1>2, <1>3, <1>4

\* A map that is true stays true over a step.
LEMMA MapStep ==
  ASSUME AnalysisInv, RunInv, RunInv', ReachInv, MapInv, Step
  PROVE  MapInv'
<1>1. /\ phase = "running" /\ phase' = phase /\ UNCHANGED <<job, fns, witness, graph>> /\ job \in Jobs
  BY StepStays DEF Stay, analysis, AnalysisInv
<1>2. GraphOk' <=> GraphOk
  BY <1>1 DEF GraphOk, NoIndirectCall
<1>3. DataType /\ FramesType /\ DataType'
  BY <1>1 DEF RunInv
<1> SUFFICES ASSUME GraphOk, NEW asm, NEW map, MapOk(asm, map)
             PROVE  MapTrue(map)'
  BY <1>2, DescriptionsStay, Zenon DEF MapInv
<1>4. MapTrue(map)
  BY <1>1 DEF MapInv
<1>5. Depth \in Nat /\ regs[10] = StackTop + Depth - 1 /\ regs'[10] = StackTop + Depth' - 1
  BY <1>3 DEF FramesType, DataType
<1> DEFINE a == map[Site]
           b == AbsStep(a, job, Site, asm)
<1>6. ASSUME Advance, TrueOf(b, regs', input') PROVE MapTrue(map)'
  <2>1. Site \in PCs(job) /\ Site' \in graph[Site] /\ Depth' = 1 /\ a # NoState
    BY <1>4, <1>6 DEF Advance, MapTrue
  <2>2. map[Site'] # NoState /\ Le(b, map[Site'])
    BY <2>1, Zenon DEF MapOk, IsPostFixpoint
  <2>3. TrueOf(map[Site'], regs', input')
    BY <1>6, <2>2, LeKeeps
  <2> QED
    BY <2>1, <2>2, <2>3, DescriptionsStay, Zenon DEF MapTrue
<1>7. CASE Depth = 1 /\ Walking /\ Site = pc /\ Advance
  <2>1. TrueOf(a, regs, input) /\ Assumed(asm)
    BY <1>4, <1>7 DEF MapTrue, MapOk
  <2>2. TrueOf(AbsStep(a, job, pc, asm), regs', input')
    BY <1>1, <1>3, <1>7, <2>1, AbsStepTrue
  <2> QED
    BY <1>6, <1>7, <2>2
<1>8. CASE Depth = 2 /\ Returning /\ Kind(job, Site) = "call" /\ Site' = Site + 1 /\ Advance
  <2>1. Describes(a.regs[6], frames[2].r6) /\ Describes(a.regs[10], StackTop)
    BY <1>4, <1>8 DEF MapTrue
  <2>2. regs'[6] = frames[2].r6
    <3>1. regs' = [regs EXCEPT ![6] = TopFrame.r6, ![10] = @ - 1] /\ TopFrame = frames[2]
      BY <1>8 DEF Returning, Return, TopFrame
    <3>2. regs \in [Regs -> Words]
      BY <1>3 DEF DataType
    <3> QED
      BY <3>1, <3>2 DEF Regs
  <2>3. regs'[10] = StackTop
    <3>1. Depth' = 1
      BY <1>8 DEF Advance
    <3> QED
      BY <1>5, <3>1, LayoutAssumption
  <2>4. TrueOf(b, regs', input')
    BY <1>8, <2>1, <2>2, <2>3, CallTrue
  <2> QED
    BY <1>6, <1>8, <2>4
<1>9. CASE Halting /\ Pause
  <2>1. UNCHANGED <<pc, frames, regs, input>> /\ Site' = Site /\ Depth' = Depth
    BY <1>9 DEF Halting, Pause, Depth
  <2> QED
    BY <1>4, <2>1, DescriptionsStay, Zenon DEF MapTrue
<1>10. CASE Depth = 1 /\ Depth' = 2 /\ Kind(job, pc) = "call" /\ frames'[2].r6 = regs[6] /\ Pause
  <2>1. Describes(a.regs[6], regs[6]) /\ Describes(a.regs[10], regs[10]) /\ a # NoState
    BY <1>4, <1>10 DEF MapTrue, TrueOf, Regs
  <2>2. regs[10] = StackTop /\ Site' = Site /\ Depth' # 1
    BY <1>5, <1>10, LayoutAssumption DEF Pause
  <2> QED
    BY <1>10, <2>1, <2>2, DescriptionsStay, Zenon DEF MapTrue
<1>11. CASE Depth >= 2 /\ Depth' >= 2 /\ frames'[2] = frames[2] /\ Pause
  <2>1. Depth # 1 /\ Depth' # 1 /\ Site' = Site
    BY <1>5, <1>11 DEF Pause
  <2> QED
    BY <1>4, <1>11, <2>1, DescriptionsStay, Zenon DEF MapTrue
<1> QED
  BY <1>7, <1>8, <1>9, <1>10, <1>11, SiteStep DEF GraphOk

\* A run starts in a state above which every map puts the one of the entry.
LEMMA InitialTrue ==
  ASSUME NEW b, Le(Initial, b), regs' = Regs0, input' = input0'
  PROVE  TrueOf(b, regs, input)'
<1>1. ASSUME NEW r \in Regs PROVE Describes(b.regs[r], regs[r])'
  <2>0. b.regs[r] = Top \/ b.regs[r] = Initial.regs[r]
    BY DEF Le
  <2>1. CASE b.regs[r] # Top /\ r = 1
    <3>1. b.regs[r] = InPtr(0) /\ regs'[r] = InputStart
      BY <2>0, <2>1 DEF Initial, Regs0
    <3>2. 0 \in Nat /\ InputStart = InputStart + 0
      BY LayoutAssumption
    <3> QED
      BY <3>1, <3>2 DEF Describes
  <2>2. CASE b.regs[r] # Top /\ r = 10
    <3>1. b.regs[r] = Fp /\ regs'[r] = StackTop
      BY <2>0, <2>2 DEF Initial, Regs0
    <3> QED
      BY <3>1 DEF Describes
  <2>3. CASE b.regs[r] = Top \/ r \notin {1, 10}
    <3>1. b.regs[r] = Top
      BY <2>0, <2>3 DEF Initial
    <3> QED
      BY <3>1 DEF Describes
  <2> QED
    BY <2>1, <2>2, <2>3
<1> QED
  BY <1>1, Zenon DEF TrueOf

\* Every post-fixpoint is true of every run.
LEMMA MapsAreTrue == Spec => []MapInv
<1>1. Init => MapInv
  BY DEF Init, MapInv
<1>2. AnalysisInv /\ RunInv /\ RunInv' /\ ReachInv /\ MapInv /\ [Next]_vars => MapInv'
  <2> SUFFICES ASSUME AnalysisInv, RunInv, RunInv', ReachInv, MapInv, [Next]_vars PROVE MapInv'
    OBVIOUS
  <2>1. CASE Refine \/ DiscoverBindings \/ Generate
    BY <2>1 DEF Refine, DiscoverBindings, Generate, MapInv
  <2>2. CASE Load
    <3>1. UNCHANGED <<job, graph>> /\ frames' = <<Frame0>> /\ pc' = job.entry /\ regs' = Regs0 /\ input' = input0'
      BY <2>2 DEF Load, AnalysisInv, AtStart
    <3> DEFINE x == Frame0
    <3> HIDE DEF x
    <3>2. Len(frames') = 1
      BY <3>1 DEF x
    <3>3. Site' = job.entry /\ Depth' = 1
      BY <3>1, <3>2 DEF Site, Depth
    <3>4. ASSUME NEW asm, NEW map, MapOk(asm, map)' PROVE MapTrue(map)'
      <4>1. map[job.entry] # NoState /\ Le(Initial, map[job.entry])
        BY <3>1, <3>4, Zenon DEF MapOk, IsPostFixpoint
      <4>2. TrueOf(map[job.entry], regs, input)'
        BY <3>1, <4>1, InitialTrue
      <4> QED
        BY <3>1, <3>3, <4>1, <4>2, Zenon DEF MapTrue
    <3> QED
      BY <3>4, Zenon DEF MapInv
  <2>3. CASE Step
    BY <2>3, MapStep
  <2>4. CASE UNCHANGED vars
    <3>1. UNCHANGED <<phase, job, graph, witness, fns, pc, frames, regs, input, input0>>
      BY <2>4 DEF vars, analysis, machine
    <3>2. \A v, x : Describes(v, x)' <=> Describes(v, x)
      BY <3>1 DEF Describes
    <3>3. \A a, rg, mem : TrueOf(a, rg, mem)' <=> TrueOf(a, rg, mem)
      BY <3>1, <3>2, Zenon DEF TrueOf
    <3>4. \A asm, map : MapOk(asm, map)' <=> MapOk(asm, map)
      BY <3>1, Zenon DEF MapOk, Assumed, Holds
    <3>5. \A map : MapTrue(map)' <=> MapTrue(map)
      <4>1. Site' = Site /\ Depth' = Depth
        BY <3>1 DEF Site, Depth
      <4> QED
        BY <3>1, <3>2, <3>3, <4>1, Zenon DEF MapTrue
    <3>6. GraphOk' <=> GraphOk
      BY <3>1 DEF GraphOk, NoIndirectCall
    <3> QED
      BY <3>1, <3>4, <3>5, <3>6, Zenon DEF MapInv
  <2> QED
    BY <2>1, <2>2, <2>3, <2>4 DEF Next, Done
<1> QED
  BY <1>1, <1>2, AnalysisIsDone, RunIsOnFunctions, RunIsReachable, PTL DEF Spec
-----------------------------------------------------------------------------
(* Discovery.                                                                  *)

\* The assumed lengths: one that is called checked is one of the checked values of
\* the map that assumes the lengths before it.
Row == [off : Int, value : Words, checked : BOOLEAN]
CheckedRow(j, G, on, e, rows, k) ==
  \E pre \in Seq(Row) :
    /\ Len(pre) = k - 1 /\ \A i \in 1 .. k - 1 : pre[i] = rows[i]
    /\ AbstractMap(j, G, pre).ok
    /\ rows[k].value \in CheckedValues(j, G, AbstractMap(j, G, pre).map, on, e, InLoad("dword", rows[k].off))
Rows(j, G, on, e, rows) ==
  rows \in Seq(Row) /\ \A k \in 1 .. Len(rows) : rows[k].checked => CheckedRow(j, G, on, e, rows, k)

\* A list of lengths is extended.
LEMMA AppendRow ==
  ASSUME NEW j, NEW G, NEW on, NEW e, NEW rows, Rows(j, G, on, e, rows), NEW x \in Row,
         x.checked => /\ AbstractMap(j, G, rows).ok
                      /\ x.value \in CheckedValues(j, G, AbstractMap(j, G, rows).map, on, e, InLoad("dword", x.off))
  PROVE  Rows(j, G, on, e, Append(rows, x))
<1> DEFINE T == Row
           s == Append(rows, x)
           n == Len(rows)
<1> HIDE DEF T
<1>1. rows \in Seq(T) /\ x \in T
  BY DEF Rows, T
<1>2. /\ s \in Seq(T) /\ Len(s) = n + 1 /\ n \in Nat
      /\ (\A i \in 1 .. n : s[i] = rows[i]) /\ s[n + 1] = x
  BY <1>1
<1> HIDE DEF s
<1>3. ASSUME NEW k \in 1 .. n + 1, s[k].checked PROVE CheckedRow(j, G, on, e, s, k)
  <2>1. CASE k = n + 1
    <3>1. s[k] = x /\ n = k - 1 /\ \A i \in 1 .. k - 1 : rows[i] = s[i]
      BY <1>2, <2>1
    <3>2. /\ AbstractMap(j, G, rows).ok
          /\ s[k].value \in CheckedValues(j, G, AbstractMap(j, G, rows).map, on, e, InLoad("dword", s[k].off))
      BY <1>3, <3>1, Zenon
    <3> QED
      BY <1>1, <3>1, <3>2, Zenon DEF CheckedRow, T, n
  <2>2. CASE k # n + 1
    <3>1. k \in 1 .. n /\ s[k] = rows[k] /\ \A i \in 1 .. k - 1 : rows[i] = s[i]
      BY <1>2, <2>2
    <3>2. CheckedRow(j, G, on, e, rows, k)
      BY <1>3, <3>1, Zenon DEF Rows, n
    <3> QED
      BY <3>1, <3>2, Zenon DEF CheckedRow
  <2> QED
    BY <2>1, <2>2
<1> QED
  BY <1>2, <1>3, Zenon DEF Rows, T, s

\* Checked values are words.
LEMMA CheckedAreWords ==
  ASSUME NEW j \in Jobs, NEW G, NEW map, NEW on \in SUBSET PCs(j), NEW e, NEW word
  PROVE  CheckedValues(j, G, map, on, e, word) \subseteq Words
<1>1. ASSUME NEW p \in PCs(j), IsEquality(j, p) PROVE EqualityValue(j, p) \in Words
  <2>1. At(j, p).op = "jcc" /\ Decoded(At(j, p))
    BY <1>1, JobFacts, KindFacts DEF IsEquality
  <2>2. At(j, p).imm \in Int
    BY <2>1 DEF Decoded
  <2> QED
    BY <2>2, Remainders DEF EqualityValue
<1> QED
  BY <1>1, Zenon DEF CheckedValues

\* One more length.
LEMMA NextRow ==
  ASSUME NEW j \in Jobs, NEW G, NEW on \in SUBSET PCs(j), NEW e,
         NEW acc, acc = [ok |-> acc.ok, assumed |-> acc.assumed], Rows(j, G, on, e, acc.assumed)
  PROVE  LET a == NextLength(j, G, on, e, acc)
         IN  a = [ok |-> a.ok, assumed |-> a.assumed] /\ Rows(j, G, on, e, a.assumed)
<1> DEFINE a == NextLength(j, G, on, e, acc)
           rows == acc.assumed
           n == Len(rows)
           m == AbstractMap(j, G, rows)
           at == AccountData(Values(rows), n + 1) - Dword
           found == CheckedValues(j, G, m.map, on, e, InLoad("dword", at))
           x == [off |-> at, value |-> IF found = {} THEN 0 ELSE Pick(found), checked |-> found # {}]
           stop == [ok |-> FALSE, assumed |-> rows]
           more == [ok |-> acc.ok, assumed |-> Append(rows, x)]
<1>1. [acc EXCEPT !.ok = FALSE] = stop /\ [acc EXCEPT !.assumed = Append(@, x)] = more
  <2> DEFINE o == acc.ok
             r == acc.assumed
             z == Append(acc.assumed, x)
  <2>1. acc = [ok |-> o, assumed |-> r]
    OBVIOUS
  <2> HIDE DEF o, r, z
  <2>2. /\ [acc EXCEPT !.ok = FALSE] = [ok |-> FALSE, assumed |-> r]
        /\ [acc EXCEPT !.assumed = z] = [ok |-> o, assumed |-> z]
    <3>1. \A y : [[ok |-> o, assumed |-> r] EXCEPT !.ok = y] = [ok |-> y, assumed |-> r]
      OBVIOUS
    <3>2. \A y : [[ok |-> o, assumed |-> r] EXCEPT !.assumed = y] = [ok |-> o, assumed |-> y]
      OBVIOUS
    <3> QED
      BY <2>1, <3>1, <3>2, Zenon
  <2> QED
    BY <2>2 DEF o, r, z
<1>11. a = IF ~ acc.ok THEN acc ELSE LengthIn(j, G, on, e, acc, at, m)
  BY Zenon DEF NextLength
<1>12. LengthIn(j, G, on, e, acc, at, m) = IF ~ m.ok THEN [acc EXCEPT !.ok = FALSE] ELSE AddLength(acc, at, found)
  BY Zenon DEF LengthIn
<1>13. AddLength(acc, at, found) = IF Cardinality(found) > 1 THEN [acc EXCEPT !.ok = FALSE]
                                   ELSE [acc EXCEPT !.assumed = Append(@, x)]
  BY Zenon DEF AddLength
<1>2. a = acc \/ a = stop \/ (m.ok /\ a = more)
  <2> HIDE DEF a, m, at, found, x, stop, more
  <2> QED
    BY <1>1, <1>11, <1>12, <1>13, Zenon
<1> HIDE DEF a, m
<1>3. stop = [ok |-> stop.ok, assumed |-> stop.assumed] /\ stop.assumed = rows
  OBVIOUS
<1>4. more = [ok |-> more.ok, assumed |-> more.assumed] /\ more.assumed = Append(rows, x)
  OBVIOUS
<1>5. at \in Int
  <2> DEFINE T == Row
  <2>1. rows \in Seq(T)
    BY DEF Rows
  <2>2. \A y \in T : y.value \in Int
    BY WordsAreNumbers DEF Row
  <2> HIDE DEF T
  <2>3. n \in Nat /\ \A i \in 1 .. n : rows[i].value \in Int
    BY <2>1, <2>2
  <2>4. \A i \in 1 .. n : Values(rows)[i] \in Int
    BY <2>3 DEF Values
  <2>5. Cursor(Values(rows), n) \in Int
    BY <2>3, <2>4, CursorIsInt
  <2>6. n + 1 - 1 = n
    BY <2>3
  <2> QED
    BY <2>5, <2>6 DEF AccountData, HeaderLen, Dword
<1> HIDE DEF at
<1>6. found \subseteq Words
  BY CheckedAreWords
<1> HIDE DEF found
<1>7. (IF found = {} THEN 0 ELSE Pick(found)) \in Words
  BY <1>6, WordsAreNumbers DEF Pick
<1>8. x \in Row /\ x.off = at /\ (x.checked => x.value \in found)
  <2> DEFINE v == IF found = {} THEN 0 ELSE Pick(found)
             c == found # {}
  <2>1. c => v \in found
    BY DEF Pick
  <2>2. c \in BOOLEAN
    OBVIOUS
  <2>3. x = [off |-> at, value |-> v, checked |-> c]
    OBVIOUS
  <2> HIDE DEF v, c, x
  <2> QED
    BY <1>5, <1>7, <2>1, <2>2, <2>3 DEF Row, v
<1> HIDE DEF x
<1>9. m.ok => Rows(j, G, on, e, Append(rows, x))
  BY <1>8, AppendRow DEF m, found
<1> HIDE DEF stop, more
<1> QED
  BY <1>2, <1>3, <1>4, <1>9, Zenon DEF a

\* The lengths, one account after another.
LEMMA LengthsFacts ==
  ASSUME NEW j \in Jobs, NEW G, NEW on \in SUBSET PCs(j), NEW e, NEW n \in Nat
  PROVE  Rows(j, G, on, e, Lengths(j, G, e, on, n).assumed)
<1> DEFINE none == [ok |-> TRUE, assumed |-> <<>>]
           Then(a) == NextLength(j, G, on, e, a)
           Good(a) == a = [ok |-> a.ok, assumed |-> a.assumed] /\ Rows(j, G, on, e, a.assumed)
           Upto(k, g) == [i \in 0 .. k |-> IF i = 0 THEN none ELSE Then(g[i - 1])]
<1>0. ASSUME NEW a, Good(a) PROVE Good(Then(a))
  BY <1>0, NextRow, Zenon
<1>01. Good(none)
  <2>1. none.assumed = <<>> /\ none = [ok |-> none.ok, assumed |-> none.assumed]
    OBVIOUS
  <2>2. Rows(j, G, on, e, <<>>)
    BY DEF Rows
  <2> QED
    BY <2>1, <2>2, Zenon
<1>02. Lengths(j, G, e, on, n) = (CHOOSE h : h = Upto(n, h))[n]
  BY Zenon DEF Lengths
<1> HIDE DEF Then, none, Good
<1>1. ASSUME NEW k \in Nat, NEW g, g = Upto(k, g)
      PROVE  \E h : h = Upto(k + 1, h)
  <2> DEFINE h == [i \in 0 .. k + 1 |-> IF i \in 0 .. k THEN g[i] ELSE Then(g[k])]
  <2>1. ASSUME NEW i \in 0 .. k + 1 PROVE h[i] = IF i = 0 THEN none ELSE Then(h[i - 1])
    <3>1. CASE i \in 0 .. k
      <4>1. g[i] = IF i = 0 THEN none ELSE Then(g[i - 1])
        BY <1>1, <3>1, Zenon
      <4>2. h[i] = g[i] /\ (i # 0 => h[i - 1] = g[i - 1])
        BY <3>1
      <4> HIDE DEF h
      <4> QED
        BY <4>1, <4>2, Zenon
    <3>2. CASE i \notin 0 .. k
      <4>1. i = k + 1 /\ i # 0 /\ i - 1 = k /\ k \in 0 .. k + 1 /\ k \in 0 .. k
        BY <3>2
      <4>2. h[i] = Then(g[k]) /\ h[k] = g[k]
        BY <3>2, <4>1, Zenon
      <4> HIDE DEF h
      <4> QED
        BY <4>1, <4>2, Zenon
    <3> QED
      BY <3>1, <3>2
  <2>2. h = [i \in 0 .. k + 1 |-> h[i]]
    OBVIOUS
  <2> HIDE DEF h
  <2>3. h = Upto(k + 1, h)
    BY <2>1, <2>2, Zenon
  <2> QED
    BY <2>3, Zenon
<1>2. \E h : h = Upto(0, h)
  <2> DEFINE h == [i \in 0 .. 0 |-> none]
  <2>1. h = Upto(0, h)
    OBVIOUS
  <2> HIDE DEF h
  <2> QED
    BY <2>1
<1> HIDE DEF Upto
<1>3. \E h : h = Upto(n, h)
  <2> DEFINE Bad == {k \in Nat : ~ \E h : h = Upto(k, h)}
  <2> SUFFICES ASSUME Bad # {} PROVE FALSE
    OBVIOUS
  <2>1. Min(Bad) \in Bad /\ \A m \in Bad : Min(Bad) <= m
    BY LeastOf
  <2>2. PICK k \in Nat : k \in Bad /\ \A m \in Bad : k <= m
    BY <2>1
  <2>3. k # 0
    BY <1>2, <2>2
  <2>4. k - 1 \in Nat /\ k - 1 + 1 = k /\ ~(k <= k - 1)
    BY <2>3
  <2>5. \E h : h = Upto(k - 1, h)
    BY <2>2, <2>4
  <2>6. \E h : h = Upto(k, h)
    BY <1>1, <2>4, <2>5
  <2> QED
    BY <2>2, <2>6
<1> DEFINE u == CHOOSE h : h = Upto(n, h)
<1>4. u = Upto(n, u)
  BY <1>3, Zenon
<1> HIDE DEF u
<1>6. ASSUME NEW i \in 0 .. n
      PROVE  u[i] = IF i = 0 THEN none ELSE Then(u[i - 1])
  BY <1>4, Zenon DEF Upto
<1>7. \A i \in 0 .. n : Good(u[i])
  <2> DEFINE Bad == {i \in 0 .. n : ~ Good(u[i])}
  <2> SUFFICES ASSUME Bad # {} PROVE FALSE
    OBVIOUS
  <2>0. Bad \subseteq Nat
    OBVIOUS
  <2>1. Min(Bad) \in Bad /\ \A m \in Bad : Min(Bad) <= m
    BY <2>0, LeastOf
  <2>2. PICK i \in 0 .. n : ~ Good(u[i]) /\ \A m \in Bad : i <= m
    BY <2>1
  <2>3. i # 0
    BY <1>01, <1>6, <2>2
  <2>4. i - 1 \in 0 .. n /\ ~(i <= i - 1)
    BY <2>3
  <2>5. Good(u[i - 1])
    BY <2>2, <2>4
  <2> QED
    BY <1>0, <1>6, <2>2, <2>3, <2>5, Zenon
<1>8. Good(u[n])
  BY <1>7
<1> QED
  BY <1>02, <1>8, Zenon DEF u, Good

\* A map that is no error is a post-fixpoint.
LEMMA OkMap ==
  ASSUME NEW j, NEW G, NEW asm, AbstractMap(j, G, asm).ok
  PROVE  IsPostFixpoint(j, G, asm, AbstractMap(j, G, asm).map)
<1> DEFINE m == AbstractMap(j, G, asm)
           w == Worklist(j, G, asm, [map |-> [p \in PCs(j) |-> IF p = j.entry THEN Initial ELSE NoState],
                                     work |-> <<j.entry>>, fuel |-> FuelPerInsn * Len(j.code)])
           good == w.work = <<>> /\ IsPostFixpoint(j, G, asm, w.map)
<1>1. m = [ok |-> good, map |-> w.map]
  BY Zenon DEF AbstractMap, Judge
<1>2. good => IsPostFixpoint(j, G, asm, w.map)
  OBVIOUS
<1>0. m.ok
  OBVIOUS
<1> HIDE DEF m, w, good
<1>3. m.ok = good /\ m.map = w.map
  BY <1>1
<1> QED
  BY <1>0, <1>2, <1>3, Zenon DEF m

\* What discovery found for an edge: a layout, a map that is a post-fixpoint under
\* it, and arms without which the edge is not reached.
LEMMA EdgeFacts ==
  ASSUME NEW j \in Jobs, NEW G \in [PCs(j) -> SUBSET PCs(j)], NEW e, DiscoverEdge(j, G, e).kind = "found"
  PROVE  LET b == DiscoverEdge(j, G, e)
         IN  /\ Rows(j, G, OnPath(j, G, e), e, b.assumed)
             /\ IsPostFixpoint(j, G, b.assumed, b.map)
             /\ e \notin GReach(G, j.entry, {x.arm : x \in b.arms})
             /\ \A x \in b.arms : x.arm \in PCs(j)
             /\ b = [kind |-> "found", assumed |-> b.assumed, map |-> b.map, arms |-> b.arms]
<1> DEFINE b == DiscoverEdge(j, G, e)
           on == OnPath(j, G, e)
           layout == LayoutWith(j, G, e, on)
           count == AccountCount(j, G, on, e)
           acc == Lengths(j, G, e, on, Pick(count))
           m == AbstractMap(j, G, layout.assumed)
           arms == Arms(j, m.map, on, InLoad("byte", layout.ixdata))
<1>1. on \subseteq PCs(j)
  <2>1. j.entry \in PCs(j)
    BY JobFacts
  <2> QED
    BY <2>1, ReachFacts DEF OnPath
<1>2. layout.kind = "layout" /\ b = WithLayout(j, G, e, on, layout)
  <2>1. b = IF HasCycle(G, on) THEN [kind |-> "Loop"] ELSE WithLayout(j, G, e, on, layout)
    BY Zenon DEF DiscoverEdge, OnPaths
  <2>2. ~ HasCycle(G, on)
    <3>1. [kind |-> "Loop"].kind # "found"
      OBVIOUS
    <3> QED
      BY <2>1, <3>1, Zenon
  <2>3. layout.kind # "layout" => b = layout
    BY <2>1, <2>2, Zenon DEF WithLayout
  <2>4. layout = Unpinned \/ layout = [kind |-> "layout", assumed |-> acc.assumed, ixdata |-> InstructionData(Values(acc.assumed))]
    BY Zenon DEF LayoutWith, LayoutFor, LayoutOf
  <2>5. layout.kind # "found"
    <3> HIDE DEF layout, acc
    <3> QED
      BY <2>4 DEF Unpinned
  <2> QED
    BY <2>1, <2>2, <2>3, <2>5, Zenon
<1>3. layout.assumed = acc.assumed /\ Cardinality(count) = 1
  <2>1. layout = Unpinned \/ (/\ Cardinality(count) = 1
                              /\ layout = [kind |-> "layout", assumed |-> acc.assumed, ixdata |-> InstructionData(Values(acc.assumed))])
    BY Zenon DEF LayoutWith, LayoutFor, LayoutOf
  <2> HIDE DEF layout, acc, count
  <2> QED
    BY <1>2, <2>1 DEF Unpinned
<1>4. Pick(count) \in Nat
  <2>1. count \subseteq Words
    <3>1. \A map, w : CheckedValues(j, G, map, on, e, w) \subseteq Words
      BY <1>1, CheckedAreWords
    <3> HIDE DEF on
    <3> QED
      BY <3>1, Zenon DEF AccountCount, CountIn, WidestCheck
  <2> HIDE DEF count
  <2>2. count # {}
    BY <1>3, FS_EmptySet
  <2> QED
    BY <2>1, <2>2, WordsAreNumbers DEF Pick
<1>5. Rows(j, G, on, e, layout.assumed)
  BY <1>1, <1>3, <1>4, LengthsFacts
<1>6. b = Dispatched(j, G, e, layout, m, arms)
  BY <1>2, Zenon DEF WithLayout, WithMap
<1>7. m.ok /\ e \notin GReach(G, j.entry, {x.arm : x \in arms})
      /\ b = [kind |-> "found", assumed |-> layout.assumed, map |-> m.map, arms |-> arms]
  <2>1. [kind |-> "error"].kind # "found" /\ [kind |-> "NoDispatch"].kind # "found"
    OBVIOUS
  <2> HIDE DEF m, arms, layout
  <2> QED
    BY <1>6, <2>1, Zenon DEF Dispatched
<1>8. IsPostFixpoint(j, G, layout.assumed, m.map)
  BY <1>7, OkMap
<1>9. ASSUME NEW x \in arms PROVE x.arm \in PCs(j)
  <2>1. PICK p \in on : EqualitySide(j, p) \in on /\ x = [value |-> EqualityValue(j, p), arm |-> EqualitySide(j, p)]
    BY Zenon DEF Arms
  <2> QED
    BY <1>1, <2>1
<1> HIDE DEF b, m, arms, layout, on
<1>10. b.assumed = layout.assumed /\ b.map = m.map /\ b.arms = arms
  BY <1>7
<1> QED
  BY <1>5, <1>7, <1>8, <1>9, <1>10, Zenon DEF b, on

\* What the bindings of a supported edge are.
LEMMA BindingFacts ==
  ASSUME AnalysisInv, phase = "running", NEW e \in Found
  PROVE  /\ ~ GraphError(job, witness.heads)
         /\ Rows(job, graph, OnPath(job, graph, e), e, bindings[e].assumed)
         /\ IsPostFixpoint(job, graph, bindings[e].assumed, bindings[e].map)
         /\ \A x \in bindings[e].arms : x.arm \in PCs(job)
         /\ \E own : /\ e \notin GReach(graph, job.entry, {x.arm : x \in own})
                     /\ \A x \in own : x.arm \in PCs(job) /\ (e \in GReach(graph, x.arm, {}) => x \in bindings[e].arms)
<1>1. /\ job \in Jobs /\ graph = GraphSucc(job, witness.heads)
      /\ bindings = IF GraphError(job, witness.heads) THEN << >> ELSE Discover(job, graph, SuccessEdges)
  BY DEF AnalysisInv, Built, Discovered
<1>2. e \in DOMAIN bindings /\ bindings[e].kind = "found"
  BY DEF Found
<1>0. DOMAIN << >> = {}
  OBVIOUS
<1>3. ~ GraphError(job, witness.heads) /\ bindings = Discover(job, graph, SuccessEdges)
  BY <1>0, <1>1, <1>2, Zenon
<1>4. graph \in [PCs(job) -> SUBSET PCs(job)]
  BY <1>1, <1>3, GraphFacts
<1> DEFINE found == [x \in SuccessEdges |-> DiscoverEdge(job, graph, x)]
           all == UNION {found[x].arms : x \in Kinds(found, "found")}
           c == DiscoverEdge(job, graph, e)
           mine == {x \in all : e \in GReach(graph, x.arm, {})}
<1>5. bindings = ShareArms(graph, found, all)
  BY <1>0, <1>2, <1>3, Zenon DEF Discover, Combine
<1>6. e \in SuccessEdges /\ DOMAIN found = SuccessEdges /\ found[e] = c
  <2> HIDE DEF all
  <2>1. DOMAIN ShareArms(graph, found, all) = DOMAIN found
    BY DEF ShareArms
  <2> QED
    BY <1>2, <1>5, <2>1, Zenon
<1> HIDE DEF found
<1>7. bindings[e] = IF c.kind # "found" THEN c ELSE [c EXCEPT !.arms = mine]
  <2> HIDE DEF all, c
  <2> QED
    BY <1>5, <1>6, Zenon DEF ShareArms
<1>8. c.kind = "found" /\ bindings[e] = [c EXCEPT !.arms = mine]
  <2> HIDE DEF c, mine
  <2> QED
    BY <1>2, <1>7, Zenon
<1>9. \A x \in SuccessEdges : DiscoverEdge(job, graph, x).kind = "found" =>
         \A y \in DiscoverEdge(job, graph, x).arms : y.arm \in PCs(job)
  BY <1>1, <1>4, EdgeFacts, Zenon
<1>10. \A y \in all : y.arm \in PCs(job)
  BY <1>6, <1>9, Zenon DEF Kinds, found
<1>11. c.arms \subseteq all
  BY <1>6, <1>8, Zenon DEF Kinds
<1>12. /\ Rows(job, graph, OnPath(job, graph, e), e, c.assumed)
       /\ IsPostFixpoint(job, graph, c.assumed, c.map)
       /\ e \notin GReach(graph, job.entry, {x.arm : x \in c.arms})
       /\ c = [kind |-> "found", assumed |-> c.assumed, map |-> c.map, arms |-> c.arms]
  BY <1>1, <1>4, <1>8, EdgeFacts, Zenon
<1> DEFINE m2 == mine
           ca == c.assumed
           cm == c.map
           cr == c.arms
<1>13. c = [kind |-> "found", assumed |-> ca, map |-> cm, arms |-> cr]
  BY <1>12
<1> HIDE DEF c, m2, ca, cm, cr
<1>14. bindings[e] = [kind |-> "found", assumed |-> ca, map |-> cm, arms |-> m2]
  <2>1. \A y : [[kind |-> "found", assumed |-> ca, map |-> cm, arms |-> cr] EXCEPT !.arms = y]
            = [kind |-> "found", assumed |-> ca, map |-> cm, arms |-> y]
    OBVIOUS
  <2> QED
    BY <1>8, <1>13, <2>1, Zenon DEF m2
<1>15. bindings[e].assumed = ca /\ bindings[e].map = cm /\ bindings[e].arms = m2
  BY <1>14
<1>16. bindings[e].arms = mine
  BY <1>15, Zenon DEF m2
<1> HIDE DEF all
<1>17. \A x \in cr : x.arm \in PCs(job) /\ (e \in GReach(graph, x.arm, {}) => x \in bindings[e].arms)
  BY <1>10, <1>11, <1>16, Zenon DEF cr
<1>18. \A x \in bindings[e].arms : x.arm \in PCs(job)
  BY <1>10, <1>16, Zenon
<1> QED
  BY <1>3, <1>12, <1>15, <1>17, <1>18, Zenon DEF ca, cm, cr

\* The assumed lengths are numbered from 1.
LEMMA RowNumbers ==
  ASSUME NEW rows \in Seq(Row)
  PROVE  DOMAIN rows = 1 .. Len(rows) /\ 1 .. Len(rows) \subseteq Nat /\ Len(rows) \in Nat
<1> DEFINE T == Row
<1>1. rows \in Seq(T)
  OBVIOUS
<1> HIDE DEF T
<1> QED
  BY <1>1

\* The abstract state of a PC is true of every run that gets there from an input in
\* which the assumed lengths hold.
THEOREM AbstractMapIsTrue == Spec => []AbstractMapHolds
<1>1. AnalysisInv /\ MapInv => AbstractMapHolds
  <2> SUFFICES ASSUME AnalysisInv, MapInv, AtTop, NEW e \in Found,
                      \A i \in DOMAIN bindings[e].assumed : Holds(bindings[e].assumed[i])
               PROVE  /\ bindings[e].map[pc] # NoState
                      /\ \A r \in Regs : Denotes(bindings[e].map[pc].regs[r], regs[r])
                      /\ bindings[e].map[pc].written.known =>
                           \A i \in DOMAIN input : input[i] # input0[i] =>
                             \E o \in bindings[e].map[pc].written.ranges : i - 1 \in o .. o + Dword - 1
    BY Zenon DEF AbstractMapHolds
  <2> DEFINE rows == bindings[e].assumed
             map == bindings[e].map
  <2>1. phase = "running" /\ Depth = 1 /\ Site = pc /\ NoIndirectCall
    BY DEF AtTop, Site
  <2>2. rows \in Seq(Row) /\ IsPostFixpoint(job, graph, rows, map) /\ GraphOk
    BY <2>1, BindingFacts DEF Rows, GraphOk
  <2> HIDE DEF rows, map
  <2>3. Assumed(rows)
    <3>1. DOMAIN rows = 1 .. Len(rows) /\ 1 .. Len(rows) \subseteq Nat
      BY <2>2, RowNumbers
    <3> QED
      BY <3>1, Zenon DEF Assumed, rows
  <2>4. MapTrue(map)
    BY <2>1, <2>2, <2>3, Zenon DEF MapInv, MapOk
  <2>5. map[pc] # NoState /\ TrueOf(map[pc], regs, input)
    BY <2>1, <2>4, Zenon DEF MapTrue
  <2>6. \A r \in Regs : Denotes(map[pc].regs[r], regs[r])
    BY <2>5, DescribesDenotes, Zenon DEF TrueOf
  <2> QED
    BY <2>5, <2>6, Zenon DEF TrueOf, map
<1> QED
  BY <1>1, AnalysisIsDone, MapsAreTrue, PTL
-----------------------------------------------------------------------------
(* The branches a run has taken, told by the maps.                             *)

\* The branch at p goes on at q for operands that the map describes.
Decides(j, p, x, y, q) ==
  At(j, p).cmp # "any" /\ At(j, p).bits = 64 =>
    q = IF Compare(At(j, p).cmp, x, y) THEN Target(j, p) ELSE p + 1
BranchOk(map, p, q) ==
  /\ map[p] # NoState
  /\ \E x, y \in Words : /\ Describes(map[p].regs[At(job, p).d], x) /\ Describes(Operand(job, map, p), y)
                         /\ Decides(job, p, x, y, q)
FactInv ==
  phase = "running" /\ GraphOk =>
    \A asm, map : MapOk(asm, map) => \A t \in taken : Kind(job, t[1]) = "branch" => BranchOk(map, t[1], t[2])

\* A branch is taken on what the registers hold.
LEMMA BranchTaken ==
  ASSUME job \in Jobs, DataType, Walking, Kind(job, pc) = "branch",
         NEW map, map[pc] # NoState, TrueOf(map[pc], regs, input)
  PROVE  BranchOk(map, pc, pc')
<1>0. pc \in PCs(job) /\ Here = At(job, pc) /\ regs \in [Regs -> Words]
  BY DEF Walking, Here, DataType
<1>1. Here.op = "jcc" /\ Target(job, pc) = Here.t /\ Decoded(Here)
  BY <1>0, JobFacts, KindFacts
<1>2. Jump
  BY <1>1 DEF Walking, Compute, NoEffect, Store, Syscall, Fetched
<1>3. pc' \in Outcomes
  BY <1>2 DEF Jump, Goto
<1> DEFINE x == regs[Here.d]
           y == IF Here.reg THEN regs[Here.s] ELSE Here.imm % Modulus
<1>4. Here.d \in Regs /\ Here.imm \in Int /\ Here.reg \in BOOLEAN /\ (Here.reg => Here.s \in Regs)
  BY <1>1 DEF Decoded
<1>5. x \in Words /\ y \in Words
  BY <1>0, <1>4, Remainders
<1>6. Describes(map[pc].regs[Here.d], x)
  BY <1>4, Zenon DEF TrueOf
<1>7. Describes(Operand(job, map, pc), y)
  <2>1. CASE Here.reg
    <3>1. Operand(job, map, pc) = map[pc].regs[Here.s] /\ y = regs[Here.s]
      BY <1>0, <2>1, Zenon DEF Operand
    <3> QED
      BY <1>4, <2>1, <3>1, Zenon DEF TrueOf
  <2>2. CASE ~ Here.reg
    <3>1. Operand(job, map, pc) = <<"const", y>>
      BY <1>0, <2>2, Zenon DEF Operand, K
    <3> HIDE DEF y
    <3> QED
      BY <3>1 DEF Describes
  <2> QED
    BY <2>1, <2>2
<1>8. ASSUME Here.cmp # "any", Here.bits = 64
      PROVE  pc' = IF Compare(Here.cmp, x, y) THEN Here.t ELSE pc + 1
  <2>1. Low(x, Here.bits) = x /\ Low(y, Here.bits) = y
    BY <1>8 DEF Low
  <2>2. Outcomes = IF Compare(Here.cmp, Low(x, Here.bits), Low(y, Here.bits)) THEN {Here.t} ELSE {pc + 1}
    <3>1. Here.op # "ja"
      BY <1>1
    <3> QED
      BY <1>8, <3>1, Zenon DEF Outcomes
  <2>3. Outcomes = IF Compare(Here.cmp, x, y) THEN {Here.t} ELSE {pc + 1}
    <3> HIDE DEF x, y
    <3> QED
      BY <2>1, <2>2, Zenon
  <2> HIDE DEF x, y
  <2> QED
    BY <1>3, <2>3, Zenon
<1> HIDE DEF x, y
<1>9. Decides(job, pc, x, y, pc')
  BY <1>0, <1>1, <1>8, Zenon DEF Decides
<1> QED
  BY <1>0, <1>5, <1>6, <1>7, <1>9, Zenon DEF BranchOk

\* A step that follows a branch follows it on what the maps describe.
LEMMA FactStep ==
  ASSUME AnalysisInv, RunInv, ReachInv, MapInv, FactInv, Step
  PROVE  FactInv'
<1>1. /\ phase = "running" /\ phase' = phase /\ UNCHANGED <<job, fns, witness, graph>> /\ job \in Jobs
  BY StepStays DEF Stay, analysis, AnalysisInv
<1>2. GraphOk' <=> GraphOk
  BY <1>1 DEF GraphOk, NoIndirectCall
<1>3. DataType
  BY <1>1 DEF RunInv
<1>4. \A map, p, q : BranchOk(map, p, q)' <=> BranchOk(map, p, q)
  BY <1>1, DescriptionsStay, Zenon DEF BranchOk
<1> SUFFICES ASSUME GraphOk, NEW asm, NEW map, MapOk(asm, map), NEW t \in taken', Kind(job, t[1]) = "branch"
             PROVE  BranchOk(map, t[1], t[2])
  BY <1>1, <1>2, <1>4, DescriptionsStay, Zenon DEF FactInv
<1>5. MapTrue(map)
  BY <1>1 DEF MapInv
<1>6. CASE t \in taken
  BY <1>1, <1>6, Zenon DEF FactInv
<1>7. CASE t \notin taken
  <2>1. PICK p, q : t = <<p, q>> /\ p = Site /\ q = Site' /\ Advance
    BY <1>7, SiteStep DEF Advance, Pause, GraphOk
  <2>2. t[1] = Site /\ t[2] = Site' /\ Site' = pc'
    BY <2>1 DEF Advance
  <2>3. Depth = 1 /\ Walking /\ Site = pc
    BY <1>7, <2>2, SiteStep DEF Pause, GraphOk
  <2>4. map[pc] # NoState /\ TrueOf(map[pc], regs, input)
    BY <1>5, <2>3, Zenon DEF MapTrue
  <2>5. BranchOk(map, pc, pc')
    BY <1>1, <1>3, <2>2, <2>3, <2>4, BranchTaken
  <2> QED
    BY <2>2, <2>3, <2>5, Zenon
<1> QED
  BY <1>6, <1>7

\* Every branch of a run was taken on values its maps describe.
LEMMA FactsAreTrue == Spec => []FactInv
<1>1. Init => FactInv
  BY DEF Init, FactInv
<1>2. AnalysisInv /\ RunInv /\ ReachInv /\ MapInv /\ FactInv /\ [Next]_vars => FactInv'
  <2> SUFFICES ASSUME AnalysisInv, RunInv, ReachInv, MapInv, FactInv, [Next]_vars PROVE FactInv'
    OBVIOUS
  <2>1. CASE Refine \/ DiscoverBindings \/ Generate
    BY <2>1 DEF Refine, DiscoverBindings, Generate, FactInv
  <2>2. CASE Load
    <3>1. taken' = {}
      BY <2>2 DEF Load, AnalysisInv, AtStart
    <3> QED
      BY <3>1 DEF FactInv
  <2>3. CASE Step
    BY <2>3, FactStep
  <2>4. CASE UNCHANGED vars
    <3>1. UNCHANGED <<phase, job, graph, witness, fns, taken, input0>>
      BY <2>4 DEF vars, analysis, machine
    <3>2. \A v, x : Describes(v, x)' <=> Describes(v, x)
      BY <3>1 DEF Describes
    <3>3. \A map, p, q : BranchOk(map, p, q)' <=> BranchOk(map, p, q)
      BY <3>1, <3>2, Zenon DEF BranchOk
    <3>4. \A asm, map : MapOk(asm, map)' <=> MapOk(asm, map)
      BY <3>1, Zenon DEF MapOk, Assumed, Holds
    <3>5. GraphOk' <=> GraphOk
      BY <3>1 DEF GraphOk, NoIndirectCall
    <3> QED
      BY <3>1, <3>3, <3>4, <3>5, Zenon DEF FactInv
  <2> QED
    BY <2>1, <2>2, <2>3, <2>4 DEF Next, Done
<1> QED
  BY <1>1, <1>2, AnalysisIsDone, RunIsOnFunctions, RunIsReachable, MapsAreTrue, PTL DEF Spec
-----------------------------------------------------------------------------
(* Lengths that are checked.                                                   *)

\* Programs whose comparisons are of whole registers, and whose equality checks
\* have two sides.
WideBranches == \A j \in Jobs : \A p \in PCs(j) : Kind(j, p) = "branch" => At(j, p).bits = 64
TwoSidedChecks == \A j \in Jobs : \A p \in PCs(j) : IsEquality(j, p) => Target(j, p) # p + 1

\* A constant says what the number is.
LEMMA ConstantValue ==
  ASSUME NEW n, NEW x, Describes(K(n), x)
  PROVE  x = n % Modulus
<1>1. K(n)[1] = "const" /\ K(n)[2] = n % Modulus
  BY DEF K
<1> QED
  BY <1>1, TagFacts

\* An unwritten word of the input says what the number is.
LEMMA LoadedValue ==
  ASSUME NEW w, NEW o, NEW x, Describes(InLoad(w, o), x)
  PROVE  /\ w \in {"byte", "dword"} /\ o \in Nat /\ o + WidthBytes(w) <= Len(input0)
         /\ x = ReadInput(input0, o, w)
<1>1. InLoad(w, o)[1] = "inload" /\ InLoad(w, o)[2] = w /\ InLoad(w, o)[3] = o
  BY DEF InLoad
<1> QED
  BY <1>1, TagFacts

\* A run that went along the equal side of a check compared equal values.
LEMMA EqualSide ==
  ASSUME job \in Jobs, WideBranches, TwoSidedChecks, NEW p \in PCs(job), IsEquality(job, p),
         NEW map, NEW w, NEW o, LooksAt(job, map, p, InLoad(w, o)), BranchOk(map, p, EqualitySide(job, p))
  PROVE  ReadInput(input0, o, w) = EqualityValue(job, p)
<1> DEFINE i == At(job, p)
           q == EqualitySide(job, p)
<1>1. Kind(job, p) = "branch" /\ ~ i.reg /\ i.cmp \in {"eq", "ne"}
  BY DEF IsEquality
<1>2. i.bits = 64 /\ Target(job, p) # p + 1
  BY <1>1 DEF WideBranches, TwoSidedChecks
<1>3. PICK x \in Words, y \in Words : /\ Describes(map[p].regs[i.d], x) /\ Describes(Operand(job, map, p), y)
                                       /\ Decides(job, p, x, y, q)
  BY DEF BranchOk
<1>4. x = ReadInput(input0, o, w)
  <2>1. map[p].regs[i.d] = InLoad(w, o)
    BY DEF LooksAt
  <2>2. Describes(InLoad(w, o), x)
    BY <1>3, <2>1, Zenon
  <2> QED
    BY <2>2, LoadedValue
<1>5. y = EqualityValue(job, p)
  <2>1. Operand(job, map, p) = K(i.imm)
    BY <1>1, Zenon DEF Operand
  <2>2. Describes(K(i.imm), y)
    BY <1>3, <2>1, Zenon
  <2> QED
    BY <2>2, ConstantValue DEF EqualityValue
<1>6. q = IF Compare(i.cmp, x, y) THEN Target(job, p) ELSE p + 1
  <2>1. i.cmp # "any"
    BY <1>1
  <2> QED
    BY <1>2, <1>3, <2>1, Zenon DEF Decides
<1>7. x = y
  <2>1. CASE i.cmp = "eq"
    <3>1. q = Target(job, p)
      BY <2>1 DEF EqualitySide
    <3>2. Compare(i.cmp, x, y)
      BY <1>2, <1>6, <3>1, Zenon
    <3> QED
      BY <2>1, <3>2 DEF Compare
  <2>2. CASE i.cmp = "ne"
    <3>1. q = p + 1
      BY <2>2 DEF EqualitySide
    <3>2. ~ Compare(i.cmp, x, y)
      BY <1>2, <1>6, <3>1, Zenon
    <3> QED
      BY <2>2, <3>2 DEF Compare
  <2> QED
    BY <1>1, <2>1, <2>2
<1> QED
  BY <1>4, <1>5, <1>7

\* A run that got to an edge went along one of the sides that cut it off.
LEMMA CutIsCrossed ==
  ASSUME NEW j \in Jobs, NEW G \in [PCs(j) -> SUBSET PCs(j)], NEW Ts, NEW V, j.entry \in V,
         NEW e \in PCs(j), Trace(j, G, Ts, V), LeadTo(j, Ts, V, e), NEW sides, CutBy(j, G, e, sides)
  PROVE  \E x \in Ts : x \in sides
<1> DEFINE next == [p \in DOMAIN G |-> {q \in G[p] : <<p, q>> \notin sides}]
           C == Closure(next, {j.entry})
<1>1. next \in [PCs(j) -> SUBSET PCs(j)] /\ IsFiniteSet(PCs(j)) /\ {j.entry} \in SUBSET PCs(j)
  BY JobFacts
<1>2. \A p \in PCs(j) : \A q \in G[p] : <<p, q>> \notin sides => q \in next[p]
  OBVIOUS
<1>3. e \notin C
  BY DEF CutBy
<1> HIDE DEF next
<1>4. {j.entry} \subseteq C /\ C \subseteq PCs(j) /\ Closed(next, C)
  BY <1>1, ClosureFacts
<1> HIDE DEF C
<1> SUFFICES ASSUME \A x \in Ts : x \notin sides PROVE FALSE
  OBVIOUS
<1>5. ASSUME NEW x \in Ts, x[1] \in C PROVE x[2] \in C
  <2>1. x = <<x[1], x[2]>> /\ x[1] \in PCs(j) /\ x[2] \in G[x[1]]
    BY DEF Trace
  <2>2. <<x[1], x[2]>> \notin sides
    BY <2>1, Zenon
  <2>3. x[2] \in next[x[1]]
    BY <1>2, <2>1, <2>2, Zenon
  <2> QED
    BY <1>4, <1>5, <2>3, Zenon DEF Closed
<1>6. C \in SUBSET PCs(j) /\ \E v \in V : v \in C
  BY <1>4
<1>7. e \in C
  BY <1>5, <1>6, Zenon DEF LeadTo
<1> QED
  BY <1>3, <1>7

\* A length that discovery calls checked is checked, in programs without the two
\* kinds of branches that the check takes for more than they are.
THEOREM CheckedLengths ==
  ASSUME WideBranches, TwoSidedChecks
  PROVE  Spec => []CheckedLengthsHold
<1>1. AnalysisInv /\ PathInv /\ FactInv => CheckedLengthsHold
  <2> SUFFICES ASSUME AnalysisInv, PathInv, FactInv, AtTop, NEW e \in Found, e = pc,
                      NEW k \in DOMAIN bindings[e].assumed, bindings[e].assumed[k].checked,
                      \A i \in 1 .. k - 1 : Holds(bindings[e].assumed[i])
               PROVE  Holds(bindings[e].assumed[k])
    BY Zenon DEF CheckedLengthsHold
  <2> DEFINE rows == bindings[e].assumed
             on == OnPath(job, graph, e)
  <2>1. /\ phase = "running" /\ Site = pc /\ NoIndirectCall /\ pc \in PCs(job)
        /\ job \in Jobs /\ graph = GraphSucc(job, witness.heads)
    BY DEF AtTop, Site, AnalysisInv, Built
  <2>2. Rows(job, graph, on, e, rows) /\ GraphOk
    BY <2>1, BindingFacts DEF GraphOk
  <2>3. graph \in [PCs(job) -> SUBSET PCs(job)]
    BY <2>1, <2>2, GraphFacts DEF GraphOk
  <2> HIDE DEF rows
  <2>4. k \in 1 .. Len(rows) /\ k \in Nat
    <3>1. rows \in Seq(Row) /\ k \in DOMAIN rows
      BY <2>2 DEF Rows, rows
    <3> QED
      BY <3>1, RowNumbers
  <2>5. CheckedRow(job, graph, on, e, rows, k)
    BY <2>2, <2>4, Zenon DEF Rows, rows
  <2>6. PICK pre \in Seq(Row) :
          /\ Len(pre) = k - 1 /\ \A i \in 1 .. k - 1 : pre[i] = rows[i]
          /\ AbstractMap(job, graph, pre).ok
          /\ rows[k].value \in CheckedValues(job, graph, AbstractMap(job, graph, pre).map, on, e, InLoad("dword", rows[k].off))
    BY <2>5, Zenon DEF CheckedRow
  <2> DEFINE map == AbstractMap(job, graph, pre).map
             word == InLoad("dword", rows[k].off)
             v == rows[k].value
             checks == {p \in on : IsEquality(job, p) /\ LooksAt(job, map, p, word)}
             sides == {<<p, EqualitySide(job, p)>> : p \in {q \in checks : EqualityValue(job, q) = v}}
  <2>7. MapOk(pre, map)
    <3>1. Assumed(pre)
      <4>1. DOMAIN pre = 1 .. k - 1 /\ 1 .. k - 1 \subseteq Nat
        BY <2>6, RowNumbers
      <4> QED
        BY <2>6, <4>1, Zenon DEF Assumed, rows
    <3> QED
      BY <2>6, <3>1, OkMap, Zenon DEF MapOk
  <2>8. CutBy(job, graph, e, sides)
    BY <2>6, Zenon DEF CheckedValues
  <2>9. PICK x \in taken : x \in sides
    <3>1. Trace(job, graph, taken, Visited) /\ LeadTo(job, taken, Visited, pc) /\ job.entry \in Visited
      BY <2>1, <2>2 DEF PathInv, Visited, NodesOf
    <3> HIDE DEF sides
    <3> QED
      BY <2>1, <2>3, <2>8, <3>1, CutIsCrossed
  <2>10. PICK p \in checks : EqualityValue(job, p) = v /\ x = <<p, EqualitySide(job, p)>>
    BY <2>9, Zenon
  <2> HIDE DEF sides, map, v
  <2>11. p \in on /\ IsEquality(job, p) /\ LooksAt(job, map, p, word)
    BY <2>10
  <2>12. p \in PCs(job)
    <3>1. job.entry \in PCs(job)
      BY <2>1, JobFacts
    <3> QED
      BY <2>1, <2>3, <2>11, <3>1, ReachFacts DEF OnPath
  <2>13. BranchOk(map, p, EqualitySide(job, p))
    <3>1. x[1] = p /\ x[2] = EqualitySide(job, p) /\ Kind(job, p) = "branch"
      BY <2>10, <2>11 DEF IsEquality
    <3> QED
      BY <2>1, <2>2, <2>7, <2>9, <3>1, Zenon DEF FactInv
  <2>14. ReadInput(input0, rows[k].off, "dword") = EqualityValue(job, p)
    BY <2>1, <2>11, <2>12, <2>13, EqualSide
  <2> QED
    BY <2>10, <2>14, Zenon DEF Holds, rows, v
<1> QED
  BY <1>1, AnalysisIsDone, RunIsAPath, FactsAreTrue, PTL
-----------------------------------------------------------------------------
(* The theorems that are generated.                                            *)

\* A fact whose operands the map pins, and which is true of them.
TrueFact(f) ==
  /\ f.dv # Top /\ f.sv # Top
  /\ \E x, y \in Words : /\ Describes(f.dv, x) /\ Describes(f.sv, y)
                         /\ f.op # "any" => f.op \in {"eq", "ne", "gt"} /\ Compare(f.op, x, y) = f.taken

\* What is compared is true or false.
LEMMA CompareIsBoolean ==
  ASSUME NEW cmp \in {"eq", "ne", "gt"}, NEW x, NEW y
  PROVE  Compare(cmp, x, y) \in BOOLEAN
<1>1. CASE cmp = "eq"
  <2>1. Compare(cmp, x, y) = (x = y)
    BY <1>1 DEF Compare
  <2> QED
    BY <2>1
<1>2. CASE cmp = "ne"
  <2>1. Compare(cmp, x, y) = (x # y)
    BY <1>2 DEF Compare
  <2> QED
    BY <2>1
<1>3. CASE cmp = "gt"
  <2>1. Compare(cmp, x, y) = (x > y)
    BY <1>3 DEF Compare
  <2> QED
    BY <2>1
<1> QED
  BY <1>1, <1>2, <1>3

\* A true fact holds of the initial input.
LEMMA TrueFactHolds ==
  ASSUME NEW f, TrueFact(f)
  PROVE  FactHolds(f)
<1>1. PICK x \in Words, y \in Words :
        /\ Describes(f.dv, x) /\ Describes(f.sv, y)
        /\ f.op # "any" => f.op \in {"eq", "ne", "gt"} /\ Compare(f.op, x, y) = f.taken
  BY Zenon DEF TrueFact
<1>2. Value(f.dv) = x /\ Value(f.sv) = y
  BY <1>1, DescribesValue DEF TrueFact
<1> QED
  BY <1>1, <1>2, Zenon DEF FactHolds

\* What Graph::guards lists are branches with two sides.
LEMMA GuardShape ==
  ASSUME NEW j \in Jobs, NEW G \in [PCs(j) -> SUBSET PCs(j)], NEW s, NEW e \in PCs(j), NEW g \in Guards(j, G, s, e)
  PROVE  g.pc \in PCs(j) /\ Kind(j, g.pc) = "branch" /\ Target(j, g.pc) # g.pc + 1
<1> DEFINE back == GReachBack(G, e)
           sides(p) == {q \in {Target(j, p), p + 1} : q \in back}
<1>1. PICK p : /\ p \in back /\ Kind(j, p) = "branch" /\ Target(j, p) # p + 1
               /\ g = [pc |-> p, on |-> CHOOSE q \in sides(p) : TRUE]
  BY Zenon DEF Guards
<1>2. back \subseteq PCs(j)
  BY ReachBackFacts
<1> HIDE DEF back, sides
<1>3. g.pc = p
  BY <1>1
<1> QED
  BY <1>1, <1>2, <1>3

\* A pinned guard that was passed is a true fact.
LEMMA PinnedIsTrue ==
  ASSUME job \in Jobs, WideBranches, FactInv, phase = "running", GraphOk, NEW asm, NEW map, MapOk(asm, map),
         NEW guards, \A g \in guards : /\ g.pc \in PCs(job) /\ Kind(job, g.pc) = "branch" /\ Target(job, g.pc) # g.pc + 1
                                       /\ <<g.pc, g.on>> \in taken,
         NEW f \in Pinned(job, map, guards)
  PROVE  TrueFact(f)
<1>1. PICK g \in guards :
        /\ map[g.pc].regs[At(job, g.pc).d] # Top /\ Operand(job, map, g.pc) # Top
        /\ f = [op |-> At(job, g.pc).cmp, dv |-> map[g.pc].regs[At(job, g.pc).d], sv |-> Operand(job, map, g.pc),
                taken |-> g.on = Target(job, g.pc)]
  BY Zenon DEF Pinned
<1> DEFINE p == g.pc
           q == g.on
           i == At(job, p)
           dv == map[p].regs[i.d]
           sv == Operand(job, map, p)
           c == i.cmp
           b == q = Target(job, p)
<1>2. /\ p \in PCs(job) /\ Kind(job, p) = "branch" /\ Target(job, p) # p + 1 /\ <<p, q>> \in taken
      /\ b \in BOOLEAN
  OBVIOUS
<1>3. BranchOk(map, p, q)
  <2> DEFINE t == <<p, q>>
  <2>1. t[1] = p /\ t[2] = q /\ t \in taken
    OBVIOUS
  <2> HIDE DEF t
  <2> QED
    BY <1>2, <2>1, Zenon DEF FactInv
<1>4. PICK x \in Words, y \in Words : Describes(dv, x) /\ Describes(sv, y) /\ Decides(job, p, x, y, q)
  BY <1>3, Zenon DEF BranchOk
<1>5. i.bits = 64 /\ i.cmp \in {"eq", "ne", "gt", "any"}
  <2>1. i.op = "jcc" /\ Decoded(i)
    BY <1>2, JobFacts, KindFacts
  <2> QED
    BY <1>2, <2>1 DEF WideBranches, Decoded
<1>6. c # "any" => c \in {"eq", "ne", "gt"} /\ Compare(c, x, y) = b
  <2> SUFFICES ASSUME c # "any" PROVE c \in {"eq", "ne", "gt"} /\ Compare(c, x, y) = b
    OBVIOUS
  <2>1. c \in {"eq", "ne", "gt"}
    BY <1>5
  <2>2. Compare(c, x, y) \in BOOLEAN
    BY <2>1, CompareIsBoolean
  <2>3. q = IF Compare(c, x, y) THEN Target(job, p) ELSE p + 1
    BY <1>4, <1>5, Zenon DEF Decides
  <2> HIDE DEF c
  <2>4. b <=> Compare(c, x, y)
    BY <1>2, <2>3, Zenon
  <2> HIDE DEF b
  <2> QED
    BY <1>2, <2>1, <2>2, <2>4, Zenon
<1>7. f = [op |-> c, dv |-> dv, sv |-> sv, taken |-> b] /\ dv # Top /\ sv # Top
  BY <1>1, Zenon
<1> HIDE DEF c, dv, sv, b
<1>8. f.op = c /\ f.dv = dv /\ f.sv = sv /\ f.taken = b
  BY <1>7
<1> QED
  BY <1>4, <1>6, <1>7, <1>8, Zenon DEF TrueFact

\* The bytes of a dword are its digits.
LEMMA SameBytes ==
  ASSUME NEW a \in Bytes, NEW b \in Bytes, NEW c \in Bytes, NEW d \in Bytes,
         a + ByteValues * b = c + ByteValues * d
  PROVE  a = c /\ b = d
<1> DEFINE B == ByteValues
<1>1. B \in Nat /\ B > 0 /\ a \in 0 .. B - 1 /\ c \in 0 .. B - 1 /\ b \in Int /\ d \in Int
  BY LayoutAssumption DEF Bytes
<1>2. B * (b - d) = c - a
  BY <1>1
<1>3. b - d > 0 => B * (b - d) >= B
  BY <1>1
<1>4. b - d < 0 => B * (b - d) <= -B
  BY <1>1
<1>5. b = d
  BY <1>1, <1>2, <1>3, <1>4
<1> QED
  BY <1>1, <1>2, <1>5

\* A fact that states an equality of two words of the input is about their bytes.
LEMMA EqualWords ==
  ASSUME input0 \in Seq(Bytes), NEW f, TrueFact(f), StatesEq(f), NEW o, NEW u,
         \/ f.dv = InLoad("dword", o) /\ f.sv = InLoad("dword", u)
         \/ f.dv = InLoad("dword", u) /\ f.sv = InLoad("dword", o)
  PROVE  o \in Nat /\ u \in Nat /\ input0[o + 1] = input0[u + 1] /\ input0[o + 2] = input0[u + 2]
<1>1. PICK x \in Words, y \in Words :
        /\ Describes(f.dv, x) /\ Describes(f.sv, y)
        /\ f.op # "any" => f.op \in {"eq", "ne", "gt"} /\ Compare(f.op, x, y) = f.taken
  BY Zenon DEF TrueFact
<1>2. x = y
  <2>1. CASE f.taken
    <3>1. f.op = "eq"
      BY <2>1, Zenon DEF StatesEq
    <3>2. Compare("eq", x, y)
      <4>1. "eq" # "any"
        OBVIOUS
      <4> QED
        BY <1>1, <2>1, <3>1, <4>1, Zenon
    <3> QED
      BY <3>2 DEF Compare
  <2>2. CASE ~ f.taken
    <3>1. f.op = "ne"
      BY <2>2, Zenon DEF StatesEq
    <3>2. ~ Compare("ne", x, y)
      <4>1. "ne" # "any"
        OBVIOUS
      <4> QED
        BY <1>1, <2>2, <3>1, <4>1, Zenon
    <3> QED
      BY <3>2 DEF Compare
  <2> QED
    BY <2>1, <2>2
<1> DEFINE L == InLoad("dword", o)
           R == InLoad("dword", u)
<1> HIDE DEF L, R
<1>3. (f.dv = L /\ f.sv = R) \/ (f.dv = R /\ f.sv = L)
  BY DEF L, R
<1>4. Describes(L, x) /\ Describes(R, x)
  BY <1>1, <1>2, <1>3, Zenon
<1>5. /\ o \in Nat /\ o + WidthBytes("dword") <= Len(input0) /\ x = ReadInput(input0, o, "dword")
      /\ u \in Nat /\ u + WidthBytes("dword") <= Len(input0) /\ x = ReadInput(input0, u, "dword")
  BY <1>4, LoadedValue DEF L, R
<1>6. /\ o + 2 <= Len(input0) /\ u + 2 <= Len(input0)
      /\ input0[o + 1] + ByteValues * input0[o + 2] = input0[u + 1] + ByteValues * input0[u + 2]
  BY <1>5 DEF WidthBytes, Dword, ReadInput
<1>7. /\ input0[o + 1] \in Bytes /\ input0[o + 2] \in Bytes
      /\ input0[u + 1] \in Bytes /\ input0[u + 2] \in Bytes
  <2> DEFINE T == Bytes
  <2>1. input0 \in Seq(T)
    OBVIOUS
  <2> HIDE DEF T
  <2>2. /\ o + 1 \in 1 .. Len(input0) /\ o + 2 \in 1 .. Len(input0)
        /\ u + 1 \in 1 .. Len(input0) /\ u + 2 \in 1 .. Len(input0)
    BY <1>5, <1>6, <2>1
  <2>3. \A i \in 1 .. Len(input0) : input0[i] \in T
    BY <2>1
  <2> QED
    BY <2>2, <2>3, Zenon DEF T
<1> QED
  BY <1>5, <1>6, <1>7, SameBytes

\* The accounts of a layout start at numbers.
LEMMA RegionFacts ==
  ASSUME NEW rows \in Seq(Row)
  PROVE  \A n \in DOMAIN Regions(rows) : Regions(rows)[n].h \in Int
<1> DEFINE T == Row
           lengths == Values(rows)
<1>1. rows \in Seq(T)
  OBVIOUS
<1>2. \A y \in T : y.value \in Int
  BY WordsAreNumbers DEF Row
<1> HIDE DEF T
<1>3. Len(rows) \in Nat /\ \A i \in 1 .. Len(rows) : rows[i].value \in Int
  BY <1>1, <1>2
<1>4. \A i \in 1 .. Len(rows) : lengths[i] \in Int
  BY <1>3 DEF Values
<1> HIDE DEF lengths
<1> SUFFICES ASSUME NEW n \in 1 .. Len(rows) PROVE AccountData(lengths, n) - HeaderLen \in Int
  BY DEF Regions, lengths
<1>5. n - 1 \in Nat /\ \A i \in 1 .. n - 1 : lengths[i] \in Int
  BY <1>3, <1>4
<1>6. Cursor(lengths, n - 1) \in Int
  BY <1>5, CursorIsInt
<1> QED
  BY <1>6 DEF AccountData, HeaderLen

\* An account that is proved to have signed has signed.
LEMMA SignerSigned ==
  ASSUME NEW rows \in Seq(Row), NEW stated, \A f \in stated : TrueFact(f),
         NEW n \in ProvenSigners(stated, Regions(rows))
  PROVE  input0[Regions(rows)[n].h + 2] # 0
<1> DEFINE h == Regions(rows)[n].h
<1>1. PICK f \in stated : f.dv = InLoad("byte", h + 1) /\ f.sv = K(0) /\ StatesNe(f)
  BY Zenon DEF ProvenSigners
<1>2. n \in DOMAIN Regions(rows)
  BY Zenon DEF ProvenSigners
<1>3. h \in Int
  BY <1>2, RegionFacts
<1> HIDE DEF h
<1>4. PICK x \in Words, y \in Words :
        /\ Describes(f.dv, x) /\ Describes(f.sv, y)
        /\ f.op # "any" => f.op \in {"eq", "ne", "gt"} /\ Compare(f.op, x, y) = f.taken
  BY Zenon DEF TrueFact
<1>5. x = ReadInput(input0, h + 1, "byte")
  <2>1. Describes(InLoad("byte", h + 1), x)
    BY <1>1, <1>4, Zenon
  <2> QED
    BY <2>1, LoadedValue
<1>6. y = 0
  <2>1. Describes(K(0), y)
    BY <1>1, <1>4, Zenon
  <2>2. y = 0 % Modulus
    BY <2>1, ConstantValue
  <2> QED
    BY <2>2, WordsAreNumbers, Remainders
<1>7. x # y
  <2>1. CASE f.taken
    <3>1. f.op = "ne"
      BY <1>1, <2>1, Zenon DEF StatesNe
    <3>2. Compare("ne", x, y)
      <4>1. "ne" # "any"
        OBVIOUS
      <4> QED
        BY <1>4, <2>1, <3>1, <4>1, Zenon
    <3> QED
      BY <3>2 DEF Compare
  <2>2. CASE ~ f.taken
    <3>1. f.op = "eq"
      BY <1>1, <2>2, Zenon DEF StatesNe
    <3>2. ~ Compare("eq", x, y)
      <4>1. "eq" # "any"
        OBVIOUS
      <4> QED
        BY <1>4, <2>2, <3>1, <4>1, Zenon
    <3> QED
      BY <3>2 DEF Compare
  <2> QED
    BY <2>1, <2>2
<1>8. x = input0[h + 2]
  <2>1. h + 1 + 1 = h + 2
    BY <1>3
  <2> QED
    BY <1>5, <2>1 DEF ReadInput
<1> QED
  BY <1>6, <1>7, <1>8 DEF h

\* A key that is proved to be a stored key is that key.
LEMMA KeyCompared ==
  ASSUME input0 \in Seq(Bytes), NEW rows \in Seq(Row), NEW stated, \A f \in stated : TrueFact(f),
         NEW k \in ProvenKeys(stated, Regions(rows)), NEW i \in 1 .. KeyLimbs * Dword
  PROVE  input0[Regions(rows)[k.account].h + KeyAt + i] = input0[k.base + i]
<1> DEFINE h == Regions(rows)[k.account].h
           S == LimbsFor(stated, h + KeyAt, k.base)
<1>1. Cardinality(S) = KeyLimbs /\ k \in [account : DOMAIN Regions(rows), base : 0 .. MaxOffset]
  BY Zenon DEF ProvenKeys
<1>2. k.account \in DOMAIN Regions(rows) /\ k.base \in 0 .. MaxOffset
  BY <1>1
<1>3. h \in Int /\ k.base \in Int
  BY <1>2, RegionFacts
<1> HIDE DEF h
<1>4. S \subseteq {0, 1}
  BY DEF LimbsFor, KeyLimbs
<1>5. 0 \in S /\ 1 \in S
  <2> HIDE DEF S
  <2>1. Cardinality(S) = 2
    BY <1>1 DEF KeyLimbs
  <2>2. Cardinality({}) = 0 /\ Cardinality({0}) = 1 /\ Cardinality({1}) = 1
    BY FS_EmptySet, FS_Singleton
  <2>0. 2 # 0 /\ 2 # 1
    OBVIOUS
  <2>3. S # {} /\ S # {0} /\ S # {1}
    BY <2>0, <2>1, <2>2, Zenon
  <2> QED
    BY <1>4, <2>3
<1>6. ASSUME NEW l \in {0, 1}
      PROVE  /\ input0[h + KeyAt + l * Dword + 1] = input0[k.base + l * Dword + 1]
             /\ input0[h + KeyAt + l * Dword + 2] = input0[k.base + l * Dword + 2]
  <2>1. PICK f \in stated : StatesEq(f) /\ {f.dv, f.sv} = {InLoad("dword", h + KeyAt + l * Dword), InLoad("dword", k.base + l * Dword)}
    BY <1>5, Zenon DEF LimbsFor
  <2> DEFINE o == h + KeyAt + l * Dword
             u == k.base + l * Dword
  <2>2. StatesEq(f) /\ {f.dv, f.sv} = {InLoad("dword", o), InLoad("dword", u)} /\ TrueFact(f)
    BY <2>1, Zenon
  <2> HIDE DEF o, u
  <2>3. \A a, b, c, d : {a, b} = {c, d} => (a = c /\ b = d) \/ (a = d /\ b = c)
    OBVIOUS
  <2>4. \/ f.dv = InLoad("dword", o) /\ f.sv = InLoad("dword", u)
        \/ f.dv = InLoad("dword", u) /\ f.sv = InLoad("dword", o)
    BY <2>2, <2>3, Zenon
  <2>5. input0[o + 1] = input0[u + 1] /\ input0[o + 2] = input0[u + 2]
    BY <2>2, <2>4, EqualWords
  <2> QED
    BY <2>5, Zenon DEF o, u
<1>7. input0[h + 3] = input0[k.base + 1] /\ input0[h + 4] = input0[k.base + 2]
  <2>1. /\ h + KeyAt + 0 * Dword + 1 = h + 3 /\ h + KeyAt + 0 * Dword + 2 = h + 4
        /\ k.base + 0 * Dword + 1 = k.base + 1 /\ k.base + 0 * Dword + 2 = k.base + 2
    BY <1>3 DEF KeyAt, Dword
  <2>2. 0 \in {0, 1}
    OBVIOUS
  <2> QED
    BY <1>6, <2>1, <2>2, Zenon
<1>8. input0[h + 5] = input0[k.base + 3] /\ input0[h + 6] = input0[k.base + 4]
  <2>1. /\ h + KeyAt + 1 * Dword + 1 = h + 5 /\ h + KeyAt + 1 * Dword + 2 = h + 6
        /\ k.base + 1 * Dword + 1 = k.base + 3 /\ k.base + 1 * Dword + 2 = k.base + 4
    BY <1>3 DEF KeyAt, Dword
  <2>2. 1 \in {0, 1}
    OBVIOUS
  <2> QED
    BY <1>6, <2>1, <2>2, Zenon
<1>9. i \in 1 .. 4 /\ h + KeyAt + 1 = h + 3 /\ h + KeyAt + 2 = h + 4 /\ h + KeyAt + 3 = h + 5 /\ h + KeyAt + 4 = h + 6
  BY <1>3 DEF KeyAt, KeyLimbs, Dword
<1>10. i = 1 \/ i = 2 \/ i = 3 \/ i = 4
  BY <1>9
<1>11. input0[h + KeyAt + i] = input0[k.base + i]
  BY <1>7, <1>8, <1>9, <1>10
<1> QED
  BY <1>11 DEF h

\* A run that got to an edge came through one of the arms without which the edge is
\* not reached.
LEMMA ArmIsPassed ==
  ASSUME NEW j \in Jobs, NEW G \in [PCs(j) -> SUBSET PCs(j)], NEW Ts, NEW start \in PCs(j),
         NEW e \in PCs(j), Trace(j, G, Ts, NodesOf(start, Ts)), LeadTo(j, Ts, NodesOf(start, Ts), e),
         NEW arms, e \notin GReach(G, start, arms)
  PROVE  \E a \in arms : a \in NodesOf(start, Ts) /\ e \in GReach(G, a, {})
<1> DEFINE V == NodesOf(start, Ts)
           R == GReach(G, start, arms)
           C == R \cap V
<1>1. start \in V /\ \A x \in Ts : x[2] \in V
  BY Zenon DEF NodesOf
<1> HIDE DEF V
<1>2. Trace(j, G, Ts, V) /\ LeadTo(j, Ts, V, e)
  BY DEF V
<1>3. start \in R /\ R \subseteq PCs(j) /\ \A p \in R : p \notin arms => G[p] \subseteq R
  BY ReachFacts
<1>4. e \notin R
  OBVIOUS
<1> HIDE DEF R
<1>5. \E a \in arms : a \in V /\ a \in PCs(j)
  <2> SUFFICES ASSUME \A a \in arms : ~(a \in V /\ a \in PCs(j)) PROVE FALSE
    OBVIOUS
  <2>1. ASSUME NEW x \in Ts, x[1] \in C PROVE x[2] \in C
    <3>1. x[1] \in PCs(j) /\ x[2] \in G[x[1]] /\ x[2] \in V
      BY <1>2 DEF Trace
    <3>2. x[1] \notin arms /\ x[1] \in R
      BY <2>1, <3>1
    <3> QED
      BY <1>3, <3>1, <3>2
  <2>2. C \in SUBSET PCs(j) /\ \E v \in V : v \in C
    BY <1>1, <1>3
  <2> HIDE DEF C
  <2>3. e \in C
    BY <1>2, <2>1, <2>2, Zenon DEF LeadTo
  <2> QED
    BY <1>4, <2>3 DEF C
<1>6. ASSUME NEW a \in arms, a \in V, a \in PCs(j) PROVE e \in GReach(G, a, {})
  <2> DEFINE B == GReach(G, a, {})
  <2>1. a \in B /\ B \subseteq PCs(j) /\ \A p \in B : p \notin {} => G[p] \subseteq B
    BY <1>6, ReachFacts
  <2> HIDE DEF B
  <2>2. ASSUME NEW x \in Ts, x[1] \in B PROVE x[2] \in B
    <3>1. x[2] \in G[x[1]]
      BY <1>2 DEF Trace
    <3> QED
      BY <2>1, <2>2, <3>1
  <2>3. B \in SUBSET PCs(j) /\ \E v \in V : v \in B
    BY <1>6, <2>1
  <2>4. e \in B
    BY <1>2, <2>2, <2>3, Zenon DEF LeadTo
  <2> QED
    BY <2>4 DEF B
<1> QED
  BY <1>5, <1>6, Zenon DEF V

\* The theorem generated for a success edge is true of every run at the edge, in
\* programs whose comparisons are of whole registers.
THEOREM ReadableTheorems ==
  ASSUME WideBranches
  PROVE  Spec => []ReadableHolds
<1>1. AnalysisInv /\ RunInv /\ PathInv /\ FactInv => ReadableHolds
  <2> SUFFICES ASSUME AnalysisInv, RunInv, PathInv, FactInv, AtTop, NEW e \in DOMAIN theorems, e = pc,
                      \A i \in DOMAIN theorems[e].lengths : Holds(theorems[e].lengths[i])
               PROVE  /\ \A f \in theorems[e].dom : FactHolds(f)
                      /\ \E r \in theorems[e].routes :
                           /\ \A f \in r.facts : FactHolds(f)
                           /\ \A n \in r.signers : input0[theorems[e].regions[n].h + 2] # 0
                           /\ \A k \in r.keys : \A x \in 1 .. KeyLimbs * Dword :
                                input0[theorems[e].regions[k.account].h + KeyAt + x] = input0[k.base + x]
    BY Zenon DEF ReadableHolds
  <2>1. /\ phase = "running" /\ Site = pc /\ NoIndirectCall /\ pc \in PCs(job)
        /\ job \in Jobs /\ graph = GraphSucc(job, witness.heads)
        /\ theorems = [x \in Found |-> EdgeTheorem(job, graph, bindings[x], x)]
        /\ input0 \in Seq(Bytes)
    BY DEF AtTop, Site, AnalysisInv, Built, RunInv, DataType
  <2>2. e \in Found /\ theorems[e] = EdgeTheorem(job, graph, bindings[e], e)
    BY <2>1, Zenon
  <2> DEFINE b == bindings[e]
             rows == b.assumed
             map == b.map
             dom == Pinned(job, map, Guards(job, graph, job.entry, e))
             th == theorems[e]
             route(c) == RouteTheorem(job, graph, b, e, dom, c)
  <2>3. /\ Rows(job, graph, OnPath(job, graph, e), e, rows) /\ GraphOk
        /\ IsPostFixpoint(job, graph, rows, map)
        /\ \E own : /\ e \notin GReach(graph, job.entry, {x.arm : x \in own})
                    /\ \A x \in own : x.arm \in PCs(job) /\ (e \in GReach(graph, x.arm, {}) => x \in b.arms)
    BY <2>1, <2>2, BindingFacts DEF GraphOk
  <2>4. th.lengths = rows /\ th.regions = Regions(rows) /\ th.dom = dom /\ th.routes = {route(c) : c \in b.arms}
    BY <2>2 DEF EdgeTheorem
  <2> HIDE DEF th, dom, map, rows, b
  <2>5. rows \in Seq(Row) /\ MapOk(rows, map)
    <3>1. rows \in Seq(Row)
      BY <2>3 DEF Rows
    <3>2. DOMAIN rows = 1 .. Len(rows) /\ 1 .. Len(rows) \subseteq Nat
      BY <3>1, RowNumbers
    <3>3. \A i \in DOMAIN rows : Holds(rows[i])
      BY <2>4, Zenon DEF th
    <3>4. Assumed(rows)
      BY <3>2, <3>3, Zenon DEF Assumed
    <3> QED
      BY <2>3, <3>1, <3>4, Zenon DEF MapOk
  <2>6. /\ graph \in [PCs(job) -> SUBSET PCs(job)]
        /\ \A p \in PCs(job) : Kind(job, p) = "branch" => graph[p] \subseteq {Target(job, p), p + 1}
    <3>1. \A p \in PCs(job) : Kind(job, p) = "branch" => graph[p] = {Target(job, p), p + 1}
      BY <2>1, <2>3, GraphFacts DEF GraphOk
    <3> QED
      BY <2>1, <2>3, <3>1, GraphFacts DEF GraphOk
  <2>7. /\ Trace(job, graph, taken, Visited) /\ LeadTo(job, taken, Visited, e)
        /\ job.entry \in Visited /\ job.entry \in PCs(job) /\ e \in PCs(job)
        /\ \A v \in Visited : \A g \in Guards(job, graph, job.entry, v) : <<g.pc, g.on>> \in taken
    BY <2>1, <2>3, JobFacts DEF PathInv, Visited, NodesOf
  <2>8. \A s \in Visited : s \in PCs(job) =>
          \A g \in Guards(job, graph, s, e) :
            g.pc \in PCs(job) /\ Kind(job, g.pc) = "branch" /\ Target(job, g.pc) # g.pc + 1 /\ <<g.pc, g.on>> \in taken
    <3> SUFFICES ASSUME NEW s \in Visited, s \in PCs(job), NEW g \in Guards(job, graph, s, e)
                 PROVE  g.pc \in PCs(job) /\ Kind(job, g.pc) = "branch" /\ Target(job, g.pc) # g.pc + 1 /\ <<g.pc, g.on>> \in taken
      BY Zenon
    <3> QED
      BY <2>1, <2>6, <2>7, GuardPassed
  <2>9. \A f \in dom : TrueFact(f)
    <3>1. \A g \in Guards(job, graph, job.entry, e) :
            g.pc \in PCs(job) /\ Kind(job, g.pc) = "branch" /\ Target(job, g.pc) # g.pc + 1 /\ <<g.pc, g.on>> \in taken
      BY <2>7, <2>8, Zenon
    <3> QED
      BY <2>1, <2>3, <2>5, <3>1, PinnedIsTrue DEF dom
  <2>10. PICK c \in b.arms : c.arm \in PCs(job) /\ c.arm \in Visited
    <3>1. PICK own : /\ e \notin GReach(graph, job.entry, {x.arm : x \in own})
                     /\ \A x \in own : x.arm \in PCs(job) /\ (e \in GReach(graph, x.arm, {}) => x \in b.arms)
      BY <2>3
    <3> DEFINE arms == {x.arm : x \in own}
    <3>2. e \notin GReach(graph, job.entry, arms) /\ \A a \in arms : \E x \in own : a = x.arm
      BY <3>1
    <3> HIDE DEF arms
    <3>3. PICK a \in arms : a \in Visited /\ e \in GReach(graph, a, {})
      BY <2>1, <2>6, <2>7, <3>2, ArmIsPassed DEF Visited
    <3>4. PICK x \in own : a = x.arm
      BY <3>2
    <3> QED
      BY <3>1, <3>3, <3>4
  <2> DEFINE guards == Guards(job, graph, job.entry, c.arm) \cup Guards(job, graph, c.arm, e)
             facts == Pinned(job, map, guards)
             stated == dom \cup facts
             r == route(c)
  <2>11. /\ r.facts = facts /\ r.signers = ProvenSigners(stated, Regions(rows))
         /\ r.keys = ProvenKeys(stated, Regions(rows)) /\ r \in th.routes
    <3>1. /\ r.facts = facts /\ r.signers = ProvenSigners(stated, Regions(rows))
          /\ r.keys = ProvenKeys(stated, Regions(rows))
      BY DEF RouteTheorem, rows, map
    <3>2. r \in th.routes
      BY <2>4, <2>10, Zenon
    <3> QED
      BY <3>1, <3>2
  <2> HIDE DEF r
  <2>12. \A f \in facts : TrueFact(f)
    <3>1. \A g \in guards :
            g.pc \in PCs(job) /\ Kind(job, g.pc) = "branch" /\ Target(job, g.pc) # g.pc + 1 /\ <<g.pc, g.on>> \in taken
      <4>1. ASSUME NEW g \in Guards(job, graph, job.entry, c.arm)
            PROVE  g.pc \in PCs(job) /\ Kind(job, g.pc) = "branch" /\ Target(job, g.pc) # g.pc + 1 /\ <<g.pc, g.on>> \in taken
        <5>1. g.pc \in PCs(job) /\ Kind(job, g.pc) = "branch" /\ Target(job, g.pc) # g.pc + 1
          BY <2>1, <2>6, <2>10, GuardShape
        <5> QED
          BY <2>7, <2>10, <5>1, Zenon
      <4>2. ASSUME NEW g \in Guards(job, graph, c.arm, e)
            PROVE  g.pc \in PCs(job) /\ Kind(job, g.pc) = "branch" /\ Target(job, g.pc) # g.pc + 1 /\ <<g.pc, g.on>> \in taken
        BY <2>8, <2>10, Zenon
      <4> QED
        BY <4>1, <4>2, Zenon
    <3> HIDE DEF guards
    <3> QED
      BY <2>1, <2>3, <2>5, <3>1, PinnedIsTrue
  <2> HIDE DEF facts
  <2>13. \A f \in stated : TrueFact(f)
    BY <2>9, <2>12
  <2> HIDE DEF stated
  <2>14. \A n \in r.signers : input0[th.regions[n].h + 2] # 0
    BY <2>4, <2>5, <2>11, <2>13, SignerSigned
  <2>15. \A k \in r.keys : \A x \in 1 .. KeyLimbs * Dword : input0[th.regions[k.account].h + KeyAt + x] = input0[k.base + x]
    BY <2>1, <2>4, <2>5, <2>11, <2>13, KeyCompared
  <2>16. (\A f \in th.dom : FactHolds(f)) /\ \A f \in r.facts : FactHolds(f)
    BY <2>4, <2>9, <2>11, <2>12, TrueFactHolds, Zenon
  <2> QED
    BY <2>11, <2>14, <2>15, <2>16, Zenon DEF th
<1> QED
  BY <1>1, AnalysisIsDone, RunIsOnFunctions, RunIsAPath, FactsAreTrue, PTL
=============================================================================
