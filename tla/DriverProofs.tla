---------------------------- MODULE DriverProofs -----------------------------
(* What a reported success of the qedlift command means, and what it leaves in *)
(* the directory, for every invocation and however it ends; and what the       *)
(* corollaries and the bundle theorem of its whole-transition mode say.        *)
EXTENDS Driver, SequenceTheorems, NaturalsInduction, WellFoundedInduction, TLAPS

-----------------------------------------------------------------------------
(* Lists.                                                                      *)

\* A sequence over any set is a list.
LEMMA ListOf ==
  ASSUME NEW S, NEW s \in Seq(S)
  PROVE  IsList(s) /\ Len(s) \in Nat /\ DOMAIN s = 1 .. Len(s)
<1>1. s \in [1 .. Len(s) -> Range(s)] /\ Len(s) \in Nat
  BY DEF Range
<1> QED
  BY <1>1 DEF IsList

\* What pushing onto a vector does.
LEMMA AppendList ==
  ASSUME NEW s, IsList(s), NEW x
  PROVE  /\ IsList(Append(s, x)) /\ Len(Append(s, x)) = Len(s) + 1 /\ Len(s) \in Nat
         /\ DOMAIN s = 1 .. Len(s) /\ DOMAIN Append(s, x) = 1 .. Len(s) + 1
         /\ \A i \in 1 .. Len(s) : Append(s, x)[i] = s[i]
         /\ Append(s, x)[Len(s) + 1] = x
<1> DEFINE T == Range(s) \cup {x}
<1>1. s \in Seq(T)
  <2>1. s \in Seq(Range(s))
    BY DEF IsList
  <2> QED
    BY <2>1
<1> HIDE DEF T
<1>2. x \in T
  BY DEF T
<1>3. Append(s, x) \in Seq(T)
  BY <1>1, <1>2
<1>4. IsList(Append(s, x)) /\ Len(s) \in Nat /\ DOMAIN s = 1 .. Len(s)
  BY <1>1, <1>3, ListOf
<1>5. /\ Len(Append(s, x)) = Len(s) + 1 /\ DOMAIN Append(s, x) = 1 .. Len(s) + 1
      /\ \A i \in 1 .. Len(s) : Append(s, x)[i] = s[i]
      /\ Append(s, x)[Len(s) + 1] = x
  BY <1>1, <1>2
<1> QED
  BY <1>4, <1>5

LEMMA LeastOf ==
  ASSUME NEW T, T \subseteq Nat, T # {}
  PROVE  \E x \in T : \A y \in T : x <= y
<1> DEFINE R == OpToRel(<, Nat)
<1>1. R = {ss \in Nat \X Nat : ss[1] < ss[2]}
  BY DEF OpToRel
<1>2. IsWellFoundedOn(R, Nat)
  BY NatLessThanWellFounded
<1> HIDE DEF R
<1>3. PICK x \in T : \A y \in T : ~(<<y, x>> \in R)
  BY <1>2, WFMin
<1>4. ASSUME NEW y \in T PROVE x <= y
  <2>1. x \in Nat /\ y \in Nat
    OBVIOUS
  <2>2. y < x => <<y, x>> \in {ss \in Nat \X Nat : ss[1] < ss[2]}
    BY <2>1
  <2>3. ~(y < x)
    BY <1>1, <1>3, <2>2, Zenon
  <2> QED
    BY <2>1, <2>3
<1> QED
  BY <1>4, Zenon

LEMMA TopOf ==
  ASSUME NEW k \in Nat, NEW S \in SUBSET (1 .. k), S # {}
  PROVE  Max(S) \in S /\ S \ {Max(S)} \in SUBSET (1 .. k) /\ Max(S) \in 1 .. k
         /\ \A y \in S : y <= Max(S)
<1> DEFINE T == {k - y : y \in S}
<1>1. PICK t \in T : \A y \in T : t <= y
  <2>1. T \subseteq Nat /\ T # {}
    OBVIOUS
  <2> QED
    BY <2>1, LeastOf
<1>2. PICK x \in S : t = k - x
  OBVIOUS
<1>3. ASSUME NEW y \in S PROVE x >= y
  <2>1. k - y \in T
    OBVIOUS
  <2>2. t <= k - y
    BY <1>1, <2>1
  <2>3. x \in 1 .. k /\ y \in 1 .. k
    OBVIOUS
  <2> QED
    BY <1>2, <2>2, <2>3
<1>4. Max(S) \in S /\ \A y \in S : Max(S) >= y
  BY <1>3, Zenon DEF Max
<1> QED
  BY <1>4


LEMMA TopLeaves ==
  ASSUME NEW k \in Nat, NEW S \in SUBSET (1 .. k + 1), S \notin SUBSET (1 .. k)
  PROVE  /\ S # {} /\ S \ {Max(S)} \in SUBSET (1 .. k) /\ S \ {Max(S)} \in SUBSET (1 .. k + 1)
<1>1. k + 1 \in S /\ k + 1 \in Nat
  OBVIOUS
<1>2. Max(S) \in S /\ k + 1 <= Max(S) /\ Max(S) \in 1 .. k + 1
  BY <1>1, TopOf
<1>3. Max(S) = k + 1
  BY <1>2
<1> QED
  BY <1>1, <1>3

LEMMA TopUpto ==
  ASSUME NEW i \in Nat, i # 0
  PROVE  Max(1 .. i) = i /\ 1 .. i # {} /\ (1 .. i) \ {i} = 1 .. i - 1
<1>1. i \in 1 .. i
  OBVIOUS
<1>2. Max(1 .. i) \in 1 .. i /\ i <= Max(1 .. i)
  BY <1>1, TopOf
<1> QED
  BY <1>1, <1>2


\* RenameToken: the renamings one after the other.
LEMMA RenameSteps ==
  ASSUME NEW t, NEW rs, IsList(rs)
  PROVE  \E u : /\ u[0] = t
                /\ \A i \in 1 .. Len(rs) : u[i] = Renamed(u[i - 1], rs[i])
                /\ RenameToken(t, rs) = u[Len(rs)]
<1> DEFINE n == Len(rs)
           Op(x, i) == Renamed(x, rs[i])
           Iter(k, g) == [S \in SUBSET (1 .. k) |-> IF S = {} THEN t ELSE Op(g[S \ {Max(S)}], Max(S))]
<1>1. n \in Nat /\ DOMAIN rs = 1 .. n
  BY DEF IsList
<1>2. RenameToken(t, rs) = (CHOOSE h : h = Iter(n, h))[1 .. n]
  BY <1>1, Zenon DEF RenameToken, FoldLeft, MapThenFoldSet
<1> HIDE DEF Op
<1>3. ASSUME NEW k \in Nat, NEW g, g = Iter(k, g)
      PROVE  \E h : h = Iter(k + 1, h)
  <2> DEFINE h == [S \in SUBSET (1 .. k + 1) |->
                    IF S \in SUBSET (1 .. k) THEN g[S] ELSE Op(g[S \ {Max(S)}], Max(S))]
  <2>1. ASSUME NEW S \in SUBSET (1 .. k + 1)
        PROVE  h[S] = IF S = {} THEN t ELSE Op(h[S \ {Max(S)}], Max(S))
    <3>1. S = {} => S \in SUBSET (1 .. k)
      OBVIOUS
    <3>2. CASE S \in SUBSET (1 .. k)
      <4>1. S # {} => S \ {Max(S)} \in SUBSET (1 .. k) /\ S \ {Max(S)} \in SUBSET (1 .. k + 1)
        BY <3>2, TopOf
      <4>2. g[S] = IF S = {} THEN t ELSE Op(g[S \ {Max(S)}], Max(S))
        BY <1>3, <3>2, Zenon
      <4>3. h[S] = g[S] /\ (S # {} => h[S \ {Max(S)}] = g[S \ {Max(S)}])
        BY <3>2, <4>1, Zenon
      <4> HIDE DEF h
      <4> QED
        BY <4>2, <4>3, Zenon
    <3>3. CASE S \notin SUBSET (1 .. k)
      <4>1. S # {} /\ S \ {Max(S)} \in SUBSET (1 .. k) /\ S \ {Max(S)} \in SUBSET (1 .. k + 1)
        BY <3>1, <3>3, TopLeaves
      <4>2. h[S] = Op(g[S \ {Max(S)}], Max(S)) /\ h[S \ {Max(S)}] = g[S \ {Max(S)}]
        BY <3>3, <4>1, Zenon
      <4> HIDE DEF h
      <4> QED
        BY <4>1, <4>2, Zenon
    <3> QED
      BY <3>2, <3>3
  <2>2. h = [S \in SUBSET (1 .. k + 1) |-> h[S]]
    OBVIOUS
  <2> HIDE DEF h
  <2>3. h = Iter(k + 1, h)
    BY <2>1, <2>2, Zenon
  <2> QED
    BY <2>3, Zenon
<1>4. \E h : h = Iter(0, h)
  <2> DEFINE h == [S \in SUBSET (1 .. 0) |-> t]
  <2>1. \A S \in SUBSET (1 .. 0) : S = {}
    OBVIOUS
  <2>2. h = Iter(0, h)
    BY <2>1, Zenon
  <2> HIDE DEF h
  <2> QED
    BY <2>2
<1> DEFINE Has1(k) == \E h : h = Iter(k, h)
<1>5. Has1(0) /\ \A k \in Nat : Has1(k) => Has1(k + 1)
  BY <1>3, <1>4, Zenon
<1> HIDE DEF Iter
<1>6. Has1(n)
  <2> DEFINE Bad == {k \in Nat : ~ Has1(k)}
  <2> SUFFICES ASSUME Bad # {} PROVE FALSE
    BY <1>1
  <2>1. PICK k \in Bad : \A m \in Bad : k <= m
    BY LeastOf
  <2>2. k \in Nat /\ ~ Has1(k)
    OBVIOUS
  <2> HIDE DEF Has1
  <2>3. k # 0
    BY <1>5, <2>2
  <2>4. k - 1 \in Nat /\ k - 1 + 1 = k /\ ~(k <= k - 1)
    BY <2>2, <2>3
  <2>5. Has1(k - 1)
    BY <2>1, <2>4
  <2> QED
    BY <1>5, <2>2, <2>4, <2>5
<1> DEFINE F == CHOOSE h : h = Iter(n, h)
           u == [i \in 0 .. n |-> F[1 .. i]]
<1>7. F = Iter(n, F)
  BY <1>6, Zenon
<1>8. RenameToken(t, rs) = F[1 .. n]
  BY <1>2, Zenon
<1> HIDE DEF F
<1>9. \A S \in SUBSET (1 .. n) : F[S] = IF S = {} THEN t ELSE Op(F[S \ {Max(S)}], Max(S))
  BY <1>7, Zenon DEF Iter
<1>10. u[0] = t
  <2>1. 1 .. 0 = {} /\ 1 .. 0 \in SUBSET (1 .. n) /\ 0 \in 0 .. n
    BY <1>1
  <2> QED
    BY <1>9, <2>1, Zenon
<1>11. ASSUME NEW i \in 1 .. n PROVE u[i] = Op(u[i - 1], i)
  <2>1. /\ 1 .. i # {} /\ 1 .. i \in SUBSET (1 .. n) /\ i \in 0 .. n /\ i - 1 \in 0 .. n
        /\ Max(1 .. i) = i /\ (1 .. i) \ {i} = 1 .. i - 1
    BY <1>1, TopUpto
  <2> QED
    BY <1>9, <2>1, Zenon
<1>12. RenameToken(t, rs) = u[n]
  <2>1. n \in 0 .. n
    BY <1>1
  <2> QED
    BY <1>8, <2>1, Zenon
<1> HIDE DEF u
<1> QED
  BY <1>10, <1>11, <1>12, Zenon DEF Op

\* NameCells: the cells one after the other.
LEMMA NameSteps ==
  ASSUME NEW acc, NEW env, IsList(env.pre)
  PROVE  \E u : /\ u[0] = acc
                /\ \A i \in 1 .. Len(env.pre) : u[i] = NameCell(u[i - 1], env.pre[i], env)
                /\ NameCells(acc, env) = u[Len(env.pre)]
<1> DEFINE n == Len(env.pre)
           Op(x, i) == NameCell(x, env.pre[i], env)
           Iter(k, g) == [S \in SUBSET (1 .. k) |-> IF S = {} THEN acc ELSE Op(g[S \ {Max(S)}], Max(S))]
<1>1. n \in Nat /\ DOMAIN env.pre = 1 .. n
  BY DEF IsList
<1>2. NameCells(acc, env) = (CHOOSE h : h = Iter(n, h))[1 .. n]
  BY <1>1, Zenon DEF NameCells, FoldLeft, MapThenFoldSet
<1> HIDE DEF Op
<1>3. ASSUME NEW k \in Nat, NEW g, g = Iter(k, g)
      PROVE  \E h : h = Iter(k + 1, h)
  <2> DEFINE h == [S \in SUBSET (1 .. k + 1) |->
                    IF S \in SUBSET (1 .. k) THEN g[S] ELSE Op(g[S \ {Max(S)}], Max(S))]
  <2>1. ASSUME NEW S \in SUBSET (1 .. k + 1)
        PROVE  h[S] = IF S = {} THEN acc ELSE Op(h[S \ {Max(S)}], Max(S))
    <3>1. S = {} => S \in SUBSET (1 .. k)
      OBVIOUS
    <3>2. CASE S \in SUBSET (1 .. k)
      <4>1. S # {} => S \ {Max(S)} \in SUBSET (1 .. k) /\ S \ {Max(S)} \in SUBSET (1 .. k + 1)
        BY <3>2, TopOf
      <4>2. g[S] = IF S = {} THEN acc ELSE Op(g[S \ {Max(S)}], Max(S))
        BY <1>3, <3>2, Zenon
      <4>3. h[S] = g[S] /\ (S # {} => h[S \ {Max(S)}] = g[S \ {Max(S)}])
        BY <3>2, <4>1, Zenon
      <4> HIDE DEF h
      <4> QED
        BY <4>2, <4>3, Zenon
    <3>3. CASE S \notin SUBSET (1 .. k)
      <4>1. S # {} /\ S \ {Max(S)} \in SUBSET (1 .. k) /\ S \ {Max(S)} \in SUBSET (1 .. k + 1)
        BY <3>1, <3>3, TopLeaves
      <4>2. h[S] = Op(g[S \ {Max(S)}], Max(S)) /\ h[S \ {Max(S)}] = g[S \ {Max(S)}]
        BY <3>3, <4>1, Zenon
      <4> HIDE DEF h
      <4> QED
        BY <4>1, <4>2, Zenon
    <3> QED
      BY <3>2, <3>3
  <2>2. h = [S \in SUBSET (1 .. k + 1) |-> h[S]]
    OBVIOUS
  <2> HIDE DEF h
  <2>3. h = Iter(k + 1, h)
    BY <2>1, <2>2, Zenon
  <2> QED
    BY <2>3, Zenon
<1>4. \E h : h = Iter(0, h)
  <2> DEFINE h == [S \in SUBSET (1 .. 0) |-> acc]
  <2>1. \A S \in SUBSET (1 .. 0) : S = {}
    OBVIOUS
  <2>2. h = Iter(0, h)
    BY <2>1, Zenon
  <2> HIDE DEF h
  <2> QED
    BY <2>2
<1> DEFINE Has1(k) == \E h : h = Iter(k, h)
<1>5. Has1(0) /\ \A k \in Nat : Has1(k) => Has1(k + 1)
  BY <1>3, <1>4, Zenon
<1> HIDE DEF Iter
<1>6. Has1(n)
  <2> DEFINE Bad == {k \in Nat : ~ Has1(k)}
  <2> SUFFICES ASSUME Bad # {} PROVE FALSE
    BY <1>1
  <2>1. PICK k \in Bad : \A m \in Bad : k <= m
    BY LeastOf
  <2>2. k \in Nat /\ ~ Has1(k)
    OBVIOUS
  <2> HIDE DEF Has1
  <2>3. k # 0
    BY <1>5, <2>2
  <2>4. k - 1 \in Nat /\ k - 1 + 1 = k /\ ~(k <= k - 1)
    BY <2>2, <2>3
  <2>5. Has1(k - 1)
    BY <2>1, <2>4
  <2> QED
    BY <1>5, <2>2, <2>4, <2>5
<1> DEFINE F == CHOOSE h : h = Iter(n, h)
           u == [i \in 0 .. n |-> F[1 .. i]]
<1>7. F = Iter(n, F)
  BY <1>6, Zenon
<1>8. NameCells(acc, env) = F[1 .. n]
  BY <1>2, Zenon
<1> HIDE DEF F
<1>9. \A S \in SUBSET (1 .. n) : F[S] = IF S = {} THEN acc ELSE Op(F[S \ {Max(S)}], Max(S))
  BY <1>7, Zenon DEF Iter
<1>10. u[0] = acc
  <2>1. 1 .. 0 = {} /\ 1 .. 0 \in SUBSET (1 .. n) /\ 0 \in 0 .. n
    BY <1>1
  <2> QED
    BY <1>9, <2>1, Zenon
<1>11. ASSUME NEW i \in 1 .. n PROVE u[i] = Op(u[i - 1], i)
  <2>1. /\ 1 .. i # {} /\ 1 .. i \in SUBSET (1 .. n) /\ i \in 0 .. n /\ i - 1 \in 0 .. n
        /\ Max(1 .. i) = i /\ (1 .. i) \ {i} = 1 .. i - 1
    BY <1>1, TopUpto
  <2> QED
    BY <1>9, <2>1, Zenon
<1>12. NameCells(acc, env) = u[n]
  <2>1. n \in 0 .. n
    BY <1>1
  <2> QED
    BY <1>8, <2>1, Zenon
<1> HIDE DEF u
<1> QED
  BY <1>10, <1>11, <1>12, Zenon DEF Op

\* LayoutWalk: the fields one after the other.
LEMMA LayoutSteps ==
  ASSUME NEW desc, NEW env, NEW items, NEW end, IsList(desc.layout.fields)
  PROVE  \E u : /\ u[0] = Walk0(items)
                /\ \A i \in 1 .. Len(desc.layout.fields) : u[i] = IF end = "return" THEN PathField(u[i - 1], desc.layout.fields[i], env) ELSE FaultField(u[i - 1], desc.layout.fields[i], env)
                /\ LayoutWalk(desc, env, items, end) = u[Len(desc.layout.fields)]
<1> DEFINE n == Len(desc.layout.fields)
           Op(x, i) == IF end = "return" THEN PathField(x, desc.layout.fields[i], env) ELSE FaultField(x, desc.layout.fields[i], env)
           Iter(k, g) == [S \in SUBSET (1 .. k) |-> IF S = {} THEN Walk0(items) ELSE Op(g[S \ {Max(S)}], Max(S))]
<1>1. n \in Nat /\ DOMAIN desc.layout.fields = 1 .. n
  BY DEF IsList
<1>2. LayoutWalk(desc, env, items, end) = (CHOOSE h : h = Iter(n, h))[1 .. n]
  BY <1>1, Zenon DEF LayoutWalk, FoldLeft, MapThenFoldSet
<1> HIDE DEF Op
<1>3. ASSUME NEW k \in Nat, NEW g, g = Iter(k, g)
      PROVE  \E h : h = Iter(k + 1, h)
  <2> DEFINE h == [S \in SUBSET (1 .. k + 1) |->
                    IF S \in SUBSET (1 .. k) THEN g[S] ELSE Op(g[S \ {Max(S)}], Max(S))]
  <2>1. ASSUME NEW S \in SUBSET (1 .. k + 1)
        PROVE  h[S] = IF S = {} THEN Walk0(items) ELSE Op(h[S \ {Max(S)}], Max(S))
    <3>1. S = {} => S \in SUBSET (1 .. k)
      OBVIOUS
    <3>2. CASE S \in SUBSET (1 .. k)
      <4>1. S # {} => S \ {Max(S)} \in SUBSET (1 .. k) /\ S \ {Max(S)} \in SUBSET (1 .. k + 1)
        BY <3>2, TopOf
      <4>2. g[S] = IF S = {} THEN Walk0(items) ELSE Op(g[S \ {Max(S)}], Max(S))
        BY <1>3, <3>2, Zenon
      <4>3. h[S] = g[S] /\ (S # {} => h[S \ {Max(S)}] = g[S \ {Max(S)}])
        BY <3>2, <4>1, Zenon
      <4> HIDE DEF h
      <4> QED
        BY <4>2, <4>3, Zenon
    <3>3. CASE S \notin SUBSET (1 .. k)
      <4>1. S # {} /\ S \ {Max(S)} \in SUBSET (1 .. k) /\ S \ {Max(S)} \in SUBSET (1 .. k + 1)
        BY <3>1, <3>3, TopLeaves
      <4>2. h[S] = Op(g[S \ {Max(S)}], Max(S)) /\ h[S \ {Max(S)}] = g[S \ {Max(S)}]
        BY <3>3, <4>1, Zenon
      <4> HIDE DEF h
      <4> QED
        BY <4>1, <4>2, Zenon
    <3> QED
      BY <3>2, <3>3
  <2>2. h = [S \in SUBSET (1 .. k + 1) |-> h[S]]
    OBVIOUS
  <2> HIDE DEF h
  <2>3. h = Iter(k + 1, h)
    BY <2>1, <2>2, Zenon
  <2> QED
    BY <2>3, Zenon
<1>4. \E h : h = Iter(0, h)
  <2> DEFINE h == [S \in SUBSET (1 .. 0) |-> Walk0(items)]
  <2>1. \A S \in SUBSET (1 .. 0) : S = {}
    OBVIOUS
  <2>2. h = Iter(0, h)
    BY <2>1, Zenon
  <2> HIDE DEF h
  <2> QED
    BY <2>2
<1> DEFINE Has1(k) == \E h : h = Iter(k, h)
<1>5. Has1(0) /\ \A k \in Nat : Has1(k) => Has1(k + 1)
  BY <1>3, <1>4, Zenon
<1> HIDE DEF Iter
<1>6. Has1(n)
  <2> DEFINE Bad == {k \in Nat : ~ Has1(k)}
  <2> SUFFICES ASSUME Bad # {} PROVE FALSE
    BY <1>1
  <2>1. PICK k \in Bad : \A m \in Bad : k <= m
    BY LeastOf
  <2>2. k \in Nat /\ ~ Has1(k)
    OBVIOUS
  <2> HIDE DEF Has1
  <2>3. k # 0
    BY <1>5, <2>2
  <2>4. k - 1 \in Nat /\ k - 1 + 1 = k /\ ~(k <= k - 1)
    BY <2>2, <2>3
  <2>5. Has1(k - 1)
    BY <2>1, <2>4
  <2> QED
    BY <1>5, <2>2, <2>4, <2>5
<1> DEFINE F == CHOOSE h : h = Iter(n, h)
           u == [i \in 0 .. n |-> F[1 .. i]]
<1>7. F = Iter(n, F)
  BY <1>6, Zenon
<1>8. LayoutWalk(desc, env, items, end) = F[1 .. n]
  BY <1>2, Zenon
<1> HIDE DEF F
<1>9. \A S \in SUBSET (1 .. n) : F[S] = IF S = {} THEN Walk0(items) ELSE Op(F[S \ {Max(S)}], Max(S))
  BY <1>7, Zenon DEF Iter
<1>10. u[0] = Walk0(items)
  <2>1. 1 .. 0 = {} /\ 1 .. 0 \in SUBSET (1 .. n) /\ 0 \in 0 .. n
    BY <1>1
  <2> QED
    BY <1>9, <2>1, Zenon
<1>11. ASSUME NEW i \in 1 .. n PROVE u[i] = Op(u[i - 1], i)
  <2>1. /\ 1 .. i # {} /\ 1 .. i \in SUBSET (1 .. n) /\ i \in 0 .. n /\ i - 1 \in 0 .. n
        /\ Max(1 .. i) = i /\ (1 .. i) \ {i} = 1 .. i - 1
    BY <1>1, TopUpto
  <2> QED
    BY <1>9, <2>1, Zenon
<1>12. LayoutWalk(desc, env, items, end) = u[n]
  <2>1. n \in 0 .. n
    BY <1>1
  <2> QED
    BY <1>8, <2>1, Zenon
<1> HIDE DEF u
<1> QED
  BY <1>10, <1>11, <1>12, Zenon DEF Op

\* The binders gathered after each item of a path.
Joining(acc, info, extra, u) ==
  /\ u[0] = acc
  /\ \A i \in 1 .. Len(info.items) : u[i] = JoinItem(u[i - 1], info.items[i], info.renames \o extra)
  /\ JoinPath(acc, info, extra) = u[Len(info.items)]

\* JoinPath: the binders one after the other.
LEMMA JoinSteps ==
  ASSUME NEW acc, NEW info, NEW extra, IsList(info.items)
  PROVE  \E u : Joining(acc, info, extra, u)
<1> DEFINE n == Len(info.items)
           Op(x, i) == JoinItem(x, info.items[i], info.renames \o extra)
           Iter(k, g) == [S \in SUBSET (1 .. k) |-> IF S = {} THEN acc ELSE Op(g[S \ {Max(S)}], Max(S))]
<1>1. n \in Nat /\ DOMAIN info.items = 1 .. n
  BY DEF IsList
<1>2. JoinPath(acc, info, extra) = (CHOOSE h : h = Iter(n, h))[1 .. n]
  BY <1>1, Zenon DEF JoinPath, FoldLeft, MapThenFoldSet
<1> HIDE DEF Op
<1>3. ASSUME NEW k \in Nat, NEW g, g = Iter(k, g)
      PROVE  \E h : h = Iter(k + 1, h)
  <2> DEFINE h == [S \in SUBSET (1 .. k + 1) |->
                    IF S \in SUBSET (1 .. k) THEN g[S] ELSE Op(g[S \ {Max(S)}], Max(S))]
  <2>1. ASSUME NEW S \in SUBSET (1 .. k + 1)
        PROVE  h[S] = IF S = {} THEN acc ELSE Op(h[S \ {Max(S)}], Max(S))
    <3>1. S = {} => S \in SUBSET (1 .. k)
      OBVIOUS
    <3>2. CASE S \in SUBSET (1 .. k)
      <4>1. S # {} => S \ {Max(S)} \in SUBSET (1 .. k) /\ S \ {Max(S)} \in SUBSET (1 .. k + 1)
        BY <3>2, TopOf
      <4>2. g[S] = IF S = {} THEN acc ELSE Op(g[S \ {Max(S)}], Max(S))
        BY <1>3, <3>2, Zenon
      <4>3. h[S] = g[S] /\ (S # {} => h[S \ {Max(S)}] = g[S \ {Max(S)}])
        BY <3>2, <4>1, Zenon
      <4> HIDE DEF h
      <4> QED
        BY <4>2, <4>3, Zenon
    <3>3. CASE S \notin SUBSET (1 .. k)
      <4>1. S # {} /\ S \ {Max(S)} \in SUBSET (1 .. k) /\ S \ {Max(S)} \in SUBSET (1 .. k + 1)
        BY <3>1, <3>3, TopLeaves
      <4>2. h[S] = Op(g[S \ {Max(S)}], Max(S)) /\ h[S \ {Max(S)}] = g[S \ {Max(S)}]
        BY <3>3, <4>1, Zenon
      <4> HIDE DEF h
      <4> QED
        BY <4>1, <4>2, Zenon
    <3> QED
      BY <3>2, <3>3
  <2>2. h = [S \in SUBSET (1 .. k + 1) |-> h[S]]
    OBVIOUS
  <2> HIDE DEF h
  <2>3. h = Iter(k + 1, h)
    BY <2>1, <2>2, Zenon
  <2> QED
    BY <2>3, Zenon
<1>4. \E h : h = Iter(0, h)
  <2> DEFINE h == [S \in SUBSET (1 .. 0) |-> acc]
  <2>1. \A S \in SUBSET (1 .. 0) : S = {}
    OBVIOUS
  <2>2. h = Iter(0, h)
    BY <2>1, Zenon
  <2> HIDE DEF h
  <2> QED
    BY <2>2
<1> DEFINE Has1(k) == \E h : h = Iter(k, h)
<1>5. Has1(0) /\ \A k \in Nat : Has1(k) => Has1(k + 1)
  BY <1>3, <1>4, Zenon
<1> HIDE DEF Iter
<1>6. Has1(n)
  <2> DEFINE Bad == {k \in Nat : ~ Has1(k)}
  <2> SUFFICES ASSUME Bad # {} PROVE FALSE
    BY <1>1
  <2>1. PICK k \in Bad : \A m \in Bad : k <= m
    BY LeastOf
  <2>2. k \in Nat /\ ~ Has1(k)
    OBVIOUS
  <2> HIDE DEF Has1
  <2>3. k # 0
    BY <1>5, <2>2
  <2>4. k - 1 \in Nat /\ k - 1 + 1 = k /\ ~(k <= k - 1)
    BY <2>2, <2>3
  <2>5. Has1(k - 1)
    BY <2>1, <2>4
  <2> QED
    BY <1>5, <2>2, <2>4, <2>5
<1> DEFINE F == CHOOSE h : h = Iter(n, h)
           u == [i \in 0 .. n |-> F[1 .. i]]
<1>7. F = Iter(n, F)
  BY <1>6, Zenon
<1>8. JoinPath(acc, info, extra) = F[1 .. n]
  BY <1>2, Zenon
<1> HIDE DEF F
<1>9. \A S \in SUBSET (1 .. n) : F[S] = IF S = {} THEN acc ELSE Op(F[S \ {Max(S)}], Max(S))
  BY <1>7, Zenon DEF Iter
<1>10. u[0] = acc
  <2>1. 1 .. 0 = {} /\ 1 .. 0 \in SUBSET (1 .. n) /\ 0 \in 0 .. n
    BY <1>1
  <2> QED
    BY <1>9, <2>1, Zenon
<1>11. ASSUME NEW i \in 1 .. n PROVE u[i] = Op(u[i - 1], i)
  <2>1. /\ 1 .. i # {} /\ 1 .. i \in SUBSET (1 .. n) /\ i \in 0 .. n /\ i - 1 \in 0 .. n
        /\ Max(1 .. i) = i /\ (1 .. i) \ {i} = 1 .. i - 1
    BY <1>1, TopUpto
  <2> QED
    BY <1>9, <2>1, Zenon
<1>12. JoinPath(acc, info, extra) = u[n]
  <2>1. n \in 0 .. n
    BY <1>1
  <2> QED
    BY <1>8, <2>1, Zenon
<1> HIDE DEF u
<1>13. Joining(acc, info, extra, u)
  BY <1>10, <1>11, <1>12, Zenon DEF Op, Joining
<1> QED
  BY <1>13

\* Bundle: the corollaries one after the other.
LEMMA UnionSteps ==
  ASSUME NEW cs, IsList(cs)
  PROVE  \E u : /\ u[0] = NoBinders
                /\ \A i \in 1 .. Len(cs) : u[i] = JoinPath(u[i - 1], cs[i], ParamRename(cs))
                /\ Union(cs) = u[Len(cs)]
<1> DEFINE n == Len(cs)
           Op(x, i) == JoinPath(x, cs[i], ParamRename(cs))
           Iter(k, g) == [S \in SUBSET (1 .. k) |-> IF S = {} THEN NoBinders ELSE Op(g[S \ {Max(S)}], Max(S))]
<1>1. n \in Nat /\ DOMAIN cs = 1 .. n
  BY DEF IsList
<1>2. Union(cs) = (CHOOSE h : h = Iter(n, h))[1 .. n]
  BY <1>1, Zenon DEF Union, FoldLeft, MapThenFoldSet
<1> HIDE DEF Op
<1>3. ASSUME NEW k \in Nat, NEW g, g = Iter(k, g)
      PROVE  \E h : h = Iter(k + 1, h)
  <2> DEFINE h == [S \in SUBSET (1 .. k + 1) |->
                    IF S \in SUBSET (1 .. k) THEN g[S] ELSE Op(g[S \ {Max(S)}], Max(S))]
  <2>1. ASSUME NEW S \in SUBSET (1 .. k + 1)
        PROVE  h[S] = IF S = {} THEN NoBinders ELSE Op(h[S \ {Max(S)}], Max(S))
    <3>1. S = {} => S \in SUBSET (1 .. k)
      OBVIOUS
    <3>2. CASE S \in SUBSET (1 .. k)
      <4>1. S # {} => S \ {Max(S)} \in SUBSET (1 .. k) /\ S \ {Max(S)} \in SUBSET (1 .. k + 1)
        BY <3>2, TopOf
      <4>2. g[S] = IF S = {} THEN NoBinders ELSE Op(g[S \ {Max(S)}], Max(S))
        BY <1>3, <3>2, Zenon
      <4>3. h[S] = g[S] /\ (S # {} => h[S \ {Max(S)}] = g[S \ {Max(S)}])
        BY <3>2, <4>1, Zenon
      <4> HIDE DEF h
      <4> QED
        BY <4>2, <4>3, Zenon
    <3>3. CASE S \notin SUBSET (1 .. k)
      <4>1. S # {} /\ S \ {Max(S)} \in SUBSET (1 .. k) /\ S \ {Max(S)} \in SUBSET (1 .. k + 1)
        BY <3>1, <3>3, TopLeaves
      <4>2. h[S] = Op(g[S \ {Max(S)}], Max(S)) /\ h[S \ {Max(S)}] = g[S \ {Max(S)}]
        BY <3>3, <4>1, Zenon
      <4> HIDE DEF h
      <4> QED
        BY <4>1, <4>2, Zenon
    <3> QED
      BY <3>2, <3>3
  <2>2. h = [S \in SUBSET (1 .. k + 1) |-> h[S]]
    OBVIOUS
  <2> HIDE DEF h
  <2>3. h = Iter(k + 1, h)
    BY <2>1, <2>2, Zenon
  <2> QED
    BY <2>3, Zenon
<1>4. \E h : h = Iter(0, h)
  <2> DEFINE h == [S \in SUBSET (1 .. 0) |-> NoBinders]
  <2>1. \A S \in SUBSET (1 .. 0) : S = {}
    OBVIOUS
  <2>2. h = Iter(0, h)
    BY <2>1, Zenon
  <2> HIDE DEF h
  <2> QED
    BY <2>2
<1> DEFINE Has1(k) == \E h : h = Iter(k, h)
<1>5. Has1(0) /\ \A k \in Nat : Has1(k) => Has1(k + 1)
  BY <1>3, <1>4, Zenon
<1> HIDE DEF Iter
<1>6. Has1(n)
  <2> DEFINE Bad == {k \in Nat : ~ Has1(k)}
  <2> SUFFICES ASSUME Bad # {} PROVE FALSE
    BY <1>1
  <2>1. PICK k \in Bad : \A m \in Bad : k <= m
    BY LeastOf
  <2>2. k \in Nat /\ ~ Has1(k)
    OBVIOUS
  <2> HIDE DEF Has1
  <2>3. k # 0
    BY <1>5, <2>2
  <2>4. k - 1 \in Nat /\ k - 1 + 1 = k /\ ~(k <= k - 1)
    BY <2>2, <2>3
  <2>5. Has1(k - 1)
    BY <2>1, <2>4
  <2> QED
    BY <1>5, <2>2, <2>4, <2>5
<1> DEFINE F == CHOOSE h : h = Iter(n, h)
           u == [i \in 0 .. n |-> F[1 .. i]]
<1>7. F = Iter(n, F)
  BY <1>6, Zenon
<1>8. Union(cs) = F[1 .. n]
  BY <1>2, Zenon
<1> HIDE DEF F
<1>9. \A S \in SUBSET (1 .. n) : F[S] = IF S = {} THEN NoBinders ELSE Op(F[S \ {Max(S)}], Max(S))
  BY <1>7, Zenon DEF Iter
<1>10. u[0] = NoBinders
  <2>1. 1 .. 0 = {} /\ 1 .. 0 \in SUBSET (1 .. n) /\ 0 \in 0 .. n
    BY <1>1
  <2> QED
    BY <1>9, <2>1, Zenon
<1>11. ASSUME NEW i \in 1 .. n PROVE u[i] = Op(u[i - 1], i)
  <2>1. /\ 1 .. i # {} /\ 1 .. i \in SUBSET (1 .. n) /\ i \in 0 .. n /\ i - 1 \in 0 .. n
        /\ Max(1 .. i) = i /\ (1 .. i) \ {i} = 1 .. i - 1
    BY <1>1, TopUpto
  <2> QED
    BY <1>9, <2>1, Zenon
<1>12. Union(cs) = u[n]
  <2>1. n \in 0 .. n
    BY <1>1
  <2> QED
    BY <1>8, <2>1, Zenon
<1> HIDE DEF u
<1> QED
  BY <1>10, <1>11, <1>12, Zenon DEF Op

\* What holds of 0 and is kept by each step holds all the way.
LEMMA Stepwise ==
  ASSUME NEW n \in Nat, NEW G, 0 \in G, \A i \in 1 .. n : i - 1 \in G => i \in G
  PROVE  \A i \in 0 .. n : i \in G
<1> DEFINE Bad == {i \in 0 .. n : i \notin G}
<1> SUFFICES ASSUME Bad # {} PROVE FALSE
  OBVIOUS
<1>1. PICK i \in Bad : \A m \in Bad : i <= m
  <2>1. Bad \subseteq Nat
    OBVIOUS
  <2> QED
    BY <2>1, LeastOf
<1>2. i \in 1 .. n /\ i - 1 \in 0 .. n /\ ~(i <= i - 1)
  <2>1. i \in 0 .. n /\ i \notin G
    OBVIOUS
  <2>2. i # 0
    BY <2>1
  <2> QED
    BY <2>1, <2>2
<1>3. i - 1 \in G
  BY <1>1, <1>2
<1> QED
  BY <1>2, <1>3

\* FlattenSeq: lists over V end to end are a list over V.
LEMMA FlattenList ==
  ASSUME NEW V, NEW s, IsList(s), \A i \in DOMAIN s : s[i] \in Seq(V)
  PROVE  FlattenSeq(s) \in Seq(V)
<1> DEFINE n == Len(s)
           Upto(k, g) == [i \in 1 .. k |-> IF i = 1 THEN s[i] ELSE g[i - 1] \o s[i]]
<1>1. n \in Nat /\ DOMAIN s = 1 .. n
  BY DEF IsList
<1>2. CASE n = 0
  <2>1. s = <<>>
    BY <1>1, <1>2 DEF IsList
  <2> QED
    BY <1>2, <2>1 DEF FlattenSeq
<1>3. CASE n # 0
  <2>1. FlattenSeq(s) = (CHOOSE g : g = Upto(n, g))[n]
    BY <1>3, Zenon DEF FlattenSeq
  <2>2. ASSUME NEW k \in Nat, NEW g, g = Upto(k, g)
        PROVE  \E h : h = Upto(k + 1, h)
    <3> DEFINE h == [i \in 1 .. k + 1 |-> IF i \in 1 .. k THEN g[i]
                                          ELSE IF i = 1 THEN s[i] ELSE g[i - 1] \o s[i]]
    <3>1. ASSUME NEW i \in 1 .. k + 1
          PROVE  h[i] = IF i = 1 THEN s[i] ELSE h[i - 1] \o s[i]
      <4>1. i # 1 => i - 1 \in 1 .. k /\ i - 1 \in 1 .. k + 1
        OBVIOUS
      <4>2. i # 1 => h[i - 1] = g[i - 1]
        BY <4>1, Zenon
      <4>3. i \in 1 .. k => g[i] = IF i = 1 THEN s[i] ELSE g[i - 1] \o s[i]
        BY <2>2, Zenon
      <4>4. h[i] = IF i \in 1 .. k THEN g[i] ELSE IF i = 1 THEN s[i] ELSE g[i - 1] \o s[i]
        BY Zenon
      <4> HIDE DEF h
      <4> QED
        BY <4>2, <4>3, <4>4, Zenon
    <3>2. h = [i \in 1 .. k + 1 |-> h[i]]
      OBVIOUS
    <3> HIDE DEF h
    <3>3. h = Upto(k + 1, h)
      BY <3>1, <3>2, Zenon
    <3> QED
      BY <3>3, Zenon
  <2> DEFINE Built(k) == \E h : h = Upto(k, h)
  <2>3. Built(0) /\ \A k \in Nat : Built(k) => Built(k + 1)
    <3> DEFINE h == [i \in 1 .. 0 |-> s]
    <3>1. 1 .. 0 = {}
      OBVIOUS
    <3>2. h = Upto(0, h)
      BY <3>1, Zenon
    <3> HIDE DEF h
    <3> QED
      BY <2>2, <3>2, Zenon
  <2> DEFINE G == {k \in 0 .. n : Built(k)}
  <2> HIDE DEF Upto
  <2>4. Built(n)
    <3>1. 0 \in G
      BY <1>1, <2>3
    <3>2. ASSUME NEW i \in 1 .. n, i - 1 \in G PROVE i \in G
      <4>1. Built(i - 1) /\ i - 1 \in Nat /\ i - 1 + 1 = i /\ i \in 0 .. n
        BY <1>1, <3>2
      <4> QED
        BY <2>3, <4>1
    <3> HIDE DEF G
    <3>3. \A i \in 0 .. n : i \in G
      BY <1>1, <3>1, <3>2, Stepwise
    <3>4. n \in 0 .. n
      BY <1>1
    <3> QED
      BY <3>3, <3>4 DEF G
  <2> DEFINE f == CHOOSE g : g = Upto(n, g)
  <2>5. f = Upto(n, f)
    BY <2>4, Zenon
  <2> HIDE DEF f
  <2>6. \A i \in 1 .. n : f[i] = IF i = 1 THEN s[i] ELSE f[i - 1] \o s[i]
    BY <2>5, Zenon DEF Upto
  <2> DEFINE D == {i \in 0 .. n : i = 0 \/ f[i] \in Seq(V)}
  <2>7. 0 \in D
    BY <1>1
  <2>8. ASSUME NEW i \in 1 .. n, i - 1 \in D PROVE i \in D
    <3>1. i \in 0 .. n /\ (i = 1 \/ f[i - 1] \in Seq(V))
      BY <1>1, <2>8
    <3>2. s[i] \in Seq(V)
      BY <1>1
    <3>3. f[i] \in Seq(V)
      <4>1. f[i] = IF i = 1 THEN s[i] ELSE f[i - 1] \o s[i]
        BY <2>6, Zenon
      <4>2. CASE i = 1
        BY <3>2, <4>1, <4>2
      <4>3. CASE i # 1
        <5>1. f[i - 1] \in Seq(V)
          BY <3>1, <4>3
        <5>2. f[i] = f[i - 1] \o s[i]
          BY <4>1, <4>3
        <5> QED
          BY <3>2, <5>1, <5>2
      <4> QED
        BY <4>2, <4>3
    <3> QED
      BY <3>1, <3>3
  <2> HIDE DEF D
  <2>9. \A i \in 0 .. n : i \in D
    BY <1>1, <2>7, <2>8, Stepwise
  <2>10. f[n] \in Seq(V)
    <3>1. n \in 0 .. n
      BY <1>1
    <3> QED
      BY <1>3, <2>9, <3>1 DEF D
  <2>11. FlattenSeq(s) = f[n]
    BY <2>1, Zenon DEF f, Upto
  <2> QED
    BY <2>10, <2>11
<1> QED
  BY <1>2, <1>3

\* The first index of a set.
LEMMA MinOf ==
  ASSUME NEW T, T \subseteq Nat \ {0}, T # {}
  PROVE  Min(T) \in T /\ Min(T) # 0
<1>1. \E x \in T : \A y \in T : x <= y
  BY LeastOf
<1>2. Min(T) \in T
  BY <1>1, Zenon DEF Min
<1> QED
  BY <1>2

\* Held finds a cell of the place, when there is one.
LEMMA HeldIs ==
  ASSUME NEW cells, IsList(cells), NEW b, NEW o, NEW w
  PROVE  \/ /\ Held(cells, b, o, w) = <<>>
            /\ \A i \in DOMAIN cells : ~(cells[i].base = b /\ cells[i].off = o /\ cells[i].width \in w)
         \/ \E i \in DOMAIN cells :
              /\ cells[i].base = b /\ cells[i].off = o /\ cells[i].width \in w
              /\ Held(cells, b, o, w) = <<cells[i]>>
<1> DEFINE I == {i \in 1 .. Len(cells) : cells[i].base = b /\ cells[i].off = o /\ cells[i].width \in w}
           at == IF I # {} THEN Min(I) ELSE 0
<1>1. DOMAIN cells = 1 .. Len(cells)
  BY DEF IsList
<1>2. I # {} => Min(I) \in I /\ Min(I) # 0
  <2>1. I \subseteq Nat \ {0}
    BY <1>1
  <2> QED
    BY <2>1, MinOf
<1>3. Held(cells, b, o, w) = IF at = 0 THEN <<>> ELSE <<cells[at]>>
  BY Zenon DEF Held, First, SelectInSeq
<1>4. CASE I = {}
  BY <1>1, <1>3, <1>4
<1>5. CASE I # {}
  <2> DEFINE k == Min(I)
  <2>1. k \in I /\ at = k /\ k # 0
    BY <1>2, <1>5
  <2> HIDE DEF k, at
  <2>2. k \in DOMAIN cells /\ cells[k].base = b /\ cells[k].off = o /\ cells[k].width \in w
    BY <1>1, <2>1
  <2>3. Held(cells, b, o, w) = <<cells[k]>>
    BY <1>3, <2>1
  <2> QED
    BY <2>2, <2>3
<1> QED
  BY <1>4, <1>5

\* The hypothesis of a name, when there is one.
LEMMA SameName ==
  ASSUME NEW hyps, IsList(hyps), NEW n
  PROVE  \/ Existing(hyps, n) = <<>>
         \/ \E i \in DOMAIN hyps :
              hyps[i].name = n /\ Existing(hyps, n) = <<hyps[i]>>
<1> DEFINE I == {i \in 1 .. Len(hyps) : hyps[i].name = n}
           at == IF I # {} THEN Min(I) ELSE 0
           same == Existing(hyps, n)
<1>1. DOMAIN hyps = 1 .. Len(hyps)
  BY DEF IsList
<1>2. I # {} => Min(I) \in I /\ Min(I) # 0
  <2>1. I \subseteq Nat \ {0}
    BY <1>1
  <2> QED
    BY <2>1, MinOf
<1>3. same = IF at = 0 THEN <<>> ELSE <<hyps[at]>>
  BY Zenon DEF Existing, First, SelectInSeq
<1> HIDE DEF same
<1>4. CASE I = {}
  <2>1. same = <<>>
    BY <1>3, <1>4
  <2> QED
    BY <2>1, Zenon DEF same
<1>5. CASE I # {}
  <2> DEFINE k == Min(I)
  <2>1. k \in I /\ at = k /\ k # 0
    BY <1>2, <1>5
  <2> HIDE DEF k, at
  <2>2. k \in DOMAIN hyps /\ hyps[k].name = n
    BY <1>1, <2>1
  <2>3. same = <<hyps[k]>>
    BY <1>3, <2>1
  <2> QED
    BY <2>2, <2>3, Zenon DEF same
<1> QED
  BY <1>4, <1>5

-----------------------------------------------------------------------------
(* The bundle's binders.                                                       *)

\* The binders gathered so far.
Gathered(a) ==
  /\ a = [ok |-> a.ok, status |-> a.status, reason |-> a.reason, vals |-> a.vals, hyps |-> a.hyps]
  /\ IsList(a.vals) /\ IsList(a.hyps)
\* The union only grows, and a conflict is never undone.
Grows(a, b) ==
  b.ok => /\ a.ok
          /\ \A i \in DOMAIN a.vals : \E k \in DOMAIN b.vals : b.vals[k] = a.vals[i]
          /\ \A i \in DOMAIN a.hyps : \E k \in DOMAIN b.hyps : b.hyps[k] = a.hyps[i]
\* A binder is among them, under its new name.
Binds(b, item, rs) ==
  b.ok =>
    /\ item.kind = "val" => \E k \in DOMAIN b.vals : b.vals[k] = RenameToken(item.name, rs)
    /\ item.kind = "hyp" =>
         \E k \in DOMAIN b.hyps :
           b.hyps[k].name = RenameName(item.name, rs) /\ b.hyps[k].prop = RenameAll(item.prop, rs)

\* One binder joins.
LEMMA JoinOne ==
  ASSUME NEW a, Gathered(a), NEW item, item.kind \in {"val", "hyp", "guard"}, NEW rs
  PROVE  LET b == JoinItem(a, item, rs) IN Gathered(b) /\ Grows(a, b) /\ Binds(b, item, rs)
<1> DEFINE b == JoinItem(a, item, rs)
           n == IF item.kind = "hyp" THEN RenameName(item.name, rs) ELSE RenameToken(item.name, rs)
           prop == RenameAll(item.prop, rs)
           same == Existing(a.hyps, n)
<1>1. b = IF ~a.ok \/ item.kind = "guard" THEN a
          ELSE IF item.kind = "val"
               THEN IF \E i \in DOMAIN a.vals : a.vals[i] = n THEN a ELSE [a EXCEPT !.vals = Append(@, n)]
          ELSE IF same = <<>> THEN [a EXCEPT !.hyps = Append(@, [name |-> n, prop |-> prop])]
          ELSE IF same[1].prop # prop
               THEN [a EXCEPT !.ok = FALSE, !.status = "unsupported", !.reason = "BundleFailed"]
          ELSE a
  BY Zenon DEF JoinItem
<1>2. /\ item.kind = "val" => n = RenameToken(item.name, rs)
      /\ item.kind = "hyp" => n = RenameName(item.name, rs)
  OBVIOUS
<1>3. same = <<>> \/ \E i \in DOMAIN a.hyps : a.hyps[i].name = n /\ same = <<a.hyps[i]>>
  <2> HIDE DEF n
  <2> QED
    BY SameName, Zenon DEF Gathered
<1> SUFFICES Gathered(b) /\ Grows(a, b) /\ Binds(b, item, rs)
  BY Zenon
<1> HIDE DEF b, n, same, prop
<1>4. Grows(a, a)
  BY DEF Grows
<1>5. CASE ~a.ok \/ item.kind = "guard"
  <2>1. b = a
    BY <1>1, <1>5, Zenon
  <2> QED
    BY <1>4, <1>5, <2>1 DEF Binds
<1>6. CASE a.ok /\ item.kind = "val"
  <2>1. CASE \E i \in DOMAIN a.vals : a.vals[i] = n
    <3>1. b = a
      BY <1>1, <1>6, <2>1, Zenon
    <3> QED
      BY <1>2, <1>4, <1>6, <2>1, <3>1 DEF Binds
  <2>2. CASE ~\E i \in DOMAIN a.vals : a.vals[i] = n
    <3> DEFINE vs == Append(a.vals, n)
    <3>1. b = [a EXCEPT !.vals = vs]
      BY <1>1, <1>6, <2>2
    <3>2. /\ IsList(vs) /\ DOMAIN a.vals = 1 .. Len(a.vals) /\ DOMAIN vs = 1 .. Len(a.vals) + 1
          /\ Len(a.vals) \in Nat /\ vs[Len(a.vals) + 1] = n
          /\ \A i \in 1 .. Len(a.vals) : vs[i] = a.vals[i]
      BY AppendList DEF Gathered
    <3> HIDE DEF vs
    <3>3. b = [ok |-> a.ok, status |-> a.status, reason |-> a.reason, vals |-> vs, hyps |-> a.hyps]
      BY <3>1 DEF Gathered
    <3>4. b.vals = vs /\ b.hyps = a.hyps /\ b.ok = a.ok /\ b.status = a.status /\ b.reason = a.reason
      BY <3>3
    <3>5. Gathered(b)
      BY <3>2, <3>3, <3>4 DEF Gathered
    <3>6. Len(a.vals) + 1 \in DOMAIN vs /\ \A i \in DOMAIN a.vals : i \in DOMAIN vs
      BY <3>2
    <3>7. Grows(a, b)
      BY <1>6, <3>2, <3>4, <3>6 DEF Grows
    <3>8. Binds(b, item, rs)
      BY <1>2, <1>6, <3>2, <3>4, <3>6 DEF Binds
    <3> QED
      BY <3>5, <3>7, <3>8
  <2> QED
    BY <2>1, <2>2
<1>7. CASE a.ok /\ item.kind = "hyp"
  <2>1. CASE same = <<>>
    <3> DEFINE hs == Append(a.hyps, [name |-> n, prop |-> prop])
    <3>1. b = [a EXCEPT !.hyps = hs]
      BY <1>1, <1>7, <2>1
    <3>2. /\ IsList(hs) /\ DOMAIN a.hyps = 1 .. Len(a.hyps) /\ DOMAIN hs = 1 .. Len(a.hyps) + 1
          /\ Len(a.hyps) \in Nat /\ hs[Len(a.hyps) + 1] = [name |-> n, prop |-> prop]
          /\ \A i \in 1 .. Len(a.hyps) : hs[i] = a.hyps[i]
      BY AppendList DEF Gathered
    <3> HIDE DEF hs
    <3>3. b = [ok |-> a.ok, status |-> a.status, reason |-> a.reason, vals |-> a.vals, hyps |-> hs]
      BY <3>1 DEF Gathered
    <3>4. b.vals = a.vals /\ b.hyps = hs /\ b.ok = a.ok /\ b.status = a.status /\ b.reason = a.reason
      BY <3>3
    <3>5. Gathered(b)
      BY <3>2, <3>3, <3>4 DEF Gathered
    <3>6. Len(a.hyps) + 1 \in DOMAIN hs /\ \A i \in DOMAIN a.hyps : i \in DOMAIN hs
      BY <3>2
    <3>7. Grows(a, b)
      BY <1>7, <3>2, <3>4, <3>6 DEF Grows
    <3>8. Binds(b, item, rs)
      BY <1>2, <1>7, <3>2, <3>4, <3>6 DEF Binds, prop
    <3> QED
      BY <3>5, <3>7, <3>8
  <2>2. CASE same # <<>> /\ same[1].prop # prop
    <3>1. b = [a EXCEPT !.ok = FALSE, !.status = "unsupported", !.reason = "BundleFailed"]
      BY <1>1, <1>7, <2>2
    <3>2. b = [ok |-> FALSE, status |-> "unsupported", reason |-> "BundleFailed", vals |-> a.vals, hyps |-> a.hyps]
      BY <3>1 DEF Gathered
    <3>3. b.vals = a.vals /\ b.hyps = a.hyps /\ b.ok = FALSE /\ b.status = "unsupported" /\ b.reason = "BundleFailed"
      BY <3>2
    <3>4. Gathered(b)
      BY <3>2, <3>3 DEF Gathered
    <3> QED
      BY <3>3, <3>4 DEF Grows, Binds
  <2>3. CASE same # <<>> /\ same[1].prop = prop
    <3>1. b = a
      BY <1>1, <1>7, <2>3
    <3>2. PICK i \in DOMAIN a.hyps : a.hyps[i].name = n /\ same = <<a.hyps[i]>>
      BY <1>3, <2>3
    <3>3. a.hyps[i].prop = prop
      BY <2>3, <3>2
    <3> QED
      BY <1>2, <1>4, <1>7, <3>1, <3>2, <3>3 DEF Binds, prop
  <2> QED
    BY <2>1, <2>2, <2>3
<1> QED
  BY <1>5, <1>6, <1>7

\* Growing adds up, and what is bound stays bound.
LEMMA GrowsOn ==
  ASSUME NEW a, NEW b, NEW c, Grows(a, b), Grows(b, c)
  PROVE  Grows(a, c) /\ \A item, rs : Binds(a, item, rs) => Binds(c, item, rs)
<1>1. SUFFICES ASSUME c.ok
               PROVE  Grows(a, c) /\ \A item, rs : Binds(a, item, rs) => Binds(c, item, rs)
  BY DEF Grows, Binds
<1>2. /\ a.ok /\ b.ok
      /\ \A i \in DOMAIN a.vals : \E k \in DOMAIN c.vals : c.vals[k] = a.vals[i]
      /\ \A i \in DOMAIN a.hyps : \E k \in DOMAIN c.hyps : c.hyps[k] = a.hyps[i]
  <2>1. b.ok /\ a.ok
    BY <1>1, Zenon DEF Grows
  <2>2. ASSUME NEW i \in DOMAIN a.vals PROVE \E k \in DOMAIN c.vals : c.vals[k] = a.vals[i]
    <3>1. PICK m \in DOMAIN b.vals : b.vals[m] = a.vals[i]
      BY <2>1 DEF Grows
    <3> QED
      BY <1>1, <3>1 DEF Grows
  <2>3. ASSUME NEW i \in DOMAIN a.hyps PROVE \E k \in DOMAIN c.hyps : c.hyps[k] = a.hyps[i]
    <3>1. PICK m \in DOMAIN b.hyps : b.hyps[m] = a.hyps[i]
      BY <2>1 DEF Grows
    <3> QED
      BY <1>1, <3>1 DEF Grows
  <2> QED
    BY <2>1, <2>2, <2>3
<1>3. Grows(a, c)
  BY <1>2 DEF Grows
<1>4. ASSUME NEW item, NEW rs, Binds(a, item, rs) PROVE Binds(c, item, rs)
  <2>1. ASSUME item.kind = "val" PROVE \E k \in DOMAIN c.vals : c.vals[k] = RenameToken(item.name, rs)
    <3>1. PICK i \in DOMAIN a.vals : a.vals[i] = RenameToken(item.name, rs)
      BY <1>2, <1>4, <2>1 DEF Binds
    <3> QED
      BY <1>2, <3>1
  <2>2. ASSUME item.kind = "hyp"
        PROVE  \E k \in DOMAIN c.hyps :
                 c.hyps[k].name = RenameName(item.name, rs) /\ c.hyps[k].prop = RenameAll(item.prop, rs)
    <3>1. PICK i \in DOMAIN a.hyps :
            a.hyps[i].name = RenameName(item.name, rs) /\ a.hyps[i].prop = RenameAll(item.prop, rs)
      BY <1>2, <1>4, <2>2 DEF Binds
    <3>2. PICK k \in DOMAIN c.hyps : c.hyps[k] = a.hyps[i]
      BY <1>2
    <3> QED
      BY <3>1, <3>2
  <2> QED
    BY <2>1, <2>2 DEF Binds
<1> QED
  BY <1>3, <1>4

\* Binders of the three kinds.
Kinded(items) == \A k \in DOMAIN items : items[k].kind \in {"val", "hyp", "guard"}

\* One path joins.
LEMMA JoinWhole ==
  ASSUME NEW a, Gathered(a), NEW info, NEW extra, IsList(info.items), Kinded(info.items)
  PROVE  LET b == JoinPath(a, info, extra)
         IN  /\ Gathered(b) /\ Grows(a, b)
             /\ \A k \in DOMAIN info.items : Binds(b, info.items[k], info.renames \o extra)
<1> DEFINE n == Len(info.items)
           rs == info.renames \o extra
           b == JoinPath(a, info, extra)
<1>1. n \in Nat /\ DOMAIN info.items = 1 .. n
  BY DEF IsList
<1>2. PICK u : /\ u[0] = a
               /\ \A i \in 1 .. n : u[i] = JoinItem(u[i - 1], info.items[i], rs)
               /\ b = u[n]
  <2>1. PICK u : Joining(a, info, extra, u)
    BY JoinSteps
  <2> QED
    BY <2>1, Zenon DEF Joining
<1> SUFFICES Gathered(b) /\ Grows(a, b) /\ \A k \in DOMAIN info.items : Binds(b, info.items[k], rs)
  BY Zenon
<1> HIDE DEF b, rs
<1> DEFINE Good(i) == /\ Gathered(u[i]) /\ Grows(a, u[i])
                      /\ \A k \in 1 .. i : Binds(u[i], info.items[k], rs)
           G == {i \in 0 .. n : Good(i)}
<1>3. 0 \in G
  <2>1. Grows(a, a) /\ 1 .. 0 = {} /\ 0 \in 0 .. n
    BY <1>1 DEF Grows
  <2> QED
    BY <1>2, <2>1
<1>4. ASSUME NEW i \in 1 .. n, i - 1 \in G PROVE i \in G
  <2>1. Good(i - 1) /\ i \in 0 .. n
    BY <1>1, <1>4
  <2>2. u[i] = JoinItem(u[i - 1], info.items[i], rs)
    BY <1>2
  <2>3. info.items[i].kind \in {"val", "hyp", "guard"}
    BY <1>1 DEF Kinded
  <2>4. Gathered(u[i]) /\ Grows(u[i - 1], u[i]) /\ Binds(u[i], info.items[i], rs)
    BY <2>1, <2>2, <2>3, JoinOne
  <2>5. Grows(a, u[i])
    BY <2>1, <2>4, GrowsOn
  <2>6. ASSUME NEW k \in 1 .. i PROVE Binds(u[i], info.items[k], rs)
    <3>1. CASE k = i
      BY <2>4, <3>1
    <3>2. CASE k # i
      <4>1. k \in 1 .. i - 1
        BY <1>1, <3>2
      <4>2. Binds(u[i - 1], info.items[k], rs)
        BY <2>1, <4>1
      <4>3. Grows(u[i - 1], u[i - 1])
        BY DEF Grows
      <4> QED
        BY <2>4, <4>2, <4>3, GrowsOn
    <3> QED
      BY <3>1, <3>2
  <2> QED
    BY <2>1, <2>4, <2>5, <2>6
<1> HIDE DEF G
<1>5. n \in G
  <2>1. \A i \in 0 .. n : i \in G
    BY <1>1, <1>3, <1>4, Stepwise
  <2>2. n \in 0 .. n
    BY <1>1
  <2> QED
    BY <2>1, <2>2
<1>6. Good(n)
  BY <1>5 DEF G
<1> QED
  BY <1>1, <1>2, <1>6

\* All paths join.
LEMMA UnionBinds ==
  ASSUME NEW cs, IsList(cs),
         \A c \in DOMAIN cs : /\ IsList(cs[c].items)
                              /\ \A k \in DOMAIN cs[c].items : cs[c].items[k].kind \in {"val", "hyp", "guard"}
  PROVE  \A c \in DOMAIN cs : \A k \in DOMAIN cs[c].items :
           Binds(Union(cs), cs[c].items[k], cs[c].renames \o ParamRename(cs))
<1> DEFINE n == Len(cs)
           Rs(c) == cs[c].renames \o ParamRename(cs)
<1>1. n \in Nat /\ DOMAIN cs = 1 .. n
  BY DEF IsList
<1>2. PICK u : /\ u[0] = NoBinders
               /\ \A i \in 1 .. n : u[i] = JoinPath(u[i - 1], cs[i], ParamRename(cs))
               /\ Union(cs) = u[n]
  BY UnionSteps
<1> DEFINE Good(i) == /\ Gathered(u[i])
                      /\ \A c \in 1 .. i : \A k \in DOMAIN cs[c].items : Binds(u[i], cs[c].items[k], Rs(c))
           G == {i \in 0 .. n : Good(i)}
<1>3. 0 \in G
  <2>1. IsList(<<>>)
    BY DEF IsList
  <2>2. NoBinders.ok = TRUE /\ NoBinders.vals = <<>> /\ NoBinders.hyps = <<>>
        /\ NoBinders.status = "emitted" /\ NoBinders.reason = "none"
    BY DEF NoBinders
  <2>3. Gathered(NoBinders)
    BY <2>1, <2>2 DEF Gathered, NoBinders
  <2>4. 1 .. 0 = {} /\ 0 \in 0 .. n
    BY <1>1
  <2> QED
    BY <1>2, <2>3, <2>4
<1>4. ASSUME NEW i \in 1 .. n, i - 1 \in G PROVE i \in G
  <2>1. Good(i - 1) /\ i \in 0 .. n
    BY <1>1, <1>4
  <2>2. u[i] = JoinPath(u[i - 1], cs[i], ParamRename(cs)) /\ i \in DOMAIN cs
    BY <1>1, <1>2
  <2>3. IsList(cs[i].items) /\ Kinded(cs[i].items)
    BY <2>2 DEF Kinded
  <2>4. /\ Gathered(u[i]) /\ Grows(u[i - 1], u[i])
        /\ \A k \in DOMAIN cs[i].items : Binds(u[i], cs[i].items[k], Rs(i))
    BY <2>1, <2>2, <2>3, JoinWhole
  <2>5. ASSUME NEW c \in 1 .. i, NEW k \in DOMAIN cs[c].items PROVE Binds(u[i], cs[c].items[k], Rs(c))
    <3>1. CASE c = i
      BY <2>4, <3>1
    <3>2. CASE c # i
      <4>1. c \in 1 .. i - 1
        BY <1>1, <3>2
      <4>2. Binds(u[i - 1], cs[c].items[k], Rs(c))
        BY <2>1, <4>1
      <4>3. Grows(u[i - 1], u[i - 1])
        BY DEF Grows
      <4> QED
        BY <2>4, <4>2, <4>3, GrowsOn
    <3> QED
      BY <3>1, <3>2
  <2> QED
    BY <2>1, <2>4, <2>5
<1> HIDE DEF G
<1>5. n \in G
  <2>1. \A i \in 0 .. n : i \in G
    BY <1>1, <1>3, <1>4, Stepwise
  <2>2. n \in 0 .. n
    BY <1>1
  <2> QED
    BY <2>1, <2>2
<1>6. Good(n)
  BY <1>5 DEF G
<1> QED
  BY <1>1, <1>2, <1>6

\* No renaming is about the name.
Avoided(t, rs) == \A i \in DOMAIN rs : rs[i][1] # <<"init", t>>

\* Such a name is kept.
LEMMA KeptName ==
  ASSUME NEW t, NEW rs, IsList(rs), Avoided(t, rs)
  PROVE  RenameToken(t, rs) = t
<1>1. Len(rs) \in Nat /\ DOMAIN rs = 1 .. Len(rs)
  BY DEF IsList
<1>2. PICK u : /\ u[0] = t
               /\ \A i \in 1 .. Len(rs) : u[i] = Renamed(u[i - 1], rs[i])
               /\ RenameToken(t, rs) = u[Len(rs)]
  BY RenameSteps
<1> DEFINE G == {i \in 0 .. Len(rs) : u[i] = t}
<1>3. 0 \in G
  BY <1>1, <1>2
<1>4. ASSUME NEW i \in 1 .. Len(rs), i - 1 \in G PROVE i \in G
  <2>1. u[i - 1] = t /\ rs[i][1] # <<"init", t>> /\ i \in 0 .. Len(rs)
    BY <1>1, <1>4 DEF Avoided
  <2>2. u[i] = t
    BY <1>2, <2>1 DEF Renamed
  <2> QED
    BY <2>1, <2>2
<1> HIDE DEF G
<1>5. \A i \in 0 .. Len(rs) : i \in G
  BY <1>1, <1>3, <1>4, Stepwise
<1>6. Len(rs) \in G
  BY <1>1, <1>5
<1> QED
  BY <1>2, <1>6 DEF G

\* A corollary whose renamings are about its own binders and whose hypotheses
\* mention no name of the form of memory_binder_name.
Closed(c) ==
  /\ IsList(c.items) /\ IsList(c.renames)
  /\ \A k \in DOMAIN c.items :
       /\ c.items[k].kind \in {"val", "hyp", "guard"}
       /\ c.items[k].kind = "hyp" => \A x \in DOMAIN c.items[k].prop : c.items[k].prop[x][1] # "m"
  /\ \A r \in DOMAIN c.renames : \A t : c.renames[r][1] = <<"init", t>> =>
       \E k \in DOMAIN c.items : c.items[k].kind = "val" /\ c.items[k].name = t
  /\ c.param # <<>> => c.param[1].from[1] = "m"

\* The argument's renaming is about a name of that form.
LEMMA ParamIs ==
  ASSUME NEW cs, IsList(cs), \A i \in DOMAIN cs : Closed(cs[i])
  PROVE  /\ IsList(ParamRename(cs))
         /\ \A r \in DOMAIN ParamRename(cs) : \A t : ParamRename(cs)[r][1] = <<"init", t>> => t[1] = "m"
<1> DEFINE I == {i \in 1 .. Len(cs) : cs[i].param # <<>>}
           at == IF I # {} THEN Min(I) ELSE 0
           named == IF at = 0 THEN <<>> ELSE <<cs[at]>>
<1>1. DOMAIN cs = 1 .. Len(cs)
  BY DEF IsList
<1>2. I # {} => Min(I) \in I /\ Min(I) # 0
  <2>1. I \subseteq Nat \ {0}
    BY <1>1
  <2> QED
    BY <2>1, MinOf
<1>3. ParamRename(cs) = IF named = <<>> THEN <<>>
                        ELSE << <<(<<"init", named[1].param[1].from>>), named[1].param[1].to>> >>
  BY Zenon DEF ParamRename, First, SelectInSeq
<1>4. CASE I = {}
  <2>1. ParamRename(cs) = <<>>
    BY <1>3, <1>4
  <2> QED
    BY <2>1 DEF IsList
<1>5. CASE I # {}
  <2> DEFINE k == Min(I)
  <2>1. k \in I /\ at = k /\ k # 0
    BY <1>2, <1>5
  <2> HIDE DEF k, at
  <2>2. k \in DOMAIN cs /\ cs[k].param # <<>>
    BY <1>1, <2>1
  <2>3. named = <<cs[k]>>
    BY <2>1
  <2> DEFINE p == cs[k].param[1]
  <2>4. ParamRename(cs) = << <<(<<"init", p.from>>), p.to>> >>
    BY <1>3, <2>3
  <2>5. p.from[1] = "m"
    BY <2>2 DEF Closed
  <2> HIDE DEF p
  <2> DEFINE e == <<(<<"init", p.from>>), p.to>>
             s == <<e>>
  <2>6. IsList(s) /\ DOMAIN s = {1} /\ s[1][1] = <<"init", p.from>>
    <3>1. e[1] = <<"init", p.from>>
      OBVIOUS
    <3> HIDE DEF e
    <3>2. s \in Seq({e}) /\ DOMAIN s = {1} /\ s[1] = e
      OBVIOUS
    <3>3. IsList(s)
      BY <3>2, ListOf
    <3> QED
      BY <3>1, <3>2, <3>3
  <2>7. ParamRename(cs) = s
    BY <2>4
  <2> HIDE DEF s
  <2> QED
    BY <2>5, <2>6, <2>7
<1> QED
  BY <1>4, <1>5

\* BundleAppliesEveryPath of the corollaries cs and their bundle b.
Applied(items, b, args) ==
  LET Passed(t) == LET at == {k \in DOMAIN items : items[k].kind = "val" /\ items[k].name = t}
                   IN  IF at = {} THEN t ELSE args[CHOOSE k \in at : TRUE]
  IN  \A k \in DOMAIN items :
        CASE items[k].kind = "guard" -> TRUE
          [] items[k].kind = "val" -> \E v \in DOMAIN b.vals : b.vals[v] = args[k]
          [] items[k].kind = "hyp" ->
               \E h \in DOMAIN b.hyps :
                 /\ b.hyps[h].name = args[k]
                 /\ b.hyps[h].prop = [x \in DOMAIN items[k].prop |-> Passed(items[k].prop[x])]

LEMMA BundleApplies ==
  ASSUME NEW cs, IsList(cs), \A i \in DOMAIN cs : Closed(cs[i]), Bundle(cs).ok
  PROVE  \A i \in DOMAIN cs : Applied(cs[i].items, Bundle(cs), Bundle(cs).args[i])
<1> SUFFICES ASSUME NEW i \in DOMAIN cs
             PROVE  Applied(cs[i].items, Bundle(cs), Bundle(cs).args[i])
  OBVIOUS
<1> DEFINE items == cs[i].items
           extra == ParamRename(cs)
           rs == cs[i].renames \o extra
           b == Bundle(cs)
           args == b.args[i]
<1>1. b.ok = Union(cs).ok /\ b.vals = Union(cs).vals /\ b.hyps = Union(cs).hyps
      /\ args = Arguments(cs[i], extra)
  BY DEF Bundle
<1>2. Closed(cs[i])
  OBVIOUS
<1>3. \A k \in DOMAIN items :
        args[k] = CASE items[k].kind = "val" -> RenameToken(items[k].name, rs)
                    [] items[k].kind = "hyp" -> RenameName(items[k].name, rs)
                    [] items[k].kind = "guard" -> <<"hg", k>>
  BY <1>1, Zenon DEF Arguments
<1>4. Union(cs).ok
  BY <1>1, Zenon
<1>5. \A k \in DOMAIN items : Binds(Union(cs), items[k], rs)
  <2>1. \A c \in DOMAIN cs : /\ IsList(cs[c].items)
                             /\ \A k \in DOMAIN cs[c].items : cs[c].items[k].kind \in {"val", "hyp", "guard"}
    BY Zenon DEF Closed
  <2> QED
    BY <2>1, UnionBinds
<1>6. /\ IsList(rs)
      /\ \A r \in DOMAIN rs : \A t : rs[r][1] = <<"init", t>> =>
           t[1] = "m" \/ \E k \in DOMAIN items : items[k].kind = "val" /\ items[k].name = t
  <2> DEFINE p == cs[i].renames
             T == Range(p) \cup Range(extra)
  <2>1. IsList(extra) /\ \A r \in DOMAIN extra : \A t : extra[r][1] = <<"init", t>> => t[1] = "m"
    BY ParamIs
  <2>2. IsList(p) /\ \A r \in DOMAIN p : \A t : p[r][1] = <<"init", t>> =>
                       \E k \in DOMAIN items : items[k].kind = "val" /\ items[k].name = t
    BY <1>2 DEF Closed
  <2> HIDE DEF p, extra, items
  <2>3. p \in Seq(T) /\ extra \in Seq(T)
    <3>1. p \in Seq(Range(p)) /\ extra \in Seq(Range(extra))
      BY <2>1, <2>2 DEF IsList
    <3>2. \A S \in {Range(p), Range(extra)} : S \subseteq T
      OBVIOUS
    <3> QED
      BY <3>1, <3>2
  <2> HIDE DEF T
  <2>4. p \o extra \in Seq(T)
    BY <2>3
  <2>5. \A r \in DOMAIN (p \o extra) :
          \/ r \in DOMAIN p /\ (p \o extra)[r] = p[r]
          \/ r - Len(p) \in DOMAIN extra /\ (p \o extra)[r] = extra[r - Len(p)]
    BY <2>3
  <2>6. IsList(p \o extra)
    BY <2>4, ListOf
  <2>7. rs = p \o extra
    BY DEF p
  <2> HIDE DEF rs
  <2> QED
    BY <2>1, <2>2, <2>5, <2>6, <2>7
<1> DEFINE At(t) == {k \in DOMAIN items : items[k].kind = "val" /\ items[k].name = t}
           Passed(t) == IF At(t) = {} THEN t ELSE args[CHOOSE k \in At(t) : TRUE]
<1>7. ASSUME NEW t, t[1] # "m" PROVE Passed(t) = RenameToken(t, rs)
  <2>1. CASE At(t) = {}
    <3>1. Avoided(t, rs)
      BY <1>6, <1>7, <2>1 DEF Avoided
    <3>2. RenameToken(t, rs) = t
      <4> HIDE DEF rs
      <4> QED
        BY <1>6, <3>1, KeptName
    <3> QED
      BY <2>1, <3>2
  <2>2. CASE At(t) # {}
    <3> DEFINE k == CHOOSE k \in At(t) : TRUE
    <3>1. k \in At(t)
      BY <2>2
    <3> HIDE DEF k
    <3>2. k \in DOMAIN items /\ items[k].kind = "val" /\ items[k].name = t
      BY <3>1
    <3>3. args[k] = RenameToken(t, rs)
      <4> HIDE DEF items, args, rs
      <4> QED
        BY <1>3, <3>2
    <3>4. Passed(t) = args[k]
      BY <2>2 DEF k
    <3> QED
      BY <3>3, <3>4
  <2> QED
    BY <2>1, <2>2
<1> HIDE DEF items, rs, args, b
<1>8. ASSUME NEW k \in DOMAIN items, items[k].kind = "val"
      PROVE  \E v \in DOMAIN b.vals : b.vals[v] = args[k]
  BY <1>1, <1>3, <1>4, <1>5, <1>8 DEF Binds
<1>9. ASSUME NEW k \in DOMAIN items, items[k].kind = "hyp"
      PROVE  \E h \in DOMAIN b.hyps :
               /\ b.hyps[h].name = args[k]
               /\ b.hyps[h].prop = [x \in DOMAIN items[k].prop |-> Passed(items[k].prop[x])]
  <2> DEFINE prop == items[k].prop
  <2>1. PICK h \in DOMAIN b.hyps :
          b.hyps[h].name = RenameName(items[k].name, rs) /\ b.hyps[h].prop = RenameAll(prop, rs)
    BY <1>1, <1>4, <1>5, <1>9 DEF Binds
  <2>2. args[k] = RenameName(items[k].name, rs)
    BY <1>3, <1>9
  <2>3. \A x \in DOMAIN prop : prop[x][1] # "m"
    BY <1>2, <1>9 DEF Closed, items
  <2> HIDE DEF prop, At
  <2>4. \A x \in DOMAIN prop : RenameToken(prop[x], rs) = Passed(prop[x])
    BY <1>7, <2>3
  <2> HIDE DEF Passed
  <2>5. RenameAll(prop, rs) = [x \in DOMAIN prop |-> Passed(prop[x])]
    BY <2>4 DEF RenameAll
  <2> QED
    BY <2>1, <2>2, <2>5, Zenon DEF prop
<1>10. \A k \in DOMAIN items : items[k].kind \in {"val", "hyp", "guard"}
  BY <1>2 DEF Closed, items
<1> HIDE DEF Passed
<1>11. \A k \in DOMAIN items :
         CASE items[k].kind = "guard" -> TRUE
           [] items[k].kind = "val" -> \E v \in DOMAIN b.vals : b.vals[v] = args[k]
           [] items[k].kind = "hyp" ->
                \E h \in DOMAIN b.hyps :
                  /\ b.hyps[h].name = args[k]
                  /\ b.hyps[h].prop = [x \in DOMAIN items[k].prop |-> Passed(items[k].prop[x])]
  BY <1>8, <1>9, <1>10
<1> QED
  BY <1>11, Zenon DEF Applied, Passed, At, items, args, b

-----------------------------------------------------------------------------
(* The walk over the layout.                                                   *)

\* A binder the bundle can take over: its hypothesis mentions no name of the form
\* of memory_binder_name.
Fine(item) ==
  /\ item.kind \in {"val", "hyp", "guard"}
  /\ item.kind = "hyp" => \A x \in DOMAIN item.prop : item.prop[x][1] # "m"
\* An entry value is the value of a binder.
Sourced(e, names) == \A t : e = <<"init", t>> => t \in names

\* What the walk keeps true of the binders and the renamings.
Carried(acc, names) ==
  /\ acc = [ok |-> acc.ok, rejected |-> acc.rejected, reason |-> acc.reason, items |-> acc.items,
            pre |-> acc.pre, post |-> acc.post, frame |-> acc.frame, owned |-> acc.owned,
            renames |-> acc.renames]
  /\ IsList(acc.items) /\ IsList(acc.renames) /\ IsList(acc.post)
  /\ \A k \in DOMAIN acc.items : Fine(acc.items[k])
  /\ \A t \in names : \E k \in DOMAIN acc.items : acc.items[k].kind = "val" /\ acc.items[k].name = t
  /\ \A r \in DOMAIN acc.renames : Sourced(acc.renames[r][1], names)

\* AfterIsTrue of one field's cell, and of all said so far.
TrueOf(c, left) ==
  ~c.byte => LET cells == Held(left, c.base, c.off, Dword) IN cells # <<>> => cells[1].value = c.value
Says(acc, left) == \A j \in DOMAIN acc.post : TrueOf(acc.post[j], left)


\* A walk that fails keeps what it has.
LEMMA FailKeeps ==
  ASSUME NEW names, NEW acc, Carried(acc, names), NEW f
  PROVE  Carried(FailWalk(acc, f), names) /\ FailWalk(acc, f).post = acc.post
<1> DEFINE b == FailWalk(acc, f)
           rej == (f.status = "rejected")
<1>1. b = [acc EXCEPT !.ok = FALSE, !.rejected = rej, !.reason = f.reason]
  BY DEF FailWalk
<1> HIDE DEF rej
<1>2. b = [ok |-> FALSE, rejected |-> rej, reason |-> f.reason, items |-> acc.items,
           pre |-> acc.pre, post |-> acc.post, frame |-> acc.frame, owned |-> acc.owned,
           renames |-> acc.renames]
  BY <1>1 DEF Carried
<1> HIDE DEF b
<1>3. /\ b.ok = FALSE /\ b.rejected = rej /\ b.reason = f.reason /\ b.items = acc.items /\ b.pre = acc.pre
      /\ b.post = acc.post /\ b.frame = acc.frame /\ b.owned = acc.owned /\ b.renames = acc.renames
  BY <1>2
<1>4. Carried(b, names)
  BY <1>2, <1>3 DEF Carried
<1> QED
  BY <1>3, <1>4 DEF b

\* A field the path owns.
LEMMA OwnKeeps ==
  ASSUME NEW names, NEW acc, Carried(acc, names), NEW n, NEW c, NEW was, NEW now, Sourced(was, names)
  PROVE  /\ Carried(OwnField(acc, n, c, was, now), names)
         /\ OwnField(acc, n, c, was, now).post = Append(acc.post, Claim(n, c, now))
<1> DEFINE b == OwnField(acc, n, c, was, now)
           pre == Append(acc.pre, Claim(n, c, was))
           post == Append(acc.post, Claim(n, c, now))
           owned == acc.owned \cup {<<c.base, c.off, c.byte>>}
           renames == Append(acc.renames, <<was, n>>)
<1>1. b = [acc EXCEPT !.pre = pre, !.post = post, !.owned = owned, !.renames = renames]
  BY DEF OwnField
<1>2. IsList(post) /\ IsList(renames)
  BY AppendList DEF Carried
<1>3. \A r \in DOMAIN renames : Sourced(renames[r][1], names)
  <2>1. /\ DOMAIN acc.renames = 1 .. Len(acc.renames) /\ DOMAIN renames = 1 .. Len(acc.renames) + 1
        /\ Len(acc.renames) \in Nat
        /\ \A i \in 1 .. Len(acc.renames) : renames[i] = acc.renames[i]
        /\ renames[Len(acc.renames) + 1] = <<was, n>>
    BY AppendList DEF Carried
  <2>2. ASSUME NEW r \in DOMAIN renames PROVE Sourced(renames[r][1], names)
    <3>1. CASE r = Len(acc.renames) + 1
      BY <2>1, <3>1
    <3>2. CASE r # Len(acc.renames) + 1
      <4>1. r \in DOMAIN acc.renames /\ renames[r] = acc.renames[r]
        BY <2>1, <3>2
      <4> QED
        BY <4>1 DEF Carried
    <3> QED
      BY <3>1, <3>2
  <2> QED
    BY <2>2
<1> HIDE DEF pre, post, owned, renames
<1>4. b = [ok |-> acc.ok, rejected |-> acc.rejected, reason |-> acc.reason, items |-> acc.items,
           pre |-> pre, post |-> post, frame |-> acc.frame, owned |-> owned, renames |-> renames]
  BY <1>1 DEF Carried
<1> HIDE DEF b
<1>5. /\ b.ok = acc.ok /\ b.rejected = acc.rejected /\ b.reason = acc.reason /\ b.items = acc.items
      /\ b.pre = pre /\ b.post = post /\ b.frame = acc.frame /\ b.owned = owned /\ b.renames = renames
  BY <1>4
<1>6. Carried(b, names)
  BY <1>2, <1>3, <1>4, <1>5 DEF Carried
<1> QED
  BY <1>5, <1>6 DEF b, post

\* A field framed under its own name, unless a binder has it.
LEMMA FrameKeeps ==
  ASSUME NEW names, NEW acc, Carried(acc, names), NEW n, NEW c, NEW w
  PROVE  /\ Carried(FrameField(acc, n, c, w), names)
         /\ FrameField(acc, n, c, w).post \in {acc.post, Append(acc.post, Claim(n, c, <<"init", n>>))}
<1>1. CASE Taken(n, acc.items)
  <2>1. FrameField(acc, n, c, w) = FailWalk(acc, Unsupported("BinderConflict"))
    BY <1>1 DEF FrameField
  <2> QED
    BY <2>1, FailKeeps
<1>2. CASE ~Taken(n, acc.items)
  <2> DEFINE b == FrameField(acc, n, c, w)
             items == Append(acc.items, Val(n))
             pre == Append(acc.pre, Claim(n, c, <<"init", n>>))
             post == Append(acc.post, Claim(n, c, <<"init", n>>))
             frame == Append(acc.frame, [base |-> c.base, off |-> c.off, width |-> w])
  <2>1. b = [acc EXCEPT !.items = items, !.pre = pre, !.post = post, !.frame = frame]
    BY <1>2 DEF FrameField
  <2>2. IsList(post) /\ IsList(items)
    BY AppendList DEF Carried
  <2>3. /\ DOMAIN acc.items = 1 .. Len(acc.items) /\ DOMAIN items = 1 .. Len(acc.items) + 1
        /\ Len(acc.items) \in Nat
        /\ \A i \in 1 .. Len(acc.items) : items[i] = acc.items[i]
        /\ items[Len(acc.items) + 1] = Val(n)
    BY AppendList DEF Carried
  <2> HIDE DEF pre, post, items, frame
  <2>4. Fine(Val(n))
    BY DEF Fine, Val
  <2>5. ASSUME NEW k \in DOMAIN items PROVE Fine(items[k])
    <3>1. CASE k = Len(acc.items) + 1
      BY <2>3, <2>4, <3>1
    <3>2. CASE k # Len(acc.items) + 1
      <4>1. k \in DOMAIN acc.items /\ items[k] = acc.items[k]
        BY <2>3, <3>2
      <4> QED
        BY <4>1 DEF Carried
    <3> QED
      BY <3>1, <3>2
  <2>6. ASSUME NEW t \in names PROVE \E k \in DOMAIN items : items[k].kind = "val" /\ items[k].name = t
    <3>1. PICK k \in DOMAIN acc.items : acc.items[k].kind = "val" /\ acc.items[k].name = t
      BY DEF Carried
    <3>2. k \in DOMAIN items /\ items[k] = acc.items[k]
      BY <2>3
    <3> QED
      BY <3>1, <3>2
  <2>7. b = [ok |-> acc.ok, rejected |-> acc.rejected, reason |-> acc.reason, items |-> items,
             pre |-> pre, post |-> post, frame |-> frame, owned |-> acc.owned, renames |-> acc.renames]
    BY <2>1 DEF Carried
  <2> HIDE DEF b
  <2>8. /\ b.ok = acc.ok /\ b.rejected = acc.rejected /\ b.reason = acc.reason /\ b.items = items
        /\ b.pre = pre /\ b.post = post /\ b.frame = frame /\ b.owned = acc.owned /\ b.renames = acc.renames
    BY <2>7
  <2>9. Carried(b, names)
    BY <2>2, <2>5, <2>6, <2>7, <2>8 DEF Carried
  <2> QED
    BY <2>8, <2>9 DEF b, post
<1> QED
  BY <1>1, <1>2

\* One more true claim.
LEMMA SaysMore ==
  ASSUME NEW left, NEW names, NEW acc, Carried(acc, names), Says(acc, left), NEW b, NEW c,
         b.post \in {acc.post, Append(acc.post, c)}, b.post # acc.post => TrueOf(c, left)
  PROVE  Says(b, left)
<1>1. CASE b.post = acc.post
  BY <1>1 DEF Says
<1>2. CASE b.post # acc.post
  <2>1. b.post = Append(acc.post, c) /\ TrueOf(c, left)
    BY <1>2
  <2>2. /\ DOMAIN acc.post = 1 .. Len(acc.post) /\ DOMAIN b.post = 1 .. Len(acc.post) + 1
        /\ Len(acc.post) \in Nat
        /\ \A i \in 1 .. Len(acc.post) : b.post[i] = acc.post[i]
        /\ b.post[Len(acc.post) + 1] = c
    BY <2>1, AppendList DEF Carried
  <2>3. ASSUME NEW j \in DOMAIN b.post PROVE TrueOf(b.post[j], left)
    <3>1. CASE j = Len(acc.post) + 1
      BY <2>1, <2>2, <3>1
    <3>2. CASE j # Len(acc.post) + 1
      <4>1. j \in DOMAIN acc.post /\ b.post[j] = acc.post[j]
        BY <2>2, <3>2
      <4> QED
        BY <4>1 DEF Says
    <3> QED
      BY <3>1, <3>2
  <2> QED
    BY <2>3 DEF Says
<1> QED
  BY <1>1, <1>2

\* Entry values are bound; the cells after the path are those before it, and the
\* mutated field's value is what its cell holds.
EnvFine(env, names) ==
  /\ IsList(env.pre) /\ IsList(env.post)
  /\ \A i \in DOMAIN env.pre : Sourced(env.pre[i].value, names)
  /\ env.mutation # <<>> => Sourced(env.mutation[1].before, names)
EnvSame(env) ==
  /\ DOMAIN env.post = DOMAIN env.pre
  /\ \A i \in DOMAIN env.pre : /\ env.post[i].base = env.pre[i].base /\ env.post[i].off = env.pre[i].off
                               /\ env.post[i].width = env.pre[i].width
  /\ env.mutation # <<>> =>
       \A n : TrueOf(Claim(n, Place(env, env.mutatedOff, FALSE), env.mutation[1].value), env.post)

\* The value of a cell at entry is a binder's, if it is an entry value.
LEMMA HeldSourced ==
  ASSUME NEW names, NEW env, EnvFine(env, names), NEW b, NEW o, NEW w, Held(env.pre, b, o, w) # <<>>
  PROVE  Sourced(Head(Held(env.pre, b, o, w)).value, names)
<1>1. PICK i \in DOMAIN env.pre : Held(env.pre, b, o, w) = <<env.pre[i]>>
  BY HeldIs DEF EnvFine
<1>2. Head(Held(env.pre, b, o, w)) = env.pre[i]
  BY <1>1
<1> QED
  BY <1>2 DEF EnvFine

\* No 64-bit cell after the path where there was none before it.
LEMMA StillNone ==
  ASSUME NEW names, NEW env, EnvFine(env, names), EnvSame(env), NEW b, NEW o,
         Held(env.pre, b, o, Dword) = <<>>
  PROVE  Held(env.post, b, o, Dword) = <<>>
<1>1. \A i \in DOMAIN env.pre : ~(env.pre[i].base = b /\ env.pre[i].off = o /\ env.pre[i].width \in Dword)
  <2>1. ASSUME NEW i \in DOMAIN env.pre, Held(env.pre, b, o, Dword) = <<env.pre[i]>> PROVE FALSE
    BY <2>1
  <2> QED
    BY <2>1, HeldIs DEF EnvFine
<1>2. \A i \in DOMAIN env.post : ~(env.post[i].base = b /\ env.post[i].off = o /\ env.post[i].width \in Dword)
  BY <1>1 DEF EnvSame
<1> QED
  BY <1>2, HeldIs DEF EnvFine

\* A 64-bit field or a limb of a public key.
LEMMA WordKeeps ==
  ASSUME NEW names, NEW acc, Carried(acc, names), NEW env, EnvFine(env, names),
         NEW n, NEW off, NEW limb
  PROVE  LET b == WordField(acc, n, env, off, limb)
         IN  /\ Carried(b, names)
             /\ EnvSame(env) /\ Says(acc, env.post) => Says(b, env.post)
<1> DEFINE c == Place(env, off, FALSE)
           held == Held(env.pre, c.base, c.off, Dword)
           b == WordField(acc, n, env, off, limb)
           same == SameAfter(env, c, Head(held).value, limb)
<1>1. c.byte = FALSE
  BY DEF Place
<1>2. b = IF held = <<>> THEN FrameField(acc, n, c, 8)
          ELSE IF ~same THEN FailWalk(acc, Rejected("MutationMismatch"))
          ELSE OwnField(acc, n, c, Head(held).value, Head(held).value)
  BY Zenon DEF WordField
<1>3. same => (Held(env.post, c.base, c.off, Dword) # <<>> =>
                 Held(env.post, c.base, c.off, Dword)[1].value = Head(held).value)
  <2> DEFINE left == Held(env.post, c.base, c.off, Dword)
             v == Head(held).value
  <2>1. same => (left # <<>> => Head(left).value = v)
    BY Zenon DEF SameAfter
  <2>2. ASSUME left # <<>> PROVE Head(left) = left[1]
    <3>1. IsList(env.post)
      BY DEF EnvFine
    <3> HIDE DEF c
    <3>2. PICK i \in DOMAIN env.post : Held(env.post, c.base, c.off, Dword) = <<env.post[i]>>
      BY <2>2, <3>1, HeldIs
    <3>3. left = <<env.post[i]>>
      BY <3>2
    <3> HIDE DEF left
    <3> QED
      BY <3>3
  <2> HIDE DEF left, v, same
  <2> QED
    BY <2>1, <2>2 DEF left, v
<1>4. held # <<>> => Sourced(Head(held).value, names)
  BY HeldSourced
<1>5. EnvSame(env) /\ held = <<>> => Held(env.post, c.base, c.off, Dword) = <<>>
  BY StillNone
<1> SUFFICES Carried(b, names) /\ (EnvSame(env) /\ Says(acc, env.post) => Says(b, env.post))
  BY Zenon
<1> HIDE DEF b, same, held, c
<1>6. \A v : /\ Claim(n, c, v).base = c.base /\ Claim(n, c, v).off = c.off /\ Claim(n, c, v).value = v
  BY DEF Claim
<1>7. CASE held = <<>>
  <2>1. b = FrameField(acc, n, c, 8)
    BY <1>2, <1>7, Zenon
  <2>2. Carried(b, names) /\ b.post \in {acc.post, Append(acc.post, Claim(n, c, <<"init", n>>))}
    BY <2>1, FrameKeeps
  <2>3. EnvSame(env) => TrueOf(Claim(n, c, <<"init", n>>), env.post)
    BY <1>5, <1>6, <1>7 DEF TrueOf
  <2> QED
    BY <2>2, <2>3, SaysMore
<1>8. CASE held # <<>> /\ ~same
  <2>1. b = FailWalk(acc, Rejected("MutationMismatch"))
    BY <1>2, <1>8, Zenon
  <2>2. Carried(b, names) /\ b.post = acc.post
    BY <2>1, FailKeeps
  <2> QED
    BY <2>2 DEF Says
<1>9. CASE held # <<>> /\ same
  <2> DEFINE v == Head(held).value
  <2>1. b = OwnField(acc, n, c, v, v)
    BY <1>2, <1>9, Zenon
  <2>2. Sourced(v, names)
    BY <1>4, <1>9
  <2> HIDE DEF v
  <2>3. Carried(b, names) /\ b.post = Append(acc.post, Claim(n, c, v))
    BY <2>1, <2>2, OwnKeeps
  <2>4. TrueOf(Claim(n, c, v), env.post)
    BY <1>3, <1>6, <1>9 DEF TrueOf, v
  <2> QED
    BY <2>3, <2>4, SaysMore
<1> QED
  BY <1>7, <1>8, <1>9

\* A byte field.
LEMMA ByteKeeps ==
  ASSUME NEW names, NEW acc, Carried(acc, names), NEW env, EnvFine(env, names), NEW n, NEW off
  PROVE  LET b == ByteField(acc, n, env, off)
         IN  Carried(b, names) /\ (Says(acc, env.post) => Says(b, env.post))
<1> DEFINE c == Place(env, off, TRUE)
           held == Held(env.pre, c.base, c.off, Byte)
           b == ByteField(acc, n, env, off)
<1>1. c.byte = TRUE
  BY DEF Place
<1>2. b = IF held = <<>> THEN FrameField(acc, n, c, 1)
          ELSE OwnField(acc, n, c, Head(held).value, Head(held).value)
  BY Zenon DEF ByteField
<1>3. held # <<>> => Sourced(Head(held).value, names)
  BY HeldSourced
<1> SUFFICES Carried(b, names) /\ (Says(acc, env.post) => Says(b, env.post))
  BY Zenon
<1> HIDE DEF b, held, c
<1>4. \A v : TrueOf(Claim(n, c, v), env.post)
  BY <1>1 DEF TrueOf, Claim
<1>5. CASE held = <<>>
  <2>1. b = FrameField(acc, n, c, 1)
    BY <1>2, <1>5, Zenon
  <2>2. Carried(b, names) /\ b.post \in {acc.post, Append(acc.post, Claim(n, c, <<"init", n>>))}
    BY <2>1, FrameKeeps
  <2> QED
    BY <1>4, <2>2, SaysMore
<1>6. CASE held # <<>>
  <2> DEFINE v == Head(held).value
  <2>1. b = OwnField(acc, n, c, v, v)
    BY <1>2, <1>6, Zenon
  <2>2. Sourced(v, names)
    BY <1>3, <1>6
  <2> HIDE DEF v
  <2>3. Carried(b, names) /\ b.post = Append(acc.post, Claim(n, c, v))
    BY <2>1, <2>2, OwnKeeps
  <2> QED
    BY <1>4, <2>3, SaysMore
<1> QED
  BY <1>5, <1>6

\* The four limbs of a public key.
LEMMA KeyKeeps ==
  ASSUME NEW names, NEW acc, Carried(acc, names), NEW env, EnvFine(env, names), NEW f
  PROVE  LET b == KeyField(acc, f, env)
         IN  /\ Carried(b, names)
             /\ EnvSame(env) /\ Says(acc, env.post) => Says(b, env.post)
<1>1. ASSUME NEW a, Carried(a, names), NEW i
      PROVE  /\ Carried(WordLimb(a, f, env, i), names)
             /\ EnvSame(env) /\ Says(a, env.post) => Says(WordLimb(a, f, env, i), env.post)
  BY <1>1, WordKeeps DEF WordLimb
<1>2. CASE PartialKey(env, f.off)
  <2>1. KeyField(acc, f, env) = FailWalk(acc, Unwired)
    BY <1>2 DEF KeyField
  <2>2. Carried(KeyField(acc, f, env), names) /\ KeyField(acc, f, env).post = acc.post
    BY <2>1, FailKeeps
  <2> QED
    BY <2>2 DEF Says
<1>3. CASE ~PartialKey(env, f.off)
  <2> DEFINE a0 == WordLimb(acc, f, env, 0)
             a1 == WordLimb(a0, f, env, 1)
             a2 == WordLimb(a1, f, env, 2)
             a3 == WordLimb(a2, f, env, 3)
  <2>1. KeyField(acc, f, env) = a3
    BY <1>3 DEF KeyField
  <2>2. Carried(a0, names) /\ (EnvSame(env) /\ Says(acc, env.post) => Says(a0, env.post))
    BY <1>1
  <2> HIDE DEF a0
  <2>3. Carried(a1, names) /\ (EnvSame(env) /\ Says(a0, env.post) => Says(a1, env.post))
    BY <1>1, <2>2
  <2> HIDE DEF a1
  <2>4. Carried(a2, names) /\ (EnvSame(env) /\ Says(a1, env.post) => Says(a2, env.post))
    BY <1>1, <2>3
  <2> HIDE DEF a2
  <2>5. Carried(a3, names) /\ (EnvSame(env) /\ Says(a2, env.post) => Says(a3, env.post))
    BY <1>1, <2>4
  <2> HIDE DEF a3
  <2> QED
    BY <2>1, <2>2, <2>3, <2>4, <2>5
<1> QED
  BY <1>2, <1>3

\* One field of a path that returns.
LEMMA PathFieldKeeps ==
  ASSUME NEW names, NEW acc, Carried(acc, names), NEW env, EnvFine(env, names), NEW f
  PROVE  LET b == PathField(acc, f, env)
         IN  /\ f.kind \in {"u64", "byte", "pubkey", "bytes"} => Carried(b, names)
             /\ f.kind \in {"u64", "byte", "pubkey", "bytes"} /\ EnvSame(env) /\ Says(acc, env.post)
                  => Says(b, env.post)
<1> DEFINE b == PathField(acc, f, env)
<1> SUFFICES ASSUME f.kind \in {"u64", "byte", "pubkey", "bytes"}
             PROVE  Carried(b, names) /\ (EnvSame(env) /\ Says(acc, env.post) => Says(b, env.post))
  BY Zenon
<1>1. CASE ~acc.ok
  <2>1. b = acc
    BY <1>1 DEF PathField
  <2> QED
    BY <2>1
<1>2. CASE acc.ok /\ f.kind = "u64" /\ f.off = env.mutatedOff /\ env.mutation # <<>>
  <2> DEFINE c == Place(env, f.off, FALSE)
             was == env.mutation[1].before
             now == env.mutation[1].value
  <2>1. b = OwnField(acc, <<f.name>>, c, was, now)
    BY <1>2 DEF PathField
  <2>2. Sourced(was, names)
    BY <1>2 DEF EnvFine
  <2>3. EnvSame(env) => TrueOf(Claim(<<f.name>>, c, now), env.post)
    BY <1>2 DEF EnvSame
  <2> HIDE DEF b, c, was, now
  <2>4. Carried(b, names) /\ b.post = Append(acc.post, Claim(<<f.name>>, c, now))
    BY <2>1, <2>2, OwnKeeps
  <2> QED
    BY <2>3, <2>4, SaysMore
<1>3. CASE acc.ok /\ ~(f.kind = "u64" /\ f.off = env.mutatedOff /\ env.mutation # <<>>)
  <2>1. CASE f.kind = "u64"
    <3>1. b = WordField(acc, <<f.name>>, env, f.off, FALSE)
      BY <1>3, <2>1 DEF PathField
    <3> QED
      BY <3>1, WordKeeps
  <2>2. CASE f.kind = "byte"
    <3>1. b = ByteField(acc, <<f.name>>, env, f.off)
      BY <1>3, <2>2 DEF PathField
    <3> QED
      BY <3>1, ByteKeeps
  <2>3. CASE f.kind = "pubkey"
    <3>1. b = KeyField(acc, f, env)
      BY <1>3, <2>3 DEF PathField
    <3> QED
      BY <3>1, KeyKeeps
  <2>4. CASE f.kind = "bytes"
    <3>1. b = FailWalk(acc, Unwired)
      BY <1>3, <2>4 DEF PathField
    <3>2. Carried(b, names) /\ b.post = acc.post
      BY <3>1, FailKeeps
    <3> QED
      BY <3>2 DEF Says
  <2> QED
    BY <2>1, <2>2, <2>3, <2>4
<1> QED
  BY <1>1, <1>2, <1>3

\* One field of a path that faults.
LEMMA FaultFieldKeeps ==
  ASSUME NEW names, NEW acc, Carried(acc, names), NEW env, EnvFine(env, names), NEW f,
         f.kind \in {"u64", "byte", "pubkey", "bytes"}
  PROVE  Carried(FaultField(acc, f, env), names)
<1> DEFINE b == FaultField(acc, f, env)
<1>1. CASE ~acc.ok
  <2>1. b = acc
    BY <1>1 DEF FaultField
  <2> QED
    BY <2>1
<1>2. CASE acc.ok /\ f.kind = "u64"
  <2> DEFINE c == Place(env, f.off, FALSE)
             held == Held(env.pre, c.base, c.off, Dword)
  <2>1. b = FaultWord(acc, <<f.name>>, env, f.off)
    BY <1>2 DEF FaultField
  <2>2. b = IF held = <<>> THEN FrameField(acc, <<f.name>>, c, 8)
            ELSE OwnField(acc, <<f.name>>, c, Head(held).value, Head(held).value)
    BY <2>1, Zenon DEF FaultWord
  <2>3. held # <<>> => Sourced(Head(held).value, names)
    BY HeldSourced
  <2> HIDE DEF b, c, held
  <2>4. CASE held = <<>>
    <3>1. b = FrameField(acc, <<f.name>>, c, 8)
      BY <2>2, <2>4
    <3>2. Carried(b, names)
      BY <3>1, FrameKeeps
    <3> QED
      BY <3>2 DEF b
  <2>5. CASE held # <<>>
    <3> DEFINE v == Head(held).value
    <3>1. b = OwnField(acc, <<f.name>>, c, v, v) /\ Sourced(v, names)
      BY <2>2, <2>3, <2>5
    <3> HIDE DEF v
    <3>2. Carried(b, names)
      BY <3>1, OwnKeeps
    <3> QED
      BY <3>2 DEF b
  <2> QED
    BY <2>4, <2>5 DEF b
<1>3. CASE acc.ok /\ f.kind = "byte"
  <2>1. b = ByteField(acc, <<f.name>>, env, f.off)
    BY <1>3 DEF FaultField
  <2> QED
    BY <2>1, ByteKeeps
<1>4. CASE acc.ok /\ f.kind = "pubkey"
  <2>1. b = FaultKey(acc, f, env)
    BY <1>4 DEF FaultField
  <2>2. ASSUME NEW a, Carried(a, names), NEW i PROVE Carried(FrameLimb(a, f, env, i), names)
    BY <2>2, FrameKeeps DEF FrameLimb
  <2>3. CASE \E i \in 0..3 : Held(env.pre, env.base, env.baseOff + f.off + 8 * i, NotByte) # <<>>
    <3>1. b = FailWalk(acc, Unwired)
      BY <2>1, <2>3, Zenon DEF FaultKey
    <3> QED
      BY <3>1, FailKeeps
  <2>4. CASE ~\E i \in 0..3 : Held(env.pre, env.base, env.baseOff + f.off + 8 * i, NotByte) # <<>>
    <3> DEFINE a0 == FrameLimb(acc, f, env, 0)
               a1 == FrameLimb(a0, f, env, 1)
               a2 == FrameLimb(a1, f, env, 2)
               a3 == FrameLimb(a2, f, env, 3)
    <3>1. b = a3
      BY <2>1, <2>4, Zenon DEF FaultKey
    <3>2. Carried(a0, names)
      BY <2>2
    <3> HIDE DEF a0
    <3>3. Carried(a1, names)
      BY <2>2, <3>2
    <3> HIDE DEF a1
    <3>4. Carried(a2, names)
      BY <2>2, <3>3
    <3> HIDE DEF a2
    <3>5. Carried(a3, names)
      BY <2>2, <3>4
    <3> HIDE DEF a3
    <3> QED
      BY <3>1, <3>5
  <2> QED
    BY <2>3, <2>4
<1>5. CASE acc.ok /\ f.kind = "bytes"
  <2>1. b = FailWalk(acc, Unwired)
    BY <1>5 DEF FaultField
  <2> QED
    BY <2>1, FailKeeps
<1> QED
  BY <1>1, <1>2, <1>3, <1>4, <1>5

\* A cell that gets its name from its offset.
LEMMA NameCellKeeps ==
  ASSUME NEW names, NEW acc, Carried(acc, names), NEW env, NEW c, Sourced(c.value, names)
  PROVE  Carried(NameCell(acc, c, env), names) /\ NameCell(acc, c, env).post = acc.post
<1> DEFINE b == NameCell(acc, c, env)
           renames == Append(acc.renames, <<c.value, <<"m", c.off - env.baseOff>>>>)
<1>1. b = acc \/ b = [acc EXCEPT !.renames = renames]
  BY DEF NameCell
<1>2. CASE b = acc
  BY <1>2
<1>3. CASE b = [acc EXCEPT !.renames = renames]
  <2>1. /\ IsList(renames)
        /\ DOMAIN acc.renames = 1 .. Len(acc.renames) /\ DOMAIN renames = 1 .. Len(acc.renames) + 1
        /\ Len(acc.renames) \in Nat
        /\ \A i \in 1 .. Len(acc.renames) : renames[i] = acc.renames[i]
        /\ renames[Len(acc.renames) + 1][1] = c.value
    <3> DEFINE x == <<c.value, <<"m", c.off - env.baseOff>>>>
    <3>1. x[1] = c.value
      OBVIOUS
    <3> HIDE DEF x
    <3> QED
      BY <3>1, AppendList DEF Carried
  <2>2. ASSUME NEW r \in DOMAIN renames PROVE Sourced(renames[r][1], names)
    <3> HIDE DEF renames
    <3>1. CASE r = Len(acc.renames) + 1
      BY <2>1, <3>1
    <3>2. CASE r # Len(acc.renames) + 1
      <4>1. r \in DOMAIN acc.renames /\ renames[r] = acc.renames[r]
        BY <2>1, <3>2
      <4> QED
        BY <4>1 DEF Carried
    <3> QED
      BY <3>1, <3>2
  <2> HIDE DEF renames
  <2>3. b = [ok |-> acc.ok, rejected |-> acc.rejected, reason |-> acc.reason, items |-> acc.items,
             pre |-> acc.pre, post |-> acc.post, frame |-> acc.frame, owned |-> acc.owned, renames |-> renames]
    BY <1>3 DEF Carried
  <2> HIDE DEF b
  <2>4. /\ b.ok = acc.ok /\ b.rejected = acc.rejected /\ b.reason = acc.reason /\ b.items = acc.items
        /\ b.pre = acc.pre /\ b.post = acc.post /\ b.frame = acc.frame /\ b.owned = acc.owned
        /\ b.renames = renames
    BY <2>3
  <2>5. Carried(b, names)
    BY <2>1, <2>2, <2>3, <2>4 DEF Carried
  <2> QED
    BY <2>4, <2>5 DEF b
<1> QED
  BY <1>1, <1>2, <1>3

\* All fields, then all cells.
LEMMA WalkedKeeps ==
  ASSUME NEW names, NEW env, EnvFine(env, names), NEW desc, NEW items, NEW end,
         IsList(desc.layout.fields),
         \A i \in DOMAIN desc.layout.fields :
           desc.layout.fields[i].kind \in {"u64", "byte", "pubkey", "bytes"},
         Carried(Walk0(items), names), Says(Walk0(items), env.post)
  PROVE  /\ Carried(Walked(desc, env, items, end), names)
         /\ end = "return" /\ EnvSame(env) => Says(Walked(desc, env, items, end), env.post)
<1> DEFINE fields == desc.layout.fields
           n == Len(fields)
           w == LayoutWalk(desc, env, items, end)
           True1(a) == end = "return" /\ EnvSame(env) => Says(a, env.post)
<1>1. n \in Nat /\ DOMAIN fields = 1 .. n
  BY DEF IsList
<1>2. Carried(w, names) /\ True1(w)
  <2>1. PICK u :
          /\ u[0] = Walk0(items)
          /\ \A i \in 1 .. Len(desc.layout.fields) :
               u[i] = IF end = "return" THEN PathField(u[i - 1], desc.layout.fields[i], env)
                      ELSE FaultField(u[i - 1], desc.layout.fields[i], env)
          /\ LayoutWalk(desc, env, items, end) = u[Len(desc.layout.fields)]
    <3> HIDE DEF fields, n, w, True1
    <3> QED
      BY LayoutSteps
  <2> DEFINE G == {i \in 0 .. n : Carried(u[i], names) /\ True1(u[i])}
  <2>2. 0 \in G
    BY <1>1, <2>1
  <2>3. ASSUME NEW i \in 1 .. n, i - 1 \in G PROVE i \in G
    <3>1. /\ Carried(u[i - 1], names) /\ True1(u[i - 1]) /\ i \in 0 .. n
          /\ fields[i].kind \in {"u64", "byte", "pubkey", "bytes"}
      BY <1>1, <2>3
    <3>2. u[i] = IF end = "return" THEN PathField(u[i - 1], fields[i], env)
                 ELSE FaultField(u[i - 1], fields[i], env)
      BY <2>1
    <3>3. CASE end = "return"
      <4>1. u[i] = PathField(u[i - 1], fields[i], env)
        BY <3>2, <3>3
      <4>2. Carried(u[i], names) /\ True1(u[i])
        BY <3>1, <3>3, <4>1, PathFieldKeeps
      <4> QED
        BY <3>1, <4>2
    <3>4. CASE end # "return"
      <4>1. u[i] = FaultField(u[i - 1], fields[i], env)
        BY <3>2, <3>4
      <4>2. Carried(u[i], names) /\ True1(u[i])
        BY <3>1, <3>4, <4>1, FaultFieldKeeps
      <4> QED
        BY <3>1, <4>2
    <3> QED
      BY <3>3, <3>4
  <2> HIDE DEF G
  <2>4. \A i \in 0 .. n : i \in G
    BY <1>1, <2>2, <2>3, Stepwise
  <2>5. n \in G
    BY <1>1, <2>4
  <2> QED
    BY <2>1, <2>5 DEF G
<1> HIDE DEF w, fields, n
<1> DEFINE m == Len(env.pre)
<1>3. m \in Nat /\ DOMAIN env.pre = 1 .. m
  BY DEF EnvFine, IsList
<1>4. PICK u : /\ u[0] = w
               /\ \A i \in 1 .. Len(env.pre) : u[i] = NameCell(u[i - 1], env.pre[i], env)
               /\ NameCells(w, env) = u[Len(env.pre)]
  <2>1. IsList(env.pre)
    BY DEF EnvFine
  <2> HIDE DEF m, True1
  <2> QED
    BY <2>1, NameSteps
<1> DEFINE G == {i \in 0 .. m : Carried(u[i], names) /\ u[i].post = w.post}
<1>5. 0 \in G
  BY <1>2, <1>3, <1>4
<1>6. ASSUME NEW i \in 1 .. m, i - 1 \in G PROVE i \in G
  <2>1. Carried(u[i - 1], names) /\ u[i - 1].post = w.post /\ i \in 0 .. m
    BY <1>3, <1>6
  <2>2. u[i] = NameCell(u[i - 1], env.pre[i], env) /\ Sourced(env.pre[i].value, names)
    BY <1>3, <1>4 DEF EnvFine
  <2>3. Carried(u[i], names) /\ u[i].post = w.post
    BY <2>1, <2>2, NameCellKeeps
  <2> QED
    BY <2>1, <2>3
<1> HIDE DEF G
<1>7. \A i \in 0 .. m : i \in G
  BY <1>3, <1>5, <1>6, Stepwise
<1>8. m \in G
  BY <1>3, <1>7
<1> DEFINE r == Walked(desc, env, items, end)
<1>9. Carried(r, names) /\ r.post = w.post
  BY <1>4, <1>8 DEF G, Walked, w
<1> HIDE DEF r
<1>10. True1(r)
  BY <1>2, <1>9 DEF Says
<1> QED
  BY <1>9, <1>10 DEF r

-----------------------------------------------------------------------------
(* The corollary of one path.                                                  *)

\* A list built element by element from another.
LEMMA MappedList ==
  ASSUME NEW s, IsList(s), NEW f, DOMAIN f = DOMAIN s, f = [i \in DOMAIN f |-> f[i]]
  PROVE  IsList(f) /\ Len(f) = Len(s) /\ DOMAIN f = 1 .. Len(s)
<1>1. Len(s) \in Nat /\ DOMAIN s = 1 .. Len(s)
  BY DEF IsList
<1>2. f \in [1 .. Len(s) -> Range(f)]
  BY <1>1 DEF Range
<1>3. f \in Seq(Range(f))
  BY <1>1, <1>2
<1> QED
  BY <1>1, <1>3 DEF IsList

\* Where an element of two lists end to end comes from.
LEMMA Ends ==
  ASSUME NEW T, NEW s \in Seq(T), NEW t \in Seq(T)
  PROVE  \A k \in DOMAIN (s \o t) :
           \/ k \in DOMAIN s /\ (s \o t)[k] = s[k]
           \/ k - Len(s) \in DOMAIN t /\ (s \o t)[k] = t[k - Len(s)]
  OBVIOUS

\* Lists of binders end to end.
FineList(s) == IsList(s) /\ \A k \in DOMAIN s : Fine(s[k])
LEMMA FineJoined ==
  ASSUME NEW s, NEW t, FineList(s), FineList(t)
  PROVE  /\ FineList(s \o t)
         /\ \A k \in DOMAIN s : k \in DOMAIN (s \o t) /\ (s \o t)[k] = s[k]
<1> DEFINE T == Range(s) \cup Range(t)
<1>1. s \in Seq(T) /\ t \in Seq(T)
  <2>1. s \in Seq(Range(s)) /\ t \in Seq(Range(t))
    BY DEF FineList, IsList
  <2>2. \A S \in {Range(s), Range(t)} : S \subseteq T
    OBVIOUS
  <2> QED
    BY <2>1, <2>2
<1> HIDE DEF T
<1>2. s \o t \in Seq(T)
  BY <1>1
<1>3. IsList(s \o t)
  BY <1>2, ListOf
<1>4. \A k \in DOMAIN (s \o t) :
        \/ k \in DOMAIN s /\ (s \o t)[k] = s[k]
        \/ k - Len(s) \in DOMAIN t /\ (s \o t)[k] = t[k - Len(s)]
  BY <1>1, Ends
<1>5. \A k \in DOMAIN s : k \in DOMAIN (s \o t) /\ (s \o t)[k] = s[k]
  BY <1>1
<1>6. \A k \in DOMAIN (s \o t) : Fine((s \o t)[k])
  BY <1>4 DEF FineList
<1> QED
  BY <1>3, <1>5, <1>6 DEF FineList

\* The guards of a cleaned cell.
LEMMA ShiftFine ==
  ASSUME NEW path, NEW e, e[1] = "wrapSub" => Known(path, e[2]), NEW k
  PROVE  FineList(ShiftItems(e, k))
<1>1. \A p : Fine(Guard(p))
  BY DEF Fine, Guard
<1>2. CASE e[1] = "wrapSub"
  <2> DEFINE g == Guard(<<Operand(e[3]), <<"<=">>, Operand(e[2])>>)
             p == <<Operand(e[2]), <<"<">>, <<"num", 64>>>>
             h == Hyp(<<"h_src_lt", k>>, p)
  <2>1. ShiftItems(e, k) = <<g, h>>
    BY <1>2 DEF ShiftItems
  <2>2. Operand(e[2])[1] # "m"
    <3>1. CASE e[2][1] = "init"
      BY <1>2, <3>1 DEF Known, IsInit, Operand
    <3>2. CASE e[2][1] # "init"
      BY <3>2 DEF Operand
    <3> QED
      BY <3>1, <3>2
  <2>3. Fine(h)
    <3> DEFINE o == Operand(e[2])
    <3>1. p = <<o, <<"<">>, <<"num", 64>>>>
      OBVIOUS
    <3> HIDE DEF o
    <3>2. DOMAIN p = 1 .. 3 /\ p[1] = o /\ p[2][1] = "<" /\ p[3][1] = "num"
      BY <3>1
    <3>3. \A x \in DOMAIN p : p[x][1] # "m"
      <4> HIDE DEF p
      <4> QED
        BY <2>2, <3>2 DEF o
    <3> HIDE DEF p
    <3> QED
      BY <3>3 DEF Fine, Hyp
  <2>4. Fine(g)
    BY <1>1
  <2> HIDE DEF g, h
  <2>5. <<g, h>> \in Seq({g, h}) /\ DOMAIN <<g, h>> = 1 .. 2 /\ <<g, h>>[1] = g /\ <<g, h>>[2] = h
    OBVIOUS
  <2>6. IsList(<<g, h>>)
    BY <2>5, ListOf
  <2> QED
    BY <2>1, <2>3, <2>4, <2>5, <2>6 DEF FineList
<1>3. CASE e[1] # "wrapSub"
  <2> DEFINE g == Guard(<<Operand(e[2]), <<"+">>, Operand(Cleaned(e, TRUE)[3]), <<"<">>, <<"num", 64>>>>)
  <2>1. ShiftItems(e, k) = <<g>>
    BY <1>3 DEF ShiftItems
  <2>2. Fine(g)
    BY <1>1
  <2> HIDE DEF g
  <2>3. <<g>> \in Seq({g}) /\ DOMAIN <<g>> = 1 .. 1 /\ <<g>>[1] = g
    OBVIOUS
  <2>4. IsList(<<g>>)
    BY <2>3, ListOf
  <2> QED
    BY <2>1, <2>2, <2>3, <2>4 DEF FineList
<1> QED
  BY <1>2, <1>3

\* The binders of a lifted path: every variable is one, and no hypothesis mentions
\* a name the bundle gives.
LEMMA BindersFine ==
  ASSUME NEW path, Liftable(path), NEW shifted
  PROVE  /\ FineList(Binders(path, shifted))
         /\ \A t \in Range(path.vars) :
              \E k \in DOMAIN Binders(path, shifted) :
                Binders(path, shifted)[k].kind = "val" /\ Binders(path, shifted)[k].name = t
<1> DEFINE ab == path.abstractions
           s1 == [i \in DOMAIN path.vars |-> Val(path.vars[i])]
           s2 == [i \in DOMAIN ab |-> Val(ab[i].param)]
           s3 == [i \in DOMAIN ab |-> Hyp(ab[i].hyp, <<ab[i].param, <<"=">>>> \o ab[i].rhs)]
           s4 == [i \in DOMAIN path.bounds |->
                    Hyp(<<"h_lt", path.bounds[i].name>>,
                        <<path.bounds[i].name, <<"<">>, <<"num", path.bounds[i].bits>>>>)]
           s5 == [i \in DOMAIN path.branches |-> Guard(path.branches[i])]
           s6 == [i \in DOMAIN path.sides |-> Hyp(path.sides[i].name, path.sides[i].prop)]
           shift == [i \in DOMAIN path.post |->
                       IF i \in shifted
                       THEN ShiftItems(path.post[i].value, Cardinality({j \in shifted : j < i})) ELSE <<>>]
           s7 == FlattenSeq(shift)
<1>1. Binders(path, shifted) = s1 \o s2 \o s3 \o s4 \o s5 \o s6 \o s7
  BY Zenon DEF Binders
<1>2. \A n, p : Fine(Val(n)) /\ Fine(Guard(p))
  BY DEF Fine, Val, Guard
<1>3. FineList(s1) /\ FineList(s2) /\ FineList(s5)
  <2>1. IsList(path.vars) /\ IsList(path.abstractions) /\ IsList(path.branches)
    BY DEF Liftable
  <2>2. IsList(s1) /\ IsList(s2) /\ IsList(s5)
    BY <2>1, MappedList
  <2> QED
    BY <1>2, <2>2 DEF FineList
<1>4. FineList(s3)
  <2>1. IsList(s3)
    BY MappedList DEF Liftable
  <2>2. ASSUME NEW i \in DOMAIN s3 PROVE Fine(s3[i])
    <3> DEFINE q == ab[i].param
               rhs == ab[i].rhs
               p == <<q, <<"=">>>> \o rhs
    <3>1. q[1] # "m" /\ IsList(rhs) /\ \A x \in DOMAIN rhs : rhs[x][1] # "m"
      BY DEF Liftable, NoMemoryName
    <3>2. s3[i] = Hyp(ab[i].hyp, p)
      OBVIOUS
    <3> HIDE DEF q, rhs
    <3> DEFINE T == Range(rhs) \cup {q, <<"=">>}
               two == <<q, <<"=">>>>
    <3>3. rhs \in Seq(T) /\ two \in Seq(T) /\ Len(two) = 2 /\ two[1] = q /\ two[2] = <<"=">>
      <4>1. rhs \in Seq(Range(rhs))
        BY <3>1 DEF IsList
      <4> QED
        BY <4>1
    <3>4. <<"=">>[1] = "="
      OBVIOUS
    <3> HIDE DEF T, two
    <3>5. \A x \in DOMAIN (two \o rhs) : (two \o rhs)[x] \in {q, <<"=">>} \/ \E y \in DOMAIN rhs : (two \o rhs)[x] = rhs[y]
      <4>1. DOMAIN two = 1 .. 2
        BY <3>3
      <4>2. \A x \in DOMAIN (two \o rhs) :
              \/ x \in DOMAIN two /\ (two \o rhs)[x] = two[x]
              \/ x - Len(two) \in DOMAIN rhs /\ (two \o rhs)[x] = rhs[x - Len(two)]
        BY <3>3, Ends
      <4>3. \A x \in DOMAIN two : two[x] \in {q, <<"=">>}
        <5>1. \A x \in 1 .. 2 : x = 1 \/ x = 2
          OBVIOUS
        <5> QED
          BY <3>3, <4>1, <5>1, Zenon
      <4> QED
        BY <4>2, <4>3, Zenon
    <3>6. p = two \o rhs
      BY DEF two
    <3> HIDE DEF p
    <3>7. \A x \in DOMAIN p : p[x][1] # "m"
      BY <3>1, <3>4, <3>5, <3>6
    <3> QED
      BY <3>2, <3>7 DEF Fine, Hyp
  <2> QED
    BY <2>1, <2>2 DEF FineList
<1>5. FineList(s4)
  <2>1. IsList(s4)
    BY MappedList DEF Liftable
  <2>2. ASSUME NEW i \in DOMAIN s4 PROVE Fine(s4[i])
    <3> DEFINE q == path.bounds[i].name
               b == path.bounds[i].bits
               p == <<q, <<"<">>, <<"num", b>>>>
    <3>1. q[1] # "m"
      BY DEF Liftable
    <3>2. s4[i] = Hyp(<<"h_lt", q>>, p)
      OBVIOUS
    <3> HIDE DEF q, b
    <3>3. DOMAIN p = 1 .. 3 /\ p[1] = q /\ p[2][1] = "<" /\ p[3][1] = "num"
      OBVIOUS
    <3> HIDE DEF p
    <3>4. \A x \in DOMAIN p : p[x][1] # "m"
      BY <3>1, <3>3
    <3> QED
      BY <3>2, <3>4 DEF Fine, Hyp
  <2> QED
    BY <2>1, <2>2 DEF FineList
<1>6. FineList(s6)
  <2>1. IsList(s6)
    BY MappedList DEF Liftable
  <2>2. ASSUME NEW i \in DOMAIN s6 PROVE Fine(s6[i])
    BY DEF Fine, Hyp, Liftable, NoMemoryName
  <2> QED
    BY <2>1, <2>2 DEF FineList
<1>7. FineList(s7)
  <2> DEFINE V == UNION {Range(shift[i]) : i \in DOMAIN shift}
  <2>1. ASSUME NEW i \in DOMAIN shift PROVE FineList(shift[i])
    <3>1. CASE i \in shifted
      <4>1. i \in DOMAIN path.pre
        BY DEF Liftable
      <4>2. path.post[i].value[1] = "wrapSub" => Known(path, path.post[i].value[2])
        BY <4>1 DEF Liftable
      <4>3. shift[i] = ShiftItems(path.post[i].value, Cardinality({j \in shifted : j < i}))
        BY <3>1
      <4> QED
        BY <4>2, <4>3, ShiftFine
    <3>2. CASE i \notin shifted
      <4>1. shift[i] = <<>>
        BY <3>2
      <4>2. <<>> \in Seq({}) /\ DOMAIN <<>> = {}
        OBVIOUS
      <4>3. FineList(<<>>)
        BY <4>2, ListOf DEF FineList
      <4> HIDE DEF shift
      <4> QED
        BY <4>1, <4>3
    <3> QED
      BY <3>1, <3>2
  <2>2. IsList(shift)
    BY MappedList DEF Liftable
  <2> HIDE DEF shift
  <2>3. ASSUME NEW i \in DOMAIN shift PROVE shift[i] \in Seq(V)
    <3>1. shift[i] \in Seq(Range(shift[i])) /\ Range(shift[i]) \subseteq V
      BY <2>1 DEF FineList, IsList
    <3> HIDE DEF V
    <3> QED
      BY <3>1
  <2>4. \A v \in V : Fine(v)
    BY <2>1 DEF FineList, Range
  <2> HIDE DEF V
  <2>5. s7 \in Seq(V)
    BY <2>2, <2>3, FlattenList
  <2> HIDE DEF s7
  <2>6. IsList(s7)
    BY <2>5, ListOf
  <2>7. \A k \in DOMAIN s7 : s7[k] \in V
    BY <2>5
  <2> QED
    BY <2>4, <2>6, <2>7 DEF FineList
<1>8. ASSUME NEW t \in Range(path.vars) PROVE \E k \in DOMAIN s1 : s1[k].kind = "val" /\ s1[k].name = t
  <2>1. PICK k \in DOMAIN path.vars : path.vars[k] = t
    BY DEF Range
  <2>2. k \in DOMAIN s1 /\ s1[k].kind = "val" /\ s1[k].name = t
    BY <2>1 DEF Val
  <2> QED
    BY <2>2
<1> HIDE DEF s1, s2, s3, s4, s5, s6, s7
<1> DEFINE Kept(s) == FineList(s) /\ \A k \in DOMAIN s1 : k \in DOMAIN s /\ s[k] = s1[k]
<1>9. \A s, t : Kept(s) /\ FineList(t) => Kept(s \o t)
  BY FineJoined
<1>10. Kept(s1)
  BY <1>3
<1> HIDE DEF Kept
<1>11. Kept(s1 \o s2 \o s3)
  BY <1>3, <1>4, <1>9, <1>10
<1>12. Kept(s1 \o s2 \o s3 \o s4 \o s5 \o s6 \o s7)
  BY <1>3, <1>5, <1>6, <1>7, <1>9, <1>11
<1> QED
  BY <1>1, <1>8, <1>12 DEF Kept

\* The cells after the path, cleaned: the same places.
LEMMA CleanIs ==
  ASSUME NEW path, Liftable(path)
  PROVE  LET left == CleanBalanceShifts(path.post, TRUE).post
         IN  /\ IsList(left) /\ DOMAIN left = DOMAIN path.post
             /\ \A i \in DOMAIN path.post :
                  /\ left[i].base = path.post[i].base /\ left[i].off = path.post[i].off
                  /\ left[i].width = path.post[i].width /\ left[i].value = Cleaned(path.post[i].value, TRUE)
<1> DEFINE left == CleanBalanceShifts(path.post, TRUE).post
           Cell(i) == [base |-> path.post[i].base, off |-> path.post[i].off, width |-> path.post[i].width,
                       value |-> Cleaned(path.post[i].value, TRUE)]
           f == [i \in DOMAIN path.post |-> Cell(i)]
<1>1. left = f
  BY DEF CleanBalanceShifts
<1>2. \A i : /\ Cell(i).base = path.post[i].base /\ Cell(i).off = path.post[i].off
             /\ Cell(i).width = path.post[i].width /\ Cell(i).value = Cleaned(path.post[i].value, TRUE)
  OBVIOUS
<1> HIDE DEF Cell
<1>3. DOMAIN f = DOMAIN path.post /\ f = [i \in DOMAIN f |-> f[i]] /\ IsList(path.post)
      /\ \A i \in DOMAIN path.post : f[i] = Cell(i)
  BY DEF Liftable
<1> HIDE DEF f, left
<1>4. IsList(f)
  BY <1>3, MappedList
<1> QED
  BY <1>1, <1>2, <1>3, <1>4, Zenon DEF left

\* The first summand of a plain sum is an entry value with a binder, or none.
LEMMA SumSourced ==
  ASSUME NEW path, Liftable(path), NEW i \in DOMAIN path.post,
         Cleaned(path.post[i].value, TRUE)[1] = "natAdd"
  PROVE  Sourced(Cleaned(path.post[i].value, TRUE)[2], Range(path.vars))
<1> DEFINE e == path.post[i].value
           w == Cleaned(e, TRUE)
<1>1. e[1] \in {"wrapAdd", "wrapSub", "natAdd"} => Known(path, e[2])
  BY DEF Liftable
<1>2. Known(path, e[2]) => Sourced(e[2], Range(path.vars))
  BY DEF Known, Sourced, IsInit
<1>3. w[2] = e[2] /\ e[1] \in {"wrapAdd", "natAdd"}
  <2> HIDE DEF e
  <2>1. CASE e[1] = "wrapSub" /\ IsInit(e[2]) /\ IsInit(e[3])
    <3>1. w = <<"cleanSub", e[2], e[3]>>
      BY <2>1 DEF Cleaned
    <3>2. w[1] = "natAdd"
      BY DEF e
    <3> HIDE DEF w
    <3> QED
      BY <3>1, <3>2
  <2>2. CASE e[1] = "wrapAdd" /\ IsInit(e[2]) /\ IsInit(e[3])
    BY <2>2 DEF Cleaned
  <2>3. CASE e[1] = "wrapAdd" /\ IsInit(e[2]) /\ IsDelta(e[3])
    BY <2>3 DEF Cleaned
  <2>4. CASE /\ ~(e[1] = "wrapSub" /\ IsInit(e[2]) /\ IsInit(e[3]))
             /\ ~(e[1] = "wrapAdd" /\ IsInit(e[2]) /\ IsInit(e[3]))
             /\ ~(e[1] = "wrapAdd" /\ IsInit(e[2]) /\ IsDelta(e[3]))
    <3>1. w = e
      BY <2>4 DEF Cleaned
    <3> QED
      BY <3>1 DEF e
  <2> QED
    BY <2>1, <2>2, <2>3, <2>4
<1> HIDE DEF e, w
<1> QED
  BY <1>1, <1>2, <1>3 DEF e, w

\* The mutation is one of the cells after the path.
LEMMA MutationIs ==
  ASSUME NEW desc, NEW pre, NEW post, IsList(post), Mutation(desc, pre, post) # <<>>
  PROVE  \E i \in DOMAIN post :
           IsMutation(desc, pre, post[i]) /\ Mutation(desc, pre, post) = <<MutationOf(desc, pre, post[i])>>
<1> DEFINE I == {i \in 1 .. Len(post) : IsMutation(desc, pre, post[i])}
           at == IF I # {} THEN Min(I) ELSE 0
           found == IF at = 0 THEN <<>> ELSE <<post[at]>>
           mu == Mutation(desc, pre, post)
<1>1. DOMAIN post = 1 .. Len(post)
  BY DEF IsList
<1>2. I # {} => Min(I) \in I /\ Min(I) # 0
  <2>1. I \subseteq Nat \ {0}
    BY <1>1
  <2> QED
    BY <2>1, MinOf
<1>3. mu = IF found = <<>> THEN <<>> ELSE <<MutationOf(desc, pre, found[1])>>
  BY Zenon DEF Mutation, First, SelectInSeq
<1> HIDE DEF mu
<1>4. mu # <<>>
  BY DEF mu
<1>5. I # {}
  BY <1>3, <1>4
<1> DEFINE k == Min(I)
<1>6. k \in I /\ at = k /\ k # 0
  BY <1>2, <1>5
<1> HIDE DEF k, at
<1>7. k \in DOMAIN post /\ IsMutation(desc, pre, post[k])
  BY <1>1, <1>6
<1> HIDE DEF I
<1>8. found = <<post[k]>>
  BY <1>6
<1> HIDE DEF found
<1>9. found # <<>> /\ found[1] = post[k]
  BY <1>8
<1>10. mu = <<MutationOf(desc, pre, post[k])>>
  BY <1>3, <1>9
<1> QED
  BY <1>7, <1>10, Zenon DEF mu

\* The cells after the path.
Left(path) == CleanBalanceShifts(path.post, TRUE).post

\* What an environment is made of.
LEMMA EnvParts ==
  ASSUME NEW binding, NEW mu, NEW off, NEW pre, NEW post, NEW env, env = Env(binding, mu, off, pre, post)
  PROVE  /\ env.pre = pre /\ env.post = post /\ env.mutation = mu /\ env.mutatedOff = off
         /\ binding.bound => env.base = binding.base /\ env.baseOff = binding.accountOff
         /\ ~binding.bound /\ mu # <<>> => env.base = mu[1].base /\ env.baseOff = mu[1].off - off
  BY DEF Env

\* The entry values of a lifted path are its binders'.
LEMMA EntrySourced ==
  ASSUME NEW path, Liftable(path), NEW i \in DOMAIN path.pre
  PROVE  Sourced(path.pre[i].value, Range(path.vars))
<1>1. Known(path, path.pre[i].value)
  BY DEF Liftable
<1> QED
  BY <1>1 DEF Known, Sourced, IsInit

\* The environment of a path that returns: the mutated field is where the mutation
\* was found, and holds what the corollary says.
LEMMA EnvReturns ==
  ASSUME NEW path, Liftable(path), NEW desc, desc.op \in {"addConst", "addParam"}, NEW binding,
         NEW off \in Int, NEW left, left = Left(path),
         NEW mu, mu = Mutation(desc, path.pre, left),
         BindingHolds(desc, binding, mu, off, path.pre).ok
  PROVE  LET env == Env(binding, mu, off, path.pre, left)
         IN  EnvFine(env, Range(path.vars)) /\ EnvSame(env)
<1> DEFINE env == Env(binding, mu, off, path.pre, left)
           names == Range(path.vars)
<1>1. /\ env.pre = path.pre /\ env.post = left /\ env.mutation = mu /\ env.mutatedOff = off
      /\ binding.bound => env.base = binding.base /\ env.baseOff = binding.accountOff
      /\ ~binding.bound /\ mu # <<>> => env.base = mu[1].base /\ env.baseOff = mu[1].off - off
  BY EnvParts
<1> HIDE DEF env
<1>2. /\ IsList(left) /\ DOMAIN left = DOMAIN path.post
      /\ \A i \in DOMAIN path.post :
           /\ left[i].base = path.post[i].base /\ left[i].off = path.post[i].off
           /\ left[i].width = path.post[i].width /\ left[i].value = Cleaned(path.post[i].value, TRUE)
  BY CleanIs, Zenon DEF Left
<1>3. /\ IsList(path.pre) /\ DOMAIN path.post = DOMAIN path.pre
      /\ \A i \in DOMAIN path.pre :
           /\ path.pre[i].off \in Int /\ path.post[i].base = path.pre[i].base
           /\ path.post[i].off = path.pre[i].off /\ path.post[i].width = path.pre[i].width
      /\ \A i, k \in DOMAIN path.pre :
           path.pre[i].width = 8 /\ path.pre[k].width = 8 /\ path.pre[i].base = path.pre[k].base
             /\ path.pre[i].off = path.pre[k].off => i = k
  BY DEF Liftable
<1>4. \A i \in DOMAIN path.pre : Sourced(path.pre[i].value, names)
  BY EntrySourced
<1>5. ASSUME mu # <<>>
      PROVE  /\ Sourced(mu[1].before, names)
             /\ \A n : TrueOf(Claim(n, Place(env, off, FALSE), mu[1].value), left)
  <2>1. PICK i \in DOMAIN left : IsMutation(desc, path.pre, left[i])
                                 /\ mu = <<MutationOf(desc, path.pre, left[i])>>
    <3>1. Mutation(desc, path.pre, left) # <<>> /\ IsList(left)
      BY <1>2, <1>5
    <3>2. \E i \in DOMAIN left :
            IsMutation(desc, path.pre, left[i])
              /\ Mutation(desc, path.pre, left) = <<MutationOf(desc, path.pre, left[i])>>
      BY <3>1, MutationIs
    <3> QED
      BY <3>2
  <2> DEFINE c == left[i]
             m == mu[1]
             held == PreWord(path.pre, c)
  <2>2. /\ m.base = c.base /\ m.off = c.off /\ m.value = c.value
        /\ m.before = IF desc.op = "addConst" THEN c.value[2] ELSE held[1].value
    <3>1. m = MutationOf(desc, path.pre, c)
      BY <2>1
    <3> HIDE DEF m, c
    <3> QED
      BY <3>1, Zenon DEF MutationOf
  <2>3. c.width = 8 /\ c.value[1] = "natAdd" /\ (desc.op = "addParam" => held # <<>>)
    BY <2>1 DEF IsMutation
  <2>4. c.value = Cleaned(path.post[i].value, TRUE) /\ i \in DOMAIN path.post /\ i \in DOMAIN path.pre
    BY <1>2, <1>3
  <2> HIDE DEF m
  <2>5. Sourced(m.before, names)
    <3>1. CASE desc.op = "addConst"
      <4>1. Sourced(c.value[2], names)
        BY <2>3, <2>4, SumSourced
      <4> QED
        BY <2>2, <3>1, <4>1
    <3>2. CASE desc.op = "addParam"
      <4>1. held = Held(path.pre, c.base, c.off, Dword) /\ held # <<>>
        BY <2>3, <3>2 DEF PreWord
      <4> HIDE DEF held, c
      <4>2. PICK k \in DOMAIN path.pre : Held(path.pre, c.base, c.off, Dword) = <<path.pre[k]>>
        BY <1>3, <4>1, HeldIs
      <4>3. held[1] = path.pre[k]
        BY <4>1, <4>2
      <4>4. m.before = path.pre[k].value
        BY <2>2, <3>2, <4>3
      <4> QED
        BY <1>4, <4>4
    <3> QED
      BY <3>1, <3>2
  <2>6. c.off \in Int
    BY <1>2, <1>3, <2>4
  <2>7. env.base = m.base /\ env.baseOff + off = m.off
    <3>1. CASE binding.bound
      <4>1. m.base = binding.base /\ m.off = binding.accountOff + off
        BY <1>5, <3>1 DEF BindingHolds, Rejected, m
      <4> QED
        BY <1>1, <3>1, <4>1
    <3>2. CASE ~binding.bound
      <4>1. env.base = m.base /\ env.baseOff = m.off - off
        BY <1>1, <1>5, <3>2 DEF m
      <4>2. m.off \in Int
        BY <2>2, <2>6
      <4> QED
        BY <4>1, <4>2
    <3> QED
      BY <3>1, <3>2
  <2>8. ASSUME NEW n PROVE TrueOf(Claim(n, Place(env, off, FALSE), m.value), left)
    <3> DEFINE q == Claim(n, Place(env, off, FALSE), m.value)
               cells == Held(left, q.base, q.off, Dword)
    <3>1. q.base = m.base /\ q.off = m.off /\ q.value = m.value
      BY <2>7 DEF Claim, Place
    <3> HIDE DEF q, cells
    <3>2. cells # <<>> => cells[1].value = q.value
      <4> SUFFICES ASSUME cells # <<>> PROVE cells[1].value = q.value
        OBVIOUS
      <4>1. PICK k \in DOMAIN left : /\ left[k].base = q.base /\ left[k].off = q.off /\ left[k].width \in Dword
                                     /\ cells = <<left[k]>>
        <5>1. Held(left, q.base, q.off, Dword) # <<>> /\ IsList(left)
          BY <1>2 DEF cells
        <5>2. \E k \in DOMAIN left : /\ left[k].base = q.base /\ left[k].off = q.off /\ left[k].width \in Dword
                                     /\ Held(left, q.base, q.off, Dword) = <<left[k]>>
          BY <5>1, HeldIs
        <5> QED
          BY <5>2 DEF cells
      <4>2. k = i
        <5>1. left[k].base = c.base /\ left[k].off = c.off /\ left[k].width = 8
          BY <2>2, <3>1, <4>1 DEF Dword
        <5>2. k \in DOMAIN path.pre /\ i \in DOMAIN path.pre
          BY <1>2, <1>3, <2>4
        <5>3. \A x \in DOMAIN path.pre : /\ left[x].base = path.pre[x].base /\ left[x].off = path.pre[x].off
                                         /\ left[x].width = path.pre[x].width
          BY <1>2, <1>3
        <5>4. left[i].base = left[k].base /\ left[i].off = left[k].off /\ left[i].width = 8
          BY <2>3, <5>1
        <5> QED
          BY <1>3, <5>1, <5>2, <5>3, <5>4
      <4>3. cells[1] = c
        BY <4>1, <4>2
      <4> HIDE DEF c
      <4> QED
        BY <2>2, <3>1, <4>3
    <3> QED
      BY <3>2 DEF TrueOf, q, cells
  <2> QED
    BY <2>5, <2>8 DEF m
<1>6. EnvFine(env, names)
  BY <1>1, <1>2, <1>3, <1>4, <1>5 DEF EnvFine
<1>7. EnvSame(env)
  <2>1. /\ DOMAIN left = DOMAIN path.pre
        /\ \A i \in DOMAIN path.pre : /\ left[i].base = path.pre[i].base /\ left[i].off = path.pre[i].off
                                      /\ left[i].width = path.pre[i].width
    BY <1>2, <1>3
  <2> QED
    BY <1>1, <1>5, <2>1, Zenon DEF EnvSame
<1> QED
  BY <1>6, <1>7, Zenon DEF env

\* The environment of a path that faults.
LEMMA EnvFaults ==
  ASSUME NEW path, Liftable(path), NEW binding, NEW left, left = Left(path)
  PROVE  EnvFine(Env(binding, <<>>, 0, path.pre, left), Range(path.vars))
<1> DEFINE env == Env(binding, <<>>, 0, path.pre, left)
<1>1. env.pre = path.pre /\ env.post = left /\ env.mutation = <<>>
  BY EnvParts
<1>2. IsList(left) /\ IsList(path.pre)
  <2>1. IsList(left)
    BY CleanIs, Zenon DEF Left
  <2> QED
    BY <2>1 DEF Liftable
<1> HIDE DEF env
<1>3. EnvFine(env, Range(path.vars))
  BY <1>1, <1>2, EntrySourced DEF EnvFine
<1> QED
  BY <1>3 DEF env

\* The walk starts with the path's binders and nothing said.
LEMMA WalkStart ==
  ASSUME NEW path, Liftable(path), NEW shifted
  PROVE  /\ Carried(Walk0(Binders(path, shifted)), Range(path.vars))
         /\ \A left : Says(Walk0(Binders(path, shifted)), left)
<1> DEFINE items == Binders(path, shifted)
           w == Walk0(items)
<1>1. /\ FineList(items)
      /\ \A t \in Range(path.vars) : \E k \in DOMAIN items : items[k].kind = "val" /\ items[k].name = t
  BY BindersFine
<1> HIDE DEF items
<1>2. w = [ok |-> TRUE, rejected |-> FALSE, reason |-> "none", items |-> items,
           pre |-> <<>>, post |-> <<>>, frame |-> <<>>, owned |-> {}, renames |-> <<>>]
  BY DEF Walk0
<1> HIDE DEF w
<1>3. /\ w.ok = TRUE /\ w.rejected = FALSE /\ w.reason = "none" /\ w.items = items
      /\ w.pre = <<>> /\ w.post = <<>> /\ w.frame = <<>> /\ w.owned = {} /\ w.renames = <<>>
  BY <1>2
<1>4. <<>> \in Seq({}) /\ DOMAIN <<>> = {}
  OBVIOUS
<1>5. IsList(<<>>)
  BY <1>4, ListOf
<1>6. w = [ok |-> w.ok, rejected |-> w.rejected, reason |-> w.reason, items |-> w.items,
           pre |-> w.pre, post |-> w.post, frame |-> w.frame, owned |-> w.owned, renames |-> w.renames]
  BY <1>2, <1>3
<1>7. DOMAIN w.post = {} /\ DOMAIN w.renames = {} /\ IsList(w.items) /\ IsList(w.renames) /\ IsList(w.post)
  BY <1>1, <1>3, <1>4, <1>5 DEF FineList
<1>8. Carried(w, Range(path.vars))
  BY <1>1, <1>3, <1>6, <1>7, Zenon DEF Carried, FineList
<1>9. \A left : Says(w, left)
  BY <1>7 DEF Says
<1> QED
  BY <1>8, <1>9 DEF w, items

\* What a corollary is made of.
LEMMA InfoParts ==
  ASSUME NEW acc, NEW kind, NEW param
  PROVE  Info(acc, kind, param).post = acc.post /\ Info(acc, kind, param).kind = kind
  BY Zenon DEF Info

\* The corollary of a finished walk.
LEMMA InfoClosed ==
  ASSUME NEW names, NEW acc, Carried(acc, names), NEW kind, NEW param,
         param # <<>> => param[1].from[1] = "m"
  PROVE  Closed(Info(acc, kind, param))
<1> DEFINE c == Info(acc, kind, param)
<1>1. c.items = acc.items /\ c.renames = acc.renames /\ c.param = param
  BY Zenon DEF Info
<1> HIDE DEF c
<1>2. ASSUME NEW r \in DOMAIN acc.renames, NEW t, acc.renames[r][1] = <<"init", t>>
      PROVE  \E k \in DOMAIN acc.items : acc.items[k].kind = "val" /\ acc.items[k].name = t
  <2>1. t \in names
    BY <1>2 DEF Carried, Sourced
  <2> QED
    BY <2>1 DEF Carried
<1>3. Closed(c)
  BY <1>1, <1>2 DEF Closed, Carried, Fine
<1> QED
  BY <1>3 DEF c

\* The argument's cell has a name of the form of memory_binder_name.
LEMMA ParamNamed ==
  ASSUME NEW desc, NEW binding, NEW env, ParamCell(desc, binding, env) # <<>>
  PROVE  ParamCell(desc, binding, env)[1].from[1] = "m"
  BY DEF ParamCell

\* What describes an account: the operation and the kinds of the fields.
Described(desc) ==
  /\ desc.op \in {"addConst", "addParam"} /\ IsList(desc.layout.fields)
  /\ \A i \in DOMAIN desc.layout.fields :
       /\ desc.layout.fields[i].off \in Int
       /\ desc.layout.fields[i].kind \in {"u64", "byte", "pubkey", "bytes"}

\* A path that returns.
LEMMA ReturnClosed ==
  ASSUME NEW path, Liftable(path), NEW desc, Described(desc), NEW binding, NEW mu, NEW env,
         EnvFine(env, Range(path.vars)), EnvSame(env), NEW shifted,
         NEW c, c = PathWith(desc, path, binding, mu, env, Binders(path, shifted))
  PROVE  Closed(c) /\ \A j \in DOMAIN c.post : TrueOf(c.post[j], env.post)
<1> DEFINE items == Binders(path, shifted)
           acc == Walked(desc, env, items, "return")
           bad == acc.ok /\ ~SetupPost(acc, path, env.post)
           done == IF bad THEN FailWalk(acc, Unwired) ELSE acc
           kind == [end |-> "return", code |-> path.r0, written |-> mu # <<>>]
           param == ParamCell(desc, binding, env)
           names == Range(path.vars)
<1>1. c = Info(done, kind, param)
  BY Zenon DEF PathWith, PathDone
<1>2. Carried(acc, names) /\ Says(acc, env.post)
  <2>1. Carried(Walk0(items), names) /\ Says(Walk0(items), env.post)
    BY WalkStart
  <2> HIDE DEF items
  <2> QED
    BY <2>1, WalkedKeeps DEF Described
<1>3. param # <<>> => param[1].from[1] = "m"
  BY ParamNamed
<1> HIDE DEF acc, bad, kind, param, items
<1>4. Carried(done, names) /\ done.post = acc.post
  <2>1. CASE bad
    <3>1. done = FailWalk(acc, Unwired)
      BY <2>1
    <3> QED
      BY <1>2, <3>1, FailKeeps
  <2>2. CASE ~bad
    <3>1. done = acc
      BY <2>2
    <3> QED
      BY <1>2, <3>1
  <2> QED
    BY <2>1, <2>2
<1> HIDE DEF done
<1>5. Closed(c)
  BY <1>1, <1>3, <1>4, InfoClosed
<1>6. c.post = done.post
  BY <1>1, InfoParts
<1> QED
  BY <1>2, <1>4, <1>5, <1>6 DEF Says

\* The binders a fault adds.
LEMMA FaultFine ==
  ASSUME NEW path
  PROVE  FineList(FaultItems(path))
<1> DEFINE p == <<<<"step">>, <<"ctor", path.ctor>>, <<"nCuAbort">>>>
           a == Val(<<"nCuAbort">>)
           b == Hyp(<<"hCuAbort">>, p)
<1>1. FaultItems(path) = <<a, b>>
  BY Zenon DEF FaultItems
<1>2. Fine(a)
  BY DEF Fine, Val
<1>3. DOMAIN p = 1 .. 3 /\ p[1][1] = "step" /\ p[2][1] = "ctor" /\ p[3][1] = "nCuAbort"
  OBVIOUS
<1> HIDE DEF p
<1>4. \A x \in DOMAIN p : p[x][1] # "m"
  BY <1>3
<1>5. Fine(b)
  BY <1>4 DEF Fine, Hyp
<1> HIDE DEF a, b
<1>6. <<a, b>> \in Seq({a, b}) /\ DOMAIN <<a, b>> = 1 .. 2 /\ <<a, b>>[1] = a /\ <<a, b>>[2] = b
  OBVIOUS
<1>7. IsList(<<a, b>>)
  BY <1>6, ListOf
<1> QED
  BY <1>1, <1>2, <1>5, <1>6, <1>7 DEF FineList

\* A path that faults.
LEMMA FaultClosed ==
  ASSUME NEW path, Liftable(path), NEW desc, Described(desc), NEW binding, NEW env,
         EnvFine(env, Range(path.vars)), NEW shifted,
         NEW c, c = FaultWith(desc, path, binding, env, Binders(path, shifted))
  PROVE  Closed(c) /\ c.kind.end = "fault"
<1> DEFINE items == Binders(path, shifted)
           acc == Walked(desc, env, items, "fault")
           bad == acc.ok /\ path.terminal = "oob" /\ ~path.region
           more == acc.items \o FaultItems(path)
           told == [acc EXCEPT !.items = more]
           done == IF bad THEN FailWalk(acc, Unwired) ELSE told
           kind == [end |-> "fault", code |-> path.terminal, written |-> FALSE]
           param == ParamCell(desc, binding, env)
           names == Range(path.vars)
<1>1. c = Info(done, kind, param)
  BY Zenon DEF FaultWith, FaultDone
<1>2. Carried(acc, names)
  <2>1. Carried(Walk0(items), names) /\ Says(Walk0(items), env.post)
    BY WalkStart
  <2> HIDE DEF items
  <2> QED
    BY <2>1, WalkedKeeps DEF Described
<1>3. param # <<>> => param[1].from[1] = "m"
  BY ParamNamed
<1>4. c.kind.end = "fault"
  <2>1. kind.end = "fault"
    OBVIOUS
  <2> HIDE DEF kind, done, param
  <2> QED
    BY <1>1, <2>1, InfoParts
<1> HIDE DEF acc, bad, kind, param, items
<1>5. Carried(told, names)
  <2>1. FineList(acc.items) /\ FineList(FaultItems(path))
    BY <1>2, FaultFine DEF Carried, FineList
  <2>2. FineList(more) /\ \A k \in DOMAIN acc.items : k \in DOMAIN more /\ more[k] = acc.items[k]
    BY <2>1, FineJoined
  <2> HIDE DEF more
  <2>3. told = [ok |-> acc.ok, rejected |-> acc.rejected, reason |-> acc.reason, items |-> more,
                pre |-> acc.pre, post |-> acc.post, frame |-> acc.frame, owned |-> acc.owned,
                renames |-> acc.renames]
    BY <1>2 DEF Carried
  <2> HIDE DEF told
  <2>4. /\ told.ok = acc.ok /\ told.rejected = acc.rejected /\ told.reason = acc.reason /\ told.items = more
        /\ told.pre = acc.pre /\ told.post = acc.post /\ told.frame = acc.frame /\ told.owned = acc.owned
        /\ told.renames = acc.renames
    BY <2>3
  <2>5. ASSUME NEW t \in names PROVE \E k \in DOMAIN more : more[k].kind = "val" /\ more[k].name = t
    <3>1. PICK k \in DOMAIN acc.items : acc.items[k].kind = "val" /\ acc.items[k].name = t
      BY <1>2 DEF Carried
    <3> QED
      BY <2>2, <3>1
  <2> QED
    BY <1>2, <2>2, <2>3, <2>4, <2>5 DEF Carried, FineList
<1> HIDE DEF told
<1>6. Carried(done, names)
  <2>1. CASE bad
    <3>1. done = FailWalk(acc, Unwired)
      BY <2>1
    <3> QED
      BY <1>2, <3>1, FailKeeps
  <2>2. CASE ~bad
    <3>1. done = told
      BY <2>2
    <3> QED
      BY <1>5, <3>1
  <2> QED
    BY <2>1, <2>2
<1> HIDE DEF done
<1>7. Closed(c)
  BY <1>1, <1>3, <1>6, InfoClosed
<1> QED
  BY <1>4, <1>7

\* The offset of the mutated field.
LEMMA MutatedAt ==
  ASSUME NEW desc, Described(desc), MutatedOff(desc) # {}
  PROVE  (CHOOSE o \in MutatedOff(desc) : TRUE) \in Int
<1>1. MutatedOff(desc) \subseteq Int
  BY DEF MutatedOff, Described
<1>2. (CHOOSE o \in MutatedOff(desc) : TRUE) \in MutatedOff(desc)
  OBVIOUS
<1> QED
  BY <1>1, <1>2

\* A corollary that is stated comes from a walk of the layout.
LEMMA CorollaryIs ==
  ASSUME NEW desc, NEW path, NEW traced, Corollary(desc, path, traced).ok
  PROVE  LET c == Corollary(desc, path, traced)
             binding == TransitionBinding(desc, path)
             items == Binders(path, CleanBalanceShifts(path.post, TRUE).shifted)
             mu == Mutation(desc, path.pre, Left(path))
             off == CHOOSE o \in MutatedOff(desc) : TRUE
         IN  \/ /\ c = PathWith(desc, path, binding, mu, Env(binding, mu, off, path.pre, Left(path)), items)
                /\ MutatedOff(desc) # {} /\ BindingHolds(desc, binding, mu, off, path.pre).ok
             \/ c = FaultWith(desc, path, binding, Env(binding, <<>>, 0, path.pre, Left(path)), items)
<1> DEFINE c == Corollary(desc, path, traced)
           clean == CleanBalanceShifts(path.post, TRUE)
           binding == TransitionBinding(desc, path)
           items == Binders(path, clean.shifted)
           left == Left(path)
           mu == Mutation(desc, path.pre, left)
           off == CHOOSE o \in MutatedOff(desc) : TRUE
           held == BindingHolds(desc, binding, mu, off, path.pre)
           ret == PathWith(desc, path, binding, mu, Env(binding, mu, off, path.pre, left), items)
           fault == FaultWith(desc, path, binding, Env(binding, <<>>, 0, path.pre, left), items)
           wired == traced /\ ~path.complex
<1>1. c = IF wired /\ path.terminal = "exit" THEN EmitTransitionPath(desc, path, left, items)
          ELSE IF wired /\ path.terminal \in {"abort", "oob"} THEN EmitTransitionFault(desc, path, left, items)
          ELSE Unwired
  BY Zenon DEF Corollary, Left
<1>2. \A w : ~Unsupported(w).ok /\ ~Rejected(w).ok /\ ~Unwired.ok
  BY DEF Unsupported, Rejected, Unwired
<1>3. EmitTransitionPath(desc, path, left, items)
        = IF ~desc.layout.found THEN Unsupported("MissingLayout")
          ELSE IF MutatedOff(desc) = {} THEN Rejected("MissingField")
          ELSE IF ~binding.ok THEN binding
          ELSE IF path.r0 = "none" THEN Unwired
          ELSE PathBound(desc, path, binding, mu, off, left, items)
  BY Zenon DEF EmitTransitionPath
<1>4. PathBound(desc, path, binding, mu, off, left, items)
        = IF ~held.ok THEN held
          ELSE IF ~binding.bound /\ mu = <<>> /\ ~path.r1 THEN Unwired
          ELSE ret
  BY Zenon DEF PathBound
<1>5. EmitTransitionFault(desc, path, left, items)
        = IF ~desc.layout.found THEN Unsupported("MissingLayout")
          ELSE IF ~binding.ok THEN binding
          ELSE IF ~path.r1 THEN Unwired
          ELSE fault
  BY Zenon DEF EmitTransitionFault
<1>6. c.ok
  OBVIOUS
<1> HIDE DEF c, clean, binding, items, left, mu, off, held, ret, fault, wired
<1>7. (c = ret /\ MutatedOff(desc) # {} /\ held.ok) \/ c = fault
  BY <1>1, <1>2, <1>3, <1>4, <1>5, <1>6
<1> QED
  BY <1>7, Zenon DEF c, clean, binding, items, left, mu, off, held, ret, fault

\* What every stated corollary is.
LEMMA CorollaryClosed ==
  ASSUME NEW path, Liftable(path), NEW desc, Described(desc), NEW traced,
         NEW c, c = Corollary(desc, path, traced), c.ok
  PROVE  /\ Closed(c)
         /\ c.kind.end = "return" => \A j \in DOMAIN c.post : TrueOf(c.post[j], Left(path))
<1> DEFINE binding == TransitionBinding(desc, path)
           shifted == CleanBalanceShifts(path.post, TRUE).shifted
           items == Binders(path, shifted)
           left == Left(path)
           mu == Mutation(desc, path.pre, left)
           off == CHOOSE o \in MutatedOff(desc) : TRUE
           env == Env(binding, mu, off, path.pre, left)
           dead == Env(binding, <<>>, 0, path.pre, left)
<1>1. \/ c = PathWith(desc, path, binding, mu, env, items)
           /\ MutatedOff(desc) # {} /\ BindingHolds(desc, binding, mu, off, path.pre).ok
      \/ c = FaultWith(desc, path, binding, dead, items)
  BY CorollaryIs, Zenon
<1>2. MutatedOff(desc) # {} => off \in Int
  BY MutatedAt
<1>3. env.post = left
  <2> HIDE DEF binding, left, mu, off
  <2> QED
    BY EnvParts
<1> HIDE DEF shifted
<1>4. CASE c = PathWith(desc, path, binding, mu, env, items)
             /\ MutatedOff(desc) # {} /\ BindingHolds(desc, binding, mu, off, path.pre).ok
  <2>1. EnvFine(env, Range(path.vars)) /\ EnvSame(env)
    <3>1. desc.op \in {"addConst", "addParam"} /\ off \in Int
      BY <1>2, <1>4 DEF Described
    <3>2. mu = Mutation(desc, path.pre, left) /\ left = Left(path)
      OBVIOUS
    <3>3. BindingHolds(desc, binding, mu, off, path.pre).ok
      BY <1>4
    <3> HIDE DEF binding, mu, off, left
    <3> QED
      BY <3>1, <3>2, <3>3, EnvReturns
  <2> HIDE DEF binding, mu, env, left, off
  <2>2. Closed(c) /\ \A j \in DOMAIN c.post : TrueOf(c.post[j], env.post)
    BY <1>4, <2>1, ReturnClosed
  <2> QED
    BY <1>3, <2>2 DEF left
<1>5. CASE c = FaultWith(desc, path, binding, dead, items)
  <2>1. EnvFine(dead, Range(path.vars))
    BY EnvFaults
  <2> HIDE DEF binding, dead
  <2>2. Closed(c) /\ c.kind.end = "fault"
    BY <1>5, <2>1, FaultClosed
  <2> QED
    BY <2>2
<1> QED
  BY <1>1, <1>4, <1>5

USE JobAssumption

-----------------------------------------------------------------------------
(* The invariant.                                                              *)

Modes == {"profile", "coverage", "transition", "qedmeta", "cpi", "batch", "single"}

\* Nothing is written, queued or reported.
Untouched == files = before /\ queue = <<>> /\ ticks = {}

StageInv ==
  /\ job \in Jobs \cup Reruns
  /\ stage \in {"parse", "load", "work", "ended"}
  /\ stage # "ended" => exit = "none"
  /\ stage \in {"load", "work"} => command \in Modes
  /\ stage \in {"parse", "load"} =>
       Untouched /\ outcomes = <<>> /\ infos = <<>> /\ bundle = <<>>

\* The modes that lift everything before they write anything.
UnwrittenInv ==
  stage = "work" =>
    /\ command = "transition" /\ bundle = <<>> => Untouched
    /\ command \in {"single", "cpi"} /\ todo # <<>> => Untouched
    /\ command \in {"coverage", "profile"} => Untouched

\* A reported module is in the directory, unless another one of this invocation
\* has taken its file.
Landed(t) == t.file \in DOMAIN files /\ \E u \in ticks : u.file = t.file /\ files[t.file] = u.content

\* What is reported is queued or has landed; what a queued bundle imports is in
\* the directory or queued before it.
Backed(i) ==
  queue[i].file[1] = "bundle" =>
    queue[i].content.imports \subseteq DOMAIN files \cup {queue[j].file : j \in 1 .. i - 1}
QueueInv ==
  /\ queue \in Seq(ticks)
  /\ \A t \in ticks : (\E i \in DOMAIN queue : queue[i] = t) \/ Landed(t)
  /\ \A i \in DOMAIN queue : Backed(i)

\* Outcome i is that of work item i; the items without one are still to be lifted.
Lined ==
  /\ IsList(outcomes) /\ IsList(infos)
  /\ IsList(Work) /\ Len(outcomes) <= Len(Work)
  /\ todo = SubSeq(Work, Len(outcomes) + 1, Len(Work))

\* An emitted path has its corollary, an arm over its budget is remembered.
Told(i) ==
  /\ command = "transition" /\ outcomes[i].status = "emitted" =>
       \E k \in DOMAIN infos : infos[k].arm.name = Work[i].name
  /\ command = "qedmeta" => over \/ ~OverBudget(Work[i], Work[i].cu)
  /\ command = "single" /\ Has("descriptor") => outcomes[i].status = "emitted"

ProgressInv ==
  stage = "work" =>
    /\ Lined
    /\ \A i \in DOMAIN outcomes : Told(i)
    /\ command = "transition" /\ bundle # <<>> =>
         \A i \in DOMAIN Work : \E t \in ticks : t.content.arm = Work[i].name

IInv ==
  /\ StageInv /\ UnwrittenInv /\ (stage # "ended" => QueueInv) /\ ProgressInv
  /\ SuccessIsHonest /\ DirectoryIsCoherent

-----------------------------------------------------------------------------
(* The work of an invocation.                                                  *)

\* The operands of a mode do not change while it runs.
LEMMA WorkKept ==
  ASSUME job' = job, command' = command
  PROVE  /\ Work' = Work /\ Discovered' = Discovered /\ Selected' = Selected
         /\ \A flag : Has(flag)' = Has(flag)
<1>1. Discovered' = Discovered /\ Selected' = Selected
  BY DEF Discovered, Selected
<1>2. Work' = Work
  BY <1>1 DEF Work
<1>3. \A flag : Has(flag)' = Has(flag)
  BY DEF Has
<1> QED
  BY <1>1, <1>2, <1>3

\* Every mode works on a list.
LEMMA WorkIsList ==
  ASSUME job \in Jobs \cup Reruns, command \in Modes
  PROVE  IsList(Work) /\ Len(Work) \in Nat /\ DOMAIN Work = 1 .. Len(Work)
<1>1. IsList(Discovered) /\ IsList(Selected) /\ IsList(job.arms) /\ IsList(job.args.suffixes)
  BY DEF Discovered, Selected
<1>2. IsList(<<job.one>>) /\ IsList(<<>>)
  <2>1. <<job.one>> \in Seq({job.one}) /\ <<>> \in Seq({job.one})
    OBVIOUS
  <2> QED
    BY <2>1, ListOf
<1>3. IsList(<<job.one>> \o job.args.suffixes)
  <2> DEFINE T == Range(job.args.suffixes) \cup {job.one}
  <2>1. job.args.suffixes \in Seq(Range(job.args.suffixes))
    BY <1>1 DEF IsList
  <2>2. job.args.suffixes \in Seq(T) /\ <<job.one>> \in Seq(T)
    BY <2>1
  <2> HIDE DEF T
  <2>3. <<job.one>> \o job.args.suffixes \in Seq(T)
    BY <2>2
  <2> QED
    BY <2>3, ListOf
<1>4. IsList(Work)
  BY <1>1, <1>2, <1>3 DEF Work, Modes
<1>5. Work \in Seq(Range(Work))
  BY <1>4 DEF IsList
<1> QED
  BY <1>4, <1>5, ListOf

\* The next item, and what is left after it.
LEMMA Advance ==
  ASSUME Lined, todo # <<>>
  PROVE  /\ Len(outcomes) \in Nat /\ Len(outcomes) + 1 <= Len(Work) /\ Len(Work) \in Nat
         /\ todo[1] = Work[Len(outcomes) + 1] /\ Len(outcomes) + 1 \in DOMAIN Work
         /\ Tail(todo) = SubSeq(Work, Len(outcomes) + 1 + 1, Len(Work))
<1> DEFINE n == Len(outcomes)
           m == Len(Work)
           T == Range(Work)
<1>1. outcomes \in Seq(Range(outcomes)) /\ Work \in Seq(T) /\ n <= m
  BY DEF Lined, IsList
<1>2. todo = SubSeq(Work, n + 1, m)
  BY DEF Lined
<1> HIDE DEF T
<1>3. n \in Nat /\ m \in Nat
  BY <1>1
<1> HIDE DEF n, m
<1>4. n # m
  <2> SUFFICES ASSUME n = m PROVE FALSE
    OBVIOUS
  <2>1. SubSeq(Work, n + 1, m) = <<>>
    BY <1>1, <1>3 DEF m
  <2> QED
    BY <1>2, <2>1
<1>5. n + 1 <= m
  BY <1>1, <1>3, <1>4
<1>6. /\ SubSeq(Work, n + 1, m) \in Seq(T) /\ Len(SubSeq(Work, n + 1, m)) = m - n
      /\ \A i \in 1 .. m - n : SubSeq(Work, n + 1, m)[i] = Work[n + i]
  BY <1>1, <1>3, <1>5 DEF m
<1>7. todo[1] = Work[n + 1]
  BY <1>2, <1>3, <1>5, <1>6
<1>8. Tail(todo) = SubSeq(Work, n + 1 + 1, m)
  <2>1. n + 1 + 1 \in Nat /\ n + 1 + 1 <= m + 1 /\ m - (n + 1) \in Nat
    BY <1>3, <1>5
  <2>2. /\ SubSeq(Work, n + 1 + 1, m) \in Seq(T) /\ Len(SubSeq(Work, n + 1 + 1, m)) = m - (n + 1)
        /\ \A i \in 1 .. m - (n + 1) : SubSeq(Work, n + 1 + 1, m)[i] = Work[n + 1 + i]
    BY <1>1, <1>3, <1>5, <2>1 DEF m
  <2>3. /\ Tail(todo) \in Seq(T) /\ Len(Tail(todo)) = m - (n + 1)
        /\ \A i \in 1 .. m - (n + 1) : Tail(todo)[i] = Work[n + 1 + i]
    BY <1>2, <1>3, <1>5, <1>6
  <2> DEFINE a == Tail(todo)
             b == SubSeq(Work, n + 1 + 1, m)
  <2> HIDE DEF a, b
  <2>4. /\ a \in Seq(T) /\ b \in Seq(T) /\ Len(a) = Len(b)
        /\ \A i \in 1 .. Len(a) : a[i] = b[i]
    BY <2>1, <2>2, <2>3 DEF a, b
  <2>5. a = b
    BY <2>4, SeqEqual
  <2> QED
    BY <2>5 DEF a, b
<1>9. n + 1 \in DOMAIN Work
  BY <1>1, <1>3, <1>5 DEF m
<1> QED
  BY <1>3, <1>5, <1>7, <1>8, <1>9 DEF n, m

\* With nothing left every item has its outcome.
LEMMA AllDone ==
  ASSUME Lined, todo = <<>>
  PROVE  Len(outcomes) = Len(Work) /\ DOMAIN outcomes = DOMAIN Work
<1> DEFINE n == Len(outcomes)
           m == Len(Work)
<1>1. outcomes \in Seq(Range(outcomes)) /\ Work \in Seq(Range(Work)) /\ n <= m
  BY DEF Lined, IsList
<1>2. n \in Nat /\ m \in Nat
  BY <1>1
<1>3. SubSeq(Work, n + 1, m) = <<>>
  BY DEF Lined
<1> HIDE DEF n
<1>4. n = m
  <2> SUFFICES ASSUME n + 1 <= m PROVE FALSE
    BY <1>1, <1>2
  <2>1. Len(SubSeq(Work, n + 1, m)) = m - n
    BY <1>1, <1>2
  <2> QED
    BY <1>2, <1>3, <2>1
<1> QED
  BY <1>1, <1>4 DEF n

-----------------------------------------------------------------------------
(* How an invocation ends.                                                     *)

\* An end that leaves the directory as it is.
LEMMA EndStep ==
  ASSUME IInv, NEW status, Ended(status), job' = job,
         queue' = queue, ticks' = ticks, before' = before, files' = files,
         SuccessIsHonest',
         status = "error" => command' \in {"qedmeta", "batch"} \/ files = before
  PROVE  IInv'
<1>1. stage' = "ended" /\ exit' = status
  BY DEF Ended
<1>2. StageInv' /\ UnwrittenInv' /\ ProgressInv'
  BY <1>1 DEF IInv, StageInv, UnwrittenInv, ProgressInv
<1>3. DirectoryIsCoherent'
  BY <1>1 DEF IInv, DirectoryIsCoherent
<1> QED
  BY <1>1, <1>2, <1>3 DEF IInv

\* A failure of any kind claims nothing.
LEMMA FailStep ==
  ASSUME IInv, NEW status, status # "ok", Ended(status), job' = job,
         queue' = queue, ticks' = ticks, before' = before, files' = files,
         status = "error" => command' \in {"qedmeta", "batch"} \/ files = before
  PROVE  IInv'
<1>1. SuccessIsHonest'
  BY DEF SuccessIsHonest, Ended
<1> QED
  BY <1>1, EndStep

\* A reported success: everything is lifted, written and within its budget.
LEMMA OkStep ==
  ASSUME IInv, stage = "work", queue = <<>>, todo = <<>>, Ended("ok"),
         command = "transition" => bundle # <<>>,
         command = "qedmeta" => ~over,
         command = "coverage" => hook' = "default",
         UNCHANGED <<job, command, outcomes, queue, ticks, before, files>>
  PROVE  IInv'
<1>1. \A t \in ticks : Landed(t)
  BY DEF IInv, QueueInv
<1>2. Lined /\ \A i \in DOMAIN outcomes : Told(i)
  BY DEF IInv, ProgressInv
<1>3. Len(outcomes) = Len(Work) /\ DOMAIN outcomes = DOMAIN Work
  BY <1>2, AllDone
<1>4. command = "transition" =>
        \A i \in DOMAIN Discovered : \E t \in ticks : t.content.arm = Discovered[i].name
  BY DEF IInv, ProgressInv, Work
<1>5. ASSUME command = "qedmeta", NEW i \in DOMAIN Selected, Selected[i].budget >= 0
      PROVE  Selected[i].cu <= Selected[i].budget
  <2>1. Work = Selected
    BY <1>5 DEF Work
  <2>2. ~OverBudget(Selected[i], Selected[i].cu)
    BY <1>2, <1>3, <1>5, <2>1 DEF Told
  <2>3. job \in Jobs \cup Reruns
    BY DEF IInv, StageInv
  <2>4. Selected[i].cu \in Nat /\ Selected[i].budget \in Int
    BY <1>5, <2>3 DEF Selected
  <2> QED
    BY <1>5, <2>2, <2>4 DEF OverBudget
<1>6. command = "single" /\ Has("descriptor") => outcomes[1].status = "emitted"
  <2> SUFFICES ASSUME command = "single", Has("descriptor") PROVE outcomes[1].status = "emitted"
    OBVIOUS
  <2>1. Work = <<job.one>>
    BY DEF Work
  <2>2. 1 \in DOMAIN outcomes
    BY <1>3, <2>1
  <2> QED
    BY <1>2, <2>2 DEF Told
<1>7. command = "coverage" => Len(outcomes) = (IF Discovered = <<>> THEN 1 ELSE Len(Discovered))
  BY <1>3 DEF Work
<1>8. SuccessIsHonest'
  <2>1. \A t \in ticks' :
          t.file \in DOMAIN files' /\ \E u \in ticks' : u.file = t.file /\ files'[t.file] = u.content
    BY <1>1 DEF Landed
  <2>2. /\ Discovered' = Discovered /\ Selected' = Selected
        /\ Has("descriptor")' = Has("descriptor")
    BY WorkKept
  <2> QED
    BY <1>4, <1>5, <1>6, <1>7, <2>1, <2>2 DEF SuccessIsHonest
<1> QED
  BY <1>8, EndStep

-----------------------------------------------------------------------------
(* How an invocation proceeds.                                                 *)

\* A batch of modules is queued and reported.
LEMMA Queued ==
  ASSUME QueueInv, queue = <<>>, files' = files, IsList(queue'),
         \/ ticks' = {queue'[i] : i \in DOMAIN queue'}
         \/ ticks' = ticks \cup {queue'[i] : i \in DOMAIN queue'},
         \A i \in DOMAIN queue' : Backed(i)'
  PROVE  QueueInv'
<1>1. queue' \in Seq(Range(queue')) /\ Len(queue') \in Nat /\ DOMAIN queue' = 1 .. Len(queue')
  BY ListOf DEF IsList
<1>2. queue' \in Seq(ticks')
  <2>1. \A i \in DOMAIN queue' : queue'[i] \in ticks'
    OBVIOUS
  <2> QED
    BY <1>1, <2>1
<1>3. ASSUME NEW t \in ticks'
      PROVE  (\E i \in DOMAIN queue' : queue'[i] = t) \/ Landed(t)'
  <2>1. CASE \E i \in DOMAIN queue' : queue'[i] = t
    BY <2>1
  <2>2. CASE ~ \E i \in DOMAIN queue' : queue'[i] = t
    <3>1. t \in ticks /\ ticks \subseteq ticks'
      BY <2>2
    <3>2. Landed(t)
      BY <3>1 DEF QueueInv
    <3> QED
      BY <3>1, <3>2 DEF Landed
  <2> QED
    BY <2>1, <2>2
<1> QED
  BY <1>2, <1>3 DEF QueueInv

\* One more item has its outcome.
LEMMA Progressed ==
  ASSUME IInv, stage = "work", todo # <<>>, NEW o,
         outcomes' = Append(outcomes, o), todo' = Tail(todo),
         job' = job, command' = command, bundle' = bundle, ticks \subseteq ticks', over => over',
         IsList(infos'),
         command = "transition" =>
           \A k \in DOMAIN infos : k \in DOMAIN infos' /\ infos'[k] = infos[k],
         command = "transition" /\ o.status = "emitted" =>
           \E k \in DOMAIN infos' : infos'[k].arm.name = todo[1].name,
         command = "qedmeta" => over' \/ ~OverBudget(todo[1], todo[1].cu),
         command = "single" /\ Has("descriptor") => o.status = "emitted"
  PROVE  ProgressInv'
<1>1. Lined /\ \A i \in DOMAIN outcomes : Told(i)
  BY DEF IInv, ProgressInv
<1> DEFINE n == Len(outcomes)
<1>2. /\ n \in Nat /\ n + 1 <= Len(Work) /\ Len(Work) \in Nat
      /\ todo[1] = Work[n + 1] /\ Tail(todo) = SubSeq(Work, n + 1 + 1, Len(Work))
  BY <1>1, Advance
<1>3. /\ IsList(outcomes') /\ Len(outcomes') = n + 1 /\ DOMAIN outcomes = 1 .. n
      /\ DOMAIN outcomes' = 1 .. n + 1
      /\ \A i \in 1 .. n : outcomes'[i] = outcomes[i]
      /\ outcomes'[n + 1] = o
  <2>1. IsList(outcomes)
    BY <1>1 DEF Lined
  <2> QED
    BY <2>1, AppendList
<1>4. Work' = Work /\ Has("descriptor")' = Has("descriptor")
  BY WorkKept
<1> HIDE DEF n
<1>5. Lined'
  BY <1>1, <1>2, <1>3, <1>4 DEF Lined
<1>6. ASSUME NEW i \in DOMAIN outcomes'
      PROVE  Told(i)'
  <2>1. CASE i \in 1 .. n
    <3>1. Told(i) /\ outcomes'[i] = outcomes[i]
      BY <1>1, <1>3, <2>1
    <3>2. command = "transition" /\ outcomes'[i].status = "emitted" =>
            \E k \in DOMAIN infos' : infos'[k].arm.name = Work[i].name
      BY <3>1 DEF Told
    <3>3. command = "qedmeta" => over' \/ ~OverBudget(Work[i], Work[i].cu)
      BY <3>1 DEF Told
    <3>4. command = "single" /\ Has("descriptor") => outcomes'[i].status = "emitted"
      BY <3>1 DEF Told
    <3> QED
      BY <1>4, <3>2, <3>3, <3>4 DEF Told, OverBudget
  <2>2. CASE i = n + 1
    BY <1>2, <1>3, <1>4, <2>2 DEF Told, OverBudget
  <2> QED
    BY <1>2, <1>3, <1>6, <2>1, <2>2
<1>7. ASSUME command = "transition", bundle # <<>>, NEW i \in DOMAIN Work
      PROVE  \E t \in ticks' : t.content.arm = Work[i].name
  BY <1>7 DEF IInv, ProgressInv
<1> QED
  BY <1>4, <1>5, <1>6, <1>7 DEF ProgressInv

\* A step of a mode that has written nothing and writes nothing now.
LEMMA QuietStep ==
  ASSUME IInv, stage = "work", stage' = "work", exit' = exit, ProgressInv',
         job' = job, command' = command, queue' = queue, ticks' = ticks, before' = before, files' = files,
         command = "transition" => bundle' = bundle,
         command \in {"single", "cpi"} => todo # <<>>
  PROVE  IInv'
<1>1. StageInv'
  BY DEF IInv, StageInv
<1>2. UnwrittenInv'
  BY DEF IInv, UnwrittenInv, Untouched
<1>3. QueueInv'
  BY DEF IInv, QueueInv, Landed, Backed
<1>4. SuccessIsHonest' /\ DirectoryIsCoherent'
  BY DEF IInv, StageInv, SuccessIsHonest, DirectoryIsCoherent
<1> QED
  BY <1>1, <1>2, <1>3, <1>4 DEF IInv

\* A step of a mode that queues modules.
LEMMA QueuingStep ==
  ASSUME IInv, stage = "work", stage' = "work", exit' = exit, ProgressInv', QueueInv',
         job' = job, command' = command, before' = before, files' = files,
         command = "transition" => bundle' # <<>>,
         command \in {"single", "cpi"} => todo' = <<>>,
         command \notin {"coverage", "profile"}
  PROVE  IInv'
<1>1. StageInv'
  BY DEF IInv, StageInv
<1>2. UnwrittenInv'
  BY DEF UnwrittenInv
<1>3. SuccessIsHonest' /\ DirectoryIsCoherent'
  BY DEF IInv, StageInv, SuccessIsHonest, DirectoryIsCoherent
<1> QED
  BY <1>1, <1>2, <1>3 DEF IInv

-----------------------------------------------------------------------------
(* The actions.                                                                *)

\* An invocation that starts on an empty directory.
LEMMA InitInv == Init => IInv
<1> SUFFICES ASSUME Init PROVE IInv
  OBVIOUS
<1>1. StageInv /\ UnwrittenInv /\ ProgressInv
  BY DEF Init, StageInv, UnwrittenInv, ProgressInv, Untouched
<1>2. QueueInv
  BY DEF Init, QueueInv
<1>3. SuccessIsHonest /\ DirectoryIsCoherent
  BY DEF Init, SuccessIsHonest, DirectoryIsCoherent
<1> QED
  BY <1>1, <1>2, <1>3 DEF IInv

\* A later invocation finds what the earlier ones left.
LEMMA AgainStep ==
  ASSUME IInv, Again
  PROVE  IInv'
<1>1. PICK j \in Reruns : Fresh(j, number + 1, files)
  BY DEF Again
<1>2. StageInv' /\ UnwrittenInv' /\ ProgressInv'
  BY <1>1 DEF Fresh, StageInv, UnwrittenInv, ProgressInv, Untouched
<1>3. QueueInv'
  BY <1>1 DEF Fresh, QueueInv
<1>4. SuccessIsHonest' /\ DirectoryIsCoherent'
  BY <1>1 DEF Fresh, IInv, SuccessIsHonest, DirectoryIsCoherent
<1> QED
  BY <1>2, <1>3, <1>4 DEF IInv

\* Arguments select a mode or are refused.
LEMMA ParseStep ==
  ASSUME IInv, ParseArgs
  PROVE  IInv'
<1>1. /\ stage = "parse" /\ command' = Command(job.args)
      /\ UNCHANGED <<job, outcomes, infos, bundle, queue, ticks, before, files>>
  BY DEF ParseArgs
<1>2. Untouched /\ outcomes = <<>> /\ infos = <<>> /\ bundle = <<>> /\ exit = "none"
  BY <1>1 DEF IInv, StageInv
<1>3. CASE command' = "refused"
  <2>1. Ended("error")
    BY <1>3 DEF ParseArgs
  <2>2. files = before
    BY <1>2 DEF Untouched
  <2> QED
    BY <1>1, <2>1, <2>2, FailStep
<1>4. CASE command' # "refused"
  <2>1. stage' = "load" /\ exit' = exit
    BY <1>4 DEF ParseArgs
  <2>2. Command(job.args) \in Modes \cup {"refused"}
    <3>1. ExplicitModes(job.args) \subseteq Modes
      BY DEF ExplicitModes, Modes
    <3> QED
      BY <3>1 DEF Command, Modes
  <2>3. StageInv'
    BY <1>1, <1>2, <1>4, <2>1, <2>2 DEF IInv, StageInv, Untouched
  <2>4. UnwrittenInv' /\ ProgressInv'
    BY <2>1 DEF UnwrittenInv, ProgressInv
  <2>5. QueueInv'
    BY <1>1 DEF IInv, QueueInv, Landed, Backed
  <2>6. SuccessIsHonest' /\ DirectoryIsCoherent'
    BY <1>1, <1>2, <2>1 DEF IInv, SuccessIsHonest, DirectoryIsCoherent
  <2> QED
    BY <2>3, <2>4, <2>5, <2>6 DEF IInv
<1> QED
  BY <1>3, <1>4

\* The work list is loaded, with no outcome yet.
LEMMA LoadStep ==
  ASSUME IInv, Load
  PROVE  IInv'
<1>1. /\ stage = "load"
      /\ UNCHANGED <<job, command, outcomes, infos, bundle, queue, ticks, before, files>>
  BY DEF Load
<1>2. /\ Untouched /\ outcomes = <<>> /\ infos = <<>> /\ bundle = <<>> /\ exit = "none"
      /\ job \in Jobs \cup Reruns /\ command \in Modes
  BY <1>1 DEF IInv, StageInv
<1>3. CASE LoadFails \/ (command = "qedmeta" /\ Selected = <<>>)
  <2>1. Ended("error")
    BY <1>3 DEF Load
  <2>2. files = before
    BY <1>2 DEF Untouched
  <2> QED
    BY <1>1, <2>1, <2>2, FailStep
<1>4. CASE ~(LoadFails \/ (command = "qedmeta" /\ Selected = <<>>))
  <2>1. stage' = "work" /\ exit' = exit /\ todo' = Work
    BY <1>4 DEF Load
  <2>2. StageInv' /\ UnwrittenInv'
    BY <1>1, <1>2, <2>1 DEF IInv, StageInv, UnwrittenInv, Untouched
  <2>3. QueueInv'
    BY <1>1 DEF IInv, QueueInv, Landed, Backed
  <2>4. SuccessIsHonest' /\ DirectoryIsCoherent'
    BY <1>1, <1>2, <2>1 DEF IInv, SuccessIsHonest, DirectoryIsCoherent
  <2>5. IsList(Work) /\ Len(Work) \in Nat /\ Work' = Work
    BY <1>1, <1>2, WorkIsList, WorkKept
  <2>6. IsList(<<>>) /\ Len(<<>>) = 0 /\ DOMAIN <<>> = {}
    <3>1. <<>> \in Seq({1})
      OBVIOUS
    <3>2. IsList(<<>>)
      BY <3>1, ListOf
    <3>3. Len(<<>>) = 0 /\ DOMAIN <<>> = {}
      OBVIOUS
    <3> QED
      BY <3>2, <3>3
  <2>7. Work = SubSeq(Work, 1, Len(Work))
    <3>1. Work \in Seq(Range(Work))
      BY <2>5 DEF IsList
    <3> QED
      BY <3>1, SubSeqFull
  <2>8. Lined'
    BY <1>1, <1>2, <2>1, <2>5, <2>6, <2>7 DEF Lined
  <2>9. ProgressInv'
    BY <1>1, <1>2, <2>6, <2>8 DEF ProgressInv
  <2> QED
    BY <2>2, <2>3, <2>4, <2>9 DEF IInv
<1> QED
  BY <1>3, <1>4

\* A refused lift has no compute units; an accepted one has the arm's.
LEMMA LiftUnits ==
  ASSUME NEW req, NEW arm, Lift(req, arm).ok
  PROVE  Lift(req, arm).cu = arm.cu
BY DEF Lift, Refused

\* A path is emitted exactly when its corollary is stated.
Failed(r) == ~r.ok => r.status # "emitted"

\* TransitionFailure is a rejection or unsupported: no failure reads as emitted.
LEMMA CorollaryStatus ==
  ASSUME NEW desc, NEW path, NEW traced
  PROVE  Failed(Corollary(desc, path, traced))
<1>1. \A why : Failed(Unsupported(why)) /\ Failed(Rejected(why)) /\ Failed(Unwired)
  BY DEF Failed, Unsupported, Rejected, Unwired
<1>2. \A acc, kind, param : Failed(Info(acc, kind, param))
  BY DEF Failed, Info, Status
<1>3. ASSUME NEW p PROVE ~TransitionBinding(desc, p).ok => Failed(TransitionBinding(desc, p))
  <2>1. ~ResolveParameter(desc, p).ok => Failed(ResolveParameter(desc, p))
    BY <1>1 DEF ResolveParameter
  <2> QED
    BY <1>1, <2>1 DEF TransitionBinding, Unbound, Failed
<1>4. ASSUME NEW post, NEW items PROVE Failed(EmitTransitionPath(desc, path, post, items))
  <2>1. ASSUME NEW b, NEW mu, NEW off PROVE Failed(PathBound(desc, path, b, mu, off, post, items))
    <3>1. ~BindingHolds(desc, b, mu, off, path.pre).ok => Failed(BindingHolds(desc, b, mu, off, path.pre))
      BY <1>1 DEF BindingHolds, Unbound, Failed
    <3>2. ASSUME NEW env PROVE Failed(PathWith(desc, path, b, mu, env, items))
      BY <1>2 DEF PathWith, PathDone
    <3> QED
      BY <1>1, <3>1, <3>2 DEF PathBound
  <2> QED
    BY <1>1, <1>3, <2>1 DEF EmitTransitionPath
<1>5. ASSUME NEW post, NEW items PROVE Failed(EmitTransitionFault(desc, path, post, items))
  <2>1. ASSUME NEW b, NEW env PROVE Failed(FaultWith(desc, path, b, env, items))
    BY <1>2 DEF FaultWith, FaultDone
  <2> QED
    BY <1>1, <1>3, <2>1 DEF EmitTransitionFault
<1> QED
  BY <1>1, <1>4, <1>5 DEF Corollary

\* The same for everything that may become of a discovered path.
LEMMA PathStatus ==
  ASSUME NEW arm
  PROVE  Failed(PathResult(arm))
<1>1. \A why : Failed(Unsupported(why))
  BY DEF Failed, Unsupported
<1>2. Lift(Requested, arm).ok => Failed(Lift(Requested, arm).transition)
  <2>1. Failed(Unwired)
    BY DEF Failed, Unwired, Unsupported
  <2> QED
    BY <2>1, CorollaryStatus DEF Lift, Refused
<1> QED
  BY <1>1, <1>2 DEF PathResult, PathVerdict

-----------------------------------------------------------------------------
(* The modes, one lift after the other.                                        *)

\* The ends of the modes.
LEMMA EndSteps ==
  ASSUME IInv,
         \/ TransitionEnd \/ MetaEnd \/ BatchEnd \/ SingleEnd \/ CpiEnd \/ Report \/ Profile
  PROVE  IInv'
<1>1. CASE TransitionEnd \/ BatchEnd \/ SingleEnd \/ CpiEnd \/ Report
  <2>1. /\ stage = "work" /\ queue = <<>> /\ todo = <<>> /\ Ended("ok")
        /\ command = "transition" => bundle # <<>>
        /\ command # "qedmeta"
        /\ command = "coverage" => hook' = "default"
        /\ UNCHANGED <<job, command, outcomes, queue, ticks, before, files>>
    BY <1>1 DEF TransitionEnd, BatchEnd, SingleEnd, CpiEnd, Report, Done, Working
  <2> QED
    BY <2>1, OkStep
<1>2. CASE MetaEnd
  <2>1. /\ stage = "work" /\ queue = <<>> /\ todo = <<>> /\ command = "qedmeta"
        /\ UNCHANGED <<job, command, outcomes, queue, ticks, before, files>>
    BY <1>2 DEF MetaEnd, Done, Working
  <2>2. CASE over
    <3>1. Ended("error")
      BY <1>2, <2>2 DEF MetaEnd
    <3> QED
      BY <2>1, <3>1, FailStep
  <2>3. CASE ~over
    <3>1. Ended("ok")
      BY <1>2, <2>3 DEF MetaEnd
    <3> QED
      BY <2>1, <2>3, <3>1, OkStep
  <2> QED
    BY <2>2, <2>3
<1>3. CASE Profile
  <2>1. /\ stage = "work" /\ queue = <<>> /\ todo = <<>> /\ command = "profile"
        /\ UNCHANGED <<job, command, outcomes, queue, ticks, before, files>>
    BY <1>3 DEF Profile, Done, Working
  <2>2. CASE job.symbols
    <3>1. Ended("ok")
      BY <1>3, <2>2 DEF Profile
    <3> QED
      BY <2>1, <3>1, OkStep
  <2>3. CASE ~job.symbols
    <3>1. Ended("error")
      BY <1>3, <2>3 DEF Profile
    <3>2. files = before
      BY <2>1 DEF IInv, UnwrittenInv, Untouched
    <3> QED
      BY <2>1, <3>1, <3>2, FailStep
  <2> QED
    BY <2>2, <2>3
<1> QED
  BY <1>1, <1>2, <1>3

\* A module that is cut imports nothing that a whole one does not.
LEMMA TornStep ==
  ASSUME IInv, stage = "work", queue # <<>>, NEW status \in {"ioError", "killed"}, Ended(status),
         NEW some \in SUBSET queue[1].content.imports,
         files' = Put(queue[1].file, Torn(queue[1].content, some)),
         UNCHANGED <<job, command, queue, ticks, before>>
  PROVE  IInv'
<1> DEFINE e == queue[1]
           c == Torn(e.content, some)
<1>1. stage' = "ended" /\ exit' = status
  BY DEF Ended
<1>2. StageInv' /\ UnwrittenInv' /\ ProgressInv' /\ SuccessIsHonest'
  BY <1>1 DEF IInv, StageInv, UnwrittenInv, ProgressInv, SuccessIsHonest
<1>3. c.imports \subseteq e.content.imports
  BY DEF Torn
<1>4. /\ DOMAIN files' = DOMAIN files \cup {e.file} /\ files'[e.file] = c
      /\ \A f \in DOMAIN files : f # e.file => files'[f] = files[f]
  BY DEF Put
<1>5. e.file[1] = "bundle" => e.content.imports \subseteq DOMAIN files
  <2>1. queue \in Seq(ticks) /\ \A i \in DOMAIN queue : Backed(i)
    BY DEF IInv, QueueInv
  <2>2. Backed(1)
    BY <2>1
  <2>3. {queue[j].file : j \in 1 .. 1 - 1} = {}
    OBVIOUS
  <2> QED
    BY <2>2, <2>3 DEF Backed
<1> HIDE DEF e, c
<1>6. ASSUME NEW f \in DOMAIN files', f[1] = "bundle"
      PROVE  files'[f].imports \subseteq DOMAIN files'
  <2>1. CASE f = e.file
    BY <1>3, <1>4, <1>5, <1>6, <2>1
  <2>2. CASE f # e.file
    <3>1. f \in DOMAIN files /\ files'[f] = files[f]
      BY <1>4, <1>6, <2>2
    <3>2. files[f].imports \subseteq DOMAIN files
      BY <1>6, <3>1 DEF IInv, DirectoryIsCoherent
    <3> QED
      BY <1>4, <3>1, <3>2
  <2> QED
    BY <2>1, <2>2
<1>7. DirectoryIsCoherent'
  BY <1>1, <1>6 DEF DirectoryIsCoherent
<1> QED
  BY <1>1, <1>2, <1>7 DEF IInv

\* A panic, a kill or a full disk, with or without a torn module.
LEMMA CrashStep ==
  ASSUME IInv, WriteFails \/ Panic \/ Kill
  PROVE  IInv'
<1>1. PICK status \in {"ioError", "panic", "killed"} : Ended(status) /\ (status = "panic" => files' = files)
  BY DEF WriteFails, Panic, Kill
<1>2. stage = "work" /\ (files' = files \/ Cut) /\ UNCHANGED <<job, command, queue, ticks, before>>
  BY DEF WriteFails, Panic, Kill
<1>3. CASE files' = files
  BY <1>1, <1>2, <1>3, FailStep
<1>4. CASE files' # files
  <2>1. /\ queue # <<>> /\ status \in {"ioError", "killed"}
        /\ \E some \in SUBSET queue[1].content.imports : files' = Put(queue[1].file, Torn(queue[1].content, some))
    BY <1>1, <1>2, <1>4 DEF Cut
  <2> QED
    BY <1>1, <1>2, <2>1, TornStep
<1> QED
  BY <1>3, <1>4

\* One discovered path of --transition.
LEMMA PathStep ==
  ASSUME IInv, TransitionPath
  PROVE  IInv'
<1> DEFINE r == PathResult(todo[1])
           o == Outcome(todo[1], r.status, r.reason)
<1>1. /\ stage = "work" /\ command = "transition" /\ todo # <<>> /\ todo' = Tail(todo)
      /\ outcomes' = Append(outcomes, o)
      /\ infos' = IF r.ok THEN Append(infos, [arm |-> todo[1], info |-> r]) ELSE infos
      /\ UNCHANGED <<job, command, stage, bundle, queue, ticks, over, exit, before, files>>
  BY DEF TransitionPath, Next1, Working
<1>2. o.status = "emitted" => r.ok
  BY PathStatus DEF Failed, Outcome
<1> HIDE DEF o, r
<1>3. IsList(infos)
  BY <1>1 DEF IInv, ProgressInv, Lined
<1>4. /\ IsList(infos') /\ \A k \in DOMAIN infos : k \in DOMAIN infos' /\ infos'[k] = infos[k]
      /\ r.ok => \E k \in DOMAIN infos' : infos'[k].arm.name = todo[1].name
  <2>1. CASE r.ok
    <3> DEFINE x == [arm |-> todo[1], info |-> r]
    <3>1. x.arm = todo[1] /\ infos' = Append(infos, x)
      BY <1>1, <2>1
    <3> HIDE DEF x
    <3>2. /\ IsList(infos') /\ Len(infos) \in Nat /\ DOMAIN infos = 1 .. Len(infos)
          /\ DOMAIN infos' = 1 .. Len(infos) + 1
          /\ \A k \in 1 .. Len(infos) : infos'[k] = infos[k]
          /\ infos'[Len(infos) + 1] = x
      BY <1>3, <3>1, AppendList
    <3>3. /\ \A k \in 1 .. Len(infos) : k \in 1 .. Len(infos) + 1
          /\ Len(infos) + 1 \in 1 .. Len(infos) + 1
      BY <3>2
    <3> QED
      BY <3>1, <3>2, <3>3
  <2>2. CASE ~r.ok
    BY <1>1, <1>3, <2>2
  <2> QED
    BY <2>1, <2>2
<1>5. ProgressInv'
  BY <1>1, <1>2, <1>4, Progressed
<1> QED
  BY <1>1, <1>5, QuietStep

\* One path of --coverage.
LEMMA AttemptStep ==
  ASSUME IInv, Attempt
  PROVE  IInv'
<1>1. PICK o : /\ stage = "work" /\ command = "coverage" /\ todo # <<>> /\ todo' = Tail(todo)
               /\ outcomes' = Append(outcomes, o)
               /\ UNCHANGED <<job, command, stage, infos, bundle, queue, ticks, over, exit, before, files>>
  BY DEF Attempt, Next1, Working
<1>2. IsList(infos')
  BY <1>1 DEF IInv, ProgressInv, Lined
<1>3. ProgressInv'
  BY <1>1, <1>2, Progressed
<1> QED
  BY <1>1, <1>3, QuietStep

\* One lift of --cpi-suffix.
LEMMA CpiLiftStep ==
  ASSUME IInv, CpiLift
  PROVE  IInv'
<1>1. /\ stage = "work" /\ command = "cpi" /\ todo # <<>>
      /\ UNCHANGED <<job, command, infos, bundle, queue, ticks, over, before, files>>
  BY DEF CpiLift, Next1, Working
<1>2. files = before
  BY <1>1 DEF IInv, UnwrittenInv, Untouched
<1>3. CASE Ended("error")
  BY <1>1, <1>2, <1>3, FailStep
<1>4. CASE ~Ended("error")
  <2>1. /\ outcomes' = Append(outcomes, Outcome(todo[1], "emitted", "none"))
        /\ todo' = Tail(todo) /\ UNCHANGED <<stage, exit>>
    BY <1>4 DEF CpiLift
  <2>2. IsList(infos')
    BY <1>1 DEF IInv, ProgressInv, Lined
  <2>3. ProgressInv'
    BY <1>1, <2>1, <2>2, Progressed
  <2> QED
    BY <1>1, <2>1, <2>3, QuietStep
<1> QED
  BY <1>3, <1>4

-----------------------------------------------------------------------------
(* What is written.                                                            *)

\* A list of modules none of which is a bundle.
Plain(s) == IsList(s) /\ \A i \in DOMAIN s : s[i].file[1] # "bundle"

\* One module that is not a bundle.
LEMMA PlainOne ==
  ASSUME NEW file, NEW content, file[1] # "bundle"
  PROVE  Plain(<<Entry(file, content)>>)
<1> DEFINE e == Entry(file, content)
<1>1. e.file[1] # "bundle"
  BY DEF Entry
<1> HIDE DEF e
<1>2. <<e>> \in Seq({e}) /\ \A i \in DOMAIN <<e>> : <<e>>[i] = e
  OBVIOUS
<1>3. IsList(<<e>>)
  BY <1>2, ListOf
<1> QED
  BY <1>1, <1>2, <1>3 DEF Plain, e

\* No module at all.
LEMMA PlainNone == Plain(<<>>)
<1>1. <<>> \in Seq({1}) /\ DOMAIN <<>> = {}
  OBVIOUS
<1>2. IsList(<<>>)
  BY <1>1, ListOf
<1> QED
  BY <1>1, <1>2 DEF Plain

\* Two lists, one after the other.
LEMMA Joined ==
  ASSUME NEW s, NEW t, IsList(s), IsList(t)
  PROVE  /\ IsList(s \o t) /\ Len(s) \in Nat /\ Len(t) \in Nat
         /\ DOMAIN s = 1 .. Len(s) /\ DOMAIN t = 1 .. Len(t)
         /\ DOMAIN (s \o t) = 1 .. Len(s) + Len(t)
         /\ \A i \in 1 .. Len(s) : (s \o t)[i] = s[i]
         /\ \A i \in 1 .. Len(t) : (s \o t)[Len(s) + i] = t[i]
<1> DEFINE T == Range(s) \cup Range(t)
<1>1. s \in Seq(Range(s)) /\ t \in Seq(Range(t))
  BY DEF IsList
<1>2. s \in Seq(T) /\ t \in Seq(T)
  BY <1>1
<1> HIDE DEF T
<1>3. s \o t \in Seq(T)
  BY <1>2
<1>4. IsList(s \o t)
  BY <1>3, ListOf
<1>5. /\ Len(s) \in Nat /\ Len(t) \in Nat
      /\ DOMAIN s = 1 .. Len(s) /\ DOMAIN t = 1 .. Len(t)
  BY <1>2
<1>6. /\ DOMAIN (s \o t) = 1 .. Len(s) + Len(t)
      /\ \A i \in 1 .. Len(s) : (s \o t)[i] = s[i]
      /\ \A i \in 1 .. Len(t) : (s \o t)[Len(s) + i] = t[i]
  BY <1>2
<1> QED
  BY <1>4, <1>5, <1>6

\* Two lists without a bundle are one.
LEMMA PlainJoined ==
  ASSUME NEW s, NEW t, Plain(s), Plain(t)
  PROVE  Plain(s \o t)
<1>1. IsList(s) /\ IsList(t)
  BY DEF Plain
<1> DEFINE n == Len(s)
           k == Len(t)
           q == s \o t
<1>2. /\ IsList(q) /\ n \in Nat /\ k \in Nat
      /\ DOMAIN s = 1 .. n /\ DOMAIN t = 1 .. k /\ DOMAIN q = 1 .. n + k
      /\ \A i \in 1 .. n : q[i] = s[i]
      /\ \A i \in 1 .. k : q[n + i] = t[i]
  BY <1>1, Joined
<1> HIDE DEF n, k, q
<1>3. ASSUME NEW i \in DOMAIN q PROVE q[i].file[1] # "bundle"
  <2>1. CASE i \in 1 .. n
    BY <1>2, <2>1 DEF Plain
  <2>2. CASE i \notin 1 .. n
    <3>1. i - n \in 1 .. k /\ i = n + (i - n)
      BY <1>2, <1>3, <2>2
    <3>2. q[i] = t[i - n] /\ i - n \in DOMAIN t
      BY <1>2, <3>1
    <3> QED
      BY <3>2 DEF Plain
  <2> QED
    BY <2>1, <2>2
<1> QED
  BY <1>2, <1>3 DEF Plain, q

\* write_lift_result writes no bundle.
LEMMA PlainResult ==
  ASSUME NEW arm, NEW file, file[1] # "bundle", NEW req, NEW refinement
  PROVE  Plain(LiftResult(arm, file, req, refinement))
<1> DEFINE text == <<"text", <<>>>>
           module == Module(arm.name)
           a == <<Entry(file, Text(arm, IF req.shared = "base" THEN {text} ELSE {}))>>
           b == IF req.shared = "base"
                THEN <<Entry(text, [run |-> number, arm |-> <<>>, imports |-> {}])>> ELSE <<>>
           c == IF refinement = "emitted"
                THEN <<Entry(<<"refinement", module>>, Text(arm, {file}))>> ELSE <<>>
<1>1. Plain(a)
  BY PlainOne
<1>2. text[1] # "bundle" /\ <<"refinement", module>>[1] # "bundle"
  OBVIOUS
<1>3. Plain(b)
  BY <1>2, PlainOne, PlainNone
<1>4. Plain(c)
  BY <1>2, PlainOne, PlainNone
<1>5. LiftResult(arm, file, req, refinement) = a \o b \o c
  BY DEF LiftResult
<1> HIDE DEF a, b, c
<1>6. Plain(a \o b)
  BY <1>1, <1>3, PlainJoined
<1>7. Plain((a \o b) \o c)
  BY <1>4, <1>6, PlainJoined
<1> QED
  BY <1>5, <1>7

\* A list without a bundle may be queued on an empty queue.
LEMMA PlainQueued ==
  ASSUME QueueInv, queue = <<>>, files' = files, Plain(queue'),
         \/ ticks' = {queue'[i] : i \in DOMAIN queue'}
         \/ ticks' = ticks \cup {queue'[i] : i \in DOMAIN queue'}
  PROVE  QueueInv'
<1>1. IsList(queue') /\ \A i \in DOMAIN queue' : Backed(i)'
  BY DEF Plain, Backed
<1> QED
  BY <1>1, Queued

\* One arm of a sidecar.
LEMMA MetaStep ==
  ASSUME IInv, MetaArm
  PROVE  IInv'
<1> DEFINE r == Lift(Requested, todo[1])
           written == LiftResult(todo[1], OutFile(todo[1]), Requested, r.refinement)
<1>1. /\ stage = "work" /\ command = "qedmeta" /\ todo # <<>> /\ queue = <<>>
      /\ UNCHANGED <<job, command, infos, bundle, before, files>>
  BY DEF MetaArm, Next1, Working
<1>2. CASE ~(r.ok /\ (Has("output") \/ Has("outputDir")))
  <2>1. Ended("error") /\ UNCHANGED <<queue, ticks>>
    BY <1>2 DEF MetaArm
  <2> QED
    BY <1>1, <2>1, FailStep
<1>3. CASE r.ok /\ (Has("output") \/ Has("outputDir"))
  <2>1. /\ over' = (over \/ OverBudget(todo[1], r.cu))
        /\ queue' = written /\ ticks' = ticks \cup {written[i] : i \in DOMAIN written}
        /\ outcomes' = Append(outcomes, Outcome(todo[1], "emitted", "none"))
        /\ todo' = Tail(todo) /\ UNCHANGED <<stage, exit>>
    BY <1>3 DEF MetaArm
  <2>2. r.cu = todo[1].cu
    BY <1>3, LiftUnits
  <2>3. OutFile(todo[1])[1] # "bundle"
    BY DEF OutFile, Lifted
  <2>4. Plain(written)
    BY <2>3, PlainResult
  <2> HIDE DEF r, written
  <2>5. QueueInv'
    BY <1>1, <2>1, <2>4, PlainQueued DEF IInv
  <2>6. IsList(infos')
    BY <1>1 DEF IInv, ProgressInv, Lined
  <2>7. over => over'
    BY <2>1
  <2>8. over' \/ ~OverBudget(todo[1], todo[1].cu)
    BY <2>1, <2>2
  <2>9. ProgressInv'
    BY <1>1, <2>1, <2>6, <2>7, <2>8, Progressed
  <2> QED
    BY <1>1, <2>1, <2>5, <2>9, QueuingStep
<1> QED
  BY <1>2, <1>3

\* One arm of a batch, lifted or skipped.
LEMMA BatchStep ==
  ASSUME IInv, BatchArm
  PROVE  IInv'
<1> DEFINE r == Lift(Requested, todo[1])
           written == LiftResult(todo[1], Lifted(todo[1].name), Requested, r.refinement)
<1>1. /\ stage = "work" /\ command = "batch" /\ todo # <<>> /\ queue = <<>> /\ todo' = Tail(todo)
      /\ UNCHANGED <<job, command, stage, infos, bundle, over, exit, before, files>>
  BY DEF BatchArm, Next1, Working
<1>2. PICK o : outcomes' = Append(outcomes, o)
  BY DEF BatchArm
<1>3. IsList(infos')
  BY <1>1 DEF IInv, ProgressInv, Lined
<1>4. CASE ~r.ok
  <2>1. UNCHANGED <<queue, ticks>>
    BY <1>4 DEF BatchArm
  <2>2. ProgressInv'
    BY <1>1, <1>2, <1>3, <2>1, Progressed
  <2> QED
    BY <1>1, <2>1, <2>2, QuietStep
<1>5. CASE r.ok
  <2>1. queue' = written /\ ticks' = ticks \cup {written[i] : i \in DOMAIN written}
    BY <1>5 DEF BatchArm
  <2>2. Lifted(todo[1].name)[1] # "bundle"
    BY DEF Lifted
  <2>3. Plain(written)
    BY <2>2, PlainResult
  <2> HIDE DEF written
  <2>4. QueueInv'
    BY <1>1, <2>1, <2>3, PlainQueued DEF IInv
  <2>5. ProgressInv'
    BY <1>1, <1>2, <1>3, <2>1, Progressed
  <2> QED
    BY <1>1, <2>4, <2>5, QueuingStep
<1> QED
  BY <1>4, <1>5

\* The one arm of a single run.
LEMMA SingleStep ==
  ASSUME IInv, SingleArm
  PROVE  IInv'
<1> DEFINE r == Lift(Requested, todo[1])
           written == LiftResult(todo[1], <<"output", <<>>>>, Requested, r.refinement)
<1>1. /\ stage = "work" /\ command = "single" /\ todo # <<>> /\ queue = <<>>
      /\ UNCHANGED <<job, command, bundle, over, before, files>>
  BY DEF SingleArm, Next1, Working
<1>2. files = before /\ ticks = {}
  BY <1>1 DEF IInv, UnwrittenInv, Untouched
<1>3. CASE ~(r.ok /\ (Has("descriptor") => r.refinement = "emitted"))
  <2>1. Ended("error") /\ UNCHANGED <<queue, ticks>>
    BY <1>3 DEF SingleArm
  <2> QED
    BY <1>1, <1>2, <2>1, FailStep
<1>4. CASE r.ok /\ (Has("descriptor") => r.refinement = "emitted")
  <2>1. /\ queue' = IF Has("output") THEN written ELSE <<>>
        /\ ticks' = {queue'[i] : i \in DOMAIN queue'}
        /\ infos' = IF r.transition.ok THEN <<[arm |-> todo[1], info |-> r.transition]>> ELSE <<>>
        /\ outcomes' = Append(outcomes, Outcome(todo[1], r.refinement, "none"))
        /\ todo' = <<>> /\ UNCHANGED <<stage, exit>>
    BY <1>4 DEF SingleArm
  <2>2. <<"output", <<>>>>[1] # "bundle"
    OBVIOUS
  <2>3. Plain(written)
    BY <2>2, PlainResult
  <2>4. Has("descriptor") => Outcome(todo[1], r.refinement, "none").status = "emitted"
    BY <1>4 DEF Outcome
  <2>5. IsList(infos')
    <3>1. \A x : IsList(<<x>>)
      <4> TAKE x
      <4>1. <<x>> \in Seq({x})
        OBVIOUS
      <4> QED
        BY <4>1, ListOf
    <3>2. IsList(<<>>)
      BY PlainNone DEF Plain
    <3> QED
      BY <2>1, <3>1, <3>2
  <2>6. Tail(todo) = <<>>
    <3>1. Work = <<job.one>> /\ Len(<<job.one>>) = 1
      BY <1>1 DEF Work
    <3>2. Lined
      BY <1>1 DEF IInv, ProgressInv
    <3>3. /\ Len(outcomes) \in Nat /\ Len(outcomes) + 1 <= 1
          /\ Tail(todo) = SubSeq(<<job.one>>, Len(outcomes) + 1 + 1, 1)
      BY <1>1, <3>1, <3>2, Advance
    <3>4. Len(outcomes) = 0
      BY <3>3
    <3>5. Tail(todo) = SubSeq(<<job.one>>, 2, 1)
      BY <3>3, <3>4
    <3>6. SubSeq(<<job.one>>, 2, 1) = <<>>
      OBVIOUS
    <3> QED
      BY <3>5, <3>6
  <2> HIDE DEF r, written
  <2>7. Plain(queue')
    BY <2>1, <2>3, PlainNone
  <2>8. QueueInv'
    BY <1>1, <2>1, <2>7, PlainQueued DEF IInv
  <2>9. ProgressInv'
    BY <1>1, <1>2, <2>1, <2>4, <2>5, <2>6, Progressed
  <2> QED
    BY <1>1, <2>1, <2>8, <2>9, QueuingStep
<1> QED
  BY <1>3, <1>4

\* Work and outcomes stay as they are.
LEMMA SameProgress ==
  ASSUME ProgressInv, ticks \subseteq ticks',
         UNCHANGED <<job, command, stage, todo, outcomes, infos, over, bundle>>
  PROVE  ProgressInv'
<1>1. Work' = Work /\ Has("descriptor")' = Has("descriptor")
  BY WorkKept
<1>2. Lined => Lined'
  BY <1>1 DEF Lined
<1>3. ASSUME NEW i, Told(i) PROVE Told(i)'
  BY <1>1, <1>3 DEF Told, OverBudget
<1> QED
  BY <1>1, <1>2, <1>3 DEF ProgressInv

\* The prefix and the suffixes of --cpi-suffix.
LEMMA CpiWriteStep ==
  ASSUME IInv, CpiWrite
  PROVE  IInv'
<1>1. /\ stage = "work" /\ command = "cpi" /\ todo = <<>> /\ queue = <<>> /\ ticks = {}
      /\ queue' = CpiFiles /\ ticks' = {CpiFiles[i] : i \in DOMAIN CpiFiles}
      /\ UNCHANGED <<job, command, stage, todo, outcomes, infos, bundle, over, exit, before, files>>
  BY DEF CpiWrite, Done, Working
<1> DEFINE a == <<Entry(<<"module", <<>>>>, Text(job.one, {}))>>
           x == job.args.suffixes
           F(i) == Entry(<<"module", x[i].name>>, Text(x[i], {<<"module", <<>>>>}))
           b == [i \in DOMAIN x |-> F(i)]
<1>2. Plain(a)
  BY PlainOne
<1>3. Plain(b)
  <2>1. x \in Seq(Range(x))
    BY DEF IInv, StageInv, IsList
  <2>2. \A i : F(i).file[1] # "bundle"
    BY DEF Entry
  <2> HIDE DEF x, F
  <2>3. Len(x) \in Nat /\ DOMAIN x = 1 .. Len(x)
    BY <2>1
  <2>4. b \in Seq({F(i) : i \in DOMAIN x})
    BY <2>3
  <2>5. IsList(b)
    BY <2>4, ListOf
  <2> QED
    BY <2>2, <2>5 DEF Plain
<1>4. CpiFiles = a \o b
  BY DEF CpiFiles
<1> HIDE DEF a, b
<1>5. Plain(CpiFiles)
  BY <1>2, <1>3, <1>4, PlainJoined
<1>6. QueueInv'
  BY <1>1, <1>5, PlainQueued DEF IInv
<1>7. ProgressInv'
  BY <1>1, SameProgress DEF IInv
<1> QED
  BY <1>1, <1>6, <1>7, QueuingStep

\* The path files, then the bundle that imports exactly these.
LEMMA BundleFiles ==
  ASSUME IsList(infos)
  PROVE  /\ IsList(TransitionFiles)
         /\ \A i \in DOMAIN TransitionFiles : TransitionFiles[i].file[1] = "bundle" =>
              TransitionFiles[i].content.imports \subseteq {TransitionFiles[j].file : j \in 1 .. i - 1}
         /\ \A k \in DOMAIN infos : \E i \in DOMAIN TransitionFiles :
              TransitionFiles[i].content.arm = infos[k].arm.name
<1> DEFINE F(i) == Entry(Lifted(infos[i].arm.name), Text(infos[i].arm, {}))
           all == {Lifted(infos[i].arm.name) : i \in DOMAIN infos}
           last == Entry(<<"bundle", PascalCase(job.stem)>>,
                         [run |-> number, arm |-> job.stem, imports |-> all])
           a == [i \in DOMAIN infos |-> F(i)]
           b == <<last>>
           q == TransitionFiles
           n == Len(infos)
<1>1. n \in Nat /\ DOMAIN infos = 1 .. n
  BY ListOf DEF IsList
<1>2. q = a \o b
  BY DEF TransitionFiles
<1>3. last.content.imports = all
  BY DEF Entry
<1>4. \A i : /\ F(i).file = Lifted(infos[i].arm.name) /\ F(i).file[1] # "bundle"
             /\ F(i).content.arm = infos[i].arm.name
  BY DEF Entry, Lifted, Text
<1> HIDE DEF F, last, n, q
<1>5. a \in Seq({F(i) : i \in DOMAIN infos}) /\ Len(a) = n
  BY <1>1
<1>6. b \in Seq({last}) /\ Len(b) = 1 /\ b[1] = last
  OBVIOUS
<1>7. IsList(a) /\ IsList(b)
  BY <1>5, <1>6, ListOf
<1>8. \A i \in 1 .. n : a[i] = F(i)
  BY <1>1
<1> HIDE DEF a, b
<1>9. /\ IsList(q) /\ DOMAIN q = 1 .. n + 1 /\ q[n + 1] = last
      /\ \A i \in 1 .. n : q[i] = F(i)
  <2>1. /\ IsList(q) /\ DOMAIN q = 1 .. n + 1
        /\ \A i \in 1 .. n : q[i] = a[i]
        /\ \A i \in 1 .. 1 : q[n + i] = b[i]
    <3> DEFINE c == a \o b
    <3>1. /\ IsList(c) /\ DOMAIN c = 1 .. Len(a) + Len(b)
          /\ \A i \in 1 .. Len(a) : c[i] = a[i]
          /\ \A i \in 1 .. Len(b) : c[Len(a) + i] = b[i]
      BY <1>7, Joined
    <3> HIDE DEF c
    <3>2. q = c /\ Len(a) = n /\ Len(b) = 1
      BY <1>2, <1>5, <1>6 DEF c
    <3> QED
      BY <3>1, <3>2
  <2> QED
    BY <1>6, <1>8, <2>1
<1>10. ASSUME NEW i \in DOMAIN q, q[i].file[1] = "bundle"
       PROVE  q[i].content.imports \subseteq {q[j].file : j \in 1 .. i - 1}
  <2>1. i = n + 1 /\ i - 1 = n
    BY <1>1, <1>4, <1>9, <1>10
  <2>2. q[i].content.imports = all
    BY <1>3, <1>9, <2>1
  <2>3. ASSUME NEW j \in DOMAIN infos PROVE Lifted(infos[j].arm.name) = q[j].file /\ j \in 1 .. i - 1
    BY <1>1, <1>4, <1>9, <2>1, <2>3
  <2> QED
    BY <2>2, <2>3
<1>11. ASSUME NEW k \in DOMAIN infos
       PROVE  \E i \in DOMAIN q : q[i].content.arm = infos[k].arm.name
  <2>1. k \in DOMAIN q /\ q[k].content.arm = infos[k].arm.name
    BY <1>1, <1>4, <1>9
  <2> QED
    BY <2>1
<1> QED
  BY <1>9, <1>10, <1>11 DEF q

\* The bundle of --transition, or a refusal before anything is written.
LEMMA BundleStep ==
  ASSUME IInv, TransitionBundle
  PROVE  IInv'
<1> DEFINE b == Bundle([i \in DOMAIN infos |-> infos[i].info])
<1>1. /\ stage = "work" /\ command = "transition" /\ todo = <<>> /\ queue = <<>> /\ bundle = <<>>
      /\ UNCHANGED <<job, command, todo, outcomes, infos, over, before, files>>
  BY DEF TransitionBundle, Done, Working
<1>2. files = before /\ ticks = {}
  BY <1>1 DEF IInv, UnwrittenInv, Untouched
<1>3. CASE ~(AllEmitted /\ b.ok)
  <2>1. Ended("error") /\ UNCHANGED <<queue, ticks>>
    BY <1>3 DEF TransitionBundle
  <2> QED
    BY <1>1, <1>2, <2>1, FailStep
<1>4. CASE AllEmitted /\ b.ok
  <2>1. /\ bundle' = <<b>> /\ queue' = TransitionFiles
        /\ ticks' = {TransitionFiles[i] : i \in DOMAIN TransitionFiles}
        /\ UNCHANGED <<stage, exit>>
    BY <1>4 DEF TransitionBundle
  <2>2. bundle' # <<>>
    BY <2>1
  <2> HIDE DEF b
  <2>3. Lined /\ \A i \in DOMAIN outcomes : Told(i)
    BY <1>1 DEF IInv, ProgressInv
  <2>4. IsList(infos) /\ DOMAIN outcomes = DOMAIN Work
    BY <1>1, <2>3, AllDone DEF Lined
  <2>5. QueueInv'
    <3>1. IsList(queue') /\ \A i \in DOMAIN queue' : Backed(i)'
      BY <2>1, <2>4, BundleFiles DEF Backed
    <3> QED
      BY <1>1, <2>1, <3>1, Queued DEF IInv
  <2>6. Work' = Work /\ Has("descriptor")' = Has("descriptor")
    BY <1>1, WorkKept
  <2>7. Lined'
    BY <1>1, <2>3, <2>6 DEF Lined
  <2>8. \A i \in DOMAIN outcomes' : Told(i)'
    BY <1>1, <2>3, <2>6 DEF Told
  <2>9. ASSUME NEW i \in DOMAIN Work PROVE \E t \in ticks' : t.content.arm = Work[i].name
    <3>1. PICK k \in DOMAIN infos : infos[k].arm.name = Work[i].name
      BY <1>1, <1>4, <2>3, <2>4 DEF Told, AllEmitted
    <3>2. PICK j \in DOMAIN TransitionFiles : TransitionFiles[j].content.arm = infos[k].arm.name
      BY <2>4, BundleFiles
    <3> QED
      BY <2>1, <3>1, <3>2
  <2>10. ProgressInv'
    BY <2>6, <2>7, <2>8, <2>9 DEF ProgressInv
  <2> QED
    BY <1>1, <2>1, <2>2, <2>5, <2>10, QueuingStep
<1> QED
  BY <1>3, <1>4

\* One module reaches the directory.
LEMMA WriteStep ==
  ASSUME IInv, Write
  PROVE  IInv'
<1> DEFINE e == queue[1]
           n == Len(queue)
<1>1. /\ stage = "work" /\ queue # <<>> /\ queue' = Tail(queue)
      /\ files' = [f \in DOMAIN files \cup {e.file} |-> IF f = e.file THEN e.content ELSE files[f]]
      /\ UNCHANGED <<job, command, stage, todo, outcomes, infos, bundle, ticks, over, exit, before>>
  BY DEF Write, Put
<1>2. /\ DOMAIN files' = DOMAIN files \cup {e.file} /\ files'[e.file] = e.content
      /\ \A f \in DOMAIN files : f # e.file => files'[f] = files[f]
  BY <1>1
<1>3. exit = "none" /\ StageInv'
  BY <1>1 DEF IInv, StageInv
<1>4. UnwrittenInv'
  BY <1>1 DEF IInv, UnwrittenInv, Untouched
<1>5. ProgressInv'
  BY <1>1, SameProgress DEF IInv
<1>6. queue \in Seq(ticks)
  BY <1>1 DEF IInv, QueueInv
<1>7. /\ n \in Nat /\ n >= 1 /\ DOMAIN queue = 1 .. n /\ e \in ticks
      /\ queue' \in Seq(ticks') /\ DOMAIN queue' = 1 .. n - 1
      /\ \A i \in 1 .. n - 1 : queue'[i] = queue[i + 1]
  BY <1>1, <1>6
<1> HIDE DEF e, n
<1>8. ASSUME NEW t \in ticks'
      PROVE  (\E i \in DOMAIN queue' : queue'[i] = t) \/ Landed(t)'
  <2>1. CASE t = e
    BY <1>1, <1>2, <1>8, <2>1 DEF Landed
  <2>2. CASE \E i \in DOMAIN queue : queue[i] = t /\ t # e
    <3>1. PICK i \in DOMAIN queue : queue[i] = t /\ t # e
      BY <2>2
    <3>2. i - 1 \in DOMAIN queue' /\ queue'[i - 1] = t
      BY <1>7, <3>1 DEF e
    <3> QED
      BY <3>2
  <2>3. CASE Landed(t)
    <3>1. CASE t.file = e.file
      BY <1>1, <1>2, <1>7, <2>3, <3>1 DEF Landed
    <3>2. CASE t.file # e.file
      BY <1>1, <1>2, <2>3, <3>2 DEF Landed
    <3> QED
      BY <3>1, <3>2
  <2>4. (\E i \in DOMAIN queue : queue[i] = t) \/ Landed(t)
    BY <1>1, <1>8 DEF IInv, QueueInv
  <2> QED
    BY <2>1, <2>2, <2>3, <2>4
<1>9. ASSUME NEW i \in DOMAIN queue', queue'[i].file[1] = "bundle"
      PROVE  queue'[i].content.imports \subseteq DOMAIN files' \cup {queue'[j].file : j \in 1 .. i - 1}
  <2>1. i \in Nat /\ i >= 1 /\ i + 1 \in DOMAIN queue /\ queue'[i] = queue[i + 1] /\ i <= n - 1
    BY <1>7, <1>9
  <2>2. Backed(i + 1)
    BY <1>1, <2>1 DEF IInv, QueueInv
  <2>3. i + 1 - 1 = i
    BY <2>1
  <2>4. queue'[i].content.imports \subseteq DOMAIN files \cup {queue[j].file : j \in 1 .. i}
    BY <1>9, <2>1, <2>2, <2>3 DEF Backed
  <2>5. ASSUME NEW j \in 1 .. i
        PROVE  queue[j].file \in DOMAIN files' \cup {queue'[k].file : k \in 1 .. i - 1}
    <3>1. CASE j = 1
      BY <1>2, <3>1 DEF e
    <3>2. CASE j # 1
      <4>1. j - 1 \in 1 .. i - 1 /\ j - 1 \in 1 .. n - 1 /\ j - 1 + 1 = j
        BY <1>7, <2>1, <2>5, <3>2
      <4>2. queue'[j - 1] = queue[j]
        BY <1>7, <4>1
      <4> QED
        BY <4>1, <4>2
    <3> QED
      BY <3>1, <3>2
  <2> QED
    BY <1>2, <2>4, <2>5
<1>10. QueueInv'
  BY <1>7, <1>8, <1>9 DEF QueueInv, Backed
<1>11. ASSUME NEW f \in DOMAIN files', f[1] = "bundle"
       PROVE  files'[f].imports \subseteq DOMAIN files'
  <2>1. CASE f = e.file
    <3>1. Backed(1)
      BY <1>1, <1>7 DEF IInv, QueueInv
    <3>2. {queue[j].file : j \in 1 .. 1 - 1} = {}
      OBVIOUS
    <3>3. e.content.imports \subseteq DOMAIN files
      BY <1>11, <2>1, <3>1, <3>2 DEF Backed, e
    <3> QED
      BY <1>2, <2>1, <3>3
  <2>2. CASE f # e.file
    <3>1. f \in DOMAIN files /\ files'[f] = files[f]
      BY <1>2, <1>11, <2>2
    <3>2. files[f].imports \subseteq DOMAIN files
      BY <1>11, <3>1 DEF IInv, DirectoryIsCoherent
    <3> QED
      BY <1>2, <3>1, <3>2
  <2> QED
    BY <2>1, <2>2
<1>12. SuccessIsHonest' /\ DirectoryIsCoherent'
  BY <1>1, <1>3, <1>11 DEF SuccessIsHonest, DirectoryIsCoherent
<1> QED
  BY <1>3, <1>4, <1>5, <1>10, <1>12 DEF IInv

-----------------------------------------------------------------------------
(* The theorems.                                                               *)

\* Every step of every invocation, however it ends.
LEMMA StepInv ==
  ASSUME IInv, [Next]_vars
  PROVE  IInv'
<1>1. CASE UNCHANGED vars
  <2>1. UNCHANGED <<job, command, stage, todo, outcomes, infos, bundle, queue, ticks, over, hook,
                    exit, before, files>>
    BY <1>1 DEF vars
  <2>2. ProgressInv'
    BY <2>1, SameProgress DEF IInv
  <2>3. StageInv' /\ UnwrittenInv' /\ (stage' # "ended" => QueueInv')
    BY <2>1 DEF IInv, StageInv, UnwrittenInv, QueueInv, Untouched, Landed, Backed
  <2>4. Discovered' = Discovered /\ Selected' = Selected /\ Has("descriptor")' = Has("descriptor")
    BY <2>1, WorkKept
  <2>5. SuccessIsHonest' /\ DirectoryIsCoherent'
    BY <2>1, <2>4 DEF IInv, SuccessIsHonest, DirectoryIsCoherent
  <2> QED
    BY <2>2, <2>3, <2>5 DEF IInv
<1>2. CASE Next
  BY <1>2, AgainStep, ParseStep, LoadStep, PathStep, BundleStep, MetaStep, BatchStep, SingleStep,
     CpiLiftStep, CpiWriteStep, AttemptStep, EndSteps, WriteStep, CrashStep DEF Next, Step
<1> QED
  BY <1>1, <1>2

\* The invariant of the command, for every set of invocations on one directory.
THEOREM Invariance == Spec => []IInv
<1>1. IInv /\ [Next]_vars => IInv'
  BY StepInv
<1> QED
  BY InitInv, <1>1, PTL DEF Spec

\* A success is honest: whatever was reported as written is there, every
\* discovered trace is covered, no arm exceeds its budget.
THEOREM SuccessHonest == Spec => []SuccessIsHonest
<1>1. IInv => SuccessIsHonest
  BY DEF IInv
<1> QED
  BY Invariance, <1>1, PTL

\* No crash, refusal or rerun leaves a bundle without the modules it imports, and
\* a refused run leaves the directory as it was.
THEOREM DirectoryCoherent == Spec => []DirectoryIsCoherent
<1>1. IInv => DirectoryIsCoherent
  BY DEF IInv
<1> QED
  BY Invariance, <1>1, PTL

-----------------------------------------------------------------------------
(* The corollaries and the bundle.                                             *)

\* A stated corollary is closed, and says of the fields what the path left.
Sound(x) ==
  /\ Closed(x.info)
  /\ x.info.kind.end = "return" => \A j \in DOMAIN x.info.post : TrueOf(x.info.post[j], Left(x.arm.path))

\* All of them are; a bundle is over all of them.
CorollaryInv ==
  /\ IsList(infos) /\ \A i \in DOMAIN infos : Sound(infos[i])
  /\ bundle # <<>> =>
       /\ bundle = <<Bundle([i \in DOMAIN infos |-> infos[i].info])>> /\ bundle[1].ok
       /\ command = "transition" /\ todo = <<>>

\* The corollary a lift states.
LEMMA LiftSound ==
  ASSUME NEW req, NEW arm, Liftable(arm.path), Described(job.desc), req.desc \in {<<>>, <<job.desc>>},
         Lift(req, arm).ok, Lift(req, arm).transition.ok
  PROVE  Sound([arm |-> arm, info |-> Lift(req, arm).transition])
<1> DEFINE r == Lift(req, arm)
           c == r.transition
           q == Corollary(job.desc, arm.path, req.traced)
<1>1. ~Unwired.ok /\ \A k : ~Refused(k).ok
  BY DEF Unwired, Unsupported, Refused
<1>2. r = [ok |-> TRUE, kind |-> "none", cu |-> arm.cu, refinement |-> RefinementOutcome(req, arm),
           transition |-> IF req.desc = <<>> THEN Unwired ELSE Corollary(req.desc[1], arm.path, req.traced)]
  <2> DEFINE full == [ok |-> TRUE, kind |-> "none", cu |-> arm.cu, refinement |-> RefinementOutcome(req, arm),
                      transition |-> IF req.desc = <<>> THEN Unwired
                                     ELSE Corollary(req.desc[1], arm.path, req.traced)]
  <2>1. (\E k : r = Refused(k)) \/ r = full
    BY Zenon DEF Lift
  <2>2. r.ok
    OBVIOUS
  <2> HIDE DEF full, r
  <2>3. r = full
    BY <1>1, <2>1, <2>2
  <2> QED
    BY <2>3 DEF full
<1>3. c = IF req.desc = <<>> THEN Unwired ELSE Corollary(req.desc[1], arm.path, req.traced)
  <2> HIDE DEF r
  <2> QED
    BY <1>2, Zenon
<1>4. c.ok
  OBVIOUS
<1> HIDE DEF c
<1>5. req.desc # <<>>
  BY <1>1, <1>3, <1>4
<1>6. req.desc = <<job.desc>> /\ req.desc[1] = job.desc
  BY <1>5
<1>7. c = q
  BY <1>3, <1>5, <1>6
<1>8. /\ Closed(c)
      /\ c.kind.end = "return" => \A j \in DOMAIN c.post : TrueOf(c.post[j], Left(arm.path))
  BY <1>4, <1>7, CorollaryClosed
<1> DEFINE x == [arm |-> arm, info |-> c]
<1>9. x.arm = arm /\ x.info = c
  OBVIOUS
<1> HIDE DEF x
<1>10. Sound(x)
  BY <1>8, <1>9 DEF Sound
<1> QED
  BY <1>10 DEF x, c

\* A step that states nothing.
LEMMA QuietCorollaries ==
  ASSUME CorollaryInv, infos' = infos, bundle' = bundle,
         bundle = <<>> \/ (command' = command /\ todo' = todo)
  PROVE  CorollaryInv'
  BY DEF CorollaryInv

\* One more path of a transition.
LEMMA PathCorollary ==
  ASSUME IInv, CorollaryInv, TransitionPath
  PROVE  CorollaryInv'
<1> DEFINE arm == todo[1]
           r == PathResult(arm)
           x == [arm |-> arm, info |-> r]
<1>1. /\ stage = "work" /\ command = "transition" /\ todo # <<>> /\ job \in Jobs \cup Reruns
      /\ bundle' = bundle /\ infos' = IF r.ok THEN Append(infos, x) ELSE infos
  BY DEF TransitionPath, Next1, Working, IInv, StageInv
<1>2. bundle = <<>> /\ bundle' = <<>>
  BY <1>1 DEF CorollaryInv
<1>3. ASSUME r.ok PROVE Sound(x)
  <2>1. Liftable(arm.path) /\ Described(job.desc)
    <3>1. Lined
      BY <1>1 DEF IInv, ProgressInv
    <3>2. PICK k \in DOMAIN Work : arm = Work[k]
      BY <1>1, <3>1, Advance
    <3>3. Work = Traces(job)
      BY <1>1 DEF Work, Discovered
    <3> HIDE DEF arm
    <3> QED
      BY <1>1, <3>2, <3>3, PathAssumption DEF Described
  <2>2. Requested.desc \in {<<>>, <<job.desc>>}
    <3>1. Requested = [Request EXCEPT !.desc = <<job.desc>>, !.traced = TRUE]
      BY <1>1, Zenon DEF Requested
    <3>2. Requested.desc = <<job.desc>>
      BY <3>1 DEF Request
    <3> QED
      BY <3>2
  <2> DEFINE l == Lift(Requested, arm)
             t == l.transition
  <2>3. r = IF ~arm.trace THEN Unsupported("TraceUnreadable")
            ELSE IF ~l.ok THEN Unsupported("LiftFailed")
            ELSE IF ~t.ok THEN t
            ELSE IF t.kind.end = "return" /\ t.kind.code = "sym" THEN Unsupported("SymbolicExitCode")
            ELSE t
    BY Zenon DEF PathResult, PathVerdict
  <2>4. \A w : ~Unsupported(w).ok
    BY DEF Unsupported
  <2>5. r.ok
    BY <1>3
  <2> HIDE DEF r, l, t, arm
  <2>6. r = t /\ l.ok /\ t.ok
    BY <2>3, <2>4, <2>5
  <2>7. Sound([arm |-> arm, info |-> t])
    BY <2>1, <2>2, <2>6, LiftSound DEF l, t
  <2> QED
    BY <2>6, <2>7
<1> HIDE DEF r, x
<1>4. CASE r.ok
  <2>1. infos' = Append(infos, x) /\ Sound(x) /\ IsList(infos)
    BY <1>1, <1>3, <1>4 DEF CorollaryInv
  <2>2. /\ IsList(infos') /\ DOMAIN infos = 1 .. Len(infos) /\ DOMAIN infos' = 1 .. Len(infos) + 1
        /\ Len(infos) \in Nat /\ \A i \in 1 .. Len(infos) : infos'[i] = infos[i]
        /\ infos'[Len(infos) + 1] = x
    BY <2>1, AppendList
  <2>3. ASSUME NEW i \in DOMAIN infos' PROVE Sound(infos'[i])
    <3>1. CASE i = Len(infos) + 1
      BY <2>1, <2>2, <3>1
    <3>2. CASE i # Len(infos) + 1
      <4>1. i \in DOMAIN infos /\ infos'[i] = infos[i]
        BY <2>2, <3>2
      <4> QED
        BY <4>1 DEF CorollaryInv
    <3> QED
      BY <3>1, <3>2
  <2> QED
    BY <1>2, <2>2, <2>3 DEF CorollaryInv
<1>5. CASE ~r.ok
  BY <1>1, <1>2, <1>5 DEF CorollaryInv
<1> QED
  BY <1>4, <1>5

\* The single mode.
LEMMA SingleCorollary ==
  ASSUME IInv, CorollaryInv, SingleArm
  PROVE  CorollaryInv'
<1> DEFINE arm == todo[1]
           r == Lift(Requested, arm)
           t == r.transition
           x == [arm |-> arm, info |-> t]
<1>1. /\ stage = "work" /\ command = "single" /\ todo # <<>> /\ job \in Jobs \cup Reruns
      /\ bundle' = bundle
      /\ (r.ok /\ infos' = IF t.ok THEN <<x>> ELSE <<>>) \/ infos' = infos
  BY DEF SingleArm, Next1, Working, IInv, StageInv
<1>2. bundle = <<>> /\ bundle' = <<>>
  BY <1>1 DEF CorollaryInv
<1>3. CASE infos' = infos
  BY <1>2, <1>3 DEF CorollaryInv
<1>4. CASE r.ok /\ infos' = IF t.ok THEN <<x>> ELSE <<>>
  <2>1. Liftable(arm.path) /\ Described(job.desc)
    <3>1. Lined
      BY <1>1 DEF IInv, ProgressInv
    <3>2. PICK k \in DOMAIN Work : arm = Work[k]
      BY <1>1, <3>1, Advance
    <3>3. Work = <<job.one>>
      BY <1>1 DEF Work
    <3> HIDE DEF arm
    <3>4. arm = job.one
      BY <3>2, <3>3
    <3> QED
      BY <1>1, <3>4, PathAssumption DEF Described
  <2>2. Requested.desc \in {<<>>, <<job.desc>>}
    <3> DEFINE d == IF Has("descriptor") THEN <<job.desc>> ELSE <<>>
    <3>1. Requested = [Request EXCEPT !.desc = d, !.module = job.args.module, !.shared = job.args.shared,
                                      !.armName = Has("armName"), !.traced = Has("trace")]
      BY <1>1, Zenon DEF Requested
    <3>2. d \in {<<>>, <<job.desc>>}
      OBVIOUS
    <3> HIDE DEF d
    <3>3. Requested.desc = d
      BY <3>1 DEF Request
    <3> QED
      BY <3>2, <3>3
  <2>3. CASE t.ok
    <3>1. Sound(x) /\ infos' = <<x>>
      BY <1>4, <2>1, <2>2, <2>3, LiftSound
    <3> HIDE DEF x
    <3>2. infos' \in Seq({x}) /\ \A i \in DOMAIN infos' : infos'[i] = x
      BY <3>1
    <3>3. IsList(infos')
      BY <3>2, ListOf
    <3> QED
      BY <1>2, <3>1, <3>2, <3>3 DEF CorollaryInv
  <2>4. CASE ~t.ok
    <3>1. infos' = <<>>
      BY <1>4, <2>4
    <3>2. infos' \in Seq({}) /\ DOMAIN infos' = {}
      BY <3>1
    <3>3. IsList(infos')
      BY <3>2, ListOf
    <3> QED
      BY <1>2, <3>2, <3>3 DEF CorollaryInv
  <2> QED
    BY <2>3, <2>4
<1> QED
  BY <1>1, <1>3, <1>4

\* The bundle is stated over the corollaries of all paths.
LEMMA BundleCorollary ==
  ASSUME IInv, CorollaryInv, TransitionBundle
  PROVE  CorollaryInv'
<1> DEFINE cs == [i \in DOMAIN infos |-> infos[i].info]
           b == Bundle(cs)
<1>1. /\ command = "transition" /\ todo = <<>> /\ command' = command /\ todo' = todo /\ infos' = infos
      /\ bundle = <<>> /\ ((b.ok /\ bundle' = <<b>>) \/ bundle' = bundle)
  BY DEF TransitionBundle, Done, Working
<1>2. CASE bundle' = bundle
  BY <1>1, <1>2, QuietCorollaries
<1>3. CASE b.ok /\ bundle' = <<b>>
  <2> HIDE DEF b
  <2>1. bundle'[1] = b /\ bundle'[1].ok
    BY <1>3
  <2>2. bundle' = <<Bundle([i \in DOMAIN infos' |-> infos'[i].info])>>
    BY <1>1, <1>3 DEF b
  <2> QED
    BY <1>1, <2>1, <2>2 DEF CorollaryInv
<1> QED
  BY <1>1, <1>2, <1>3

\* Every step.
LEMMA CorollaryStep ==
  ASSUME IInv, CorollaryInv, [Next]_vars
  PROVE  CorollaryInv'
<1>1. command # "transition" => bundle = <<>>
  BY DEF CorollaryInv
<1>2. stage \in {"parse", "load"} => bundle = <<>>
  BY DEF IInv, StageInv
<1>3. CASE UNCHANGED vars
  BY <1>3, QuietCorollaries DEF vars
<1>4. CASE Again
  <2>1. infos' = <<>> /\ bundle' = <<>>
    BY <1>4 DEF Again, Fresh
  <2>2. infos' \in Seq({}) /\ DOMAIN infos' = {}
    BY <2>1
  <2>3. IsList(infos')
    BY <2>2, ListOf
  <2> QED
    BY <2>1, <2>2, <2>3 DEF CorollaryInv
<1>5. CASE ParseArgs \/ Load
  BY <1>2, <1>5, QuietCorollaries DEF ParseArgs, Load
<1>6. CASE TransitionPath
  BY <1>6, PathCorollary
<1>7. CASE TransitionBundle
  BY <1>7, BundleCorollary
<1>8. CASE SingleArm
  BY <1>8, SingleCorollary
<1>9. CASE TransitionEnd \/ MetaEnd \/ BatchEnd \/ SingleEnd \/ CpiEnd \/ Report \/ Profile
             \/ Write \/ WriteFails \/ Panic \/ Kill
  BY <1>9, QuietCorollaries DEF TransitionEnd, MetaEnd, BatchEnd, SingleEnd, CpiEnd, Report, Profile,
     Write, WriteFails, Panic, Kill
<1>10. CASE MetaArm \/ BatchArm \/ CpiLift \/ CpiWrite \/ Attempt
  <2>1. command # "transition" /\ infos' = infos /\ bundle' = bundle
    BY <1>10 DEF MetaArm, BatchArm, CpiLift, CpiWrite, Attempt, Next1, Done, Working
  <2> QED
    BY <1>1, <2>1, QuietCorollaries
<1> QED
  BY <1>3, <1>4, <1>5, <1>6, <1>7, <1>8, <1>9, <1>10 DEF Next, Step

\* The invariant of the corollaries, with the command's own.
THEOREM Corollaries == Spec => [](IInv /\ CorollaryInv)
<1>1. Init => CorollaryInv
  <2> SUFFICES ASSUME Init PROVE CorollaryInv
    OBVIOUS
  <2>1. infos = <<>> /\ bundle = <<>>
    BY DEF Init
  <2>2. infos \in Seq({}) /\ DOMAIN infos = {}
    BY <2>1
  <2>3. IsList(infos)
    BY <2>2, ListOf
  <2> QED
    BY <2>1, <2>2, <2>3 DEF CorollaryInv
<1>2. IInv /\ CorollaryInv /\ [Next]_vars => CorollaryInv'
  BY CorollaryStep
<1> QED
  BY Invariance, <1>1, <1>2, PTL DEF Spec

\* What a corollary says of a 64-bit field or a limb of a public key after the path
\* is what the lifted path left in that cell: no write to a tracked field of the
\* account goes unmentioned.
THEOREM AfterTrue == Spec => []AfterIsTrue
<1>1. CorollaryInv => AfterIsTrue
  <2> SUFFICES ASSUME CorollaryInv, NEW i \in DOMAIN infos, infos[i].info.kind.end = "return",
                      NEW j \in DOMAIN infos[i].info.post, ~infos[i].info.post[j].byte
               PROVE  LET c == infos[i].info
                          cells == Held(CleanBalanceShifts(infos[i].arm.path.post, TRUE).post,
                                        c.post[j].base, c.post[j].off, Dword)
                      IN  cells # <<>> => cells[1].value = c.post[j].value
    BY Zenon DEF AfterIsTrue
  <2>1. Sound(infos[i])
    BY DEF CorollaryInv
  <2>2. TrueOf(infos[i].info.post[j], Left(infos[i].arm.path))
    BY <2>1 DEF Sound
  <2> QED
    BY <2>2, Zenon DEF TrueOf, Left
<1> QED
  BY Corollaries, <1>1, PTL

\* The bundle theorem applies each path's corollary to binders it has: every value
\* it hands over is bound, and every hypothesis it hands over says of those values
\* what the corollary asks for.
THEOREM BundleSound == Spec => []BundleAppliesEveryPath
<1>1. CorollaryInv => BundleAppliesEveryPath
  <2> SUFFICES ASSUME CorollaryInv, bundle # <<>> PROVE BundleAppliesEveryPath
    BY Zenon DEF BundleAppliesEveryPath
  <2> DEFINE cs == [i \in DOMAIN infos |-> infos[i].info]
             b == Bundle(cs)
  <2>1. bundle = <<b>> /\ bundle[1].ok /\ IsList(infos) /\ \A i \in DOMAIN infos : Sound(infos[i])
    BY DEF CorollaryInv
  <2>2. DOMAIN cs = DOMAIN infos /\ \A i \in DOMAIN infos : cs[i] = infos[i].info
    OBVIOUS
  <2>3. cs = [i \in DOMAIN cs |-> cs[i]]
    OBVIOUS
  <2> HIDE DEF cs, b
  <2>4. bundle[1] = b /\ b.ok
    BY <2>1
  <2>5. IsList(cs)
    BY <2>1, <2>2, <2>3, MappedList
  <2>6. \A i \in DOMAIN cs : Closed(cs[i])
    BY <2>1, <2>2 DEF Sound
  <2>7. \A i \in DOMAIN cs : Applied(cs[i].items, b, b.args[i])
    BY <2>4, <2>5, <2>6, BundleApplies DEF b
  <2>8. \A i \in DOMAIN infos : Applied(infos[i].info.items, bundle[1], bundle[1].args[i])
    BY <2>2, <2>4, <2>7
  <2> QED
    BY <2>8, Zenon DEF BundleAppliesEveryPath, Applied
<1> QED
  BY Corollaries, <1>1, PTL
=============================================================================
