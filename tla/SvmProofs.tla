------------------------------ MODULE SvmProofs ------------------------------
(* The host's answer, for every program, submission and value of the           *)
(* constants.                                                                  *)
EXTENDS Svm, CpiRunnerProofs

USE HostAssumption, LengthAssumption, RentAssumption, MeterAssumption, AccountsAssumption

-----------------------------------------------------------------------------
(* The operators of the host and of the account rules.                         *)

\* The smaller of two lengths.
LEMMA MinOfTwo ==
  ASSUME NEW x \in Nat, NEW y \in Nat
  PROVE  Min({x, y}) = IF x <= y THEN x ELSE y
<1> DEFINE m == IF x <= y THEN x ELSE y
<1>1. m \in {x, y} /\ \A z \in {x, y} : m <= z
  OBVIOUS
<1>2. ASSUME NEW n \in {x, y}, \A z \in {x, y} : n <= z
      PROVE  n = m
  BY <1>2
<1> HIDE DEF m
<1>3. Min({x, y}) = CHOOSE n \in {x, y} : \A z \in {x, y} : n <= z
  BY DEF Min
<1> QED
  BY <1>1, <1>2, <1>3 DEF m

\* What is read back of an account: its length, cut to the room of its record.
LEMMA ReadBackFields ==
  ASSUME NEW k \in Keys, NEW acct \in Content
  PROVE  /\ ReadBack(k, acct) \in Content
         /\ HeldLen(k, acct) \in Nat /\ HeldLen(k, acct) <= Entry[k].len + MaxIncrease
         /\ HeldLen(k, acct) <= acct.len
         /\ acct.len <= Entry[k].len + MaxIncrease => HeldLen(k, acct) = acct.len
         /\ ReadBack(k, acct).len = HeldLen(k, acct)
         /\ ReadBack(k, acct).lamports = acct.lamports
         /\ ReadBack(k, acct).data = acct.data
         /\ ReadBack(k, acct).owner = acct.owner
<1>1. acct.len \in Nat /\ Entry[k].len \in Nat /\ Entry[k].len + MaxIncrease \in Nat
  BY DEF Content
<1>2. HeldLen(k, acct) = IF acct.len <= Entry[k].len + MaxIncrease
                         THEN acct.len ELSE Entry[k].len + MaxIncrease
  BY <1>1, MinOfTwo DEF HeldLen
<1>3. /\ HeldLen(k, acct) \in Nat /\ HeldLen(k, acct) <= Entry[k].len + MaxIncrease
      /\ HeldLen(k, acct) <= acct.len
      /\ acct.len <= Entry[k].len + MaxIncrease => HeldLen(k, acct) = acct.len
  BY <1>1, <1>2
<1>4. ReadBack(k, acct) \in Content
  BY <1>3, Fields DEF ReadBack
<1>5. /\ ReadBack(k, acct).len = HeldLen(k, acct) /\ ReadBack(k, acct).lamports = acct.lamports
      /\ ReadBack(k, acct).data = acct.data /\ ReadBack(k, acct).owner = acct.owner
  BY DEF ReadBack, Content
<1> QED
  BY <1>3, <1>4, <1>5

\* An account that no completed CPI has touched is read back as it was supplied.
LEMMA EntryReadBack ==
  ASSUME NEW k \in Keys
  PROVE  ReadBack(k, Entry[k]) = Entry[k]
<1>1. Entry[k] \in Content
  OBVIOUS
<1>2. Entry[k].len \in Nat /\ Entry[k].len <= Entry[k].len + MaxIncrease
  BY <1>1 DEF Content
<1>3. HeldLen(k, Entry[k]) = Entry[k].len
  BY <1>1, <1>2, ReadBackFields
<1> QED
  BY <1>1, <1>3 DEF ReadBack, Content

\* c is the change at some reference to k, as far as its states go.
StatesOf(refs, k, c) ==
  \E j \in DOMAIN refs :
    /\ refs[j].key = k
    /\ c.entry = refs[j].entry /\ c.pre = refs[j].pre
    /\ c.post = refs[j].post /\ c.held = refs[j].held

\* Some reference to k is writable.
Widened(refs, k) == \E j \in DOMAIN refs : refs[j].key = k /\ refs[j].writable

\* The unique change of a key is the first reference to it, writable when any is.
LEMMA UniqueChange ==
  ASSUME NEW refs \in Seq(AccountChange), NEW k, NEW i \in DOMAIN refs, refs[i].key = k
  PROVE  /\ k \in DOMAIN uniqueChanges(refs)
         /\ uniqueChanges(refs)[k].writable = Widened(refs, k)
         /\ StatesOf(refs, k, uniqueChanges(refs)[k])
<1> DEFINE c == uniqueChanges(refs)[k]
           T == {j \in DOMAIN refs : refs[j].key = k}
           first == firstReference(refs, k)
           w == Widened(refs, k)
<1>1. T \subseteq Nat /\ T # {}
  OBVIOUS
<1>2. PICK x \in T : \A y \in T : x <= y
  BY <1>1, LeastElement
<1>3. first \in DOMAIN refs /\ refs[first].key = k
  BY <1>2 DEF firstReference
<1>4. k \in DOMAIN uniqueChanges(refs) /\ c = [refs[first] EXCEPT !.writable = w]
  BY DEF uniqueChanges, Widened
<1> HIDE DEF first, c, w
<1>5. refs[first] \in AccountChange
  BY <1>3
<1>6. /\ c.writable = w /\ c.entry = refs[first].entry /\ c.pre = refs[first].pre
      /\ c.post = refs[first].post /\ c.held = refs[first].held
  BY <1>4, <1>5 DEF AccountChange
<1>7. StatesOf(refs, k, c)
  BY <1>3, <1>6 DEF StatesOf
<1> QED
  BY <1>4, <1>6, <1>7 DEF c, w

\* checkAll is silent only when every account passes.
LEMMA CheckAllPasses ==
  ASSUME NEW refs \in Seq(AccountChange), NEW prog,
         postInstructionCheck(prog, refs) = "none",
         NEW k, NEW i \in DOMAIN refs, refs[i].key = k
  PROVE  LET c == uniqueChanges(refs)[k]
         IN  checkDataWrite(prog, c) = "none" /\ checkAccount(prog, c) = "none"
<1> DEFINE xs == uniqueChanges(refs)
           bad1 == {j \in DOMAIN refs : checkDataWrite(prog, xs[refs[j].key]) # "none"}
           bad2 == {j \in DOMAIN refs : checkAccount(prog, xs[refs[j].key]) # "none"}
           v1 == IF bad1 = {} THEN "none" ELSE checkDataWrite(prog, xs[refs[Min(bad1)].key])
           v2 == IF bad2 = {} THEN "none" ELSE checkAccount(prog, xs[refs[Min(bad2)].key])
<1>1. \A T : T # {} /\ T \subseteq DOMAIN refs => Min(T) \in T
  <2> SUFFICES ASSUME NEW T, T # {}, T \subseteq DOMAIN refs
               PROVE  Min(T) \in T
    OBVIOUS
  <2>1. T \subseteq Nat
    OBVIOUS
  <2>2. \E x \in T : \A y \in T : x <= y
    BY <2>1, LeastElement
  <2> QED
    BY <2>2 DEF Min
<1>2. v1 = "none" /\ v2 = "none"
  BY DEF postInstructionCheck, checkAll, Then
<1> HIDE DEF xs
<1>3. bad1 = {} /\ bad2 = {}
  <2>1. bad1 # {} => Min(bad1) \in bad1
    BY <1>1
  <2>2. bad2 # {} => Min(bad2) \in bad2
    BY <1>1
  <2> QED
    BY <1>2, <2>1, <2>2
<1> QED
  BY <1>3 DEF xs

\* The host's state when a run is judged.
LEMMA HostTypes ==
  ASSUME SvmTypeOK
  PROVE  /\ Metas \in Seq(Ref) /\ Passed(Metas) \subseteq Keys
         /\ vm[0] \in VM /\ vm[0].mem \in Memory /\ cpiReturn \in Memory
         /\ \A k \in Keys : vm[0].mem[k] \in Content /\ cpiReturn[k] \in Content /\ Entry[k] \in Content
<1>1. submission \in Submission
  BY DEF SvmTypeOK
<1>2. Metas \in Seq(Ref)
  BY <1>1 DEF Metas, Submission
<1>3. Passed(Metas) \subseteq Keys
  <2>1. \A i \in DOMAIN Metas : Metas[i] \in Ref
    BY <1>2
  <2>2. \A r \in Ref : r.key \in Keys
    BY DEF Ref
  <2> QED
    BY <2>1, <2>2, Zenon DEF Passed
<1>4. 0 \in Levels
  BY DEF Levels
<1>5. vm[0] \in VM /\ cpiReturn \in Memory
  BY <1>4 DEF SvmTypeOK, TypeOK, Memory
<1>6. vm[0].mem \in Memory
  BY <1>5 DEF VM, Memory
<1> QED
  BY <1>2, <1>3, <1>5, <1>6 DEF Memory

\* What encode_account_changes hands to the checks.
LEMMA ChangesType ==
  ASSUME SvmTypeOK
  PROVE  /\ Changes \in Seq(AccountChange) /\ DOMAIN Changes = DOMAIN Metas
         /\ \A i \in DOMAIN Metas :
              LET k == Metas[i].key
              IN  /\ k \in Passed(Metas) /\ k \in Keys
                  /\ Changes[i].key = k /\ Changes[i].writable = Metas[i].writable
                  /\ Changes[i].entry = Entry[k] /\ Changes[i].pre = ReadBack(k, cpiReturn[k])
                  /\ Changes[i].post = vm[0].mem[k] /\ Changes[i].held = HeldLen(k, vm[0].mem[k])
<1> DEFINE E(i) == LET k == Metas[i].key
                   IN  [key |-> k, writable |-> Metas[i].writable, entry |-> Entry[k],
                        pre |-> ReadBack(k, cpiReturn[k]), post |-> vm[0].mem[k],
                        held |-> HeldLen(k, vm[0].mem[k])]
<1>1. Metas \in Seq(Ref) /\ Len(Metas) \in Nat /\ DOMAIN Metas = 1 .. Len(Metas)
  BY HostTypes
<1>2. ASSUME NEW i \in DOMAIN Metas
      PROVE  Metas[i].key \in Passed(Metas) /\ Metas[i].key \in Keys /\ E(i) \in AccountChange
  <2> DEFINE k == Metas[i].key
  <2>1. Metas[i] \in Ref
    BY <1>1
  <2>2. k \in Keys /\ Metas[i].writable \in BOOLEAN /\ k \in Passed(Metas)
    BY <2>1 DEF Ref, Passed
  <2> HIDE DEF k
  <2>3. vm[0].mem[k] \in Content /\ cpiReturn[k] \in Content /\ Entry[k] \in Content
    BY <2>2, HostTypes
  <2>4. ReadBack(k, cpiReturn[k]) \in Content /\ HeldLen(k, vm[0].mem[k]) \in Nat
    BY <2>2, <2>3, ReadBackFields
  <2> QED
    BY <2>2, <2>3, <2>4 DEF AccountChange, k
<1>3. Changes = [i \in 1 .. Len(Metas) |-> E(i)]
  BY <1>1 DEF Changes
<1>4. Changes \in Seq(AccountChange) /\ DOMAIN Changes = DOMAIN Metas
  <2> HIDE DEF E
  <2>1. \A i \in 1 .. Len(Metas) : E(i) \in AccountChange
    BY <1>1, <1>2
  <2> QED
    BY <1>1, <1>3, <2>1
<1>5. ASSUME NEW i \in DOMAIN Metas
      PROVE  LET k == Metas[i].key
             IN  /\ Changes[i].key = k /\ Changes[i].writable = Metas[i].writable
                 /\ Changes[i].entry = Entry[k] /\ Changes[i].pre = ReadBack(k, cpiReturn[k])
                 /\ Changes[i].post = vm[0].mem[k] /\ Changes[i].held = HeldLen(k, vm[0].mem[k])
  BY <1>1, <1>3
<1> QED
  BY <1>2, <1>4, <1>5

\* The instruction has a write reference to k.
WriteRef(k) == \E i \in DOMAIN Metas : Metas[i].key = k /\ Metas[i].writable

\* The one change of a referenced account, as the checks see it.
LEMMA ChangeOf ==
  ASSUME SvmTypeOK, NEW k \in Passed(Metas)
  PROVE  LET c == uniqueChanges(Changes)[k]
         IN  /\ k \in DOMAIN uniqueChanges(Changes)
             /\ c.writable = WriteRef(k)
             /\ c.entry = Entry[k] /\ c.pre = ReadBack(k, cpiReturn[k])
             /\ c.post = vm[0].mem[k] /\ c.held = HeldLen(k, vm[0].mem[k])
<1>1. PICK i \in DOMAIN Metas : Metas[i].key = k
  BY DEF Passed
<1>2. Changes \in Seq(AccountChange) /\ i \in DOMAIN Changes /\ Changes[i].key = k
  BY <1>1, ChangesType
<1> DEFINE c == uniqueChanges(Changes)[k]
<1>3. k \in DOMAIN uniqueChanges(Changes) /\ c.writable = Widened(Changes, k) /\ StatesOf(Changes, k, c)
  BY <1>2, UniqueChange
<1> HIDE DEF c
<1>4. Widened(Changes, k) = WriteRef(k)
  BY ChangesType DEF WriteRef, Widened
<1>5. PICK j \in DOMAIN Changes :
           /\ Changes[j].key = k
           /\ c.entry = Changes[j].entry /\ c.pre = Changes[j].pre
           /\ c.post = Changes[j].post /\ c.held = Changes[j].held
  BY <1>3 DEF StatesOf
<1>6. /\ Changes[j].entry = Entry[k] /\ Changes[j].pre = ReadBack(k, cpiReturn[k])
      /\ Changes[j].post = vm[0].mem[k] /\ Changes[j].held = HeldLen(k, vm[0].mem[k])
  BY <1>5, ChangesType
<1> QED
  BY <1>3, <1>4, <1>5, <1>6 DEF c

\* An instruction that passes validate_post_state grew no account beyond its room
\* and changed each one, since control last returned, only as the main program
\* may.
LEMMA Judged ==
  ASSUME SvmTypeOK, Validate(Changes) = "none", NEW k \in Passed(Metas)
  PROVE  LET pre == ReadBack(k, cpiReturn[k])
             post == vm[0].mem[k]
             held == HeldLen(k, vm[0].mem[k])
         IN  /\ post.len <= Entry[k].len + MaxIncrease /\ held = post.len
             /\ post.lamports # pre.lamports => WriteRef(k)
             /\ post.lamports < pre.lamports => pre.owner = Main
             /\ post.len # pre.len => WriteRef(k) /\ pre.owner = Main
             /\ pre.len > 0 /\ held > 0 /\ post.data # pre.data => WriteRef(k) /\ pre.owner = Main
             /\ post.owner # pre.owner =>
                  pre.owner = Main /\ WriteRef(k) /\ (held = 0 \/ post.data = ZeroData)
<1> DEFINE c == uniqueChanges(Changes)[k]
<1>1. PICK i \in DOMAIN Metas : Metas[i].key = k
  BY DEF Passed
<1>2. Changes \in Seq(AccountChange) /\ i \in DOMAIN Changes /\ Changes[i].key = k
  BY <1>1, ChangesType
<1>3. postInstructionCheck(Main, Changes) = "none"
  <2>1. Changes # <<>>
    BY <1>2
  <2> QED
    BY <2>1 DEF Validate, Then
<1>4. checkDataWrite(Main, c) = "none" /\ checkAccount(Main, c) = "none"
  BY <1>2, <1>3, CheckAllPasses
<1>5. /\ c.writable = WriteRef(k) /\ c.entry = Entry[k] /\ c.pre = ReadBack(k, cpiReturn[k])
      /\ c.post = vm[0].mem[k] /\ c.held = HeldLen(k, vm[0].mem[k])
  BY ChangeOf
<1>6. k \in Keys /\ vm[0].mem[k] \in Content /\ cpiReturn[k] \in Content
  BY HostTypes
<1>7. /\ c.post \in Content /\ c.pre \in Content /\ c.held \in Nat
      /\ c.post.len <= Entry[k].len + MaxIncrease => c.held = c.post.len
  BY <1>5, <1>6, ReadBackFields
<1> HIDE DEF c
<1>8. checkLamports(Main, c) = "none" /\ checkDataLen(Main, c) = "none" /\ checkOwner(Main, c) = "none"
  BY <1>4 DEF checkAccount, Then
<1>9. c.writable \in BOOLEAN
  BY <1>5 DEF WriteRef
<1>10. /\ c.post.lamports # c.pre.lamports => c.writable
       /\ c.post.lamports < c.pre.lamports => c.pre.owner = Main
  <2>1. c.post.lamports \in Nat /\ c.pre.lamports \in Nat
    BY <1>7 DEF Content
  <2> QED
    BY <1>8, <1>9, <2>1 DEF checkLamports, owned
<1>11. canDataBeChanged(Main, c) = "none" => c.writable /\ c.pre.owner = Main
  BY <1>9 DEF canDataBeChanged, owned
<1>12. /\ ~(c.post.len > c.entry.len + MaxIncrease)
       /\ c.post.len # c.pre.len => c.writable /\ c.pre.owner = Main
  BY <1>8, <1>11 DEF checkDataLen
<1>13. c.pre.len > 0 /\ c.held > 0 /\ c.post.data # c.pre.data => c.writable /\ c.pre.owner = Main
  BY <1>4, <1>11 DEF checkDataWrite, contentChanged
<1>14. c.post.owner # c.pre.owner =>
         c.pre.owner = Main /\ c.writable /\ (c.held = 0 \/ c.post.data = ZeroData)
  BY <1>8, <1>9 DEF checkOwner, owned
<1>15. c.post.len <= Entry[k].len + MaxIncrease
  <2>1. c.post.len \in Nat /\ Entry[k].len \in Nat
    BY <1>6, <1>7 DEF Content
  <2> QED
    BY <1>5, <1>12, <2>1
<1> QED
  BY <1>5, <1>7, <1>10, <1>12, <1>13, <1>14, <1>15, Zenon

\* What the host reads back, per account.
LEMMA ReadAccountsFields ==
  ASSUME SvmTypeOK, NEW k \in Keys
  PROVE  /\ ReadAccounts[k] \in Content
         /\ k \notin Passed(Metas) => ReadAccounts[k] = Entry[k]
         /\ k \in Passed(Metas) =>
              /\ ReadAccounts[k].lamports = vm[0].mem[k].lamports
              /\ ReadAccounts[k].len = HeldLen(k, vm[0].mem[k])
              /\ ReadAccounts[k].data = vm[0].mem[k].data
              /\ ReadAccounts[k].owner = vm[0].mem[k].owner
<1>1. vm[0].mem[k] \in Content /\ Entry[k] \in Content
  BY HostTypes
<1>2. ReadAccounts[k] = IF k \in Passed(Metas) THEN ReadBack(k, vm[0].mem[k]) ELSE Entry[k]
  BY DEF ReadAccounts
<1> QED
  BY <1>1, <1>2, ReadBackFields

\* An instruction that passes validate_post_state leaves as many lamports in the
\* accounts as there were at entry, the untouched ones counted.
LEMMA Balanced ==
  ASSUME SvmTypeOK, Validate(Changes) = "none"
  PROVE  SumFunction([k \in Keys |-> ReadAccounts[k].lamports])
           = SumFunction([k \in Keys |-> Entry[k].lamports])
<1> DEFINE P == Passed(Metas)
           F == [k \in Keys |-> ReadAccounts[k].lamports]
           E == [k \in Keys |-> Entry[k].lamports]
           xs == uniqueChanges(Changes)
<1>1. P \subseteq Keys /\ F \in [Keys -> Nat] /\ E \in [Keys -> Nat]
  BY HostTypes, ReadAccountsFields, Fields
<1>2. \A k \in Keys \ P : F[k] = E[k]
  BY ReadAccountsFields
<1>3. CASE Changes = <<>>
  <2>1. P = {}
    BY <1>3, ChangesType DEF Passed
  <2>2. F = E
    BY <1>1, <1>2, <2>1
  <2> QED
    BY <2>2
<1>4. CASE Changes # <<>>
  <2>1. postLamports(xs) = entryLamports(xs)
    BY <1>4 DEF Validate, Then, postInstructionCheck
  <2>2. DOMAIN xs = P
    <3>1. DOMAIN xs = {Changes[i].key : i \in DOMAIN Changes}
      BY DEF uniqueChanges
    <3> HIDE DEF xs
    <3> QED
      BY <3>1, ChangesType DEF Passed
  <2>3. \A k \in P : xs[k].post.lamports = F[k] /\ xs[k].entry.lamports = E[k]
    BY <1>1, ChangeOf, ReadAccountsFields
  <2> HIDE DEF xs, F, E
  <2>4. /\ [k \in DOMAIN xs |-> xs[k].post.lamports] = [k \in P |-> F[k]]
        /\ [k \in DOMAIN xs |-> xs[k].entry.lamports] = [k \in P |-> E[k]]
    BY <2>2, <2>3
  <2>5. SumFunction([k \in P |-> F[k]]) = SumFunction([k \in P |-> E[k]])
    BY <2>1, <2>4 DEF postLamports, entryLamports
  <2>6. [k \in Keys \ P |-> F[k]] = [k \in Keys \ P |-> E[k]]
    BY <1>2
  <2>7. SumFunction(F) = SumFunction([k \in P |-> F[k]]) + SumFunction([k \in Keys \ P |-> F[k]])
    BY <1>1, SumSplit
  <2>8. SumFunction(E) = SumFunction([k \in P |-> E[k]]) + SumFunction([k \in Keys \ P |-> E[k]])
    BY <1>1, SumSplit
  <2>9. SumFunction(F) = SumFunction(E)
    BY <2>5, <2>6, <2>7, <2>8
  <2> QED
    BY <2>9 DEF F, E
<1> QED
  BY <1>3, <1>4

-----------------------------------------------------------------------------
(* The invariant.                                                              *)

\* What the runner was started with, and what an answer says.
StageInv ==
  /\ stage = "submitted" => level = 0 /\ vm[0].mem = Entry
  /\ stage # "answered" => result.kind = "none"
  /\ stage = "running" =>
       /\ submission.program = Main /\ ~WritableSysvar(Metas)
       /\ vm[0].priv = SerializedPriv(Metas) /\ vm[0].budget = Budget

\* IInv carries the runner's meter and privilege discipline into the host.
SvmIInv ==
  /\ SvmTypeOK /\ IInv /\ StageInv
  /\ ReportedUnitsAreExact /\ ChangesAreAuthorized /\ NoNewRentPayers

\* A submission that has not been handled.
LEMMA SvmInitInv == SvmInit => SvmIInv
<1> SUFFICES ASSUME SvmInit
             PROVE  SvmIInv
  OBVIOUS
<1>1. Blank \in VM
  BY DEF Blank, Fresh, VM, Codes, Exits
<1>2. vm \in [Levels -> VM] /\ level = 0 /\ Active = {0} /\ 0 \in Levels
  BY <1>1 DEF SvmInit, Active, Levels
<1>3. result \in Results /\ result.kind = "none"
  BY DEF SvmInit, Results
<1>4. SvmTypeOK
  BY <1>2, <1>3 DEF SvmInit, SvmTypeOK, TypeOK
<1>5. vm[0] = Blank
  BY <1>2 DEF SvmInit
<1>6. Metered(Blank)
  BY DEF Metered, Blank, Fresh, Codes
<1>7. IInv
  BY <1>2, <1>4, <1>5, <1>6 DEF IInv, MeterInv, StackInv, Inherited, SvmTypeOK
<1>8. StageInv
  BY <1>2, <1>3, <1>5 DEF SvmInit, StageInv, Blank, Fresh
<1> QED
  BY <1>3, <1>4, <1>7, <1>8 DEF SvmIInv, ReportedUnitsAreExact, ChangesAreAuthorized, NoNewRentPayers

\* An answer leaves the runner alone.
LEMMA AnswerFrame ==
  ASSUME SvmIInv, NEW kind \in Refusals \cup RunResults, NEW accounts \in [Keys -> Content],
         NEW units \in Nat, Answer(kind, accounts, units)
  PROVE  /\ SvmTypeOK' /\ IInv' /\ StageInv'
         /\ result'.kind = kind /\ result'.accounts = accounts /\ result'.units = units
         /\ vm' = vm /\ cpiReturn' = cpiReturn /\ submission' = submission /\ Metas' = Metas
<1>1. /\ result' = [kind |-> kind, accounts |-> accounts, units |-> units]
      /\ stage' = "answered" /\ submission' = submission
      /\ vm' = vm /\ level' = level /\ cpiReturn' = cpiReturn
  BY DEF Answer, vars
<1>2. result' \in Results
  BY <1>1 DEF Results
<1>3. SvmTypeOK'
  BY <1>1, <1>2 DEF SvmIInv, SvmTypeOK, TypeOK
<1>4. IInv'
  BY <1>1 DEF SvmIInv, IInv, TypeOK, MeterInv, StackInv, Inherited, Active
<1>5. StageInv'
  BY <1>1 DEF StageInv
<1>6. Metas' = Metas
  BY <1>1 DEF Metas
<1> QED
  BY <1>1, <1>3, <1>4, <1>5, <1>6

\* An answer that no run of the main program stands behind.
LEMMA QuietAnswer ==
  ASSUME SvmIInv, NEW kind \in Refusals \cup RunResults, NEW units \in Nat,
         kind \in {"Success", "ProgramError", "VmFault", "InvalidPoststate"}
           => submission.program # Main,
         Answer(kind, Entry, units)
  PROVE  SvmIInv'
<1>1. Entry \in [Keys -> Content]
  OBVIOUS
<1>2. /\ SvmTypeOK' /\ IInv' /\ StageInv'
      /\ result'.kind = kind /\ submission' = submission
  BY <1>1, AnswerFrame
<1>3. ReportedUnitsAreExact'
  BY <1>2 DEF ReportedUnitsAreExact
<1>4. kind = "Success" => submission.program # Main
  OBVIOUS
<1>5. ChangesAreAuthorized'
  BY <1>2, <1>4 DEF ChangesAreAuthorized
<1>6. NoNewRentPayers'
  BY <1>2, <1>4 DEF NoNewRentPayers
<1> QED
  BY <1>2, <1>3, <1>5, <1>6 DEF SvmIInv

\* The result of a run that ended is what Finish says of it.
LEMMA FinishResult ==
  ASSUME SvmIInv, Finish
  PROVE  /\ SvmTypeOK' /\ IInv' /\ StageInv'
         /\ Verdict(vm[0]) \in RunResults \ {"BufferParse"}
         /\ result'.kind = Verdict(vm[0])
         /\ result'.accounts = ReadAccounts /\ result'.units = UnitsUsed(vm[0])
         /\ vm' = vm /\ cpiReturn' = cpiReturn /\ submission' = submission /\ Metas' = Metas
         /\ Verdict(vm[0]) = "Success" => Validate(Changes) = "none"
         /\ Verdict(vm[0]) = "OutOfBudget" => UnitsUsed(vm[0]) = Budget
         /\ Verdict(vm[0]) # "OutOfBudget" =>
              \/ UnitsUsed(vm[0]) = vm[0].cu
              \/ Verdict(vm[0]) = "VmFault" /\ UnitsUsed(vm[0]) = Budget /\ vm[0].cu = Budget + 1
<1>1. vm[0] \in VM /\ vm[0].cu \in Nat /\ vm[0].exit \in Exits
  BY HostTypes DEF SvmIInv, VM
<1>2. /\ Verdict(vm[0]) \in RunResults \ {"BufferParse"}
      /\ Verdict(vm[0]) = "Success" => Validate(Changes) = "none"
      /\ Verdict(vm[0]) = "OutOfBudget" <=> vm[0].exit = "none"
      /\ Verdict(vm[0]) = "VmFault" <=> vm[0].exit = "fault"
  <2>1. vm[0].exit \in {"none", "fault", "err", "ok"}
    BY <1>1 DEF Exits, Codes
  <2> QED
    BY <2>1 DEF Verdict, RunResults
<1>3. /\ vm[0].budget = Budget
      /\ vm[0].exit \in Codes => vm[0].cu <= Budget
      /\ vm[0].exit = "fault" => vm[0].cu <= Budget + 1
  <2>1. vm[0].budget = Budget
    BY DEF Finish, SvmIInv, StageInv
  <2>2. Metered(vm[0])
    <3>1. 0 \in Active
      BY DEF SvmIInv, IInv, TypeOK, Levels, Active
    <3> QED
      BY <3>1 DEF SvmIInv, IInv, MeterInv
  <2> QED
    BY <2>1, <2>2 DEF Metered
<1>4. /\ vm[0].exit = "none" => UnitsUsed(vm[0]) = Budget
      /\ vm[0].exit # "none" =>
           \/ UnitsUsed(vm[0]) = vm[0].cu
           \/ vm[0].exit = "fault" /\ UnitsUsed(vm[0]) = Budget /\ vm[0].cu = Budget + 1
  <2>1. vm[0].exit \in {"none", "fault"} \cup Codes
    BY <1>1 DEF Exits
  <2>2. vm[0].exit # "none" =>
          UnitsUsed(vm[0]) = IF vm[0].cu <= Budget THEN vm[0].cu ELSE Budget
    BY <1>1, MinOfTwo DEF UnitsUsed
  <2> QED
    BY <1>1, <1>3, <2>1, <2>2 DEF UnitsUsed
<1>5. UnitsUsed(vm[0]) \in Nat
  BY <1>1, <1>4
<1>6. ReadAccounts \in [Keys -> Content]
  <2>1. \A k \in Keys : ReadAccounts[k] \in Content
    BY ReadAccountsFields DEF SvmIInv
  <2> QED
    BY <2>1 DEF ReadAccounts
<1>7. Answer(Verdict(vm[0]), ReadAccounts, UnitsUsed(vm[0]))
  BY DEF Finish
<1>8. Verdict(vm[0]) \in Refusals \cup RunResults
  BY <1>2
<1> QED
  BY <1>2, <1>4, <1>5, <1>6, <1>7, <1>8, AnswerFrame

\* A success the checks have passed is authorized.
LEMMA FinishAuthorized ==
  ASSUME SvmIInv, Finish
  PROVE  ChangesAreAuthorized'
<1> SUFFICES ASSUME Verdict(vm[0]) = "Success", cpiReturn = Entry, NEW k \in Keys
             PROVE  LET before == Entry[k]
                        after == ReadAccounts[k]
                        edited == after.len # before.len \/ (after.len > 0 /\ after.data # before.data)
                        debited == after.lamports < before.lamports
                        given == after.owner # before.owner
                    IN  /\ edited \/ given \/ after.lamports # before.lamports => WriteRef(k)
                        /\ edited \/ given \/ debited => before.owner = Main
                        /\ given => after.len = 0 \/ after.data = ZeroData
  BY FinishResult DEF ChangesAreAuthorized, WriteRef
<1>1. SvmTypeOK /\ Validate(Changes) = "none"
  BY FinishResult DEF SvmIInv
<1>2. Entry[k].lamports \in Nat /\ Entry[k].len \in Nat
  BY DEF Content
<1>3. CASE k \notin Passed(Metas)
  <2>1. ReadAccounts[k] = Entry[k]
    BY <1>1, <1>3, ReadAccountsFields
  <2> QED
    BY <1>2, <2>1
<1>4. CASE k \in Passed(Metas)
  <2>1. ReadBack(k, cpiReturn[k]) = Entry[k]
    BY EntryReadBack
  <2>2. /\ ReadAccounts[k].lamports = vm[0].mem[k].lamports
        /\ ReadAccounts[k].len = HeldLen(k, vm[0].mem[k])
        /\ ReadAccounts[k].data = vm[0].mem[k].data
        /\ ReadAccounts[k].owner = vm[0].mem[k].owner
    BY <1>1, <1>4, ReadAccountsFields
  <2> DEFINE post == vm[0].mem[k]
             held == HeldLen(k, vm[0].mem[k])
  <2>3. /\ held = post.len
        /\ post.lamports # Entry[k].lamports => WriteRef(k)
        /\ post.lamports < Entry[k].lamports => Entry[k].owner = Main
        /\ post.len # Entry[k].len => WriteRef(k) /\ Entry[k].owner = Main
        /\ Entry[k].len > 0 /\ held > 0 /\ post.data # Entry[k].data
             => WriteRef(k) /\ Entry[k].owner = Main
        /\ post.owner # Entry[k].owner =>
             Entry[k].owner = Main /\ WriteRef(k) /\ (held = 0 \/ post.data = ZeroData)
    BY <1>1, <1>4, <2>1, Judged
  <2> HIDE DEF post, held
  <2>4. /\ ReadAccounts[k].lamports = post.lamports /\ ReadAccounts[k].len = held
        /\ ReadAccounts[k].data = post.data /\ ReadAccounts[k].owner = post.owner
    BY <2>2 DEF post, held
  <2> QED
    BY <1>2, <2>3, <2>4
<1> QED
  BY <1>3, <1>4

\* A success under rent enforcement makes no account rent-paying.
LEMMA FinishRent ==
  ASSUME SvmIInv, Finish
  PROVE  NoNewRentPayers'
<1> SUFFICES ASSUME Verdict(vm[0]) = "Success", submission.rent,
                    NEW k \in Passed(Metas) \ {Incinerator},
                    0 < ReadAccounts[k].lamports,
                    ReadAccounts[k].lamports < (StorageOverhead + ReadAccounts[k].len) * LamportsPerByte
             PROVE  /\ 0 < Entry[k].lamports /\ ReadAccounts[k].lamports <= Entry[k].lamports
                    /\ ReadAccounts[k].len = Entry[k].len
  BY FinishResult DEF NoNewRentPayers
<1>1. SvmTypeOK /\ Validate(Changes) = "none"
  BY FinishResult DEF SvmIInv
<1>2. PICK i \in DOMAIN Metas : Metas[i].key = k
  BY DEF Passed
<1>3. /\ i \in DOMAIN Changes /\ Changes[i].key = k /\ Changes[i].entry = Entry[k]
      /\ Changes[i].post = vm[0].mem[k] /\ Changes[i].held = HeldLen(k, vm[0].mem[k])
  BY <1>1, <1>2, ChangesType
<1>4. RentRule(Changes) = "none"
  <2>1. Changes # <<>>
    BY <1>1, <1>3, ChangesType
  <2> QED
    BY <1>1, <2>1 DEF Validate, Then
<1>5. rentOk(Changes[i])
  BY <1>3, <1>4 DEF RentRule
<1>6. k \in Keys /\ Entry[k].lamports \in Nat
  BY <1>1, HostTypes, Fields
<1>7. /\ ReadAccounts[k].lamports = vm[0].mem[k].lamports
      /\ ReadAccounts[k].len = HeldLen(k, vm[0].mem[k]) /\ ReadAccounts[k] \in Content
  BY <1>1, <1>6, ReadAccountsFields
<1> DEFINE n == ReadAccounts[k].lamports
           l == ReadAccounts[k].len
<1>8. n \in Nat /\ l \in Nat /\ n # 0 /\ ~(n >= rentMinimumBalance(l))
  <2>1. n \in Nat /\ l \in Nat
    BY <1>7, Fields
  <2>2. (StorageOverhead + l) * LamportsPerByte \in Nat
    BY <2>1
  <2> QED
    BY <2>1, <2>2 DEF rentMinimumBalance
<1>9. rentTransitionAllowed(getAccountRentState(Entry[k].lamports, Entry[k].len), getAccountRentState(n, l))
  BY <1>3, <1>5, <1>7 DEF rentOk
<1> HIDE DEF n, l
<1>10. getAccountRentState(n, l).kind = "paying" /\ getAccountRentState(n, l).len = l
       /\ getAccountRentState(n, l).lamports = n
  BY <1>8 DEF getAccountRentState
<1>11. /\ getAccountRentState(Entry[k].lamports, Entry[k].len).kind = "paying"
       /\ l = Entry[k].len /\ n <= Entry[k].lamports
  BY <1>9, <1>10 DEF rentTransitionAllowed, getAccountRentState
<1>12. Entry[k].lamports # 0
  BY <1>11 DEF getAccountRentState
<1> QED
  BY <1>6, <1>11, <1>12 DEF n, l

\* The runner starts at the top level, with the flags of the references.
LEMMA StartStep ==
  ASSUME SvmIInv, Start
  PROVE  SvmIInv'
<1> DEFINE v == Fresh(Main, Budget, Entry, Passed(Metas), SerializedPriv(Metas))
<1>1. /\ stage = "submitted" /\ submission.program = Main /\ ~WritableSysvar(Metas)
      /\ stage' = "running" /\ vm' = [vm EXCEPT ![0] = v] /\ level' = level
      /\ cpiReturn' = cpiReturn /\ submission' = submission /\ result' = result
  BY DEF Start, Serializable, Known
<1>2. level = 0 /\ result.kind = "none" /\ 0 \in Levels /\ vm \in [Levels -> VM]
  BY <1>1 DEF SvmIInv, StageInv, SvmTypeOK, TypeOK, Levels
<1>3. SerializedPriv(Metas) \in [Keys -> Priv]
  BY DEF SerializedPriv, Priv
<1>4. v \in VM
  <2>1. Passed(Metas) \subseteq Keys
    BY HostTypes DEF SvmIInv
  <2> QED
    BY <1>3, <2>1 DEF Fresh, VM, Codes, Exits
<1>5. v.priv = SerializedPriv(Metas) /\ v.budget = Budget /\ Metered(v)
  BY DEF Fresh, Metered, Codes
<1> HIDE DEF v
<1>6. vm' \in [Levels -> VM] /\ vm'[0] = v
  BY <1>1, <1>2, <1>4
<1>7. TypeOK' /\ SvmTypeOK'
  BY <1>1, <1>6 DEF SvmIInv, SvmTypeOK, TypeOK
<1>8. Active' = {0}
  BY <1>1, <1>2 DEF Active
<1>9. IInv'
  BY <1>1, <1>2, <1>5, <1>6, <1>7, <1>8 DEF IInv, MeterInv, StackInv, Inherited
<1>10. Metas' = Metas
  BY <1>1 DEF Metas
<1>11. StageInv'
  BY <1>1, <1>2, <1>5, <1>6, <1>10 DEF StageInv, WritableSysvar, SerializedPriv
<1>12. result'.kind = "none"
  BY <1>1, <1>2
<1> QED
  BY <1>7, <1>9, <1>11, <1>12 DEF SvmIInv, ReportedUnitsAreExact, ChangesAreAuthorized, NoNewRentPayers

\* A step of the programs.
LEMMA RunStep ==
  ASSUME SvmIInv, Run
  PROVE  SvmIInv'
<1>1. /\ stage = "running" /\ stage' = stage /\ submission' = submission /\ result' = result
      /\ [Next]_vars
  BY DEF Run, Next
<1>2. Kept
  BY <1>1, StepKeeps DEF SvmIInv
<1>3. IInv' /\ vm'[0].priv = vm[0].priv /\ vm'[0].budget = vm[0].budget
  BY <1>2 DEF Kept
<1>4. SvmTypeOK'
  BY <1>1, <1>3 DEF SvmIInv, SvmTypeOK, IInv
<1>5. result'.kind = "none"
  BY <1>1 DEF SvmIInv, StageInv
<1>6. Metas' = Metas
  BY <1>1 DEF Metas
<1>7. StageInv'
  <2>1. /\ result.kind = "none" /\ submission.program = Main /\ ~WritableSysvar(Metas)
        /\ vm[0].priv = SerializedPriv(Metas) /\ vm[0].budget = Budget
    BY <1>1 DEF SvmIInv, StageInv
  <2> QED
    BY <1>1, <1>3, <1>6, <2>1 DEF StageInv, WritableSysvar, SerializedPriv
<1> QED
  BY <1>3, <1>4, <1>5, <1>7 DEF SvmIInv, ReportedUnitsAreExact, ChangesAreAuthorized, NoNewRentPayers

\* The answer of a run keeps the invariant.
LEMMA FinishStep ==
  ASSUME SvmIInv, Finish
  PROVE  SvmIInv'
<1>1. ReportedUnitsAreExact'
  <2>1. /\ result'.kind = Verdict(vm[0]) /\ result'.units = UnitsUsed(vm[0]) /\ vm' = vm
        /\ Verdict(vm[0]) # "OutOfBudget" =>
             \/ UnitsUsed(vm[0]) = vm[0].cu
             \/ Verdict(vm[0]) = "VmFault" /\ UnitsUsed(vm[0]) = Budget /\ vm[0].cu = Budget + 1
    BY FinishResult
  <2> QED
    BY <2>1 DEF ReportedUnitsAreExact
<1> QED
  BY <1>1, FinishResult, FinishAuthorized, FinishRent DEF SvmIInv

\* Every step of the host keeps its invariant.
LEMMA SvmStepInv ==
  ASSUME SvmIInv, [SvmNext]_svmVars
  PROVE  SvmIInv'
<1>1. ASSUME NEW kind \in {"Success", "ProgramError"}, RunPrecompile(kind)
      PROVE  SvmIInv'
  <2>1. submission.program # Main
    BY <1>1 DEF RunPrecompile
  <2>2. Answer(kind, Entry, PrecompileUnits) /\ kind \in Refusals \cup RunResults /\ PrecompileUnits \in Nat
    BY <1>1 DEF RunPrecompile, RunResults
  <2> QED
    BY <2>1, <2>2, QuietAnswer
<1>2. ASSUME NEW kind \in Refusals, Refuse(kind)
      PROVE  SvmIInv'
  <2>1. Answer(kind, Entry, 0) /\ kind \in Refusals \cup RunResults /\ 0 \in Nat
    BY <1>2 DEF Refuse
  <2>2. kind \notin {"Success", "ProgramError", "VmFault", "InvalidPoststate"}
    BY <1>2 DEF Refusals
  <2> QED
    BY <2>1, <2>2, QuietAnswer
<1>3. CASE \/ RefuseUnknownProgram \/ RefuseWritableSysvar \/ RefuseMissingAccount
           \/ RefuseTooManyAccounts \/ RefuseElf
  BY <1>2, <1>3 DEF RefuseUnknownProgram, RefuseWritableSysvar, RefuseMissingAccount,
                    RefuseTooManyAccounts, RefuseElf, Refusals
<1>4. CASE Start
  BY <1>4, StartStep
<1>5. CASE Run
  BY <1>5, RunStep
<1>6. CASE Finish
  BY <1>6, FinishStep
<1>7. CASE FinishUnparsable
  <2>1. Answer("BufferParse", Entry, 0) /\ "BufferParse" \in Refusals \cup RunResults /\ 0 \in Nat
    BY <1>7 DEF FinishUnparsable, RunResults
  <2> QED
    BY <2>1, QuietAnswer
<1>8. CASE UNCHANGED svmVars
  <2>1. /\ stage' = stage /\ submission' = submission /\ result' = result
        /\ vm' = vm /\ level' = level /\ cpiReturn' = cpiReturn
    BY <1>8 DEF svmVars, vars
  <2>2. SvmTypeOK'
    BY <2>1 DEF SvmIInv, SvmTypeOK, TypeOK
  <2>3. IInv'
    BY <2>1 DEF SvmIInv, IInv, TypeOK, MeterInv, StackInv, Inherited, Active
  <2>4. Metas' = Metas
    BY <2>1 DEF Metas
  <2>5. StageInv'
    BY <2>1, <2>4 DEF SvmIInv, StageInv, WritableSysvar, SerializedPriv
  <2>6. ReportedUnitsAreExact' /\ ChangesAreAuthorized' /\ NoNewRentPayers'
    BY <2>1, <2>4 DEF SvmIInv, ReportedUnitsAreExact, ChangesAreAuthorized, NoNewRentPayers, Passed
  <2> QED
    BY <2>2, <2>3, <2>5, <2>6 DEF SvmIInv
<1>9. CASE Answered
  BY <1>8, <1>9 DEF Answered
<1> QED
  BY <1>1, <1>3, <1>4, <1>5, <1>6, <1>7, <1>8, <1>9 DEF SvmNext, Process

-----------------------------------------------------------------------------
(* The theorems.                                                               *)

\* The host's inductive invariant holds in every reachable state.
THEOREM SvmInvariance == SvmSpec => []SvmIInv
<1>1. SvmIInv /\ [SvmNext]_svmVars => SvmIInv'
  BY SvmStepInv
<1> QED
  BY <1>1, SvmInitInv, PTL DEF SvmSpec

\* The host's state, the runner's included, is well-formed for every program and
\* submission.
THEOREM SvmTypeCorrectness == SvmSpec => []SvmTypeOK
BY SvmInvariance, PTL DEF SvmIInv

\* "The clamp is the identity on every in-budget run" (Outcome.lean): the units
\* reported for a run that ended are the units it was charged, except that a fault
\* one unit over the budget is reported at the budget.
THEOREM UnitsAreExact == SvmSpec => []ReportedUnitsAreExact
BY SvmInvariance, PTL DEF SvmIInv

\* A success without a completed CPI changed an account only as the main program
\* may (postInstructionCheck on the de-duplicated references).
THEOREM SuccessIsAuthorized == SvmSpec => []ChangesAreAuthorized
BY SvmInvariance, PTL DEF SvmIInv

\* enforce_rent_state lets no success create or feed a rent-paying account.
THEOREM RentIsEnforced == SvmSpec => []NoNewRentPayers
BY SvmInvariance, PTL DEF SvmIInv

\* The refusal of writable sysvars at the top level keeps them read-only at every
\* depth: a callee's privileges descend from the instruction's.
THEOREM SysvarsAreSafe == SvmSpec => []SysvarsStayReadOnly
<1>1. SvmIInv => SysvarsStayReadOnly
  <2> SUFFICES ASSUME SvmIInv, stage = "running", NEW l \in Active, NEW k \in Sysvars,
                      vm[l].priv[k].writable
               PROVE  FALSE
    BY DEF SysvarsStayReadOnly
  <2>1. ~WritableSysvar(Metas) /\ vm[0].priv = SerializedPriv(Metas)
    BY DEF SvmIInv, StageInv
  <2>2. k \in Keys
    OBVIOUS
  <2>3. vm[0].priv[k].writable
    BY <2>2 DEF SvmIInv, IInv, Inherited
  <2>4. \E i \in DOMAIN Metas : Metas[i].key = k /\ Metas[i].writable
    BY <2>1, <2>2, <2>3 DEF SerializedPriv
  <2> QED
    BY <2>1, <2>4 DEF WritableSysvar
<1> QED
  BY <1>1, SvmInvariance, PTL

\* The contract's total is the host's: the same library fold, instantiated.
LEMMA SameTotal ==
  ASSUME NEW f
  PROVE  Contract!SumFunction(f) = SumFunction(f)
BY Zenon DEF SumFunction, SumFunctionOnSet, FoldFunctionOnSet, MapThenFoldSet,
   Contract!SumFunction, Contract!SumFunctionOnSet, Contract!FoldFunctionOnSet,
   Contract!MapThenFoldSet

\* The sizes the contract sees are those the top-level VM's memory holds.
LEMMA LeftLengths ==
  ASSUME SvmTypeOK
  PROVE  /\ LeftLen \in [Keys -> Nat]
         /\ vm[0].mem = Entry => LeftLen = [k \in Keys |-> Entry[k].len]
<1>1. \A k \in Keys : vm[0].mem[k].len \in Nat /\ Entry[k].len \in Nat
  BY HostTypes, Fields
<1> QED
  BY <1>1 DEF LeftLen

\* An answer leaves those sizes alone.
LEMMA LeftUnchanged ==
  ASSUME vm' = vm, submission' = submission
  PROVE  LeftLen' = LeftLen
BY DEF LeftLen, Metas, Passed

\* An answer refines the contract's: what a success says of the lamports and the
\* sizes, a refusal of the accounts and an exhausted run of its units.
LEMMA FinishContract ==
  ASSUME SvmIInv, Finish
  PROVE  Contract!Answer
<1>1. /\ stage = "running" /\ stage' = "answered"
  BY DEF Finish, Answer
<1>2. /\ Verdict(vm[0]) \in RunResults \ {"BufferParse"}
      /\ result'.kind = Verdict(vm[0])
      /\ result'.accounts = ReadAccounts /\ result'.units = UnitsUsed(vm[0])
      /\ Verdict(vm[0]) = "Success" => Validate(Changes) = "none"
      /\ Verdict(vm[0]) = "OutOfBudget" => UnitsUsed(vm[0]) = Budget
  BY FinishResult
<1>3. SvmTypeOK
  BY DEF SvmIInv
<1>4. ASSUME Verdict(vm[0]) = "Success"
      PROVE  Contract!Lamports(ReadAccounts) = Contract!Lamports(Entry)
  BY <1>2, <1>3, <1>4, Balanced, SameTotal DEF Contract!Lamports
<1>5. ASSUME Verdict(vm[0]) = "Success", NEW k \in Keys
      PROVE  ReadAccounts[k].len = LeftLen[k] /\ LeftLen[k] <= Entry[k].len + MaxIncrease
  <2>1. vm[0].mem[k] \in Content /\ Entry[k].len \in Nat
    BY <1>3, HostTypes, Fields
  <2>2. CASE k \in Passed(Metas)
    <3>1. /\ vm[0].mem[k].len <= Entry[k].len + MaxIncrease
          /\ HeldLen(k, vm[0].mem[k]) = vm[0].mem[k].len
      BY <1>2, <1>3, <1>5, <2>2, Judged
    <3>2. ReadAccounts[k].len = HeldLen(k, vm[0].mem[k])
      BY <1>3, <2>2, ReadAccountsFields
    <3> QED
      BY <2>2, <3>1, <3>2 DEF LeftLen
  <2>3. CASE k \notin Passed(Metas)
    <3>1. ReadAccounts[k] = Entry[k]
      BY <1>3, <2>3, ReadAccountsFields
    <3> QED
      BY <2>1, <2>3, <3>1 DEF LeftLen
  <2> QED
    BY <2>2, <2>3
<1>6. result'.kind \notin Contract!Refusals /\ result'.kind # "none"
  BY <1>2 DEF RunResults, Contract!Refusals
<1>7. Contract!Lawful(result')
  BY <1>2, <1>4, <1>5, <1>6 DEF Contract!Lawful
<1>8. UNCHANGED LeftLen
  BY FinishResult, LeftUnchanged
<1> QED
  BY <1>1, <1>6, <1>7, <1>8 DEF Contract!Answer

\* Every step of the host is a step of the contract or leaves it alone.
LEMMA ContractStep ==
  ASSUME SvmIInv, [SvmNext]_svmVars
  PROVE  [Contract!Resize \/ Contract!Answer]_(Contract!contractVars)
<1>0. SvmTypeOK /\ SvmTypeOK'
  BY SvmStepInv DEF SvmIInv
<1>1. ASSUME NEW kind \in {"Success", "ProgramError"}, RunPrecompile(kind)
      PROVE  Contract!Answer
  <2>1. /\ stage = "submitted" /\ stage' = "answered"
        /\ result'.kind = kind /\ result'.accounts = Entry
    BY <1>1 DEF RunPrecompile, Answer
  <2>2. \A k \in Keys : Entry[k].len <= Entry[k].len + MaxIncrease
    BY Fields
  <2>3. LeftLen = [k \in Keys |-> Entry[k].len]
    BY <1>0, <2>1, LeftLengths DEF SvmIInv, StageInv
  <2>4. Contract!Lawful(result')
    BY <2>1, <2>2, <2>3 DEF Contract!Lawful, Contract!Refusals
  <2>5. UNCHANGED LeftLen
    BY <1>1, LeftUnchanged DEF RunPrecompile, Answer, vars
  <2> QED
    BY <2>1, <2>4, <2>5 DEF Contract!Answer
<1>2. ASSUME NEW kind \in Refusals, Refuse(kind), stage = "submitted"
      PROVE  Contract!Answer
  <2>1. /\ stage' = "answered" /\ result'.kind = kind
        /\ result'.accounts = Entry /\ result'.units = 0
    BY <1>2 DEF Refuse, Answer
  <2>2. kind \notin {"none", "Success", "OutOfBudget"}
    BY DEF Refusals
  <2>3. UNCHANGED LeftLen
    BY <1>2, LeftUnchanged DEF Refuse, Answer, vars
  <2> QED
    BY <1>2, <2>1, <2>2, <2>3 DEF Contract!Answer, Contract!Lawful
<1>3. CASE \/ RefuseUnknownProgram \/ RefuseWritableSysvar \/ RefuseMissingAccount
           \/ RefuseTooManyAccounts \/ RefuseElf
  BY <1>2, <1>3 DEF RefuseUnknownProgram, RefuseWritableSysvar, RefuseMissingAccount,
                    RefuseTooManyAccounts, RefuseElf, Serializable, Known, Refusals
<1>4. ASSUME stage # "answered", stage' # "answered", result' = result
      PROVE  Contract!Resize
  <2>1. LeftLen' \in [Keys -> Nat]
    <3>1. (LeftLen \in [Keys -> Nat])'
      BY <1>0, LeftLengths, PTL
    <3> QED
      BY <3>1
  <2> QED
    BY <1>4, <2>1 DEF Contract!Resize
<1>5. CASE Start \/ Run
  BY <1>4, <1>5 DEF Start, Serializable, Known, Run
<1>6. CASE Finish
  BY <1>6, FinishContract
<1>7. CASE FinishUnparsable
  <2>1. stage = "running" /\ stage' = "answered" /\ result'.kind = "BufferParse"
    BY <1>7 DEF FinishUnparsable, Answer
  <2>2. UNCHANGED LeftLen
    BY <1>7, LeftUnchanged DEF FinishUnparsable, Answer, vars
  <2> QED
    BY <2>1, <2>2 DEF Contract!Answer, Contract!Lawful, Contract!Refusals
<1>8. CASE UNCHANGED svmVars \/ Answered
  <2>1. stage' = stage /\ result' = result /\ UNCHANGED LeftLen
    BY <1>8, LeftUnchanged DEF svmVars, vars, Answered
  <2> QED
    BY <2>1 DEF Contract!contractVars
<1> QED
  BY <1>1, <1>3, <1>5, <1>6, <1>7, <1>8 DEF SvmNext, Process

\* process_instruction implements its contract for every set of programs: answered
\* once, lamports conserved on success with every account at the size the programs
\* left it and within its room, accounts untouched by a refusal.
THEOREM ContractIsKept == SvmSpec => KeepsContract
<1>1. SvmInit => Contract!Init
  <2> SUFFICES ASSUME SvmInit PROVE Contract!Init
    OBVIOUS
  <2>1. SvmTypeOK /\ vm[0].mem = Entry
    BY SvmInitInv DEF SvmIInv, StageInv, SvmInit
  <2> QED
    BY <2>1, LeftLengths DEF SvmInit, Contract!Init
<1>2. SvmIInv /\ [SvmNext]_svmVars =>
        [Contract!Resize \/ Contract!Answer]_(Contract!contractVars)
  BY ContractStep
<1> QED
  BY <1>1, <1>2, SvmInvariance, PTL DEF SvmSpec, KeepsContract, Contract!Spec
=============================================================================
