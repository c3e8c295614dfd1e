------------------------------- MODULE MCSvm --------------------------------
(* Instances of the host: refusals of every kind, and runs over an account    *)
(* of the main program (a), one of the System program (b) and a sysvar (s).   *)
EXTENDS Svm, SequencesExt

CONSTANTS a, b, s, main, p, broken, unknown, ed25519

NoSeedAddress == [x \in SeedTriple |-> NoKey]
NoPdas == [x \in Programs |-> {}]
NoPrivileges == [k \in Keys |-> [signer |-> FALSE, writable |-> FALSE]]

OneData == [ZeroData EXCEPT !.version = 1]
ThreeAccounts ==
  (a :> [lamports |-> 1, len |-> 1, data |-> OneData, owner |-> main]) @@
  (b :> [lamports |-> 1, len |-> 0, data |-> ZeroData, owner |-> System]) @@
  (s :> [lamports |-> 0, len |-> 0, data |-> ZeroData, owner |-> p])
SomeStores == [lamports |-> {0, 2}, len |-> {2, 3}, data |-> {ZeroData}, owner |-> {main, p}]
RentStores == [lamports |-> {0, 1, 2, 3}, len |-> {0, 2}, data |-> {}, owner |-> {}]

Writable(k) == [key |-> k, signer |-> TRUE, writable |-> TRUE]
ReadOnly(k) == [key |-> k, signer |-> FALSE, writable |-> FALSE]
SomeRequests == {<<Writable(b), Writable(b)>>, <<Writable(a), Writable(s)>>}
RentRequests == {<<Writable(b), Writable(a)>>}
OneTransfer == [op : {"Transfer"}, lamports : {1}]

Call(program, metas, supplied) ==
  [program |-> program, metas |-> metas, supplied |-> supplied, rent |-> FALSE]
SomeSubmissions ==
  {Call(ed25519, <<>>, {}),
   Call(unknown, <<Writable(a)>>, {a}),
   Call(broken, <<Writable(a)>>, {a}),
   Call(main, <<ReadOnly(s), Writable(s)>>, {s}),
   Call(main, <<Writable(a), ReadOnly(b)>>, {a}),
   Call(main, <<Writable(a), Writable(a), Writable(a)>>, {a}),
   Call(main, <<>>, {}),
   Call(main, <<Writable(a), ReadOnly(b)>>, {a, b}),
   Call(main, <<ReadOnly(b), Writable(b)>>, {b}),
   Call(main, <<ReadOnly(a), ReadOnly(s)>>, {a, s})}
RentSubmissions ==
  {[c EXCEPT !.rent = TRUE] :
     c \in {Call(main, <<Writable(a)>>, {a}), Call(main, <<Writable(a), Writable(b)>>, {a, b})}}
AllSubmissions == SomeSubmissions \cup RentSubmissions

-----------------------------------------------------------------------------
(* uniqueChanges as the code computes it: mergeRef folded over the references. *)

mergeRef(acc, c) ==
  IF \E i \in DOMAIN acc : acc[i].key = c.key
  THEN [i \in DOMAIN acc |->
          IF acc[i].key = c.key THEN [acc[i] EXCEPT !.writable = @ \/ c.writable] ELSE acc[i]]
  ELSE Append(acc, c)

SomeChanges == [key : {a, b}, writable : BOOLEAN, held : {0, 1}]
MergeAgrees(refs) ==
  LET merged == FoldLeft(mergeRef, <<>>, refs)
  IN  /\ \A i, j \in DOMAIN merged : merged[i].key = merged[j].key => i = j
      /\ {merged[i] : i \in DOMAIN merged} = Range(uniqueChanges(refs))
ASSUME MergeAssumption == \A n \in 0 .. 3 : \A refs \in [1 .. n -> SomeChanges] : MergeAgrees(refs)
=============================================================================
