---------------------------- MODULE MCCpiRunner -----------------------------
(* An instance of the runner: two accounts, two levels of invokes.           *)
EXTENDS CpiRunner, TLC

CONSTANTS a, b, main, p

NoSeedAddress == [x \in SeedTriple |-> NoKey]

\* a is writable and signed, b is neither but derives from p's seeds.
OneData == [ZeroData EXCEPT !.version = 1]
TwoAccounts ==
  (a :> [lamports |-> 1, len |-> 1, data |-> ZeroData, owner |-> System]) @@
  (b :> [lamports |-> 0, len |-> 0, data |-> ZeroData, owner |-> p])
TwoGrants ==
  (a :> [signer |-> TRUE, writable |-> TRUE]) @@ (b :> [signer |-> FALSE, writable |-> FALSE])
PdaOfP == [x \in Programs |-> IF x = p THEN {b} ELSE {}]
FewStores == [lamports |-> {2}, len |-> {}, data |-> {OneData}, owner |-> {}]
RefsOf(k) == [key : {k}, signer : BOOLEAN, writable : BOOLEAN]
AllGranted(k) == [key |-> k, signer |-> TRUE, writable |-> TRUE]
SomeRequests ==
  {<<AllGranted(a), AllGranted(b)>>, <<AllGranted(a), AllGranted(a)>>,
   <<AllGranted(a), [AllGranted(a) EXCEPT !.writable = FALSE]>>}
    \cup {<<r>> : r \in RefsOf(b)}
OneTransfer == [op : {"Transfer"}, lamports : {1}]
=============================================================================
