-------------------------- MODULE MCSystemProgram ---------------------------
(* Two accounts, of which b is derived from base a; two-bit lamports.        *)
EXTENDS SystemProgram

CONSTANTS a, b, p, short, long

MCSeedAddress ==
  [x \in SeedTriple |->
     IF x.base = a /\ x.owner = p THEN b ELSE NoKey]

MCIxs ==
  [op : {"Transfer"}, lamports : 0 .. 2]
    \cup [op : {"CreateAccount"}, lamports : {0, 2}, space : {1, 2}, owner : Owners]
    \cup [op : {"Allocate"}, space : {0, 1, 2}]
    \cup [op : {"Assign"}, owner : Owners]
    \cup [op : {"CreateAccountWithSeed"}, base : Keys, seed : Seeds,
          lamports : {1}, space : {1}, owner : Owners]
    \cup [op : {"AllocateWithSeed"}, base : Keys, seed : Seeds, space : {1}, owner : Owners]
    \cup [op : {"AssignWithSeed"}, base : Keys, seed : Seeds, owner : Owners]
    \cup [op : {"TransferWithSeed"}, lamports : {1, 2}, seed : Seeds, owner : Owners]
    \cup [op : {"AuthorizeNonce", "InitializeNonce"}, authority : Keys]
    \cup [op : {"AdvanceNonce", "UpgradeNonce", "Unknown"}]
    \cup [op : {"WithdrawNonce"}, lamports : {1, 2}]

MCTransfers == [op : {"Transfer"}, lamports : 0 .. 2]

MCGrants ==
  {[signers |-> {a, b}, writables |-> {a, b}],
   [signers |-> {a}, writables |-> {a, b}],
   [signers |-> {b}, writables |-> {a, b}],
   [signers |-> {b}, writables |-> {b}]}

MCBalances == {0, 2}
=============================================================================
