------------------------------ MODULE Accounts ------------------------------
(***************************************************************************)
(* Accounts as programs and the runtime see them.  An account is lamports, *)
(* an owner, a data length and the data.  The data is one value, read      *)
(* through the layout of a durable nonce (version, state tag, authority,   *)
(* nonce) because the System program tells those parts apart; it is there  *)
(* when the length is positive.                                            *)
(***************************************************************************)
EXTENDS Naturals, Sequences

CONSTANTS
  Keys,         \* account addresses
  NoKey,        \* thirty-two zero bytes where an address is expected
  System,       \* the System program as an owner
  Programs,     \* the other programs, as owners
  MaxDataLen,   \* MAX_PERMITTED_DATA_LENGTH
  MaxIncrease   \* MAX_PERMITTED_DATA_INCREASE

Owners == Programs \cup {System}

ASSUME SystemAssumption == System \notin Programs /\ NoKey \notin Keys
ASSUME LengthAssumption == MaxDataLen \in Nat /\ MaxIncrease \in Nat

\* A zeroed buffer is all zeroes.
Data == [version : {0, 1}, tag : {0, 1}, authority : Keys \cup {NoKey}, nonce : {0, 1}]
ZeroData == [version |-> 0, tag |-> 0, authority |-> NoKey, nonce |-> 0]

Content == [lamports : Nat, len : Nat, data : Data, owner : Owners]

\* One element of an account list, with the privileges that go with it.
Ref == [key : Keys, signer : BOOLEAN, writable : BOOLEAN]
Priv == [signer : BOOLEAN, writable : BOOLEAN]
=============================================================================
