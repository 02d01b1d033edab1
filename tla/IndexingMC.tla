------------------------------ MODULE IndexingMC ------------------------------
(***************************************************************************)
(* A collection with the token 0 and a token 1 that is minted twice, as a  *)
(* token of ERC1155 may be.                                                *)
(***************************************************************************)
EXTENDS Indexing

CONSTANTS r1, r2

Mint(token, b) == [token |-> token, block |-> b]

MCMints == <<Mint(0, 7), Mint(1, 7), Mint(1, 8)>>

\* Two runs for the same mint, that may overlap; or one run, for both tokens
\* or for the two mints of one, and another whose range holds no mint.
SamePlan == [r \in Runs |-> <<2, 2>>]
OnePlan(first, end) == [r \in Runs |-> IF r = r1 THEN <<first, end>> ELSE <<3, 2>>]
MCPlans == {SamePlan, OnePlan(1, 2), OnePlan(2, 3)}

\* Texts: 0 is the character "0", which starts every address.
MCAddress == <<0, 9>>
MCText == [t \in Tokens |-> <<t>>]

MCAttributes == [t \in Tokens |-> IF t = 0 THEN 2 ELSE 1]
MCScope == {"TokenContracts", "TokenMetadata", "TokenMetadataAttributes", "TokenMedia"}
=============================================================================
