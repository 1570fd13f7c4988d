-------------------------------- MODULE Digests --------------------------------
(***************************************************************************)
(* How src/digest.rs and its users encode what they hash and sign.  A      *)
(* digest is its preimage, a sequence of encoded fields: SHA-256 without   *)
(* collisions.  Two texts are equal when their fields are, so a field that *)
(* an encoding leaves out is one a verifier cannot see.                    *)
(***************************************************************************)
EXTENDS Naturals, SequencesExt, FiniteSetsExt

CONSTANT None  \* no value, and the null pointer

U64(n) == <<[u64 |-> n]>>
U8(n) == <<[u8 |-> n]>>
Raw(digest) == <<[raw |-> digest]>>

\* 64 lowercase hexadecimal digits, or text that is not.
Hex(digest) == [digits |-> digest]
NoHex == [digits |-> None]
ParseHex(text) == text.digits
Canonical(text) == text.digits # None
=============================================================================
