----------------------------- MODULE ChunkNonce -----------------------------
(***************************************************************************)
(* The per-chunk nonce of src/cipher.rs: the 12-byte base nonce is loaded  *)
(* as a u32 (hi) and a u64 (lo), the chunk index (a u64) is added to lo,   *)
(* and the carry, if any, to hi.  The widths are the parameters HiMod      *)
(* (2^32 in the code) and LoMod (2^64), so that TLC can reach both wraps.  *)
(***************************************************************************)
EXTENDS Integers

CONSTANTS
    HiMod,      \* number of values of the top part, 2^32
    LoMod       \* number of values of the bottom part and of an index, 2^64

ASSUME WidthAssumption ==
    /\ HiMod \in Nat \ {0}
    /\ LoMod \in Nat \ {0}

Nonce == [hi : 0 .. HiMod - 1, lo : 0 .. LoMod - 1]

ChunkIndex == 0 .. LoMod - 1

\* u64::overflowing_add: the wrapped sum of two u64 and the carry.
overflowing_add(lo, index) ==
    IF lo + index < LoMod THEN [sum |-> lo + index, carry |-> 0]
                          ELSE [sum |-> lo + index - LoMod, carry |-> 1]

\* u32::wrapping_add of a carry bit.
wrapping_add(hi, carry) ==
    IF hi + carry < HiMod THEN hi + carry ELSE hi + carry - HiMod

\* Mutants of chunk_nonce.
chunk_nonce_ignores_index(base, index) == base
chunk_nonce_drops_carry(base, index) ==
    [hi |-> base.hi, lo |-> overflowing_add(base.lo, index).sum]

chunk_nonce(base, index) ==
    LET s == overflowing_add(base.lo, index)
    IN  [hi |-> wrapping_add(base.hi, s.carry), lo |-> s.sum]

\* The 96-bit big-endian integer a nonce stands for.
NonceValue(n) == n.hi * LoMod + n.lo
=============================================================================
