-------------------------- MODULE ChunkNonceProofs --------------------------
(***************************************************************************)
(* chunk_nonce for every width of its two halves.                          *)
(***************************************************************************)
EXTENDS ChunkNonce, TLAPS

\* The derived nonce fits the 12 bytes it is copied into.
THEOREM NonceInRange ==
    ASSUME NEW base \in Nonce, NEW index \in ChunkIndex
    PROVE  chunk_nonce(base, index) \in Nonce
  BY WidthAssumption
  DEF Nonce, ChunkIndex, chunk_nonce, overflowing_add, wrapping_add

\* Two chunks of one file never share a nonce, whatever the base nonce is and
\* however often its halves wrap: the nonce determines the chunk index.
THEOREM NonceDeterminesIndex ==
    ASSUME NEW base \in Nonce, NEW i \in ChunkIndex, NEW j \in ChunkIndex,
           chunk_nonce(base, i) = chunk_nonce(base, j)
    PROVE  i = j
  <1>1. overflowing_add(base.lo, i).sum = overflowing_add(base.lo, j).sum
    BY DEF chunk_nonce
  <1>2. base.lo \in 0 .. LoMod - 1
    BY DEF Nonce
  <1> QED
    BY <1>1, <1>2, WidthAssumption DEF ChunkIndex, overflowing_add

\* chunk_nonce adds the index to the 96-bit integer the base nonce stands for,
\* modulo 2^96 ("treat the 12-byte base nonce as a 96-bit big-endian integer
\* and add the chunk index").
THEOREM NonceIsSum ==
    ASSUME NEW base \in Nonce, NEW index \in ChunkIndex
    PROVE  NonceValue(chunk_nonce(base, index)) \in
              {NonceValue(base) + index,
               NonceValue(base) + index - HiMod * LoMod}
  <1> DEFINE n == chunk_nonce(base, index)
  <1>0. /\ base.hi \in 0 .. HiMod - 1 /\ base.lo \in 0 .. LoMod - 1
        /\ index \in 0 .. LoMod - 1 /\ HiMod \in Nat \ {0} /\ LoMod \in Nat \ {0}
    BY WidthAssumption DEF Nonce, ChunkIndex
  <1>1. CASE base.lo + index < LoMod
    <2>1. n = [hi |-> base.hi, lo |-> base.lo + index]
      BY <1>0, <1>1 DEF chunk_nonce, overflowing_add, wrapping_add
    <2> QED
      BY <1>0, <2>1 DEF NonceValue
  <1>2. CASE base.lo + index >= LoMod /\ base.hi + 1 < HiMod
    <2>1. n = [hi |-> base.hi + 1, lo |-> base.lo + index - LoMod]
      BY <1>0, <1>2 DEF chunk_nonce, overflowing_add, wrapping_add
    <2>2. (base.hi + 1) * LoMod = base.hi * LoMod + LoMod
      BY <1>0
    <2>3. NonceValue(n) = (base.hi + 1) * LoMod + (base.lo + index - LoMod)
      BY <2>1 DEF NonceValue
    <2>4. NonceValue(n) = NonceValue(base) + index
      <3>1. PICK k \in Int : base.hi * LoMod = k
        BY <1>0
      <3>2. NonceValue(base) = k + base.lo
        BY <3>1 DEF NonceValue
      <3> HIDE DEF n
      <3> QED
        BY <1>0, <2>2, <2>3, <3>1, <3>2
    <2> QED
      BY <2>4
  <1>3. CASE base.lo + index >= LoMod /\ base.hi + 1 = HiMod
    <2>1. n = [hi |-> 0, lo |-> base.lo + index - LoMod]
      BY <1>0, <1>3 DEF chunk_nonce, overflowing_add, wrapping_add
    <2>2. HiMod * LoMod = base.hi * LoMod + LoMod
      BY <1>0, <1>3
    <2>3. NonceValue(n) = 0 * LoMod + (base.lo + index - LoMod)
      BY <2>1 DEF NonceValue
    <2>4. NonceValue(n) = NonceValue(base) + index - HiMod * LoMod
      <3>1. PICK k \in Int : base.hi * LoMod = k
        BY <1>0
      <3>2. NonceValue(base) = k + base.lo
        BY <3>1 DEF NonceValue
      <3>3. 0 * LoMod = 0
        BY <1>0
      <3> HIDE DEF n
      <3> QED
        BY <1>0, <2>2, <2>3, <3>1, <3>2, <3>3
    <2> QED
      BY <2>4
  <1> QED
    BY <1>0, <1>1, <1>2, <1>3
=============================================================================
