------------------------- MODULE EncryptStreamProofs -------------------------
(***************************************************************************)
(* The chunk loop for every chunk size, buffer capacity and file length.   *)
(***************************************************************************)
EXTENDS EncryptStream, ChunkNonceProofs, SequenceTheorems

LEMMA MulSucc ==
    ASSUME NEW a \in Nat, NEW c \in Nat
    PROVE  a * c \in Nat /\ (a + 1) * c = a * c + c
  OBVIOUS

\* At least one chunk is as long as its number of bytes.
LEMMA MulBound ==
    ASSUME NEW a \in Nat, NEW c \in Nat \ {0}
    PROVE  a <= a * c
  OBVIOUS

\* Quotient and remainder are unique.
LEMMA DivUnique ==
    ASSUME NEW n \in Nat, NEW d \in Nat \ {0}, NEW q \in Nat,
           NEW r \in 0 .. d - 1, n = q * d + r
    PROVE  n \div d = q /\ n % d = r
  OBVIOUS

LEMMA DivCeil ==
    ASSUME NEW n \in Nat, NEW d \in Nat \ {0}, NEW q \in Nat,
           NEW r \in 0 .. d - 1, n = q * d + r
    PROVE  div_ceil(n, d) = IF r = 0 THEN q ELSE q + 1
  <1>1. n \div d = q /\ n % d = r
    BY DivUnique
  <1> QED
    BY <1>1 DEF div_ceil

LEMMA DivCeilNat ==
    ASSUME NEW n \in Nat, NEW d \in Nat \ {0}
    PROVE  div_ceil(n, d) \in Nat
  BY DEF div_ceil
-----------------------------------------------------------------------------
(* The inductive invariant.                                                 *)

\* Where the sealed bytes end.
End == IF extents = << >> THEN 0
       ELSE extents[Len(extents)].from + extents[Len(extents)].len

\* The bytes delivered so far are the full chunks sealed so far and the ones
\* in the buffer; the BufReader is exactly `ahead` bytes ahead of them.
Position ==
    /\ fpos <= MaxLen /\ ahead <= fpos
    /\ pc = "stat" => fpos = 0 /\ ahead = 0 /\ total = 0 /\ chunk_index = 0 /\ ~resized
    /\ pc \in {"stat", "read", "emit"} =>
          /\ fpos - ahead = chunk_index * ChunkSize + total
          /\ \A i \in 1 .. Len(extents) : extents[i].len = ChunkSize
    /\ pc = "read" => total < ChunkSize
    /\ pc = "emit" => total >= 1
    /\ pc = "Truncated" => chunk_index # chunk_count

\* As long as the length is the one metadata() reported, a short chunk or an
\* empty one means that the whole file has been delivered.
AtEnd ==
    ~resized =>
        /\ fpos <= len
        /\ pc # "stat" => chunk_count = div_ceil(len, ChunkSize)
        /\ pc = "emit" /\ total < ChunkSize => ahead = 0 /\ fpos = len
        /\ pc \in {"count", "Ok", "Truncated"} =>
              chunk_index = chunk_count /\ len = End

IInv == TypeOK /\ Tiling /\ Position /\ AtEnd

LEMMA InitIInv == Init => IInv
  <1> SUFFICES ASSUME Init PROVE IInv
    OBVIOUS
  <1> USE SizeAssumption
  <1>0. extents \in Seq(Extent)
    BY EmptySeq DEF Init
  <1>1. TypeOK
    <2>1. resized \in BOOLEAN
      BY Zenon DEF Init
    <2>2. pc \in {"stat", "read", "emit", "count"} \cup Final
      BY DEF Init
    <2> QED
      BY <1>0, <2>1, <2>2, SMT DEF Init, TypeOK
  <1>2. Tiling
    BY DEF Init, Tiling
  <1>3. Position
    BY DEF Init, Position
  <1>4. AtEnd
    BY DEF Init, AtEnd
  <1> QED
    BY <1>1, <1>2, <1>3, <1>4 DEF IInv

LEMMA StatIInv == IInv /\ Stat => IInv'
  <1> SUFFICES ASSUME IInv, Stat PROVE IInv'
    OBVIOUS
  <1> USE SizeAssumption DEF IInv
  <1>0. len \in Nat /\ chunk_count' \in Nat
    BY DivCeilNat DEF TypeOK, Stat
  <1>1. TypeOK'
    BY <1>0 DEF TypeOK, Stat, Final, input
  <1>2. Tiling'
    BY DEF Tiling, Stat
  <1>3. Position'
    BY DEF Position, TypeOK, Stat, input
  <1>4. AtEnd'
    BY DEF AtEnd, Stat, input
  <1> QED
    BY <1>1, <1>2, <1>3, <1>4

\* What a read does, whichever way the BufReader serves it.
LEMMA DeliverFacts ==
    ASSUME TypeOK, Position, NEW k \in 1 .. ChunkSize, total < ChunkSize, Deliver(k)
    PROVE  /\ k <= ChunkSize - total
           /\ fpos' \in Nat /\ ahead' \in 0 .. Capacity
           /\ fpos' - ahead' = fpos - ahead + k
           /\ ahead' <= fpos'
           /\ fpos' <= MaxLen
           /\ fpos <= len => fpos' <= len
  <1> USE SizeAssumption DEF TypeOK, Position
  <1>1. CASE ahead > 0 /\ k = (IF ahead < ChunkSize - total THEN ahead
                               ELSE ChunkSize - total)
             /\ ahead' = ahead - k /\ fpos' = fpos
    BY <1>1
  <1>2. CASE ahead = 0 /\ Kernel(k, ChunkSize - total) /\ ahead' = ahead
    BY <1>2 DEF Kernel
  <1>3. ASSUME ahead = 0, NEW n \in 1 .. Capacity, Kernel(n, Capacity),
               k = IF n < ChunkSize - total THEN n ELSE ChunkSize - total,
               ahead' = n - k
        PROVE  /\ k <= ChunkSize - total
               /\ fpos' \in Nat /\ ahead' \in 0 .. Capacity
               /\ fpos' - ahead' = fpos - ahead + k
               /\ ahead' <= fpos'
               /\ fpos' <= MaxLen
               /\ fpos <= len => fpos' <= len
    BY <1>3 DEF Kernel
  <1> QED
    BY <1>1, <1>2, <1>3 DEF Deliver

LEMMA ReadIInv == IInv /\ Read => IInv'
  <1> SUFFICES ASSUME IInv, Read PROVE IInv'
    OBVIOUS
  <1> USE SizeAssumption DEF IInv
  <1>1. PICK k \in 1 .. ChunkSize : Deliver(k) /\ total' = total + k
    BY DEF Read
  <1>2. total < ChunkSize /\ pc = "read"
    BY DEF Read, Position
  <1>3. /\ k <= ChunkSize - total
        /\ fpos' \in Nat /\ ahead' \in 0 .. Capacity
        /\ fpos' - ahead' = fpos - ahead + k
        /\ ahead' <= fpos'
        /\ fpos' <= MaxLen
        /\ fpos <= len => fpos' <= len
    BY <1>1, <1>2, DeliverFacts
  <1>4. total' = total + k /\ total' \in 1 .. ChunkSize /\ total \in Nat
    BY <1>1, <1>3 DEF TypeOK
  <1>5. TypeOK'
    BY <1>3, <1>4 DEF TypeOK, Read, Final, input
  <1>6. Tiling'
    BY DEF Tiling, Read
  <1>7. Position'
    <2>1. (fpos - ahead = chunk_index * ChunkSize + total)
      BY <1>2 DEF Position
    <2>2. chunk_index * ChunkSize \in Nat /\ fpos \in Nat /\ ahead \in Nat
      BY MulSucc DEF TypeOK
    <2>3. fpos' - ahead' = chunk_index * ChunkSize + total'
      <3>1. PICK c \in Nat : c = chunk_index * ChunkSize
        BY <2>2
      <3>2. k \in Int /\ fpos - ahead + k = c + (total + k)
        BY <1>1, <1>4, <2>1, <2>2, <3>1
      <3> QED
        BY <1>3, <1>4, <3>1, <3>2
    <2>4. pc' = "read" => total' < ChunkSize
      BY <1>4 DEF Read
    <2>5. \A i \in 1 .. Len(extents) : extents[i].len = ChunkSize
      BY <1>2 DEF Position
    <2> QED
      BY <1>3, <1>4, <2>3, <2>4, <2>5 DEF Position, Read
  <1>8. AtEnd'
    BY <1>2, <1>3, <1>4 DEF AtEnd, Read, input
  <1> QED
    BY <1>5, <1>6, <1>7, <1>8

LEMMA InterruptedIInv == IInv /\ (Interrupted \/ ReadError) => IInv'
  <1> SUFFICES ASSUME IInv, Interrupted \/ ReadError PROVE IInv'
    OBVIOUS
  <1> USE SizeAssumption DEF IInv
  <1>1. TypeOK'
    <2>1. CASE Interrupted
      BY <2>1 DEF TypeOK, Interrupted, Final, input
    <2>2. CASE ReadError
      BY <2>2 DEF TypeOK, ReadError, Final, input
    <2> QED
      BY <2>1, <2>2
  <1>2. Tiling'
    BY DEF Tiling, Interrupted, ReadError
  <1>3. Position'
    BY DEF Position, Interrupted, ReadError, input
  <1>4. AtEnd'
    BY DEF AtEnd, End, Interrupted, ReadError, input
  <1> QED
    BY <1>1, <1>2, <1>3, <1>4

\* What the delivered bytes say of the committed number of chunks.
LEMMA WholeCount ==
    ASSUME IInv, ~resized, pc \in {"read", "emit"}, fpos = len, ahead = 0,
           total < ChunkSize
    PROVE  chunk_count = IF total = 0 THEN chunk_index ELSE chunk_index + 1
  <1> USE SizeAssumption DEF IInv
  <1>1. len \in Nat /\ chunk_index \in Nat /\ total \in 0 .. ChunkSize - 1
    BY DEF TypeOK
  <1>2. len = chunk_index * ChunkSize + total
    BY <1>1, MulSucc DEF Position, TypeOK
  <1>3. chunk_count = div_ceil(len, ChunkSize)
    BY DEF AtEnd
  <1> QED
    BY <1>1, <1>2, <1>3, DivCeil

\* While the loop runs the sealed chunks end where the full ones do.
LEMMA FullEnd ==
    ASSUME IInv, pc \in {"read", "emit"}
    PROVE  End = chunk_index * ChunkSize
  <1> USE SizeAssumption DEF IInv
  <1>1. CASE extents = << >>
    BY <1>1 DEF End, Tiling
  <1>2. CASE extents # << >>
    <2>1. Len(extents) \in Nat \ {0} /\ Len(extents) = chunk_index
      BY <1>2, EmptySeq DEF TypeOK, Tiling
    <2>2. /\ extents[chunk_index].from = (chunk_index - 1) * ChunkSize
          /\ extents[chunk_index].len = ChunkSize
      BY <2>1 DEF Tiling, Position
    <2>3. End = (chunk_index - 1) * ChunkSize + ChunkSize
      BY <1>2, <2>1, <2>2 DEF End
    <2>4. chunk_index - 1 \in Nat /\ (chunk_index - 1) + 1 = chunk_index
      BY <2>1
    <2> QED
      BY <2>3, <2>4, MulSucc
  <1> QED
    BY <1>1, <1>2

LEMMA EofIInv == IInv /\ Eof => IInv'
  <1> SUFFICES ASSUME IInv, Eof PROVE IInv'
    OBVIOUS
  <1> USE SizeAssumption DEF IInv
  <1>0. pc = "read" /\ total < ChunkSize /\ ahead = 0 /\ fpos >= len
        /\ total \in Nat
    BY DEF Eof, Position, TypeOK
  <1>1. TypeOK'
    BY DEF TypeOK, Eof, Final, input
  <1>2. Tiling'
    BY DEF Tiling, Eof
  <1>3. Position'
    BY <1>0 DEF Position, Eof, input
  <1>4. AtEnd'
    <2> SUFFICES ASSUME ~resized PROVE AtEnd'
      BY DEF AtEnd, Eof, input
    <2>1. fpos = len
      BY <1>0 DEF AtEnd, TypeOK
    <2>2. total = 0 => chunk_count = chunk_index
      BY <1>0, <2>1, WholeCount
    <2>3. total = 0 => len = End
      <3>1. len = chunk_index * ChunkSize + total
        BY <1>0, <2>1 DEF Position, TypeOK
      <3> QED
        BY <1>0, <3>1, FullEnd, MulSucc DEF TypeOK
    <2>4. End' = End
      BY DEF End, Eof
    <2> QED
      BY <1>0, <2>1, <2>2, <2>3, <2>4 DEF AtEnd, Eof, input
  <1> QED
    BY <1>1, <1>2, <1>3, <1>4

LEMMA EmitIInv == IInv /\ Emit => IInv'
  <1> SUFFICES ASSUME IInv, Emit PROVE IInv'
    OBVIOUS
  <1> USE SizeAssumption DEF IInv
  <1> DEFINE x == [from  |-> fpos - ahead - total, len |-> total,
                   nonce |-> chunk_nonce(base, chunk_index)]
  <1>0. /\ pc = "emit" /\ total \in 1 .. ChunkSize /\ chunk_index \in Nat
        /\ chunk_index * ChunkSize \in Nat
        /\ fpos \in Nat /\ ahead \in Nat /\ len \in Nat
    BY MulSucc DEF Emit, Position, TypeOK
  <1>1. /\ fpos - ahead = chunk_index * ChunkSize + total
        /\ \A i \in 1 .. Len(extents) : extents[i].len = ChunkSize
    BY <1>0 DEF Position
  <1>2. x.from = chunk_index * ChunkSize /\ x.len = total
    BY <1>0, <1>1
  <1>3. chunk_index \in ChunkIndex
    <2>1. chunk_index <= chunk_index * ChunkSize
      BY <1>0, MulBound
    <2> QED
      BY <1>0, <1>1, <2>1, WidthAssumption DEF ChunkIndex, Position, TypeOK
  <1>4. x \in Extent
    BY <1>0, <1>2, <1>3, NonceInRange DEF Extent, TypeOK
  <1>5. /\ extents \in Seq(Extent) /\ extents' = Append(extents, x)
        /\ Len(extents) = chunk_index /\ chunk_index' = chunk_index + 1
    BY DEF Emit, TypeOK, Tiling
  <1> HIDE DEF x
  <1>6. /\ extents' \in Seq(Extent) /\ Len(extents') = chunk_index + 1
        /\ extents'[chunk_index + 1] = x
        /\ \A i \in 1 .. chunk_index : extents'[i] = extents[i]
    BY <1>4, <1>5, <1>0
  <1>7. TypeOK'
    BY <1>0, <1>5, <1>6 DEF TypeOK, Emit, Final, input
  <1>8. Tiling'
    <2> SUFFICES ASSUME NEW i \in 1 .. chunk_index + 1
                 PROVE  /\ extents'[i].from = (i - 1) * ChunkSize
                        /\ extents'[i].len \in 1 .. ChunkSize
                        /\ i < chunk_index + 1 => extents'[i].len = ChunkSize
      BY <1>5, <1>6 DEF Tiling
    <2>1. CASE i = chunk_index + 1
      <3>1. i - 1 = chunk_index
        BY <2>1, <1>0
      <3> QED
        BY <2>1, <3>1, <1>0, <1>2, <1>6
    <2>2. CASE i \in 1 .. chunk_index
      BY <2>2, <1>1, <1>5, <1>6 DEF Tiling
    <2> QED
      BY <2>1, <2>2, <1>0
  <1>9. Position'
    <2>1. (chunk_index + 1) * ChunkSize = chunk_index * ChunkSize + ChunkSize
      BY <1>0, MulSucc
    <2>2. pc' \in {"read", "count"} /\ (pc' = "read" <=> total = ChunkSize)
      BY <1>0 DEF Emit
    <2>3. pc' = "read" => fpos - ahead = (chunk_index + 1) * ChunkSize + 0
      BY <2>1, <2>2, <1>0, <1>1
    <2>4. pc' = "read" => \A i \in 1 .. Len(extents') : extents'[i].len = ChunkSize
      <3> SUFFICES ASSUME pc' = "read", NEW i \in 1 .. chunk_index + 1
                   PROVE  extents'[i].len = ChunkSize
        BY <1>6
      <3>1. CASE i = chunk_index + 1
        BY <3>1, <2>2, <1>2, <1>6
      <3>2. CASE i \in 1 .. chunk_index
        BY <3>2, <1>1, <1>5, <1>6
      <3> QED
        BY <3>1, <3>2, <1>0
    <2>5. total' = 0 /\ fpos' = fpos /\ ahead' = ahead
      BY DEF Emit
    <2>6. fpos' <= MaxLen /\ ahead' <= fpos'
      BY <2>5 DEF Position
    <2> QED
      BY <2>2, <2>3, <2>4, <2>5, <2>6, <1>5 DEF Position
  <1>10. AtEnd'
    <2> SUFFICES ASSUME ~resized PROVE AtEnd'
      BY DEF AtEnd, Emit, input
    <2>1. CASE total = ChunkSize
      BY <2>1, <1>0 DEF AtEnd, Emit, input
    <2>2. CASE total < ChunkSize
      <3>1. ahead = 0 /\ fpos = len
        BY <1>0, <2>2 DEF AtEnd
      <3>2. chunk_count = chunk_index + 1
        BY <1>0, <2>2, <3>1, WholeCount
      <3>3. extents' # << >> /\ Len(extents') = chunk_index + 1
        BY <1>0, <1>6
      <3>4. End' = x.from + x.len
        BY <3>3, <1>6 DEF End
      <3>5. End' = len
        BY <3>1, <3>4, <1>0, <1>1, <1>2
      <3> QED
        BY <1>0, <2>2, <3>1, <3>2, <3>5, <1>5 DEF AtEnd, Emit, input
    <2> QED
      BY <2>1, <2>2, <1>0
  <1> QED
    BY <1>7, <1>8, <1>9, <1>10

LEMMA CountIInv == IInv /\ Count => IInv'
  <1> SUFFICES ASSUME IInv, Count PROVE IInv'
    OBVIOUS
  <1> USE SizeAssumption DEF IInv
  <1>1. TypeOK'
    BY DEF TypeOK, Count, Final, input
  <1>2. Tiling'
    BY DEF Tiling, Count
  <1>3. Position'
    BY DEF Position, Count, input
  <1>4. AtEnd'
    BY DEF AtEnd, End, Count, input
  <1> QED
    BY <1>1, <1>2, <1>3, <1>4

LEMMA ResizeIInv == IInv /\ Resize => IInv'
  <1> SUFFICES ASSUME IInv, Resize PROVE IInv'
    OBVIOUS
  <1> USE SizeAssumption DEF IInv
  <1>1. TypeOK'
    BY DEF TypeOK, Resize, Final
  <1>2. Tiling'
    BY DEF Tiling, Resize
  <1>3. Position'
    BY DEF Position, Resize
  <1>4. AtEnd'
    <2>1. ~resized' => pc = "stat" /\ pc' = "stat"
      BY DEF Resize
    <2>2. pc = "stat" => fpos' = 0 /\ fpos' <= len'
      BY <1>1 DEF Position, Resize, TypeOK
    <2> QED
      BY <2>1, <2>2 DEF AtEnd
  <1> QED
    BY <1>1, <1>2, <1>3, <1>4

LEMMA StutterIInv == IInv /\ UNCHANGED vars => IInv'
  BY DEF IInv, TypeOK, Tiling, Position, AtEnd, End, vars

\* The invariant holds of every reachable state.
THEOREM StreamInvariance == Spec => []IInv
  <1>1. IInv /\ [Next]_vars => IInv'
    BY StatIInv, ReadIInv, InterruptedIInv, EofIInv, EmitIInv, CountIInv,
       ResizeIInv, StutterIInv DEF Next, Step, Terminating
  <1> QED
    BY InitIInv, <1>1, PTL DEF Spec

\* read_chunk never overruns its buffer, and the nonce of every chunk fits.
THEOREM StreamTypes == Spec => []TypeOK
  <1>1. IInv => TypeOK
    BY DEF IInv
  <1> QED
    BY StreamInvariance, <1>1, PTL

\* The chunks encrypt_chunks seals tile the input, for every chunk size and
\* every way the reads may be cut short.
THEOREM ChunksTile == Spec => []Tiling
  <1>1. IInv => Tiling
    BY DEF IInv
  <1> QED
    BY StreamInvariance, <1>1, PTL

\* On a file of unchanged length an encryption that passes the count check has
\* sealed every byte.
THEOREM SealsWholeFile == Spec => []WholeFile
  <1>1. IInv => WholeFile
    BY DEF IInv, AtEnd, End, WholeFile
  <1> QED
    BY StreamInvariance, <1>1, PTL

\* The count check of encrypt_file fires only for a file that was modified.
THEOREM CountCheckIsQuiet == Spec => []MismatchOnlyIfResized
  <1>1. IInv => MismatchOnlyIfResized
    BY DEF IInv, TypeOK, Position, AtEnd, MismatchOnlyIfResized
  <1> QED
    BY StreamInvariance, <1>1, PTL

-----------------------------------------------------------------------------
(* The nonces.                                                              *)

\* A nonce stands for an integer below 2^96.
LEMMA NonceValueRange ==
    ASSUME NEW n \in Nonce
    PROVE  NonceValue(n) \in 0 .. HiMod * LoMod - 1
  <1>1. /\ n.hi \in 0 .. HiMod - 1 /\ n.lo \in 0 .. LoMod - 1
        /\ HiMod \in Nat \ {0} /\ LoMod \in Nat \ {0}
    BY WidthAssumption DEF Nonce
  <1>2. PICK k \in Nat : HiMod = n.hi + 1 + k
    <2>1. HiMod - 1 - n.hi \in Nat /\ HiMod = n.hi + 1 + (HiMod - 1 - n.hi)
      BY <1>1
    <2> QED
      BY <2>1
  <1>3. HiMod * LoMod = n.hi * LoMod + LoMod + k * LoMod
    BY <1>1, <1>2
  <1>4. n.hi * LoMod \in Nat /\ k * LoMod \in Nat
    BY <1>1, <1>2
  <1>5. PICK a \in Nat, b \in Nat : a = n.hi * LoMod /\ b = k * LoMod
    BY <1>4
  <1>6. HiMod * LoMod = a + LoMod + b
    BY <1>3, <1>5
  <1>7. NonceValue(n) = a + n.lo
    BY <1>5 DEF NonceValue
  <1> QED
    BY <1>1, <1>6, <1>7

\* chunk_nonce is addition of 96-bit integers modulo 2^96.
LEMMA NonceIsSumModulo ==
    ASSUME NEW b \in Nonce, NEW i \in ChunkIndex
    PROVE  NonceValue(chunk_nonce(b, i)) = (NonceValue(b) + i) % (HiMod * LoMod)
  <1> DEFINE N == HiMod * LoMod
             v == NonceValue(chunk_nonce(b, i))
             s == NonceValue(b) + i
  <1>1. v \in 0 .. N - 1 /\ NonceValue(b) \in 0 .. N - 1
    BY NonceInRange, NonceValueRange
  <1>2. N \in Nat \ {0} /\ s \in Nat
    <2>1. N \in Nat \ {0}
      BY WidthAssumption
    <2>2. i \in Nat
      BY DEF ChunkIndex
    <2> HIDE DEF N
    <2> QED
      BY <1>1, <2>1, <2>2
  <1>3. v = s \/ v = s - N
    <2> DEFINE u == NonceValue(b)
    <2>1. v = u + i \/ v = u + (i - N)
      BY NonceIsSum, Zenon
    <2>2. u \in Int /\ i \in Int /\ N \in Int
      BY <1>1, <1>2 DEF ChunkIndex
    <2>3. s = u + i
      OBVIOUS
    <2> HIDE DEF N, v, s, u
    <2> QED
      BY <2>1, <2>2, <2>3
  <1> HIDE DEF N, v, s
  <1>4. CASE s = v
    <2>1. s = 0 * N + v
      BY <1>1, <1>2, <1>4
    <2>2. s % N = v
      BY <1>1, <1>2, <2>1, DivUnique
    <2> QED
      BY <2>2 DEF N, v, s
  <1>5. CASE v = s - N
    <2>1. s = 1 * N + v
      BY <1>1, <1>2, <1>5
    <2>2. s % N = v
      BY <1>1, <1>2, <2>1, DivUnique
    <2> QED
      BY <2>2 DEF N, v, s
  <1> QED
    BY <1>3, <1>4, <1>5

\* Every chunk was sealed under the nonce of its own index, which fits a u64.
Nonces ==
    \A i \in 1 .. Len(extents) :
        i - 1 \in ChunkIndex /\ extents[i].nonce = chunk_nonce(base, i - 1)

LEMMA NoncesStep == IInv /\ Nonces /\ [Next]_vars => Nonces'
  <1> SUFFICES ASSUME IInv, Nonces, [Next]_vars PROVE Nonces'
    OBVIOUS
  <1>1. CASE Emit
    <2> DEFINE x == [from  |-> fpos - ahead - total, len |-> total,
                     nonce |-> chunk_nonce(base, chunk_index)]
    <2>1. /\ extents \in Seq(Extent) /\ extents' = Append(extents, x)
          /\ Len(extents) = chunk_index /\ chunk_index \in Nat /\ base' = base
      BY <1>1 DEF Emit, IInv, TypeOK, Tiling
    <2>2. chunk_index \in ChunkIndex
      <3>1. /\ fpos - ahead = chunk_index * ChunkSize + total /\ fpos <= MaxLen
            /\ total \in Nat /\ total >= 1 /\ fpos \in Nat /\ ahead \in Nat
        BY <1>1 DEF Emit, IInv, Position, TypeOK
      <3>2. chunk_index <= chunk_index * ChunkSize /\ chunk_index * ChunkSize \in Nat
        BY <2>1, SizeAssumption, MulBound, MulSucc
      <3> QED
        BY <2>1, <3>1, <3>2, SizeAssumption, WidthAssumption DEF ChunkIndex
    <2>3. x.nonce = chunk_nonce(base, chunk_index)
      OBVIOUS
    <2> HIDE DEF x
    <2>4. /\ Len(extents') = chunk_index + 1
          /\ extents'[chunk_index + 1] = x
          /\ \A i \in 1 .. chunk_index : extents'[i] = extents[i]
      BY <2>1, AppendProperties
    <2>5. ASSUME NEW i \in 1 .. chunk_index + 1
          PROVE  i - 1 \in ChunkIndex /\ extents'[i].nonce = chunk_nonce(base, i - 1)
      <3>1. CASE i \in 1 .. chunk_index
        BY <2>1, <2>4, <3>1 DEF Nonces
      <3>2. CASE i = chunk_index + 1
        <4>1. i - 1 = chunk_index
          BY <2>1, <3>2
        <4> QED
          BY <2>2, <2>3, <2>4, <3>2, <4>1
      <3> QED
        BY <2>1, <3>1, <3>2
    <2> QED
      BY <2>1, <2>4, <2>5 DEF Nonces
  <1>2. ASSUME extents' = extents, base' = base PROVE Nonces'
    BY <1>2 DEF Nonces
  <1>3. ASSUME ~Emit PROVE extents' = extents /\ base' = base
    BY <1>3 DEF Next, Step, Stat, Read, Eof, Count, Interrupted, ReadError, Resize,
                Terminating, vars
  <1> QED
    BY <1>1, <1>2, <1>3

\* Chunk i is sealed under base + i modulo 2^96, for every base nonce, every
\* length of the file and every way the reads may be cut short.
THEOREM NoncesCount == Spec => []CounterNonces
  <1>1. Init => Nonces
    BY DEF Init, Nonces
  <1>2. ASSUME IInv, Nonces PROVE CounterNonces
    <2> SUFFICES ASSUME NEW i \in 1 .. Len(extents)
                 PROVE  NonceValue(extents[i].nonce)
                            = (NonceValue(base) + i - 1) % (HiMod * LoMod)
      BY DEF CounterNonces
    <2>1. base \in Nonce /\ i - 1 \in ChunkIndex
          /\ extents[i].nonce = chunk_nonce(base, i - 1)
      BY <1>2 DEF IInv, TypeOK, Nonces
    <2>2. NonceValue(extents[i].nonce) = (NonceValue(base) + (i - 1)) % (HiMod * LoMod)
      BY <2>1, NonceIsSumModulo
    <2>3. NonceValue(base) \in Int /\ Len(extents) \in Nat
      BY <1>2, <2>1, NonceValueRange DEF IInv, TypeOK
    <2>4. NonceValue(base) + (i - 1) = NonceValue(base) + i - 1
      BY <2>3
    <2> QED
      BY <2>2, <2>4
  <1> QED
    BY <1>1, <1>2, NoncesStep, StreamInvariance, PTL DEF Spec
=============================================================================
