---------------------------- MODULE EncryptStream ----------------------------
(***************************************************************************)
(* How encrypt_file cuts its input into chunks (src/cipher.rs): metadata() *)
(* and div_ceil commit to a number of chunks, read_chunk fills a buffer of *)
(* ChunkSize bytes through a BufReader whose reads may be short or         *)
(* interrupted, encrypt_chunks seals what it got until a short chunk, and  *)
(* the two numbers are compared.  FileCipher has the same run one block at *)
(* a time; here the unit is the byte and the length of the file may change *)
(* between any two reads.                                                  *)
(***************************************************************************)
EXTENDS ChunkNonce, Sequences

CONSTANTS
    ChunkSize,      \* CHUNK_SIZE, 2^20 in the code
    Capacity,       \* capacity of the BufReader, 8192 in the code
    MaxLen,         \* bound on the length of the input
    MaxResizes,     \* bound on how often others change that length
    MaxSignals      \* bound on the reads a signal interrupts

ASSUME SizeAssumption ==
    /\ ChunkSize \in Nat \ {0}
    /\ Capacity \in Nat \ {0}
    /\ MaxLen \in Nat /\ MaxLen < LoMod     \* a length is a u64, as an index
    /\ MaxResizes \in Nat /\ MaxSignals \in Nat

VARIABLES
    len,            \* bytes the input file has now
    chunk_count,    \* what the header promises
    base,           \* base nonce of this run
    fpos,           \* offset of the descriptor
    ahead,          \* bytes the BufReader holds and has not delivered
    total,          \* bytes read_chunk has put in its buffer
    chunk_index,
    extents,        \* the sealed chunks: offset, length and nonce of each
    pc,
    resized,        \* history: the length changed after metadata()
    resizes,
    signals

vars == <<len, chunk_count, base, fpos, ahead, total, chunk_index, extents, pc,
          resized, resizes, signals>>
input == <<len, resized, resizes>>

Init ==
    /\ len \in 0 .. MaxLen
    /\ base \in Nonce
    /\ chunk_count = 0 /\ chunk_index = 0
    /\ fpos = 0 /\ ahead = 0 /\ total = 0
    /\ extents = << >>
    /\ pc = "stat"
    /\ resized = FALSE /\ resizes = 0 /\ signals = 0

-----------------------------------------------------------------------------

\* Mutant of div_ceil: one chunk more than full ones, whatever the length.
div_ceil_always_rounds_up(n, d) == n \div d + 1

\* u64::div_ceil.
div_ceil(n, d) == n \div d + (IF n % d = 0 THEN 0 ELSE 1)

\* metadata(plain_path), chunk_count.
Stat ==
    /\ pc = "stat"
    /\ chunk_count' = div_ceil(len, ChunkSize)
    /\ pc' = "read"
    /\ UNCHANGED <<input, base, fpos, ahead, total, chunk_index, extents, signals>>

\* read() on the descriptor returned n > 0 of at most `want` bytes.
Kernel(n, want) ==
    /\ n \in 1 .. want
    /\ fpos + n <= len
    /\ fpos' = fpos + n

\* Mutant of Deliver: the read is offered the whole buffer, not its free part.
DeliverWholeBuffer(k) ==
    \/ /\ ahead > 0
       /\ k = IF ahead < ChunkSize THEN ahead ELSE ChunkSize
       /\ ahead' = ahead - k
       /\ UNCHANGED fpos
    \/ /\ ahead = 0
       /\ Kernel(k, ChunkSize)
       /\ UNCHANGED ahead

\* reader.read(&mut buf[total..]): the BufReader delivers what it holds; with
\* nothing held it lets a large read through and serves a small one from a
\* refilled buffer.
Deliver(k) ==
    LET want == ChunkSize - total
    IN  \/ /\ ahead > 0
           /\ k = IF ahead < want THEN ahead ELSE want
           /\ ahead' = ahead - k
           /\ UNCHANGED fpos
        \/ /\ ahead = 0 /\ want >= Capacity
           /\ Kernel(k, want)
           /\ UNCHANGED ahead
        \/ /\ ahead = 0 /\ want < Capacity
           /\ \E n \in 1 .. Capacity :
                 /\ Kernel(n, Capacity)
                 /\ k = IF n < want THEN n ELSE want
                 /\ ahead' = n - k

\* Ok(n) => total += n, while total < buf.len().
Read ==
    /\ pc = "read"
    /\ \E k \in 1 .. ChunkSize :
          /\ Deliver(k)
          /\ total' = total + k
    /\ pc' = IF total' = ChunkSize THEN "emit" ELSE "read"
    /\ UNCHANGED <<input, chunk_count, base, chunk_index, extents, signals>>

\* Mutant of Interrupted: the error is taken for the end of the file.
InterruptedEnds ==
    /\ pc = "read"
    /\ ahead = 0
    /\ signals < MaxSignals
    /\ signals' = signals + 1
    /\ pc' = IF total = 0 THEN "count" ELSE "emit"
    /\ UNCHANGED <<input, chunk_count, base, fpos, ahead, total, chunk_index, extents>>

\* ErrorKind::Interrupted => continue.
Interrupted ==
    /\ pc = "read"
    /\ ahead = 0
    /\ signals < MaxSignals
    /\ signals' = signals + 1
    /\ UNCHANGED <<input, chunk_count, base, fpos, ahead, total, chunk_index,
                   extents, pc>>

\* Any other error is returned.
ReadError ==
    /\ pc = "read"
    /\ ahead = 0
    /\ pc' = "Io"
    /\ UNCHANGED <<input, chunk_count, base, fpos, ahead, total, chunk_index,
                   extents, signals>>

\* Mutant of Eof: Ok(0) is read again.
EofIgnored ==
    /\ pc = "read"
    /\ ahead = 0
    /\ fpos >= len
    /\ UNCHANGED vars

\* Ok(0) => break; an empty chunk ends the loop of encrypt_chunks, too.
Eof ==
    /\ pc = "read"
    /\ ahead = 0
    /\ fpos >= len
    /\ pc' = IF total = 0 THEN "count" ELSE "emit"
    /\ UNCHANGED <<input, chunk_count, base, fpos, ahead, total, chunk_index,
                   extents, signals>>

\* Mutant of Emit: the loop goes on after a short chunk, until an empty one.
EmitGoesOn ==
    /\ pc = "emit"
    /\ extents' = Append(extents, [from  |-> fpos - ahead - total,
                                   len   |-> total,
                                   nonce |-> chunk_nonce(base, chunk_index)])
    /\ chunk_index' = chunk_index + 1
    /\ total' = 0
    /\ pc' = "read"
    /\ UNCHANGED <<input, chunk_count, base, fpos, ahead, signals>>

\* The chunk is sealed and written; a short one is the last.
Emit ==
    /\ pc = "emit"
    /\ extents' = Append(extents, [from  |-> fpos - ahead - total,
                                   len   |-> total,
                                   nonce |-> chunk_nonce(base, chunk_index)])
    /\ chunk_index' = chunk_index + 1
    /\ total' = 0
    /\ pc' = IF total < ChunkSize THEN "count" ELSE "read"
    /\ UNCHANGED <<input, chunk_count, base, fpos, ahead, signals>>

\* actual_chunks against chunk_count.
Count ==
    /\ pc = "count"
    /\ pc' = IF chunk_index = chunk_count THEN "Ok" ELSE "Truncated"
    /\ UNCHANGED <<input, chunk_count, base, fpos, ahead, total, chunk_index,
                   extents, signals>>

Final == {"Ok", "Truncated", "Io"}

\* Somebody appends to the file or truncates it.
Resize ==
    /\ pc \notin Final
    /\ resizes < MaxResizes
    /\ len' \in (0 .. MaxLen) \ {len}
    /\ resizes' = resizes + 1
    /\ resized' = (resized \/ pc # "stat")
    /\ UNCHANGED <<chunk_count, base, fpos, ahead, total, chunk_index, extents,
                   pc, signals>>

Terminating == pc \in Final /\ UNCHANGED vars

Step == Stat \/ Read \/ Eof \/ Emit \/ Count

Next == Step \/ Interrupted \/ ReadError \/ Resize \/ Terminating

Spec == Init /\ [][Next]_vars

\* Every read returns, sooner or later with bytes or with the end of the file.
FairSpec == Spec /\ WF_vars(Step)
-----------------------------------------------------------------------------
(* Properties.                                                              *)

Extent == [from : Nat, len : Nat, nonce : Nonce]

\* The counters never leave their ranges: a chunk never overflows its buffer,
\* the BufReader never holds more than its capacity.
TypeOK ==
    /\ len \in 0 .. MaxLen
    /\ chunk_count \in Nat
    /\ base \in Nonce
    /\ fpos \in Nat
    /\ ahead \in 0 .. Capacity
    /\ total \in 0 .. ChunkSize
    /\ chunk_index \in Nat
    /\ extents \in Seq(Extent)
    /\ pc \in {"stat", "read", "emit", "count"} \cup Final
    /\ resized \in BOOLEAN
    /\ resizes \in 0 .. MaxResizes
    /\ signals \in 0 .. MaxSignals

\* The sealed chunks tile the input from its first byte on, whatever the reads
\* return and however the file changes: chunk i starts at i * CHUNK_SIZE and
\* every chunk but the last is full, so none is empty and no byte is sealed
\* twice or skipped.
Tiling ==
    /\ Len(extents) = chunk_index
    /\ \A i \in 1 .. Len(extents) :
          /\ extents[i].from = (i - 1) * ChunkSize
          /\ extents[i].len \in 1 .. ChunkSize
          /\ i < Len(extents) => extents[i].len = ChunkSize

\* A run that passes the count check on a file whose length stayed as
\* metadata() reported it has sealed its every byte: a short or interrupted
\* read is never mistaken for the end of the file.
WholeFile ==
    pc = "Ok" /\ ~resized =>
        len = IF extents = << >> THEN 0
              ELSE extents[Len(extents)].from + extents[Len(extents)].len

\* "Should never fire unless the file was modified while we were reading it"
\* (cipher.rs, above the count check), at every length and read pattern.
MismatchOnlyIfResized == pc = "Truncated" => resized

\* Chunk i carries the nonce base + i, as 96-bit integers modulo 2^96.
CounterNonces ==
    \A i \in 1 .. Len(extents) :
        NonceValue(extents[i].nonce) =
            (NonceValue(base) + i - 1) % (HiMod * LoMod)

\* The loop ends, through short reads, signals and changes of the file.
Termination == <>(pc \in Final)
=============================================================================
