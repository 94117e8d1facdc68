---------------------------- MODULE DecryptStream ----------------------------
(***************************************************************************)
(* decrypt_file on an encrypted file that was damaged on its way from the  *)
(* run that made it: Header::read and the wire format of decrypt_chunks    *)
(* (src/header.rs, src/cipher.rs).  A file is a header, frames (a 4-byte   *)
(* length and as many bytes of sealed chunk) and a tail too short for one  *)
(* more length.  First the damage happens, piece by piece, then one        *)
(* decryption runs; FileCipher has the file system around it.              *)
(***************************************************************************)
EXTENDS CryFormat, SequencesExt

CONSTANTS
    Sealed,         \* the ciphertexts that earlier encryptions made
    MaxDamage,      \* bound on the pieces of damage
    MaxFrames       \* bound on the number of frames damage leads to

\* Each ciphertext was made under a salt of its own.
ASSUME SealedAssumption ==
    /\ \A c \in Sealed : c \in Contents /\ IsCiphertext(c)
    /\ \A c, d \in Sealed : c[1].hdr.salt = d[1].hdr.salt => c = d
    /\ MaxDamage \in Nat /\ MaxFrames \in Nat
    /\ \A c \in Sealed : Len(c) - 1 <= MaxFrames

\* What the length in front of a sealed chunk says: its length, another one
\* with that many bytes in the file, one that reaches beyond the end of the
\* file, or one above MAX_CHUNK_WIRE_LEN.
WireLen == {"right", "wrong", "beyond", "huge"}

Frame == [len : WireLen, b : Block]

VARIABLES
    head,           \* the first HEADER_LEN bytes
    frames,         \* what follows them
    tail,           \* bytes after the last frame, 0 .. 3
    damage,         \* pieces of damage so far
    pass,           \* passphrase given to the decryption
    pc,
    header,         \* the authenticated header
    chunk_index,
    out             \* what the writer got

vars == <<head, frames, tail, damage, pass, pc, header, chunk_index, out>>
file == <<head, frames, tail, damage, pass>>

FrameOf(b) == [len |-> "right", b |-> b]

\* A whole ciphertext.
Init ==
    /\ \E c \in Sealed :
          /\ head = c[1]
          /\ frames = [i \in 1 .. Len(c) - 1 |-> FrameOf(c[i + 1])]
    /\ tail = 0 /\ damage = 0
    /\ pass \in Pass
    /\ pc = "stored"
    /\ header = << >> /\ chunk_index = 0 /\ out = << >>

-----------------------------------------------------------------------------
(* Damage, before the decryption starts.                                    *)

Damage ==
    /\ pc = "stored"
    /\ damage < MaxDamage
    /\ damage' = damage + 1
    /\ UNCHANGED <<pass, pc, header, chunk_index, out>>

\* The header is lost, belongs to another file, or has one field rewritten.
DamageHead ==
    /\ Damage
    /\ \/ head' = Hole
       \/ \E c \in Sealed : head' = c[1]
       \/ /\ head.kind = "header"
          /\ \/ \E n \in 0 .. MaxFrames : head' = [head EXCEPT !.hdr.chunk_count = n]
             \/ \E a \in Algorithm : head' = [head EXCEPT !.hdr.algo = a]
             \/ \E s \in Salt : head' = [head EXCEPT !.hdr.salt = s]
             \/ \E n \in Nonce : head' = [head EXCEPT !.hdr.nonce = n]
             \/ \E c \in Sealed : head' = [head EXCEPT !.hmac = c[1].hmac]
    /\ UNCHANGED <<frames, tail>>

\* A frame is garbled, gets another length, is lost, doubled, moved, or one of
\* another place or another file is put in.
DamageFrames ==
    /\ Damage
    /\ \/ \E i \in DOMAIN frames :
             \/ frames' = [frames EXCEPT ![i].b = Hole]
             \/ \E l \in WireLen : frames' = [frames EXCEPT ![i].len = l]
             \/ frames' = RemoveAt(frames, i)
             \/ \E j \in DOMAIN frames :
                   frames' = [frames EXCEPT ![i] = frames[j], ![j] = frames[i]]
       \/ \E i \in 1 .. Len(frames) + 1, c \in Sealed : \E k \in 2 .. Len(c) :
             /\ Len(frames) < MaxFrames
             /\ frames' = InsertAt(frames, i, FrameOf(c[k]))
    /\ UNCHANGED <<head, tail>>

\* The file is cut behind frame i - 1: at the frame's edge, within the length
\* of frame i, or within its chunk.
Cut ==
    /\ Damage
    /\ \E i \in DOMAIN frames :
          \/ /\ frames' = SubSeq(frames, 1, i - 1)
             /\ tail' \in 0 .. 3
          \/ /\ frames' = [SubSeq(frames, 1, i) EXCEPT ![i].len = "beyond"]
             /\ tail' = 0
    /\ UNCHANGED head

\* A few bytes are added at the end.
Trail ==
    /\ Damage
    /\ tail' \in 1 .. 3
    /\ UNCHANGED <<head, frames>>

-----------------------------------------------------------------------------
(* decrypt_file.                                                            *)

\* The header is read and its MAC verified before anything else.
ReadHeader ==
    /\ pc = "stored"
    /\ LET r == header_read(<<head>>, pass)
       IN  IF r = "ok" THEN header' = head.hdr /\ pc' = "frames"
                       ELSE pc' = r /\ UNCHANGED header
    /\ UNCHANGED <<file, chunk_index, out>>

key == derive_key(pass, header.salt)

\* The frame the reader is at.
Current == frames[chunk_index + 1]

\* The length is above the cap: an error before a buffer is allocated.
Suspicious ==
    /\ pc = "frames" /\ chunk_index < Len(frames)
    /\ Current.len = "huge"
    /\ pc' = "SuspiciousChunkLen"
    /\ UNCHANGED <<file, header, chunk_index, out>>

\* read_exact of the sealed chunk hits the end of the file.
ShortFrame ==
    /\ pc = "frames" /\ chunk_index < Len(frames)
    /\ Current.len = "beyond"
    /\ pc' = "Io"
    /\ UNCHANGED <<file, header, chunk_index, out>>

\* Mutant of Authentic: nothing ties a chunk to its place.
AuthenticAnywhere ==
    /\ Current.len = "right"
    /\ Current.b.kind = "chunk"
    /\ Current.b.key = key

\* The bytes the length delimits are what was sealed at this place.
Authentic ==
    /\ Current.len = "right"
    /\ decrypt_chunk_ok(Current.b, key, header, chunk_index)

\* Mutant of Accept: the sealed bytes are written instead of the opened ones.
AcceptSealed ==
    /\ pc = "frames" /\ chunk_index < Len(frames)
    /\ Authentic
    /\ out' = Append(out, Current.b)
    /\ chunk_index' = chunk_index + 1
    /\ UNCHANGED <<file, pc, header>>

Accept ==
    /\ pc = "frames" /\ chunk_index < Len(frames)
    /\ Authentic
    /\ out' = Append(out, Plain(Current.b.d))
    /\ chunk_index' = chunk_index + 1
    /\ UNCHANGED <<file, pc, header>>

Reject ==
    /\ pc = "frames" /\ chunk_index < Len(frames)
    /\ Current.len \in {"right", "wrong"}
    /\ ~Authentic
    /\ pc' = "DecryptionFailed"
    /\ UNCHANGED <<file, header, chunk_index, out>>

\* Mutant of Eof: the loop goes on at the end of the file.
EofIgnored ==
    /\ pc = "frames" /\ chunk_index = Len(frames)
    /\ UNCHANGED vars

\* read_exact of the next length reports UnexpectedEof, whether no byte or up
\* to three are left, and the loop breaks.
Eof ==
    /\ pc = "frames" /\ chunk_index = Len(frames)
    /\ pc' = "count"
    /\ UNCHANGED <<file, header, chunk_index, out>>

\* Mutants of Count: the commitment is not compared; no chunk at all is taken
\* for a truncated file.
CountUnchecked ==
    /\ pc = "count"
    /\ pc' = "Ok"
    /\ UNCHANGED <<file, header, chunk_index, out>>

CountRejectsEmpty ==
    /\ pc = "count"
    /\ pc' = IF chunk_index = header.chunk_count /\ chunk_index > 0
             THEN "Ok" ELSE "Truncated"
    /\ UNCHANGED <<file, header, chunk_index, out>>

\* actual_chunks against header.chunk_count.
Count ==
    /\ pc = "count"
    /\ pc' = IF chunk_index = header.chunk_count THEN "Ok" ELSE "Truncated"
    /\ UNCHANGED <<file, header, chunk_index, out>>

Failed == {"InvalidFormat", "HeaderTampered", "SuspiciousChunkLen", "Io",
           "DecryptionFailed", "Truncated"}

Terminating == pc \in Failed \cup {"Ok"} /\ UNCHANGED vars

Decrypt == ReadHeader \/ Suspicious \/ ShortFrame \/ Accept \/ Reject \/ Eof \/ Count

Next == DamageHead \/ DamageFrames \/ Cut \/ Trail \/ Decrypt \/ Terminating

Spec == Init /\ [][Next]_vars

FairSpec == Spec /\ WF_vars(Decrypt)
-----------------------------------------------------------------------------
(* Properties.                                                              *)

\* The file is made of blocks and frames, the outcome is one of CryError's.
TypeOK ==
    /\ head \in Block
    /\ frames \in Seq(Frame) /\ Len(frames) <= MaxFrames
    /\ tail \in 0 .. 3
    /\ damage \in 0 .. MaxDamage
    /\ pass \in Pass
    /\ pc \in {"stored", "frames", "count", "Ok"} \cup Failed
    /\ header \in Header \cup {<< >>}
    /\ chunk_index \in 0 .. MaxFrames
    /\ out \in Seq(PlainBlock)

\* The file is the ciphertext c, up to what trails the last frame.
Is(c) ==
    /\ head = c[1]
    /\ frames = [i \in 1 .. Len(c) - 1 |-> FrameOf(c[i + 1])]

\* "Chunk reordering, substitution, cross-file splicing, and truncation are
\* all detectable" (README, Chunk AAD): a file is accepted only if its header
\* and its frames are exactly those of one ciphertext an encryption made under
\* the same passphrase, whose text comes out.
AcceptsOnlySealed ==
    pc = "Ok" =>
        \E c \in Sealed :
            /\ Is(c)
            /\ c[1].hmac.subkey.pass = pass
            /\ out = PlainOf(c)

\* Even what a failing decryption has handed to the temporary file so far is
\* the beginning of the text its header was made for: no chunk of another
\* file, or from another place of this one, ever gets through.
OutputIsPrefix ==
    out # << >> =>
        \E c \in Sealed : c[1].hdr = header /\ IsPrefix(out, PlainOf(c))

\* "This catches both wrong-passphrase and active-tampering scenarios before
\* any chunk decryption is attempted" (header.rs, Header::read): a decryption
\* that goes on to the chunks has the header of a ciphertext made under its
\* passphrase, bit for bit.
HeaderFirst ==
    pc \notin {"stored", "InvalidFormat", "HeaderTampered"} =>
        \E c \in Sealed : head = c[1] /\ c[1].hmac.subkey.pass = pass

\* An undamaged file under the right passphrase gives its whole text.
WholeFileOpens ==
    \A c \in Sealed :
        Is(c) /\ tail = 0 /\ pass = c[1].hmac.subkey.pass =>
            /\ pc \notin Failed
            /\ pc = "Ok" => out = PlainOf(c)

\* "Decryption fails loudly on wrong passphrase, corruption, truncation, or
\* tampering" (README, Security notes): what is accepted is a whole
\* ciphertext and nothing else.
FailsLoudly == pc = "Ok" => tail = 0 /\ \E c \in Sealed : Is(c)

\* A decryption comes to an end.
Termination == pc = "frames" ~> pc \in Failed \cup {"Ok"}
=============================================================================
