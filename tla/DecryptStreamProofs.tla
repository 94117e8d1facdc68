------------------------- MODULE DecryptStreamProofs -------------------------
(***************************************************************************)
(* Theorems of DecryptStream: whatever damage was done to whatever         *)
(* ciphertexts, decryption accepts only what was sealed, in its order.     *)
(***************************************************************************)
EXTENDS DecryptStream, SequenceTheorems, TLAPS

-----------------------------------------------------------------------------
(* Ciphertexts.                                                             *)

LEMMA SealedShape ==
    ASSUME NEW c \in Sealed
    PROVE  /\ c \in Seq(Block)
           /\ Len(c) \in Nat /\ Len(c) >= 1
           /\ c[1] \in HeaderBlock
           /\ c[1].hdr \in Header
           /\ c[1].hmac = compute_hmac(c[1].hdr,
                              derive_key(c[1].hmac.subkey.pass, c[1].hdr.salt))
           /\ Len(c) = c[1].hdr.chunk_count + 1
           /\ \A k \in 2 .. Len(c) :
                 decrypt_chunk_ok(c[k], derive_key(c[1].hmac.subkey.pass, c[1].hdr.salt),
                                  c[1].hdr, k - 2)
  <1> DEFINE h == c[1].hdr
             p == c[1].hmac.subkey.pass
             n == h.chunk_count
  <1>1. c \in Seq(Block) /\ c # << >> /\ c[1].kind = "header" /\ IsCiphertextOf(c, h, p)
    BY SealedAssumption DEF Contents, IsCiphertext
  <1>2. Len(c) \in Nat /\ Len(c) >= 1 /\ c[1] \in Block
    BY <1>1, EmptySeq
  <1>3. c[1] \in HeaderBlock
    BY <1>1, <1>2 DEF Block, PlainBlock, HeaderBlock, ChunkBlock, HoleBlock
  <1>4. h \in Header /\ n \in Nat
    BY <1>3 DEF HeaderBlock, Header
  <1>5. /\ c[1] = header_write(h, derive_key(p, h.salt))
        /\ Len(c) = n + 1
        /\ \A i \in 1 .. n : decrypt_chunk_ok(c[i + 1], derive_key(p, h.salt), h, i - 1)
    BY <1>1 DEF IsCiphertextOf
  <1>6. c[1].hmac = compute_hmac(h, derive_key(p, h.salt))
    BY <1>5 DEF header_write
  <1> HIDE DEF h, p, n
  <1>7. ASSUME NEW k \in 2 .. Len(c)
        PROVE  decrypt_chunk_ok(c[k], derive_key(p, h.salt), h, k - 2)
    <2>1. k - 1 \in 1 .. n /\ (k - 1) + 1 = k /\ (k - 1) - 1 = k - 2
      BY <1>4, <1>5
    <2> QED
      BY <1>5, <2>1
  <1> QED
    BY <1>1, <1>2, <1>3, <1>4, <1>5, <1>6, <1>7 DEF h, p, n

\* The MAC of a ciphertext verifies only for the header it was computed over and
\* the passphrase of that ciphertext.
LEMMA MacMatches ==
    ASSUME NEW c \in Sealed, NEW b \in HeaderBlock, NEW p,
           b.hmac = c[1].hmac,
           b.hmac = compute_hmac(b.hdr, derive_key(p, b.hdr.salt))
    PROVE  b = c[1] /\ c[1].hmac.subkey.pass = p
  <1>1. /\ c[1] \in HeaderBlock
        /\ c[1].hmac = compute_hmac(c[1].hdr,
                           derive_key(c[1].hmac.subkey.pass, c[1].hdr.salt))
    BY SealedShape
  <1>2. /\ b.hmac.over = b.hdr /\ b.hmac.subkey.pass = p
    BY DEF compute_hmac, derive_key
  <1>3. c[1].hmac.over = c[1].hdr
    BY <1>1 DEF compute_hmac
  <1>4. b.hdr = c[1].hdr /\ b.kind = c[1].kind
    BY <1>1, <1>2, <1>3 DEF HeaderBlock
  <1>5. b = c[1]
    <2>1. \A x \in HeaderBlock : x = [kind |-> x.kind, hdr |-> x.hdr, hmac |-> x.hmac]
      BY DEF HeaderBlock
    <2> QED
      BY <1>1, <1>4, <2>1
  <1> QED
    BY <1>2, <1>5

\* A piece of some ciphertext, or bytes that are none.
Part(b) == b = Hole \/ \E c \in Sealed : \E k \in 2 .. Len(c) : b = c[k]

\* A piece that opens at place i of ciphertext c is the one that was sealed there.
LEMMA ChunkFits ==
    ASSUME NEW c \in Sealed, NEW b, NEW i \in Nat, Part(b),
           decrypt_chunk_ok(b, derive_key(c[1].hmac.subkey.pass, c[1].hdr.salt),
                            c[1].hdr, i)
    PROVE  i + 2 \in 2 .. Len(c) /\ b = c[i + 2]
  <1>1. b # Hole
    BY DEF decrypt_chunk_ok, Hole
  <1>2. PICK d \in Sealed : \E k \in 2 .. Len(d) : b = d[k]
    BY <1>1 DEF Part
  <1>3. PICK k \in 2 .. Len(d) : b = d[k]
    BY <1>2
  <1>4. decrypt_chunk_ok(b, derive_key(d[1].hmac.subkey.pass, d[1].hdr.salt), d[1].hdr, k - 2)
    BY <1>3, SealedShape
  <1>5. /\ b.key.salt = c[1].hdr.salt /\ b.aad.index = i
        /\ b.key.salt = d[1].hdr.salt /\ b.aad.index = k - 2
    BY <1>4 DEF decrypt_chunk_ok, encrypt_chunk, derive_key, chunk_aad
  <1>6. d = c
    BY <1>5, SealedAssumption
  <1>7. Len(c) \in Nat
    BY SealedShape
  <1>8. k = i + 2
    BY <1>5, <1>6, <1>7
  <1> QED
    BY <1>3, <1>6, <1>8

LEMMA PartIsBlock ==
    ASSUME NEW b, Part(b)
    PROVE  b \in Block
  <1>1. Hole \in Block
    BY DEF Hole, Block, HoleBlock
  <1>2. ASSUME NEW c \in Sealed, NEW k \in 2 .. Len(c) PROVE c[k] \in Block
    <2>1. c \in Seq(Block) /\ Len(c) \in Nat
      BY SealedShape
    <2>2. k \in 1 .. Len(c)
      BY <2>1
    <2> QED
      BY <2>1, <2>2
  <1> QED
    BY <1>1, <1>2 DEF Part

-----------------------------------------------------------------------------
(* The inductive invariant.                                                 *)

\* A header block, if there is one, has the MAC of some ciphertext.
HeadPart ==
    \/ head = Hole
    \/ head \in HeaderBlock /\ \E c \in Sealed : head.hmac = c[1].hmac

\* All frames hold pieces of ciphertexts.
PartFrame == {f \in Frame : Part(f.b)}

FramesPart == frames \in Seq(PartFrame)

\* The decryption has accepted the first chunk_index frames of ciphertext c.
Opening(c) ==
    /\ head = c[1] /\ header = c[1].hdr /\ c[1].hmac.subkey.pass = pass
    /\ chunk_index <= Len(frames) /\ chunk_index < Len(c)
    /\ Len(out) = chunk_index
    /\ \A i \in 1 .. chunk_index :
          frames[i] = FrameOf(c[i + 1]) /\ out[i] = Plain(c[i + 1].d)

Early == {"stored", "InvalidFormat", "HeaderTampered"}

\* Why the decryption is where it is.
Reason ==
    /\ pc \in Early => out = << >> /\ chunk_index = 0
    /\ pc \notin Early => \E c \in Sealed : Opening(c)
    /\ pc \in {"InvalidFormat", "HeaderTampered"} => header_read(<<head>>, pass) # "ok"
    /\ pc \in {"SuspiciousChunkLen", "Io", "DecryptionFailed"} =>
          chunk_index < Len(frames) /\ ~Authentic
    /\ pc \in {"count", "Ok", "Truncated"} => chunk_index = Len(frames)
    /\ pc = "Ok" => chunk_index = header.chunk_count
    /\ pc = "Truncated" => chunk_index # header.chunk_count

IInv == TypeOK /\ HeadPart /\ FramesPart /\ Reason

-----------------------------------------------------------------------------
(* Damage.                                                                  *)

LEMMA SubSeqOf ==
    ASSUME NEW S, NEW s \in Seq(S), NEW m \in Nat \ {0}, NEW n \in Int, n <= Len(s)
    PROVE  /\ SubSeq(s, m, n) \in Seq(S)
           /\ Len(SubSeq(s, m, n)) = IF m <= n THEN n - m + 1 ELSE 0
           /\ \A i \in 1 .. n - m + 1 : SubSeq(s, m, n)[i] = s[m + i - 1]
  <1>1. Len(s) \in Nat /\ \A i \in 1 .. Len(s) : s[i] \in S
    BY LenProperties, ElementOfSeq
  <1>2. \A i \in m .. n : s[i] \in S
    BY <1>1
  <1> QED
    BY <1>2, SubSeqProperties

LEMMA Removed ==
    ASSUME NEW S, NEW s \in Seq(S), NEW i \in 1 .. Len(s)
    PROVE  RemoveAt(s, i) \in Seq(S) /\ Len(RemoveAt(s, i)) = Len(s) - 1
  <1> DEFINE a == SubSeq(s, 1, i - 1)
             b == SubSeq(s, i + 1, Len(s))
  <1>1. Len(s) \in Nat
    BY LenProperties
  <1>2. a \in Seq(S) /\ Len(a) = i - 1
    BY <1>1, SubSeqOf
  <1>3. b \in Seq(S) /\ Len(b) = Len(s) - i
    BY <1>1, SubSeqOf
  <1>4. RemoveAt(s, i) = a \o b
    BY DEF RemoveAt
  <1> HIDE DEF a, b
  <1>5. a \o b \in Seq(S) /\ Len(a \o b) = Len(a) + Len(b)
    BY <1>2, <1>3, ConcatProperties
  <1> QED
    BY <1>1, <1>2, <1>3, <1>4, <1>5

LEMMA Inserted ==
    ASSUME NEW S, NEW s \in Seq(S), NEW i \in 1 .. Len(s) + 1, NEW e \in S
    PROVE  InsertAt(s, i, e) \in Seq(S) /\ Len(InsertAt(s, i, e)) = Len(s) + 1
  <1> DEFINE a == SubSeq(s, 1, i - 1)
             x == <<e>>
             b == SubSeq(s, i, Len(s))
             c == a \o x
  <1>1. Len(s) \in Nat
    BY LenProperties
  <1>2. a \in Seq(S) /\ Len(a) = i - 1
    BY <1>1, SubSeqOf
  <1>3. b \in Seq(S) /\ Len(b) = Len(s) + 1 - i
    BY <1>1, SubSeqOf
  <1>4. x \in Seq(S) /\ Len(x) = 1
    OBVIOUS
  <1>5. InsertAt(s, i, e) = c \o b
    BY DEF InsertAt
  <1> HIDE DEF a, b, x
  <1>6. c \in Seq(S) /\ Len(c) = Len(a) + Len(x)
    BY ONLY <1>2, <1>4, ConcatProperties
  <1> HIDE DEF c
  <1>7. c \o b \in Seq(S) /\ Len(c \o b) = Len(c) + Len(b)
    BY ONLY <1>3, <1>6, ConcatProperties
  <1> QED
    BY <1>1, <1>2, <1>3, <1>4, <1>5, <1>6, <1>7

\* A frame that gets another block or length.
LEMMA Reframed ==
    ASSUME NEW f \in PartFrame, NEW l \in WireLen
    PROVE  [f EXCEPT !.b = Hole] \in PartFrame /\ [f EXCEPT !.len = l] \in PartFrame
  <1>1. f = [len |-> f.len, b |-> f.b] /\ f.len \in WireLen /\ f.b \in Block /\ Part(f.b)
    BY DEF PartFrame, Frame
  <1>2. Part(Hole) /\ Hole \in Block
    BY DEF Part, Hole, Block, HoleBlock
  <1>3. [f EXCEPT !.b = Hole] = [len |-> f.len, b |-> Hole]
    BY <1>1
  <1>4. [f EXCEPT !.len = l] = [len |-> l, b |-> f.b]
    BY <1>1
  <1>5. ASSUME NEW x \in WireLen, NEW y \in Block, Part(y)
        PROVE  [len |-> x, b |-> y] \in PartFrame
    BY <1>5 DEF PartFrame, Frame
  <1> QED
    BY <1>1, <1>2, <1>3, <1>4, <1>5

\* What damage leaves alone.
LEMMA DamageStep ==
    ASSUME IInv, Damage, HeadPart',
           frames' \in Seq(PartFrame), Len(frames') <= MaxFrames, tail' \in 0 .. 3
    PROVE  IInv'
  <1>1. /\ pc = "stored" /\ pc' = pc
        /\ UNCHANGED <<pass, header, chunk_index, out>>
        /\ damage' = damage + 1 /\ damage < MaxDamage
    BY DEF Damage
  <1>2. head' \in Block
    BY DEF HeadPart, Block, HoleBlock, Hole
  <1>3. frames' \in Seq(Frame)
    <2>1. PartFrame \subseteq Frame
      BY DEF PartFrame
    <2> QED
      BY <2>1
  <1>4. damage' \in 0 .. MaxDamage
    BY <1>1, SealedAssumption DEF IInv, TypeOK
  <1>5. TypeOK'
    BY <1>1, <1>2, <1>3, <1>4 DEF IInv, TypeOK
  <1>6. FramesPart' /\ HeadPart'
    BY DEF FramesPart
  <1>7. Reason'
    BY <1>1 DEF IInv, Reason, Early
  <1> QED
    BY <1>5, <1>6, <1>7 DEF IInv

LEMMA FrameOfPart ==
    ASSUME NEW c \in Sealed, NEW k \in 2 .. Len(c)
    PROVE  FrameOf(c[k]) \in PartFrame
  <1>1. Part(c[k])
    BY DEF Part
  <1>2. c[k] \in Block
    BY <1>1, PartIsBlock
  <1> QED
    BY <1>1, <1>2 DEF FrameOf, PartFrame, Frame, WireLen

LEMMA SealedHead ==
    ASSUME NEW c \in Sealed
    PROVE  c[1] \in HeaderBlock /\ \E d \in Sealed : c[1].hmac = d[1].hmac
  BY SealedShape

\* A rewritten field leaves the MAC, another MAC leaves the fields.
LEMMA Rewritten ==
    ASSUME NEW b \in HeaderBlock
    PROVE  /\ \A h \in Header : [b EXCEPT !.hdr = h] \in HeaderBlock
                                /\ [b EXCEPT !.hdr = h].hmac = b.hmac
           /\ \A m \in Hmac : [b EXCEPT !.hmac = m] \in HeaderBlock
                              /\ [b EXCEPT !.hmac = m].hmac = m
  BY DEF HeaderBlock

LEMMA FieldRewritten ==
    ASSUME NEW h \in Header
    PROVE  /\ \A n \in Nat : [h EXCEPT !.chunk_count = n] \in Header
           /\ \A a \in Algorithm : [h EXCEPT !.algo = a] \in Header
           /\ \A s \in Salt : [h EXCEPT !.salt = s] \in Header
           /\ \A n \in Nonce : [h EXCEPT !.nonce = n] \in Header
  BY DEF Header

LEMMA DamageHeadStep ==
    ASSUME IInv, DamageHead
    PROVE  IInv'
  <1>1. Damage /\ UNCHANGED <<frames, tail>>
    BY DEF DamageHead
  <1>2. HeadPart'
    <2>1. CASE head' = Hole
      BY <2>1 DEF HeadPart
    <2>2. CASE \E c \in Sealed : head' = c[1]
      BY <2>2, SealedHead DEF HeadPart
    <2>3. CASE head.kind = "header" /\ \E h \in Header : head' = [head EXCEPT !.hdr = h]
      <3>1. head \in HeaderBlock /\ \E c \in Sealed : head.hmac = c[1].hmac
        BY <2>3 DEF IInv, HeadPart, Hole
      <3> QED
        BY <2>3, <3>1, Rewritten DEF HeadPart
    <2>4. CASE head.kind = "header" /\ \E c \in Sealed : head' = [head EXCEPT !.hmac = c[1].hmac]
      <3>1. head \in HeaderBlock
        BY <2>4 DEF IInv, HeadPart, Hole
      <3>2. \A c \in Sealed : c[1].hmac \in Hmac
        BY SealedHead DEF HeaderBlock
      <3> QED
        BY <2>4, <3>1, <3>2, Rewritten DEF HeadPart
    <2>5. ASSUME head.kind = "header",
                 \/ \E n \in 0 .. MaxFrames : head' = [head EXCEPT !.hdr.chunk_count = n]
                 \/ \E a \in Algorithm : head' = [head EXCEPT !.hdr.algo = a]
                 \/ \E s \in Salt : head' = [head EXCEPT !.hdr.salt = s]
                 \/ \E n \in Nonce : head' = [head EXCEPT !.hdr.nonce = n]
          PROVE  \E h \in Header : head' = [head EXCEPT !.hdr = h]
      <3>1. head.hdr \in Header
        BY <2>5 DEF IInv, HeadPart, Hole, HeaderBlock
      <3>2. 0 .. MaxFrames \subseteq Nat
        BY SealedAssumption
      <3> QED
        BY <2>5, <3>1, <3>2, FieldRewritten
    <2> QED
      BY <2>1, <2>2, <2>3, <2>4, <2>5 DEF DamageHead
  <1>3. frames' \in Seq(PartFrame) /\ Len(frames') <= MaxFrames /\ tail' \in 0 .. 3
    BY <1>1 DEF IInv, FramesPart, TypeOK
  <1> QED
    BY <1>1, <1>2, <1>3, DamageStep

LEMMA DamageFramesStep ==
    ASSUME IInv, DamageFrames
    PROVE  IInv'
  <1>1. Damage /\ UNCHANGED <<head, tail>>
    BY DEF DamageFrames
  <1>2. /\ frames \in Seq(PartFrame) /\ Len(frames) <= MaxFrames /\ Len(frames) \in Nat
        /\ DOMAIN frames = 1 .. Len(frames) /\ MaxFrames \in Nat
        /\ \A i \in 1 .. Len(frames) : frames[i] \in PartFrame
    BY LenProperties, ElementOfSeq, SealedAssumption DEF IInv, FramesPart, TypeOK
  <1>3. ASSUME NEW i \in 1 .. Len(frames), NEW e \in PartFrame
        PROVE  /\ [frames EXCEPT ![i] = e] \in Seq(PartFrame)
               /\ Len([frames EXCEPT ![i] = e]) = Len(frames)
    BY <1>2, ExceptSeq
  <1>4. frames' \in Seq(PartFrame) /\ Len(frames') <= MaxFrames
    <2>1. CASE \E i \in DOMAIN frames : frames' = [frames EXCEPT ![i].b = Hole]
      <3>1. PICK i \in 1 .. Len(frames) : frames' = [frames EXCEPT ![i].b = Hole]
        BY <1>2, <2>1
      <3>2. frames' = [frames EXCEPT ![i] = [frames[i] EXCEPT !.b = Hole]]
        BY <3>1
      <3>3. [frames[i] EXCEPT !.b = Hole] \in PartFrame
        BY <1>2, Reframed DEF WireLen
      <3> QED
        BY <1>2, <1>3, <3>2, <3>3
    <2>2. CASE \E i \in DOMAIN frames : \E l \in WireLen : frames' = [frames EXCEPT ![i].len = l]
      <3>1. PICK i \in 1 .. Len(frames), l \in WireLen : frames' = [frames EXCEPT ![i].len = l]
        BY <1>2, <2>2
      <3>2. frames' = [frames EXCEPT ![i] = [frames[i] EXCEPT !.len = l]]
        BY <3>1
      <3>3. [frames[i] EXCEPT !.len = l] \in PartFrame
        BY <1>2, Reframed
      <3> QED
        BY <1>2, <1>3, <3>2, <3>3
    <2>3. CASE \E i \in DOMAIN frames : frames' = RemoveAt(frames, i)
      BY <1>2, <2>3, Removed
    <2>4. CASE \E i, j \in DOMAIN frames :
                   frames' = [frames EXCEPT ![i] = frames[j], ![j] = frames[i]]
      <3>1. PICK i \in 1 .. Len(frames), j \in 1 .. Len(frames) :
                   frames' = [frames EXCEPT ![i] = frames[j], ![j] = frames[i]]
        BY <1>2, <2>4
      <3> DEFINE g == [frames EXCEPT ![i] = frames[j]]
      <3>2. g \in Seq(PartFrame) /\ Len(g) = Len(frames)
        BY <1>2, <1>3
      <3>3. frames' = [g EXCEPT ![j] = frames[i]]
        BY <3>1
      <3>4. frames[i] \in PartFrame
        BY <1>2
      <3> HIDE DEF g
      <3>5. [g EXCEPT ![j] = frames[i]] \in Seq(PartFrame)
            /\ Len([g EXCEPT ![j] = frames[i]]) = Len(g)
        BY <3>2, <3>4, ExceptSeq
      <3> QED
        BY <1>2, <3>2, <3>3, <3>5
    <2>5. CASE \E i \in 1 .. Len(frames) + 1, c \in Sealed : \E k \in 2 .. Len(c) :
                   /\ Len(frames) < MaxFrames
                   /\ frames' = InsertAt(frames, i, FrameOf(c[k]))
      <3>1. PICK i \in 1 .. Len(frames) + 1, c \in Sealed : \E k \in 2 .. Len(c) :
                   /\ Len(frames) < MaxFrames
                   /\ frames' = InsertAt(frames, i, FrameOf(c[k]))
        BY <2>5
      <3>2. PICK k \in 2 .. Len(c) :
                   Len(frames) < MaxFrames /\ frames' = InsertAt(frames, i, FrameOf(c[k]))
        BY <3>1
      <3>3. FrameOf(c[k]) \in PartFrame
        BY FrameOfPart
      <3>4. /\ InsertAt(frames, i, FrameOf(c[k])) \in Seq(PartFrame)
            /\ Len(InsertAt(frames, i, FrameOf(c[k]))) = Len(frames) + 1
        BY <1>2, <3>3, Inserted
      <3> QED
        BY <1>2, <3>2, <3>4
    <2> QED
      BY <2>1, <2>2, <2>3, <2>4, <2>5 DEF DamageFrames
  <1>5. HeadPart' /\ tail' \in 0 .. 3
    BY <1>1 DEF IInv, HeadPart, TypeOK
  <1> QED
    BY <1>1, <1>4, <1>5, DamageStep

LEMMA CutStep ==
    ASSUME IInv, Cut \/ Trail
    PROVE  IInv'
  <1>1. Damage /\ head' = head /\ tail' \in 0 .. 3
    BY DEF Cut, Trail
  <1>2. /\ frames \in Seq(PartFrame) /\ Len(frames) <= MaxFrames /\ Len(frames) \in Nat
        /\ DOMAIN frames = 1 .. Len(frames) /\ MaxFrames \in Nat
    BY LenProperties, SealedAssumption DEF IInv, FramesPart, TypeOK
  <1>3. frames' \in Seq(PartFrame) /\ Len(frames') <= MaxFrames
    <2>1. CASE \E i \in DOMAIN frames : frames' = SubSeq(frames, 1, i - 1)
      <3>1. PICK i \in 1 .. Len(frames) : frames' = SubSeq(frames, 1, i - 1)
        BY <1>2, <2>1
      <3>2. /\ SubSeq(frames, 1, i - 1) \in Seq(PartFrame)
            /\ Len(SubSeq(frames, 1, i - 1)) = IF 1 <= i - 1 THEN (i - 1) - 1 + 1 ELSE 0
        BY <1>2, SubSeqOf
      <3> QED
        BY <1>2, <3>1, <3>2
    <2>2. CASE \E i \in DOMAIN frames :
                   frames' = [SubSeq(frames, 1, i) EXCEPT ![i].len = "beyond"]
      <3>1. PICK i \in 1 .. Len(frames) :
                   frames' = [SubSeq(frames, 1, i) EXCEPT ![i].len = "beyond"]
        BY <1>2, <2>2
      <3> DEFINE g == SubSeq(frames, 1, i)
      <3>2. g \in Seq(PartFrame) /\ Len(g) = i
        BY <1>2, SubSeqOf
      <3>3. frames' = [g EXCEPT ![i].len = "beyond"]
        BY <3>1
      <3> HIDE DEF g
      <3>4. frames' = [g EXCEPT ![i] = [g[i] EXCEPT !.len = "beyond"]]
        BY <3>3
      <3>5. i \in 1 .. Len(g) /\ g[i] \in PartFrame
        BY <3>2, ElementOfSeq
      <3>6. [g[i] EXCEPT !.len = "beyond"] \in PartFrame
        BY <3>5, Reframed DEF WireLen
      <3> DEFINE e == [g[i] EXCEPT !.len = "beyond"]
      <3> HIDE DEF e
      <3>7. [g EXCEPT ![i] = e] \in Seq(PartFrame) /\ Len([g EXCEPT ![i] = e]) = Len(g)
        BY <3>2, <3>5, <3>6, ExceptSeq DEF e
      <3> QED
        BY <1>2, <3>2, <3>4, <3>7 DEF e
    <2>3. CASE frames' = frames
      BY <1>2, <2>3
    <2> QED
      BY <2>1, <2>2, <2>3 DEF Cut, Trail
  <1>4. HeadPart'
    BY <1>1 DEF IInv, HeadPart
  <1> QED
    BY <1>1, <1>3, <1>4, DamageStep

-----------------------------------------------------------------------------
(* The decryption.                                                          *)

LEMMA InitIInv ==
    ASSUME Init
    PROVE  IInv
  <1>1. PICK c \in Sealed : /\ head = c[1]
                            /\ frames = [i \in 1 .. Len(c) - 1 |-> FrameOf(c[i + 1])]
    BY DEF Init
  <1>2. /\ c[1] \in HeaderBlock /\ Len(c) \in Nat /\ Len(c) >= 1
        /\ Len(c) - 1 <= MaxFrames
    BY SealedShape, SealedAssumption
  <1>3. \A i \in 1 .. Len(c) - 1 : FrameOf(c[i + 1]) \in PartFrame
    <2> TAKE i \in 1 .. Len(c) - 1
    <2>1. i + 1 \in 2 .. Len(c)
      BY <1>2
    <2> QED
      BY <2>1, FrameOfPart
  <1>4. frames \in Seq(PartFrame) /\ Len(frames) = Len(c) - 1
    <2> DEFINE n == Len(c) - 1
               F(i) == FrameOf(c[i + 1])
    <2>1. n \in Nat /\ \A i \in 1 .. n : F(i) \in PartFrame
      BY <1>2, <1>3
    <2>2. frames = [i \in 1 .. n |-> F(i)]
      BY <1>1
    <2> HIDE DEF n, F
    <2>3. frames \in Seq(PartFrame) /\ Len(frames) = n
      BY <2>1, <2>2
    <2> QED
      BY <2>3 DEF n
  <1>5. HeadPart
    BY <1>1, SealedHead DEF HeadPart
  <1>6. head \in Block /\ MaxDamage \in Nat /\ MaxFrames \in Nat
    BY <1>1, <1>2, SealedAssumption DEF Block
  <1>7. frames \in Seq(Frame)
    <2>1. PartFrame \subseteq Frame
      BY DEF PartFrame
    <2> QED
      BY <1>4, <2>1
  <1>8. TypeOK
    <2>1. out \in Seq(PlainBlock) /\ header \in Header \cup {<< >>}
      BY DEF Init
    <2>2. tail = 0 /\ damage = 0 /\ chunk_index = 0
      BY DEF Init
    <2>3. Len(frames) <= MaxFrames
      BY <1>2, <1>4
    <2>4. /\ tail \in 0 .. 3 /\ damage \in 0 .. MaxDamage
          /\ chunk_index \in 0 .. MaxFrames /\ Len(frames) <= MaxFrames
      BY <1>6, <2>2, <2>3
    <2>5. pass \in Pass /\ pc = "stored"
      BY DEF Init
    <2> QED
      BY <1>6, <1>7, <2>1, <2>4, <2>5 DEF TypeOK
  <1>9. Reason
    BY DEF Init, Reason, Early
  <1> QED
    BY <1>4, <1>5, <1>8, <1>9 DEF IInv, FramesPart

\* A header whose MAC verifies is the header of a ciphertext made under the
\* passphrase.
LEMMA ReadHeaderStep ==
    ASSUME IInv, ReadHeader
    PROVE  IInv'
  <1>1. /\ UNCHANGED <<head, frames, tail, damage, pass, chunk_index, out>>
        /\ pc = "stored" /\ out = << >> /\ chunk_index = 0
    BY DEF IInv, Reason, Early, ReadHeader, file
  <1>2. HeadPart' /\ FramesPart'
    BY <1>1 DEF IInv, HeadPart, FramesPart
  <1>3. CASE header_read(<<head>>, pass) = "ok"
    <2>1. header' = head.hdr /\ pc' = "frames"
      BY <1>3 DEF ReadHeader
    <2>2. /\ head.kind = "header"
          /\ head.hmac = compute_hmac(head.hdr, derive_key(pass, head.hdr.salt))
      BY <1>3 DEF header_read
    <2>3. head \in HeaderBlock
      BY <2>2 DEF IInv, HeadPart, Hole
    <2>4. PICK c \in Sealed : head.hmac = c[1].hmac
      BY <2>2 DEF IInv, HeadPart, Hole
    <2>5. head = c[1] /\ c[1].hmac.subkey.pass = pass
      BY <2>2, <2>3, <2>4, MacMatches
    <2>6. head.hdr \in Header
      BY <2>3 DEF HeaderBlock
    <2>7. TypeOK'
      BY <1>1, <2>1, <2>6 DEF IInv, TypeOK
    <2>8. Len(frames) \in Nat /\ Len(c) \in Nat /\ Len(c) >= 1
      BY SealedShape, LenProperties DEF IInv, FramesPart
    <2>9. Opening(c)'
      BY <1>1, <2>1, <2>5, <2>8 DEF Opening
    <2>10. Reason'
      BY <2>1, <2>9 DEF Reason, Early
    <2> QED
      BY <1>2, <2>7, <2>10 DEF IInv
  <1>4. CASE header_read(<<head>>, pass) # "ok"
    <2>1. pc' = header_read(<<head>>, pass) /\ header' = header
      BY <1>4 DEF ReadHeader
    <2>2. pc' \in {"InvalidFormat", "HeaderTampered"}
      BY <1>4, <2>1 DEF header_read
    <2>3. TypeOK'
      BY <1>1, <2>1, <2>2 DEF IInv, TypeOK, Failed
    <2>4. Reason'
      BY <1>1, <1>4, <2>2 DEF Reason, Early
    <2> QED
      BY <1>2, <2>3, <2>4 DEF IInv
  <1> QED
    BY <1>3, <1>4

\* What the steps that only move pc keep.
LEMMA Moved ==
    ASSUME IInv, UNCHANGED <<file, header, chunk_index, out>>,
           pc \notin Early, pc' \in {"count", "Ok"} \cup (Failed \ Early)
    PROVE  /\ TypeOK' /\ HeadPart' /\ FramesPart'
           /\ \E c \in Sealed : Opening(c)'
           /\ pc' \notin Early
           /\ Authentic' <=> Authentic
  <1>1. UNCHANGED <<head, frames, tail, damage, pass, header, chunk_index, out>>
    BY DEF file
  <1>2. TypeOK' /\ HeadPart' /\ FramesPart'
    BY <1>1 DEF IInv, TypeOK, HeadPart, FramesPart, Failed, Early
  <1>3. PICK c \in Sealed : Opening(c)
    BY DEF IInv, Reason
  <1>4. Opening(c)'
    BY <1>1, <1>3 DEF Opening
  <1>5. Authentic' <=> Authentic
    BY <1>1 DEF Authentic, Current, key
  <1>6. pc' \notin Early
    BY DEF Failed, Early
  <1> QED
    BY <1>2, <1>4, <1>5, <1>6

\* The failures within the frames.
LEMMA FailStep ==
    ASSUME IInv, Suspicious \/ ShortFrame \/ Reject
    PROVE  IInv'
  <1>1. /\ UNCHANGED <<file, header, chunk_index, out>>
        /\ pc = "frames" /\ chunk_index < Len(frames)
        /\ pc' \in {"SuspiciousChunkLen", "Io", "DecryptionFailed"}
        /\ ~Authentic
    BY DEF Suspicious, ShortFrame, Reject, Authentic
  <1>2. /\ TypeOK' /\ HeadPart' /\ FramesPart' /\ \E c \in Sealed : Opening(c)'
        /\ pc' \notin Early /\ ~Authentic'
    BY <1>1, Moved DEF Early, Failed
  <1>3. (chunk_index < Len(frames))'
    BY <1>1 DEF file
  <1>4. Reason'
    BY <1>1, <1>2, <1>3 DEF Reason, Early
  <1> QED
    BY <1>2, <1>4 DEF IInv

LEMMA EndStep ==
    ASSUME IInv, Eof \/ Count
    PROVE  IInv'
  <1>1. /\ UNCHANGED <<file, header, chunk_index, out>>
        /\ pc \in {"frames", "count"} /\ chunk_index = Len(frames)
        /\ pc' \in {"count", "Ok", "Truncated"}
        /\ pc' = "Ok" => chunk_index = header.chunk_count
        /\ pc' = "Truncated" => chunk_index # header.chunk_count
    BY DEF Eof, Count, IInv, Reason
  <1>2. /\ TypeOK' /\ HeadPart' /\ FramesPart' /\ \E c \in Sealed : Opening(c)'
        /\ pc' \notin Early
    BY <1>1, Moved DEF Early, Failed
  <1>3. (chunk_index = Len(frames))'
    BY <1>1 DEF file
  <1>4. Reason'
    BY <1>1, <1>2, <1>3 DEF Reason, Early
  <1> QED
    BY <1>2, <1>4 DEF IInv

\* A chunk that opens is the next one of the ciphertext the header belongs to.
LEMMA AcceptStep ==
    ASSUME IInv, Accept
    PROVE  IInv'
  <1> DEFINE i == chunk_index
             b == Current.b
  <1>1. /\ pc = "frames" /\ i < Len(frames) /\ Current.len = "right"
        /\ decrypt_chunk_ok(b, key, header, i)
        /\ out' = Append(out, Plain(b.d)) /\ chunk_index' = i + 1
        /\ UNCHANGED <<head, frames, tail, damage, pass, pc, header>>
    BY DEF Accept, Authentic, file
  <1>2. PICK c \in Sealed : Opening(c)
    BY <1>1 DEF IInv, Reason, Early
  <1>3. /\ i \in Nat /\ Len(frames) \in Nat /\ Len(c) \in Nat
        /\ Len(frames) <= MaxFrames /\ MaxFrames \in Nat
        /\ out \in Seq(PlainBlock)
    BY SealedShape, LenProperties, SealedAssumption DEF IInv, TypeOK
  <1>4. Current \in PartFrame
    <2>1. i + 1 \in 1 .. Len(frames)
      BY <1>1, <1>3
    <2> QED
      BY <2>1, ElementOfSeq DEF IInv, FramesPart, Current
  <1>5. Part(b) /\ Current = FrameOf(b)
    BY <1>1, <1>4 DEF PartFrame, Frame, FrameOf
  <1>6. key = derive_key(c[1].hmac.subkey.pass, c[1].hdr.salt) /\ header = c[1].hdr
    BY <1>2 DEF key, Opening
  <1> HIDE DEF b, i
  <1>7. i + 2 \in 2 .. Len(c) /\ b = c[i + 2]
    BY <1>1, <1>3, <1>5, <1>6, ChunkFits
  <1>8. b.d \in Chunk
    <2>1. b \in Block /\ b.kind = "chunk"
      BY <1>1, <1>5, PartIsBlock DEF decrypt_chunk_ok
    <2> QED
      BY <2>1 DEF Block, PlainBlock, HeaderBlock, ChunkBlock, HoleBlock
  <1>9. Plain(b.d) \in PlainBlock
    BY <1>8 DEF Plain, PlainBlock
  <1>10. /\ out' \in Seq(PlainBlock) /\ Len(out') = Len(out) + 1
         /\ out'[Len(out) + 1] = Plain(b.d)
         /\ \A j \in 1 .. Len(out) : out'[j] = out[j]
    BY <1>1, <1>3, <1>9, AppendProperties
  <1>11. Opening(c)'
    <2>1. /\ head = c[1] /\ header = c[1].hdr /\ c[1].hmac.subkey.pass = pass
          /\ Len(out) = i
          /\ \A j \in 1 .. i : frames[j] = FrameOf(c[j + 1]) /\ out[j] = Plain(c[j + 1].d)
      BY <1>2 DEF Opening, i
    <2>2. Len(out') = i + 1 /\ i + 1 <= Len(frames) /\ i + 1 < Len(c)
      BY <1>1, <1>3, <1>7, <1>10, <2>1
    <2>3. ASSUME NEW j \in 1 .. i + 1
          PROVE  frames[j] = FrameOf(c[j + 1]) /\ out'[j] = Plain(c[j + 1].d)
      <3>1. CASE j \in 1 .. i
        BY <1>10, <2>1, <3>1
      <3>2. CASE j = i + 1
        <4>1. frames[j] = FrameOf(b)
          BY <1>5, <3>2 DEF Current, i
        <4>2. j + 1 = i + 2
          BY <1>3, <3>2
        <4> QED
          BY <1>7, <1>10, <2>1, <3>2, <4>1, <4>2
      <3> QED
        BY <1>3, <3>1, <3>2
    <2> QED
      BY <1>1, <2>1, <2>2, <2>3 DEF Opening
  <1>12. TypeOK'
    <2>1. i + 1 \in 0 .. MaxFrames
      BY <1>1, <1>3
    <2> QED
      BY <1>1, <1>10, <2>1 DEF IInv, TypeOK
  <1>13. HeadPart' /\ FramesPart'
    BY <1>1 DEF IInv, HeadPart, FramesPart
  <1>14. Reason'
    BY <1>1, <1>11 DEF Reason, Early
  <1> QED
    BY <1>12, <1>13, <1>14 DEF IInv

LEMMA StutterStep ==
    ASSUME IInv, UNCHANGED vars
    PROVE  IInv'
  BY DEF IInv, vars, TypeOK, HeadPart, FramesPart, Reason, Opening, Authentic, Current, key

LEMMA NextIInv ==
    ASSUME IInv, [Next]_vars
    PROVE  IInv'
  BY DamageHeadStep, DamageFramesStep, CutStep, ReadHeaderStep, FailStep, AcceptStep,
     EndStep, StutterStep DEF Next, Decrypt, Terminating

LEMMA Invariance == Spec => []IInv
  BY InitIInv, NextIInv, PTL DEF Spec

-----------------------------------------------------------------------------
(* Theorems.                                                                *)

\* Every state is one the types allow, and a decryption ends with an outcome of
\* CryError or with Ok.
THEOREM StreamTypesOfDecrypt == Spec => []TypeOK
  <1>1. IInv => TypeOK
    BY DEF IInv
  <1> QED
    BY <1>1, Invariance, PTL

\* Header::read lets a decryption go on only with the very header of a
\* ciphertext made under its passphrase.
THEOREM HeaderIsAuthentic == Spec => []HeaderFirst
  <1>1. IInv => HeaderFirst
    BY DEF IInv, Reason, Early, Opening, HeaderFirst
  <1> QED
    BY <1>1, Invariance, PTL

\* What is opened so far is the beginning of that ciphertext's text.
LEMMA OpenedSoFar ==
    ASSUME TypeOK, NEW c \in Sealed, Opening(c)
    PROVE  /\ PlainOf(c) \in Seq(Range(PlainOf(c)))
           /\ Len(PlainOf(c)) = Len(c) - 1 /\ Len(c) \in Nat /\ Len(c) >= 1
           /\ Len(out) = chunk_index /\ chunk_index \in Nat /\ chunk_index <= Len(c) - 1
           /\ \A i \in 1 .. chunk_index : out[i] = PlainOf(c)[i]
  <1>1. Len(c) \in Nat /\ Len(c) >= 1
    BY SealedShape
  <1>2. /\ Len(out) = chunk_index /\ chunk_index \in Nat /\ chunk_index <= Len(c) - 1
        /\ \A i \in 1 .. chunk_index : out[i] = Plain(c[i + 1].d)
    BY <1>1 DEF TypeOK, Opening
  <1> DEFINE n == Len(c) - 1
             P(i) == Plain(c[i + 1].d)
  <1>3. n \in Nat /\ PlainOf(c) = [i \in 1 .. n |-> P(i)]
    BY <1>1 DEF PlainOf
  <1>4. \A i \in 1 .. chunk_index : out[i] = P(i)
    BY <1>2
  <1>5. chunk_index <= n
    BY <1>2
  <1> HIDE DEF n, P
  <1>6. Len(PlainOf(c)) = n /\ \A i \in 1 .. n : PlainOf(c)[i] = P(i)
    BY <1>3
  <1>7. PlainOf(c) \in Seq(Range(PlainOf(c)))
    BY <1>3 DEF Range
  <1>8. \A i \in 1 .. chunk_index : i \in 1 .. n
    BY <1>2, <1>3, <1>5
  <1> QED
    BY <1>1, <1>2, <1>4, <1>6, <1>7, <1>8 DEF n

\* Neither a chunk of another file nor one from another place of the same file
\* ever reaches the writer, whether the decryption succeeds in the end or not.
THEOREM OnlyThePrefix == Spec => []OutputIsPrefix
  <1>1. ASSUME IInv PROVE OutputIsPrefix
    <2> SUFFICES ASSUME out # << >>
                 PROVE  \E c \in Sealed : c[1].hdr = header /\ IsPrefix(out, PlainOf(c))
      BY DEF OutputIsPrefix
    <2>1. PICK c \in Sealed : Opening(c)
      BY <1>1 DEF IInv, Reason
    <2> DEFINE p == PlainOf(c)
               n == chunk_index
    <2>2. /\ p \in Seq(Range(p)) /\ Len(p) \in Nat
          /\ out \in Seq(PlainBlock) /\ Len(out) = n /\ n \in Nat /\ n <= Len(p)
          /\ \A i \in 1 .. n : out[i] = p[i]
      BY <1>1, <2>1, OpenedSoFar DEF IInv, TypeOK
    <2> HIDE DEF p, n
    <2>3. /\ SubSeq(out, 1, n) \in Seq(PlainBlock)
          /\ Len(SubSeq(out, 1, n)) = n
          /\ \A i \in 1 .. n : SubSeq(out, 1, n)[i] = out[i]
      BY <2>2, SubSeqOf
    <2>4. /\ SubSeq(p, 1, n) \in Seq(Range(p))
          /\ Len(SubSeq(p, 1, n)) = n
          /\ \A i \in 1 .. n : SubSeq(p, 1, n)[i] = p[i]
      BY <2>2, SubSeqOf
    <2>5. SubSeq(out, 1, n) = SubSeq(p, 1, n)
      BY <2>2, <2>3, <2>4, SeqEqual
    <2>6. IsPrefix(out, p)
      BY <2>2, <2>5 DEF IsPrefix
    <2> QED
      BY <2>1, <2>6 DEF Opening, p
  <1> QED
    BY <1>1, Invariance, PTL

\* Once all frames are opened and their number is the one committed to, the
\* file is the ciphertext and the output its text.
LEMMA OpenedAll ==
    ASSUME IInv, NEW c \in Sealed, Opening(c),
           chunk_index = Len(frames), chunk_index = header.chunk_count
    PROVE  Is(c) /\ out = PlainOf(c)
  <1>1. /\ Len(c) = chunk_index + 1
        /\ \A i \in 1 .. chunk_index : frames[i] = FrameOf(c[i + 1])
        /\ head = c[1]
    BY SealedShape DEF Opening
  <1>2. /\ PlainOf(c) \in Seq(Range(PlainOf(c))) /\ Len(PlainOf(c)) = Len(c) - 1
        /\ Len(out) = chunk_index /\ chunk_index \in Nat
        /\ \A i \in 1 .. chunk_index : out[i] = PlainOf(c)[i]
        /\ out \in Seq(PlainBlock)
    BY OpenedSoFar DEF IInv, TypeOK
  <1>3. out = PlainOf(c)
    <2> DEFINE p == PlainOf(c)
               S == PlainBlock \cup Range(p)
    <2>1. out \in Seq(S) /\ p \in Seq(S) /\ Len(p) = Len(out)
          /\ \A i \in 1 .. Len(out) : out[i] = p[i]
      <3>1. PlainBlock \subseteq S /\ Range(p) \subseteq S
        OBVIOUS
      <3> HIDE DEF p, S
      <3> QED
        BY <1>1, <1>2, <3>1 DEF p
    <2> HIDE DEF p, S
    <2>2. out = p
      BY ONLY <2>1, SeqEqual
    <2> QED
      BY <2>2 DEF p
  <1> DEFINE F(i) == FrameOf(c[i + 1])
             n == Len(c) - 1
  <1>4. n = Len(frames) /\ \A i \in 1 .. n : frames[i] = F(i)
    BY <1>1, <1>2
  <1>5. frames \in Seq(Frame)
    BY DEF IInv, TypeOK
  <1> HIDE DEF F, n
  <1>6. frames = [i \in 1 .. n |-> F(i)]
    BY <1>4, <1>5
  <1> QED
    BY <1>1, <1>3, <1>6 DEF Is, F, n

\* A file is accepted only if header and frames are those of one ciphertext made
\* under the passphrase given, and its whole text comes out: reordering,
\* substitution, splicing and truncation are all detected, whatever was damaged.
THEOREM OnlySealedAccepted == Spec => []AcceptsOnlySealed
  <1>1. ASSUME IInv PROVE AcceptsOnlySealed
    <2> SUFFICES ASSUME pc = "Ok"
                 PROVE  \E c \in Sealed : /\ Is(c)
                                          /\ c[1].hmac.subkey.pass = pass
                                          /\ out = PlainOf(c)
      BY DEF AcceptsOnlySealed
    <2>1. /\ \E c \in Sealed : Opening(c)
          /\ chunk_index = Len(frames) /\ chunk_index = header.chunk_count
      BY <1>1 DEF IInv, Reason, Early
    <2>2. PICK c \in Sealed : Opening(c)
      BY <2>1
    <2>3. Is(c) /\ out = PlainOf(c)
      BY <1>1, <2>1, <2>2, OpenedAll
    <2> QED
      BY <2>2, <2>3 DEF Opening
  <1> QED
    BY <1>1, Invariance, PTL

\* Nothing in the code turns a good file away: an undamaged ciphertext under its
\* passphrase never fails, and Ok comes with the whole text.
THEOREM WholeFileDecrypts == Spec => []WholeFileOpens
  <1>1. ASSUME IInv PROVE WholeFileOpens
    <2> SUFFICES ASSUME NEW c \in Sealed, Is(c), tail = 0, pass = c[1].hmac.subkey.pass
                 PROVE  pc \notin Failed /\ (pc = "Ok" => out = PlainOf(c))
      BY DEF WholeFileOpens
    <2>1. /\ head = c[1] /\ head.kind = "header" /\ Len(c) \in Nat /\ Len(c) >= 1
          /\ c[1].hmac = compute_hmac(c[1].hdr, derive_key(pass, c[1].hdr.salt))
          /\ Len(c) = c[1].hdr.chunk_count + 1 /\ c[1].hdr.chunk_count \in Nat
          /\ \A k \in 2 .. Len(c) :
                decrypt_chunk_ok(c[k], derive_key(pass, c[1].hdr.salt), c[1].hdr, k - 2)
      BY SealedShape DEF Is, HeaderBlock, Header
    <2>2. header_read(<<head>>, pass) = "ok"
      BY <2>1 DEF header_read
    <2>3. Len(frames) = Len(c) - 1 /\ \A i \in 1 .. Len(c) - 1 : frames[i] = FrameOf(c[i + 1])
      <3> DEFINE F(i) == FrameOf(c[i + 1])
                 n == Len(c) - 1
      <3>1. n \in Nat /\ frames = [i \in 1 .. n |-> F(i)]
        BY <2>1 DEF Is
      <3> HIDE DEF F, n
      <3>2. Len(frames) = n /\ \A i \in 1 .. n : frames[i] = F(i)
        BY <3>1
      <3> QED
        BY <3>2 DEF F, n
    <2>4. ASSUME pc \notin Early
          PROVE  Opening(c)
      <3>1. PICK d \in Sealed : Opening(d)
        BY <1>1, <2>4 DEF IInv, Reason
      <3>2. d = c
        BY <2>1, <3>1, SealedAssumption DEF Opening
      <3> QED
        BY <3>1, <3>2
    <2>5. ASSUME pc \notin Early, chunk_index < Len(frames)
          PROVE  Authentic
      <3>1. /\ header = c[1].hdr /\ chunk_index \in Nat
        BY <1>1, <2>4, <2>5 DEF Opening, IInv, TypeOK
      <3>2. chunk_index < Len(c) - 1 /\ chunk_index \in Nat /\ Len(c) \in Nat
        BY <2>1, <2>3, <2>5, <3>1
      <3>3. chunk_index + 1 \in 1 .. Len(c) - 1 /\ (chunk_index + 1) + 1 \in 2 .. Len(c)
            /\ ((chunk_index + 1) + 1) - 2 = chunk_index
        BY ONLY <3>2
      <3>4. Current = FrameOf(c[(chunk_index + 1) + 1])
        BY <2>3, <3>3 DEF Current
      <3>5. key = derive_key(pass, c[1].hdr.salt)
        BY <3>1 DEF key
      <3>6. decrypt_chunk_ok(c[(chunk_index + 1) + 1], key, header, chunk_index)
        BY <2>1, <3>1, <3>3, <3>5
      <3> QED
        BY <3>4, <3>6 DEF Authentic, FrameOf
    <2>6. pc \notin {"InvalidFormat", "HeaderTampered"}
      BY <1>1, <2>2 DEF IInv, Reason
    <2>7. pc \notin {"SuspiciousChunkLen", "Io", "DecryptionFailed"}
      BY <1>1, <2>5 DEF IInv, Reason, Early
    <2>8. ASSUME pc \notin Early, chunk_index = Len(frames)
          PROVE  chunk_index = header.chunk_count
      BY <2>1, <2>3, <2>4, <2>8 DEF Opening
    <2>9. pc # "Truncated"
      BY <1>1, <2>8 DEF IInv, Reason, Early
    <2>10. ASSUME pc = "Ok" PROVE out = PlainOf(c)
      <3>1. pc \notin Early /\ chunk_index = Len(frames)
        BY <1>1, <2>10 DEF IInv, Reason, Early
      <3> QED
        BY <1>1, <2>4, <2>8, <3>1, OpenedAll
    <2> QED
      BY <2>6, <2>7, <2>9, <2>10 DEF Failed
  <1> QED
    BY <1>1, Invariance, PTL
=============================================================================
