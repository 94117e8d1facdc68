------------------------------ MODULE CryFormat ------------------------------
(***************************************************************************)
(* The encrypted-file format of src/header.rs and src/cipher.rs, with      *)
(* ideal cryptography.  A file is a sequence of blocks: a text is a        *)
(* sequence of plain chunks, a ciphertext is a header block followed by    *)
(* sealed chunks.  A digest, a MAC, a derived key or a sealed chunk is the *)
(* record of what went into it, so that two of them are equal exactly when *)
(* everything that went into them is: SHA-256 and Argon2id do not collide, *)
(* an HMAC or an AEAD tag verifies only for the key and the bytes it was   *)
(* computed from.                                                          *)
(***************************************************************************)
EXTENDS ChunkNonce, Sequences

CONSTANTS
    Pass,       \* passphrases
    Salt,       \* 16-byte salts
    Chunk,      \* contents of one plaintext chunk, 1 .. CHUNK_SIZE bytes
    Full,       \* those of exactly CHUNK_SIZE bytes
    Opaque      \* what a chunk cut out of something that is not a text holds

ASSUME ChunkAssumption ==
    /\ Full \subseteq Chunk
    /\ Opaque \in Chunk

Algorithm == {"Aes256Gcm", "ChaCha20Poly1305"}

Header == [algo : Algorithm, salt : Salt, nonce : Nonce, chunk_count : Nat]

\* Argon2id of the passphrase under the salt, with fixed parameters.
derive_key(pass, salt) == [pass |-> pass, salt |-> salt]

Key == [pass : Pass, salt : Salt]

-----------------------------------------------------------------------------
(* Header: the MAC is keyed by an HKDF sub-key of the master key and covers *)
(* every field that is serialised before it.                                *)

compute_hmac(h, key) == [over |-> h, subkey |-> key]

Hmac == [over : Header, subkey : Key]

header_write(h, key) ==
    [kind |-> "header", hdr |-> h, hmac |-> compute_hmac(h, key)]

\* Mutant of header_read: the stored MAC is never compared.
header_read_unchecked(file, pass) ==
    IF file = << >> \/ file[1].kind # "header" THEN "InvalidFormat" ELSE "ok"

\* decrypt_file reads the header bytes, takes the salt from them, derives the
\* key and lets Header::read check magic, algorithm byte and MAC: too short a
\* file, a wrong magic and an unknown algorithm are all InvalidFormat.
header_read(file, pass) ==
    IF file = << >> \/ file[1].kind # "header" THEN "InvalidFormat"
    ELSE LET h == file[1].hdr
         IN  IF file[1].hmac = compute_hmac(h, derive_key(pass, h.salt))
             THEN "ok" ELSE "HeaderTampered"

-----------------------------------------------------------------------------
(* Chunks.                                                                  *)

\* SHA-256 over the header fields: binds every chunk to this file.
header_aad(h) == h

chunk_aad(h, index) == [header |-> header_aad(h), index |-> index]

Aad == [header : Header, index : Nat]

\* AEAD encryption of chunk number `index` of a file with header h.
encrypt_chunk(d, key, h, index) ==
    [kind  |-> "chunk",
     key   |-> key,
     nonce |-> chunk_nonce(h.nonce, index),
     algo  |-> h.algo,
     aad   |-> chunk_aad(h, index),
     d     |-> d]

\* AEAD decryption succeeds exactly for what encrypt_chunk made with the same
\* key, nonce, algorithm and associated data.
decrypt_chunk_ok(b, key, h, index) ==
    /\ b.kind = "chunk"
    /\ b = encrypt_chunk(b.d, key, h, index)

-----------------------------------------------------------------------------
(* Blocks, texts and ciphertexts.                                           *)

Plain(d) == [kind |-> "plain", d |-> d]

PlainBlock  == [kind : {"plain"}, d : Chunk]
HeaderBlock == [kind : {"header"}, hdr : Header, hmac : Hmac]
ChunkBlock  == [kind : {"chunk"}, key : Key, nonce : [hi : Int, lo : Int],
                algo : Algorithm, aad : Aad, d : Chunk]
HoleBlock   == [kind : {"hole"}]

\* Bytes no write has filled (a sparse region reads as zeros).
Hole == [kind |-> "hole"]

Block == PlainBlock \cup HeaderBlock \cup ChunkBlock \cup HoleBlock

Contents == Seq(Block)

\* What read_chunk delivers for one block of the input file.
Datum(b) == IF b.kind = "plain" THEN b.d ELSE Opaque

\* A text the code may be given: only its last chunk may be short.
IsText(c) ==
    /\ c \in Seq(PlainBlock)
    /\ \A i \in 1 .. Len(c) - 1 : c[i].d \in Full

\* A complete, untampered ciphertext made with header h under passphrase pass.
IsCiphertextOf(c, h, pass) ==
    LET key == derive_key(pass, h.salt)
    IN  /\ c # << >>
        /\ c[1] = header_write(h, key)
        /\ Len(c) = h.chunk_count + 1
        /\ \A i \in 1 .. h.chunk_count :
              decrypt_chunk_ok(c[i + 1], key, h, i - 1)

\* Whatever its header says made it.
IsCiphertext(c) ==
    /\ c # << >>
    /\ c[1].kind = "header"
    /\ IsCiphertextOf(c, c[1].hdr, c[1].hmac.subkey.pass)

\* The text a complete ciphertext stands for.
PlainOf(c) == [i \in 1 .. Len(c) - 1 |-> Plain(c[i + 1].d)]
=============================================================================
