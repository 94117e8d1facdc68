--------------------------- MODULE MCDecryptStream ---------------------------
(***************************************************************************)
(* DecryptStream with three ciphertexts: two under one passphrase, one     *)
(* under another, of two, one and no chunks.                               *)
(***************************************************************************)
EXTENDS DecryptStream

Seal(ds, pw, salt, algo) ==
    LET h == [algo |-> algo, salt |-> salt, nonce |-> [hi |-> 0, lo |-> 3],
              chunk_count |-> Len(ds)]
        k == derive_key(pw, salt)
    IN  <<header_write(h, k)>> \o
        [i \in 1 .. Len(ds) |-> encrypt_chunk(ds[i], k, h, i - 1)]

MCSealed == {Seal(<<"F", "F">>, "pw", "s0", "Aes256Gcm"),
             Seal(<<"l">>, "pw", "s1", "ChaCha20Poly1305"),
             Seal(<< >>, "no", "s2", "Aes256Gcm")}
=============================================================================
