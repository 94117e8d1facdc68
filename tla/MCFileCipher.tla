---------------------------- MODULE MCFileCipher ----------------------------
(***************************************************************************)
(* Instances of FileCipher: two concurrent runs, the user's files, a       *)
(* temporary file an earlier killed run left behind, ciphertexts that are  *)
(* whole, truncated and spliced.                                           *)
(***************************************************************************)
EXTENDS FileCipher, TLC

CONSTANTS p1, p2, f1, f2, f3, f4

MCProc == {p1, p2}
MCFile == {f1, f2, f3, f4}

pA  == <<"a", "txt">>
pB  == <<"b", "txt">>
pC  == <<"c", "cry">>
pC2 == <<"c", "enc">>
pK  == <<"k", "cry">>
pE  == <<"e", "txt">>

MCUserPath == {pA, pB, pC, pK, pE}
MCUserPathShared == {pA, pB, pC, pC2}
MCEditPath == {pA}

\* The base nonces make both halves wrap within three chunks.
MCRng == p1 :> [salt |-> "s1", nonce |-> [hi |-> 1, lo |-> 3]]
         @@ p2 :> [salt |-> "s2", nonce |-> [hi |-> 0, lo |-> 0]]

Text(ds) == [i \in 1 .. Len(ds) |-> Plain(ds[i])]

MCEditText == {Text(<<"F">>), Text(<<"G", "F", "l">>)}

\* A ciphertext of ds made by an earlier run.
OldHeader(n) == [algo |-> "Aes256Gcm", salt |-> "s0",
                 nonce |-> [hi |-> 0, lo |-> 2], chunk_count |-> n]
OldKey == derive_key("pw", "s0")
OldSealed(ds, n) ==
    <<header_write(OldHeader(n), OldKey)>> \o
    [i \in 1 .. Len(ds) |-> encrypt_chunk(ds[i], OldKey, OldHeader(n), i - 1)]

Swapped(c) == [c EXCEPT ![2] = c[3], ![3] = c[2]]

EncJob(in, out, force) ==
    [op |-> "enc", in |-> in, out |-> out, pass |-> "pw",
     algo |-> "ChaCha20Poly1305", force |-> force]
DecJob(in, out, pass, force) ==
    [op |-> "dec", in |-> in, out |-> out, pass |-> pass,
     algo |-> "Aes256Gcm", force |-> force]

\* f1 is the user's text, f2 a ciphertext, f3 what a killed run left under a
\* temporary name, f4 another file.
Files(bind) == [q \in Path |-> IF q \in DOMAIN bind THEN bind[q] ELSE Absent]
Disk(c1, c2, c3, c4) ==
    [i \in Inode |-> CASE i = f1 -> c1 [] i = f2 -> c2 [] i = f3 -> c3
                       [] i = f4 -> c4 [] OTHER -> << >>]

Jobs(j1, j2) == p1 :> j1 @@ p2 :> j2

Leftover == OldSealed(<<"G", "G", "G", "l">>, 5)
TmpC == <<"c", "cry.tmp">>
TmpB == <<"b", "plain.tmp">>

MCScenario == {
    \* encrypt a new file while another run waits for it, then decrypts it
    [job |-> Jobs(EncJob(pA, pC, FALSE), DecJob(pC, pB, "pw", FALSE)),
     fs |-> Files(pA :> f1 @@ TmpC :> f3),
     data |-> Disk(Text(<<"F", "l">>), << >>, Leftover, << >>)],
    \* replace a ciphertext while it is decrypted back over the input
    [job |-> Jobs(EncJob(pA, pC, TRUE), DecJob(pC, pB, "pw", TRUE)),
     fs |-> Files(pA :> f1 @@ pC :> f2 @@ pB :> f4 @@ TmpB :> f3),
     data |-> Disk(Text(<<"F", "F">>), OldSealed(<<"G", "l">>, 2),
                   Text(<<"G", "G", "l">>), Text(<<"l">>))],
    \* decrypt over the very file another run is encrypting
    [job |-> Jobs(EncJob(pB, pK, FALSE), DecJob(pC, pB, "pw", TRUE)),
     fs |-> Files(pB :> f1 @@ pC :> f2),
     data |-> Disk(Text(<<"F">>), OldSealed(<<"G", "l">>, 2), << >>, << >>)],
    \* an encryption that must refuse to replace the file being decrypted
    [job |-> Jobs(EncJob(pA, pC, FALSE), DecJob(pC, pB, "pw", FALSE)),
     fs |-> Files(pA :> f1 @@ pC :> f2),
     data |-> Disk(Text(<<"F">>), OldSealed(<<"F">>, 1), << >>, << >>)],
    \* two encryptions of one input; the output of one is a directory
    [job |-> Jobs(EncJob(pA, pC, FALSE), EncJob(pA, pK, TRUE)),
     fs |-> Files(pA :> f1 @@ pK :> Dir),
     data |-> Disk(<< >>, << >>, << >>, << >>)],
    \* a truncated and a reordered ciphertext
    [job |-> Jobs(DecJob(pC, pB, "pw", FALSE), DecJob(pK, pE, "pw", FALSE)),
     fs |-> Files(pC :> f2 @@ pK :> f4),
     data |-> Disk(<< >>, OldSealed(<<"F", "G">>, 3), << >>,
                   Swapped(OldSealed(<<"F", "G">>, 2)))],
    \* a wrong passphrase, and a file that is no ciphertext
    [job |-> Jobs(DecJob(pC, pB, "no", FALSE), DecJob(pK, pE, "pw", FALSE)),
     fs |-> Files(pC :> f2 @@ pK :> f4),
     data |-> Disk(<< >>, OldSealed(<<"F">>, 1), << >>, Text(<<"l">>))]}

\* Two encryptions whose outputs differ only in the extension.
MCScenarioShared == {
    [job |-> Jobs(EncJob(pA, pC, FALSE), EncJob(pB, pC2, FALSE)),
     fs |-> Files(pA :> f1 @@ pB :> f4),
     data |-> Disk(Text(<<"F">>), << >>, << >>, Text(<<"G">>))]}

\* An encryption and a decryption that write the same new file.
MCScenarioRace == {
    [job |-> Jobs(EncJob(pA, pK, FALSE), DecJob(pC, pK, "pw", FALSE)),
     fs |-> Files(pA :> f1 @@ pC :> f2),
     data |-> Disk(Text(<<"F">>), OldSealed(<<"G">>, 1), << >>, << >>)]}
=============================================================================
