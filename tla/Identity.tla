------------------------------ MODULE Identity ------------------------------
(***************************************************************************)
(* CryDNA identities (src/crydna.rs) and the AES keys of `cry derive`      *)
(* (src/keygen.rs): how passphrase, namespace, version and sub-identity    *)
(* make a key, and the signatures of `cry sign` and `cry verify`.          *)
(*                                                                         *)
(* Hashes, Argon2id and Ed25519 are ideal: a value is the record of what   *)
(* went into it.  What is hashed is a sequence of pieces of text, and a    *)
(* name may contain any piece, the separators of the encoding included.    *)
(***************************************************************************)
EXTENDS Naturals, Sequences

CONSTANTS
    Piece,          \* pieces of text and bytes
    Version,        \* values of --key-version
    be32(_),        \* the four bytes of a version
    decimal(_),     \* its digits
    None            \* Option::None

ASSUME PieceAssumption ==
    /\ {"CryDNA-v1:", ":v", ":sub:"} \subseteq Piece
    /\ {"cry:derive:aes256gcm|ns=", "|ver=", "|sub="} \subseteq Piece
    /\ \A v \in Version : be32(v) \in Piece /\ decimal(v) \in Piece
    /\ \A v, w \in Version : be32(v) = be32(w) => v = w
    /\ \A v, w \in Version : decimal(v) = decimal(w) => v = w
    /\ None \notin Seq(Piece)

Name == Seq(Piece)

derive_salt(namespace, version, sub_id) ==
    <<"CryDNA-v1:">> \o namespace \o <<":v", be32(version)>>
    \o (IF sub_id = None THEN << >> ELSE <<":sub:">> \o sub_id)

\* The salt of a derived AES key: no sub-identity is the empty one.
aes_salt(namespace, version, sub_id) ==
    <<"cry:derive:aes256gcm|ns=">> \o namespace
    \o <<"|ver=", decimal(version), "|sub=">>
    \o (IF sub_id = None THEN << >> ELSE sub_id)

\* Argon2id over passphrase and salt, and the key made of its output.
derive(passphrase, namespace, version, sub_id) ==
    [algo |-> "Ed25519", from |-> passphrase,
     salt |-> derive_salt(namespace, version, sub_id)]

derive_aes(passphrase, namespace, version, sub_id) ==
    [algo |-> "Aes256Gcm", from |-> passphrase,
     salt |-> aes_salt(namespace, version, sub_id)]

\* OsRng: what run r generates is nobody else's.
generate(r, algo) == [algo |-> algo, from |-> r, salt |-> << >>]

-----------------------------------------------------------------------------
(* Signatures.  A public key stands for its pair.                           *)

sign_content(id, content) == [by |-> id, over |-> content]

\* The ways the user may hand over a printed text: as it was, in upper case,
\* with "+f" for "0f", a digit lost, a byte lost, a letter that is no digit, or a
\* character of several bytes across two digits.
Shape == {"lower", "upper", "plus", "odd", "short", "letter", "wide"}

bytes_to_hex(bytes) == [bytes |-> bytes, shape |-> "lower"]

\* hex_to_bytes with the conversion to an array of the right length: Ok, an
\* error, or a panic of the string slice.
hex_to_array(text) ==
    CASE text.shape \in {"lower", "upper", "plus"} -> "Ok"
      [] text.shape \in {"odd", "short", "letter"} -> "InvalidFormat"
      [] text.shape = "wide" -> "panic"

verify_content_signature(public_key, content, signature) ==
    IF hex_to_array(public_key) # "Ok" THEN hex_to_array(public_key)
    ELSE IF hex_to_array(signature) # "Ok" THEN hex_to_array(signature)
    ELSE IF signature.bytes = sign_content(public_key.bytes, content)
    THEN "Ok" ELSE "VerificationFailed"
=============================================================================
