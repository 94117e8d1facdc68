----------------------------- MODULE AtomicOutput -----------------------------
(***************************************************************************)
(* What encrypt_file and decrypt_file promise the user about the names he  *)
(* works with ("Atomic output", module comment of src/cipher.rs): a name   *)
(* changes in one step from what it was to a complete result.  There are   *)
(* no temporary files, buffers or half-written files here.                 *)
(***************************************************************************)
EXTENDS CryFormat

CONSTANTS
    UserPath,   \* names the user works with
    EditPath,   \* those he rewrites or removes himself
    EditText,   \* what he writes there
    Absent,     \* the view of a name no file has
    Dir         \* the view of a name that is a directory

VARIABLES
    view,       \* what each name shows
    archive     \* the ciphertexts that were ever shown

vars == <<view, archive>>

Shown == {view[q] : q \in UserPath} \ {Absent, Dir}

Init ==
    /\ view \in [UserPath -> Contents \cup {Absent, Dir}]
    /\ archive = {c \in Shown : IsCiphertext(c)}

\* Only q changes.
Only(q) == \A x \in UserPath \ {q} : view'[x] = view[x]

\* An encryption publishes a complete ciphertext.
Seal(q) ==
    /\ Only(q)
    /\ view'[q] \notin {Absent, Dir} /\ IsCiphertext(view'[q])
    /\ archive' = archive \cup {view'[q]}

\* A decryption publishes the whole text of a ciphertext from the archive.
Open(q) ==
    /\ Only(q)
    /\ \E c \in archive : view'[q] = PlainOf(c)
    /\ UNCHANGED archive

\* The user rewrites or removes one of his files.
UserWrites(q) ==
    /\ Only(q)
    /\ view'[q] \in EditText \cup {Absent}
    /\ UNCHANGED archive

Next ==
    \/ \E q \in UserPath : Seal(q) \/ Open(q)
    \/ \E q \in EditPath : UserWrites(q)

Spec == Init /\ [][Next]_vars
=============================================================================
