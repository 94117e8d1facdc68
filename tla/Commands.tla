------------------------------ MODULE Commands ------------------------------
(***************************************************************************)
(* main of src/main.rs: every run of the program reads its passphrases     *)
(* from the sources of its command and then does its work.  The work of    *)
(* keygen and derive is KeyFiles, step by step and shared with the other   *)
(* runs; that of sign and verify is here; that of encrypt, decrypt and ssh *)
(* is the subject of FileCipher, SshAgent and TempKeyFile, and here only   *)
(* succeeds or fails.                                                      *)
(*                                                                         *)
(* A passphrase is a sequence of characters.  The user (external) types at *)
(* the prompts, edits the document that is signed, and hands the printed   *)
(* keys and signatures to verify.                                          *)
(***************************************************************************)
EXTENDS KeyFiles, Identity

CONSTANTS
    Char,           \* characters of passphrases and of pass-files
    EndOfLine,      \* those that end a line
    Document,       \* the contents the signed document may have
    MaxEdits        \* bound on the changes to the document

Passphrase == Seq(Char)

\* The commands that take --pass-file to read_passphrase.
ReadsPassFile == {"encrypt", "decrypt", "sign"}

Command == {"help", "encrypt", "decrypt", "keygen", "derive", "sign", "verify",
            "bench", "ssh"}

\* A command line: the options of the command, None or a default for the others;
\* `types` is what the user may type at its prompts.
IsCommandLine(a) ==
    /\ a.cmd \in Command
    /\ a.pass_file = None \/ a.pass_file \in Seq(Char)
    /\ a.cmd \notin ReadsPassFile \cup {"ssh"} => a.pass_file = None
    /\ a.passphrase = None \/ a.passphrase \in Passphrase
    /\ a.cmd \notin {"derive", "ssh"} => a.passphrase = None
    /\ a.namespace \in Name
    /\ a.key_version \in Version
    /\ a.sub_id = None \/ a.sub_id \in Name
    /\ a.types \subseteq Passphrase

\* What stands before the first end of line.
first_line(contents) ==
    SubSeq(contents, 1,
           CHOOSE n \in 0 .. Len(contents) :
               /\ \A i \in 1 .. n : contents[i] \notin EndOfLine
               /\ n < Len(contents) => contents[n + 1] \in EndOfLine)

\* The four places where a key is made, each with arguments of its own: run r
\* generates it, or it is derived from passphrase p and the options.
KeygenKey(r, a) == generate(r, a.algo)

\* Mutant of DeriveKey: the version is not passed on ("FIX 1" of derive).
DeriveKeyHardcoded(a, p) ==
    IF a.algo = "Aes256Gcm" THEN derive_aes(p, a.namespace, a.key_version, a.sub_id)
                            ELSE derive(p, a.namespace, 0, a.sub_id)

DeriveKey(a, p) ==
    IF a.algo = "Aes256Gcm" THEN derive_aes(p, a.namespace, a.key_version, a.sub_id)
                            ELSE derive(p, a.namespace, a.key_version, a.sub_id)

SignKey(a, p) == derive(p, a.namespace, a.key_version, a.sub_id)

SshKey(a, p) == derive(p, a.namespace, a.key_version, a.sub_id)

\* The passphrases a command may come to, whatever its sources.
Passphrases(a) ==
    a.types
    \cup (IF a.passphrase = None THEN {} ELSE {a.passphrase})
    \cup (IF a.pass_file = None THEN {} ELSE {first_line(a.pass_file)})

ASSUME CommandAssumption ==
    /\ EndOfLine \subseteq Char
    /\ MaxEdits \in Nat
    /\ Document # {} /\ None \notin Document
    /\ \A s \in Scenario : \A r \in Run :
          /\ IsCommandLine(s.args[r])
          /\ s.args[r].cmd = "keygen" => KeygenKey(r, s.args[r]) \in Key
          /\ \A p \in Passphrases(s.args[r]) \cup {<< >>} :
                /\ s.args[r].cmd = "derive" => DeriveKey(s.args[r], p) \in Key
                /\ s.args[r].cmd = "sign" => SignKey(s.args[r], p) \in Key
                /\ s.args[r].cmd = "ssh" => SshKey(s.args[r], p) \in Key

VARIABLES
    stage,      \* where each run is in main
    typed,      \* what was typed at its prompts
    pass,       \* the passphrase it goes on with
    document,   \* the document on the disk
    seen,       \* its contents when the run read them
    ident,      \* the identity that sign or ssh derived
    signature,  \* the signature that sign printed
    given,      \* what verify was called with: whose key, whose signature
    result,     \* what the command returned
    edits       \* changes to the document so far

cli == <<stage, typed, pass, document, seen, ident, signature, given, result, edits>>
allvars == <<vars, cli>>

Ended == {"exit", "killed"}

Error == {"Io", "EmptyPassphrase", "PassphraseMismatch", "FileExists",
          "InvalidFormat", "VerificationFailed", "panic", "Failed"}

\* What main does first for each command.
First(a) ==
    CASE a.cmd = "help" -> "exit"
      [] a.cmd \in {"keygen", "derive"} /\ a.openssh -> "openssh"
      [] a.cmd \in {"sign", "verify"} -> "read"
      [] a.cmd = "bench" \/ (a.cmd = "keygen" /\ ~a.openssh) -> "work"
      [] OTHER -> "pass"

CInit ==
    /\ Init
    /\ stage = [r \in Run |-> First(args[r])]
    /\ typed = [r \in Run |-> << >>]
    /\ pass = [r \in Run |-> << >>]
    /\ document = CHOOSE d \in Document : TRUE
    /\ seen = [r \in Run |-> None]
    /\ ident = [r \in Run |-> NoKey]
    /\ signature = [r \in Run |-> None]
    /\ given = [r \in Run |-> None]
    /\ result = [r \in Run |-> IF args[r].cmd = "help" THEN "Ok" ELSE "none"]
    /\ edits = 0

Enter(r, l) == stage' = [stage EXCEPT ![r] = l] /\ UNCHANGED result

\* The result reaches the end of main: "Done." and status 0, or the error and
\* status 1.
Return(r, e) ==
    /\ stage' = [stage EXCEPT ![r] = "exit"]
    /\ result' = [result EXCEPT ![r] = e]

Type(r, t) == typed' = [typed EXCEPT ![r] = Append(@, t)]

-----------------------------------------------------------------------------
(* Passphrases.                                                             *)

\* read_openssh_passphrase: the first prompt.
ReadOpenssh(r) ==
    /\ stage[r] = "openssh"
    /\ \E t \in args[r].types :
          /\ Type(r, t)
          /\ IF t = << >> THEN Return(r, "EmptyPassphrase")
                          ELSE Enter(r, "openssh confirm")
    /\ UNCHANGED <<vars, pass, document, seen, ident, signature, given, edits>>

\* The second; derive goes on to its own passphrase.
ConfirmOpenssh(r) ==
    /\ stage[r] = "openssh confirm"
    /\ \E t \in args[r].types :
          /\ Type(r, t)
          /\ IF t # typed[r][1] THEN Return(r, "PassphraseMismatch")
             ELSE Enter(r, IF args[r].cmd = "keygen" THEN "work" ELSE "pass")
    /\ UNCHANGED <<vars, pass, document, seen, ident, signature, given, edits>>

\* Where the passphrase of a command comes from.
Source(a) ==
    CASE a.cmd \in {"derive", "ssh"} /\ a.passphrase # None -> "option"
      [] a.cmd \in ReadsPassFile /\ a.pass_file # None -> "file"
      [] OTHER -> "prompt"

Take(r, p, l) == pass' = [pass EXCEPT ![r] = p] /\ Enter(r, l)

\* Mutant of TakeOption: derive does not look at what it was given either.
TakeOptionUnchecked(r) ==
    /\ stage[r] = "pass" /\ Source(args[r]) = "option"
    /\ Take(r, args[r].passphrase, "work")
    /\ UNCHANGED <<vars, typed, document, seen, ident, signature, given, edits>>

\* --passphrase.  Only derive refuses an empty one.
TakeOption(r) ==
    /\ stage[r] = "pass" /\ Source(args[r]) = "option"
    /\ IF args[r].cmd = "derive" /\ args[r].passphrase = << >>
       THEN Return(r, "EmptyPassphrase") /\ UNCHANGED pass
       ELSE Take(r, args[r].passphrase, "work")
    /\ UNCHANGED <<vars, typed, document, seen, ident, signature, given, edits>>

\* --pass-file.
TakeFirstLine(r) ==
    /\ stage[r] = "pass" /\ Source(args[r]) = "file"
    /\ LET p == first_line(args[r].pass_file)
       IN  IF p = << >> THEN Return(r, "EmptyPassphrase") /\ UNCHANGED pass
                        ELSE Take(r, p, "work")
    /\ UNCHANGED <<vars, typed, document, seen, ident, signature, given, edits>>

\* The prompt; encrypt asks for a confirmation.
Prompt(r) ==
    /\ stage[r] = "pass" /\ Source(args[r]) = "prompt"
    /\ \E t \in args[r].types :
          /\ Type(r, t)
          /\ IF t = << >> THEN Return(r, "EmptyPassphrase") /\ UNCHANGED pass
             ELSE Take(r, t, IF args[r].cmd = "encrypt" THEN "confirm" ELSE "work")
    /\ UNCHANGED <<vars, document, seen, ident, signature, given, edits>>

Confirm(r) ==
    /\ stage[r] = "confirm"
    /\ \E t \in args[r].types :
          /\ Type(r, t)
          /\ IF t # pass[r] THEN Return(r, "PassphraseMismatch") ELSE Enter(r, "work")
    /\ UNCHANGED <<vars, pass, document, seen, ident, signature, given, edits>>

\* No terminal, or a pass-file or document that cannot be read.
InputFails(r) ==
    /\ \/ stage[r] \in {"openssh", "openssh confirm", "confirm", "read"}
       \/ stage[r] = "pass" /\ Source(args[r]) # "option"
    /\ Return(r, "Io")
    /\ UNCHANGED <<vars, typed, pass, document, seen, ident, signature, given, edits>>

-----------------------------------------------------------------------------
(* The work of the commands.                                                *)

Signed == {s \in Run : args[s].cmd = "sign" /\ result[s] = "Ok"}

\* sign and verify read the whole document first; verify is called with a
\* public key and a signature that were printed before.
ReadDocument(r) ==
    /\ stage[r] = "read"
    /\ seen' = [seen EXCEPT ![r] = document]
    /\ \/ args[r].cmd = "sign" /\ Enter(r, "pass") /\ UNCHANGED given
       \/ /\ args[r].cmd = "verify"
          /\ \E k, s \in Signed, x, y \in Shape :
                given' = [given EXCEPT ![r] = [key |-> k, sig |-> s,
                                               kshape |-> x, sshape |-> y]]
          /\ Enter(r, "work")
    /\ UNCHANGED <<vars, typed, pass, document, ident, signature, edits>>

\* Mutant of Sign: what is signed is read after the passphrase.
SignCurrent(r) ==
    /\ stage[r] = "work" /\ args[r].cmd = "sign"
    /\ LET id == SignKey(args[r], pass[r])
       IN  /\ ident' = [ident EXCEPT ![r] = id]
           /\ signature' = [signature EXCEPT ![r] = sign_content(id, document)]
    /\ Return(r, "Ok")
    /\ UNCHANGED <<vars, typed, pass, document, seen, given, edits>>

\* sign derives, signs what it has read and prints key and signature.
Sign(r) ==
    /\ stage[r] = "work" /\ args[r].cmd = "sign"
    /\ LET id == SignKey(args[r], pass[r])
       IN  /\ ident' = [ident EXCEPT ![r] = id]
           /\ signature' = [signature EXCEPT ![r] = sign_content(id, seen[r])]
    /\ Return(r, "Ok")
    /\ UNCHANGED <<vars, typed, pass, document, seen, given, edits>>

Verify(r) ==
    /\ stage[r] = "work" /\ args[r].cmd = "verify"
    /\ LET g == given[r]
       IN  Return(r, verify_content_signature(
                         [bytes_to_hex(ident[g.key]) EXCEPT !.shape = g.kshape],
                         seen[r],
                         [bytes_to_hex(signature[g.sig]) EXCEPT !.shape = g.sshape]))
    /\ UNCHANGED <<vars, typed, pass, document, seen, ident, signature, given, edits>>

\* encrypt_file, decrypt_file, run_bench and run_ssh succeed or fail.
Operate(r) ==
    /\ stage[r] = "work" /\ args[r].cmd \in {"encrypt", "decrypt", "bench", "ssh"}
    /\ ident' = IF args[r].cmd = "ssh"
                  THEN [ident EXCEPT ![r] = SshKey(args[r], pass[r])]
                  ELSE ident
    /\ Return(r, "Ok") \/ Return(r, "Failed")
    /\ UNCHANGED <<vars, typed, pass, document, seen, signature, given, edits>>

\* keygen::keygen and keygen::derive are called, obtain their key and
CallKeys(r) ==
    /\ stage[r] = "work" /\ args[r].cmd \in {"keygen", "derive"}
    /\ Begin(r)
    /\ Enter(r, "keys")
    /\ UNCHANGED <<typed, pass, document, seen, ident, signature, given, edits>>

\* write their files,
Keys(r) ==
    /\ stage[r] = "keys"
    /\ \/ Check(r) \/ Guard(r) \/ Create(r) \/ Write(r) \/ Chmod(r)
       \/ args[r].cmd = "keygen" /\ Obtain(r, KeygenKey(r, args[r]))
       \/ args[r].cmd = "derive" /\ Obtain(r, DeriveKey(args[r], pass[r]))
    /\ UNCHANGED cli

KeysFail(r) == stage[r] = "keys" /\ (Fails(r) \/ WriteFails(r)) /\ UNCHANGED cli

\* and return.
KeysReturn(r) ==
    /\ stage[r] = "keys" /\ pc[r] \in Final
    /\ Return(r, CASE pc[r] = "ok" -> "Ok"
                   [] pc[r] = "refused" -> "FileExists"
                   [] OTHER -> "Failed")
    /\ UNCHANGED <<vars, typed, pass, document, seen, ident, signature, given, edits>>

-----------------------------------------------------------------------------
(* The environment and the specification.                                   *)

\* The user saves another version of the document that is signed or verified.
Edit ==
    /\ edits < MaxEdits
    /\ \E r \in Run : args[r].cmd \in {"sign", "verify"}
    /\ edits' = edits + 1
    /\ document' \in Document \ {document}
    /\ UNCHANGED <<vars, stage, typed, pass, seen, ident, signature, given, result>>

\* A signal ends a run.
Kill(r) ==
    /\ stage[r] \notin Ended
    /\ stage' = [stage EXCEPT ![r] = "killed"]
    /\ IF pc[r] \in Final THEN UNCHANGED vars ELSE Killed(r)
    /\ UNCHANGED <<typed, pass, document, seen, ident, signature, given, result, edits>>

Terminating == (\A r \in Run : stage[r] \in Ended) /\ UNCHANGED allvars

CStep(r) ==
    \/ ReadOpenssh(r) \/ ConfirmOpenssh(r) \/ TakeOption(r) \/ TakeFirstLine(r)
    \/ Prompt(r) \/ Confirm(r) \/ InputFails(r) \/ ReadDocument(r) \/ Sign(r)
    \/ Verify(r) \/ Operate(r) \/ CallKeys(r) \/ Keys(r) \/ KeysFail(r)
    \/ KeysReturn(r)

CNext == (\E r \in Run : CStep(r) \/ Kill(r)) \/ Edit \/ Terminating

CSpec == CInit /\ [][CNext]_allvars

-----------------------------------------------------------------------------
(* Properties.                                                              *)

\* Types; and who writes a file or has written all has a key to write.
CTypeOK ==
    /\ TypeOK
    /\ stage \in [Run -> {"openssh", "openssh confirm", "pass", "confirm", "read",
                          "work", "keys"} \cup Ended]
    /\ typed \in [Run -> Seq(Passphrase)]
    /\ pass \in [Run -> Passphrase]
    /\ document \in Document
    /\ seen \in [Run -> Document \cup {None}]
    /\ ident \in [Run -> Key \cup {NoKey}]
    /\ result \in [Run -> Error \cup {"none", "Ok"}]
    /\ edits \in 0 .. MaxEdits
    /\ \A r \in Run : pc[r] \in {"guard", "create", "write", "chmod", "ok"} => key[r] \in Key

Refused == {"EmptyPassphrase", "PassphraseMismatch"}

\* The commands that ask for a passphrase of their own.
AsksPassphrase == ReadsPassFile \cup {"derive", "ssh"}

\* "Read a passphrase from (in priority order)" --pass-file or the terminal
\* (read_passphrase), before both --passphrase where a command has it: who comes to
\* its work does so with the text of that source, asked for exactly as often as
\* documented and typed twice alike where it seals a file or an OpenSSH key; the
\* file of ssh is not read.  Nobody goes on with an empty passphrase but ssh with
\* --passphrase "".  Who is refused for its passphrase has left nothing behind.
PassphraseAsDocumented ==
    \A r \in Run :
        LET a == args[r]
            option == a.passphrase # None
            file == a.cmd \in ReadsPassFile /\ a.pass_file # None
            seals == a.cmd \in {"keygen", "derive"} /\ a.openssh
        IN  /\ stage[r] \in {"work", "keys"} \/ result[r] = "Ok" =>
                /\ seals => typed[r][1] = typed[r][2] /\ typed[r][1] # << >>
                /\ a.cmd \in AsksPassphrase =>
                    /\ pass[r] = IF option THEN a.passphrase
                                 ELSE IF file THEN first_line(a.pass_file)
                                 ELSE typed[r][Len(typed[r])]
                    /\ Len(typed[r]) = (IF seals THEN 2 ELSE 0)
                                       + (IF option \/ file THEN 0
                                          ELSE IF a.cmd = "encrypt" THEN 2 ELSE 1)
                    /\ a.cmd = "encrypt" /\ ~file => typed[r][1] = typed[r][2]
                    /\ pass[r] = << >> => a.cmd = "ssh" /\ option
            /\ result[r] \in Refused =>
                  touched[r] = {} /\ ident[r] = NoKey /\ pc[r] = "idle"

\* The key a run has obtained, if any.
Obtained(r) == IF args[r].cmd \in {"keygen", "derive"} THEN key[r] ELSE ident[r]

IsAes(a) == a.cmd = "derive" /\ a.algo = "Aes256Gcm"

\* What run r's key is derived from, as it was given, with passphrase p.
Tuple(r, p) ==
    LET a == args[r]
    IN  [aes |-> IsAes(a), passphrase |-> p, namespace |-> a.namespace,
         version |-> a.key_version, sub_id |-> a.sub_id]

\* A namespace that does not contain the separator that follows it in a salt.
PlainName(n) == \A i \in 1 .. Len(n) : n[i] \notin {":v", "|ver="}

\* What derive writes, sign signs with and ssh logs in with is one key if their
\* tuples are one, and a generated key is nobody else's.  One key, on the other
\* hand, means one kind of key and one passphrase, whatever the names are, and one
\* tuple as long as the namespaces are plain; but an AES key does not tell an empty
\* sub-identity from none.
KeyTellsTuple ==
    \A r, q \in {x \in Run : Obtained(x) # NoKey} :
        r # q =>
            IF "keygen" \in {args[r].cmd, args[q].cmd} THEN Obtained(r) # Obtained(q)
            ELSE /\ Tuple(r, pass[r]) = Tuple(q, pass[q]) => Obtained(r) = Obtained(q)
                 /\ Obtained(r) = Obtained(q) =>
                       /\ IsAes(args[r]) <=> IsAes(args[q])
                       /\ pass[r] = pass[q]
                       /\ PlainName(args[r].namespace) /\ PlainName(args[q].namespace) =>
                             /\ args[r].namespace = args[q].namespace
                             /\ args[r].key_version = args[q].key_version
                             /\ \/ args[r].sub_id = args[q].sub_id
                                \/ /\ IsAes(args[r])
                                   /\ {args[r].sub_id, args[q].sub_id} = {None, << >>}

\* The passphrase a run is given according to the help texts: "Read passphrase from
\* a file instead of prompting" (--pass-file of src/ssh.rs as of src/main.rs).
DocumentedPassphrase(r) ==
    LET a == args[r]
    IN  IF a.passphrase # None THEN a.passphrase
        ELSE IF a.pass_file # None THEN first_line(a.pass_file)
        ELSE pass[r]

\* "Same tuple => same key. Any change => different key" (docs/identity-and-ssh.md),
\* for passphrases "prompted or --pass-file" (README.md).  It is asked once all runs
\* have their keys, so that one behaviour shows all that is wrong with it.
TupleAsDocumented ==
    (\A r \in Run : Obtained(r) # NoKey) =>
        \A r, q \in {x \in Run : args[x].cmd # "keygen"} :
            Tuple(r, DocumentedPassphrase(r)) = Tuple(q, DocumentedPassphrase(q))
                <=> Obtained(r) = Obtained(q)

\* verify returns Ok exactly if the texts are readable, the public key is that
\* of the identity that signed, and the document verify read is the one sign
\* read, whatever happened to it between, during and after the two commands.
VerifiedMeansSigned ==
    \A v \in Run : args[v].cmd = "verify" /\ result[v] \notin {"none", "Io"} =>
        LET g == given[v]
        IN  result[v] = "Ok" <=>
                /\ {g.kshape, g.sshape} \subseteq {"lower", "upper", "plus"}
                /\ ident[g.key] = ident[g.sig]
                /\ seen[v] = seen[g.sig]
=============================================================================
