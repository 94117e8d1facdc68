------------------------------ MODULE KeyFiles ------------------------------
(***************************************************************************)
(* keygen and derive of src/keygen.rs: every run writes up to four key     *)
(* files in place, one after the other.  Each action is one system call    *)
(* with the computation that follows it; between two of them another run,  *)
(* a failing disk or a signal may act.                                     *)
(*                                                                         *)
(* The file system (external): std::fs::write opens its file, which        *)
(* creates or empties it, and then writes from offset 0, so that the end   *)
(* of a longer file that another run wrote in between stays.               *)
(***************************************************************************)
EXTENDS Naturals, Sequences

CONSTANTS
    Run,        \* runs of the program
    Base,       \* values of --output
    Key,        \* the keys they may generate or derive
    Scenario,   \* [args, disk]: the command lines, and the files found
    NoKey       \* in a file that does not hold a whole key

KeyAlgorithm == {"Ed25519", "Rsa", "Aes256Gcm"}

\* <base>.cry_id, <base>.cry_pub_id, and the two OpenSSH files named after the
\* first.  No name of one base or kind is a name of another.
Kind == {"cry_id", "cry_pub_id", "openssh_id", "openssh_pub"}
Path == Base \X Kind

\* Contents: no file; no whole key (an emptied file, a prefix, a mixture); or a
\* whole key.  `size` is 0 when empty, 1 for a short text and 2 for a long one.
File == [is : {"absent", "torn", "whole"}, key : Key \cup {NoKey}, size : 0 .. 2]

Absent == [is |-> "absent", key |-> NoKey, size |-> 0]
Torn(n) == [is |-> "torn", key |-> NoKey, size |-> n]
Whole(k, n) == [is |-> "whole", key |-> k, size |-> n]

\* What a run of keygen or derive needs to know of its command line: comment is
\* the size class of --comment.
IsJob(a) ==
    /\ a.cmd \in {"keygen", "derive"}
    /\ a.algo \in KeyAlgorithm
    /\ a.base \in Base
    /\ a.openssh \in BOOLEAN
    /\ a.force \in BOOLEAN
    /\ a.comment \in 1 .. 2

ASSUME KeyAssumption == NoKey \notin Key

ASSUME ScenarioAssumption ==
    \A s \in Scenario :
        /\ DOMAIN s.args = Run
        /\ \A r \in Run : s.args[r].cmd \in {"keygen", "derive"} => IsJob(s.args[r])
        /\ s.disk \in [Path -> File]

VARIABLES
    args,       \* the command line of each run
    disk,       \* the contents of every file
    private,    \* the files whose mode is 0600
    pc,         \* where each run is
    at,         \* which of its outputs it is at
    key,        \* the key it generated or derived
    touched,    \* history: the files each run has created or emptied
    found,      \* history: the files that existed when it was called
    earlier     \* history: the runs that had ended when it was called

history == <<touched, found, earlier>>
vars == <<args, disk, private, pc, at, key, history>>

Final == {"ok", "refused", "failed", "killed"}

\* names, openssh_path and openssh_pub_path: the outputs in the order of the
\* calls.  --openssh is ignored unless the algorithm is Ed25519.
names(a) ==
    <<"cry_id">>
    \o (IF a.algo = "Aes256Gcm" THEN << >> ELSE <<"cry_pub_id">>)
    \o (IF a.algo = "Ed25519" /\ a.openssh THEN <<"openssh_id", "openssh_pub">>
                                           ELSE << >>)

Outputs(a) == {<<a.base, names(a)[i]>> : i \in DOMAIN names(a)}

Output(r) == <<args[r].base, names(args[r])[at[r]]>>

\* Hexadecimal keys are short and PEM blocks long; the OpenSSH files vary with
\* the comment.
Size(a, kind) ==
    IF kind \in {"openssh_id", "openssh_pub"} THEN a.comment
    ELSE IF a.algo = "Rsa" THEN 2 ELSE 1

exists(p) == disk[p].is # "absent"

Init ==
    /\ \E s \in Scenario : args = s.args /\ disk = s.disk
    /\ private = {}
    /\ pc = [r \in Run |-> "idle"]
    /\ at = [r \in Run |-> 1]
    /\ key = [r \in Run |-> NoKey]
    /\ touched = [r \in Run |-> {}]
    /\ found = [r \in Run |-> {}]
    /\ earlier = [r \in Run |-> {}]

Goto(r, l) == pc' = [pc EXCEPT ![r] = l]

-----------------------------------------------------------------------------
(* The steps of keygen and derive.                                          *)

\* The call.  Deterministic RSA is refused before anything is looked at.
Begin(r) ==
    /\ pc[r] = "idle"
    /\ args[r].cmd \in {"keygen", "derive"}
    /\ Goto(r, IF args[r].cmd = "derive" /\ args[r].algo = "Rsa" THEN "failed"
                                                                 ELSE "check")
    /\ found' = [found EXCEPT ![r] = {p \in Path : exists(p)}]
    /\ earlier' = [earlier EXCEPT ![r] = {q \in Run : pc[q] \in Final}]
    /\ UNCHANGED <<args, disk, private, at, key, touched>>

ensure_writable(r) == exists(Output(r)) => args[r].force

\* Mutants of Check: no key is made; only the first two outputs are asked about.
CheckAndWrite(r) ==
    /\ pc[r] = "check"
    /\ IF ~ensure_writable(r)
       THEN Goto(r, "refused") /\ UNCHANGED at
       ELSE IF at[r] < Len(names(args[r]))
       THEN at' = [at EXCEPT ![r] = @ + 1] /\ UNCHANGED pc
       ELSE at' = [at EXCEPT ![r] = 1] /\ Goto(r, "create")
    /\ UNCHANGED <<args, disk, private, key, history>>

CheckPair(r) ==
    /\ pc[r] = "check"
    /\ IF ~ensure_writable(r)
       THEN Goto(r, "refused") /\ UNCHANGED at
       ELSE IF at[r] < 2 /\ at[r] < Len(names(args[r]))
       THEN at' = [at EXCEPT ![r] = @ + 1] /\ UNCHANGED pc
       ELSE at' = [at EXCEPT ![r] = 1] /\ Goto(r, "key")
    /\ UNCHANGED <<args, disk, private, key, history>>

\* Every output is asked about before any of them is written.
Check(r) ==
    /\ pc[r] = "check"
    /\ IF ~ensure_writable(r)
       THEN Goto(r, "refused") /\ UNCHANGED at
       ELSE IF at[r] < Len(names(args[r]))
       THEN at' = [at EXCEPT ![r] = @ + 1] /\ UNCHANGED pc
       ELSE at' = [at EXCEPT ![r] = 1] /\ Goto(r, "key")
    /\ UNCHANGED <<args, disk, private, key, history>>

\* Where the writing of an output starts: the functions that write a key ask
\* again whether they may; the OpenSSH public line and RSA are written at once.
Entry(a, kind) ==
    IF a.algo = "Rsa" \/ kind = "openssh_pub" THEN "create" ELSE "guard"

\* k is generated or derived.
Obtain(r, k) ==
    /\ pc[r] = "key"
    /\ key' = [key EXCEPT ![r] = k]
    /\ Goto(r, Entry(args[r], "cry_id"))
    /\ UNCHANGED <<args, disk, private, at, history>>

\* ensure_writable, and its twin in write_private_key_hex_file, once more.
Guard(r) ==
    /\ pc[r] = "guard"
    /\ Goto(r, IF ensure_writable(r) THEN "create" ELSE "refused")
    /\ UNCHANGED <<args, disk, private, at, key, history>>

\* The open of std::fs::write.
Create(r) ==
    /\ pc[r] = "create"
    /\ disk' = [disk EXCEPT ![Output(r)] = Torn(0)]
    /\ touched' = [touched EXCEPT ![r] = @ \cup {Output(r)}]
    /\ Goto(r, "write")
    /\ UNCHANGED <<args, private, at, key, found, earlier>>

\* On to the next output, or the return of Ok(()).
Advance(r) ==
    IF at[r] < Len(names(args[r]))
    THEN /\ at' = [at EXCEPT ![r] = @ + 1]
         /\ Goto(r, Entry(args[r], names(args[r])[at[r] + 1]))
    ELSE Goto(r, "ok") /\ UNCHANGED at

\* A text of n written over f from its start.
Over(f, k, n) == IF f.size <= n THEN Whole(k, n) ELSE Torn(f.size)

\* Only write_private_key_hex_file goes on to tighten the mode.
Tightens(a, kind) == a.algo = "Ed25519" /\ kind = "cry_id"

\* The write of std::fs::write.
Write(r) ==
    LET p == Output(r)
    IN  /\ pc[r] = "write"
        /\ disk' = [disk EXCEPT ![p] = Over(@, key[r], Size(args[r], p[2]))]
        /\ IF Tightens(args[r], p[2])
           THEN Goto(r, "chmod") /\ UNCHANGED at
           ELSE Advance(r)
        /\ UNCHANGED <<args, private, key, history>>

\* set_permissions(0o600).
Chmod(r) ==
    /\ pc[r] = "chmod"
    /\ private' = private \cup {Output(r)}
    /\ Advance(r)
    /\ UNCHANGED <<args, disk, key, history>>

\* RSA generation, an open, the encoding of the OpenSSH key before it, or
\* set_permissions fails.
Fails(r) ==
    /\ pc[r] \in {"key", "create", "chmod"}
    /\ Goto(r, "failed")
    /\ UNCHANGED <<args, disk, private, at, key, history>>

\* Mutant of WriteFails: the error is not returned.
WriteFailsSilently(r) ==
    /\ pc[r] = "write"
    /\ Advance(r)
    /\ UNCHANGED <<args, disk, private, key, history>>

\* A write fails after none or some of the text.
WriteFails(r) ==
    LET p == Output(r)
    IN  /\ pc[r] = "write"
        /\ \E n \in 1 .. Size(args[r], p[2]) :
              disk' \in {disk, [disk EXCEPT ![p] = Torn(IF @.size < n THEN n ELSE @.size)]}
        /\ Goto(r, "failed")
        /\ UNCHANGED <<args, private, at, key, history>>

\* A signal, or a caller that never comes to the call.
Killed(r) ==
    /\ pc[r] \notin Final
    /\ Goto(r, "killed")
    /\ UNCHANGED <<args, disk, private, at, key, history>>

Step(r) ==
    \/ Check(r) \/ Guard(r) \/ Create(r) \/ Write(r) \/ Chmod(r)
    \/ \E k \in Key : Obtain(r, k)

Next ==
    \E r \in Run : Begin(r) \/ Step(r) \/ Fails(r) \/ WriteFails(r) \/ Killed(r)

Spec == Init /\ [][Next]_vars

-----------------------------------------------------------------------------
(* Properties.                                                              *)

\* Types.
TypeOK ==
    /\ \E s \in Scenario : args = s.args
    /\ disk \in [Path -> File]
    /\ private \subseteq Path
    /\ pc \in [Run -> {"idle", "check", "key", "guard", "create", "write", "chmod"}
                        \cup Final]
    /\ at \in [Run -> 1 .. 4]
    /\ key \in [Run -> Key \cup {NoKey}]
    /\ touched \in [Run -> SUBSET Path]
    /\ found \in [Run -> SUBSET Path]
    /\ earlier \in [Run -> SUBSET Run]

\* q leaves r's files as r wants them: it ended before r was called, it succeeded
\* with the same key and comment, or it never came near them.
Harmless(q, r) ==
    \/ q \in earlier[r]
    \/ touched[q] \cap Outputs(args[r]) = {}
    \/ pc[q] = "ok" /\ key[q] = key[r] /\ args[q].comment = args[r].comment

\* keygen or derive has returned Ok: all files of the run hold its one key, none
\* torn, and an Ed25519 private key has mode 0600; whatever killed or failed
\* runs left there before, and even if another run derived the same key there at
\* the same time.
SetBelongsTogether ==
    \A r \in Run :
        pc[r] = "ok" /\ (\A q \in Run \ {r} : Harmless(q, r)) =>
            /\ \A p \in Outputs(args[r]) :
                  disk[p] = Whole(key[r], Size(args[r], p[2]))
            /\ args[r].algo = "Ed25519" => <<args[r].base, "cry_id">> \in private

\* Without --force no run changes a file that was there when it was called, not
\* even one it comes to after it has written others.
OldKeysSurvive ==
    \A r \in Run :
        touched[r] # {} /\ ~args[r].force => touched[r] \cap found[r] = {}

\* A run that is refused with FileExists has written nothing, unless another run
\* created one of its files after it was called.
RefusalIsClean ==
    \A r \in Run :
        pc[r] = "refused" /\ touched[r] # {} =>
            \E q \in Run \ (earlier[r] \cup {r}) :
                touched[q] \cap Outputs(args[r]) # {}
=============================================================================
