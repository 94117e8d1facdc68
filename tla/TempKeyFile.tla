----------------------------- MODULE TempKeyFile -----------------------------
(***************************************************************************)
(* `cry ssh` on Windows (src/ssh.rs): the key is written to a file in the  *)
(* temporary directory after access to it was restricted, ssh reads it,    *)
(* and Drop for TempKeyFile overwrites and removes it.  A file name has a  *)
(* random suffix, so every session has a file of its own.                  *)
(***************************************************************************)
EXTENDS Naturals

CONSTANT Session    \* runs of cry ssh

VARIABLES
    pc,
    exists,         \* the sessions whose file is there
    acl,            \* who may read it
    content,        \* what is in it, or was when it was removed
    err,            \* the session is on an error path
    whoami,         \* history: whoami named the user
    slips           \* history: the calls on its file that failed

vars == <<pc, exists, acl, content, err, whoami, slips>>

Final == {"done", "failed", "killed"}

Init ==
    /\ pc = [s \in Session |-> "create"]
    /\ exists = {}
    /\ acl = [s \in Session |-> "inherited"]
    /\ content = [s \in Session |-> "empty"]
    /\ err = [s \in Session |-> FALSE]
    /\ whoami = [s \in Session |-> TRUE]
    /\ slips = [s \in Session |-> {}]

Goto(s, l) == pc' = [pc EXCEPT ![s] = l]

Slip(s, call) == slips' = [slips EXCEPT ![s] = @ \cup {call}]

-----------------------------------------------------------------------------

\* Mutant of Create: the file is left to the first write to create.
CreateLazily(s) ==
    /\ pc[s] = "create"
    /\ Goto(s, "restrict")
    /\ UNCHANGED <<exists, acl, content, err, whoami, slips>>

\* Step 1 of TempKeyFile::create, create_new: an empty file.
Create(s) ==
    /\ pc[s] = "create"
    /\ exists' = exists \cup {s}
    /\ Goto(s, "restrict")
    /\ UNCHANGED <<acl, content, err, whoami, slips>>

CreateFails(s) ==
    /\ pc[s] = "create"
    /\ Goto(s, "failed")
    /\ UNCHANGED <<exists, acl, content, err, whoami, slips>>

\* Step 2: whoami, then icacls.  When whoami fails the grant goes to the group
\* BUILTIN\Users instead.
Restrict(s) ==
    /\ pc[s] = "restrict"
    /\ \E ok \in BOOLEAN :
          /\ whoami' = [whoami EXCEPT ![s] = ok]
          /\ acl' = [acl EXCEPT ![s] = IF ok THEN "owner" ELSE "users"]
    /\ Goto(s, "write")
    /\ UNCHANGED <<exists, content, err, slips>>

\* Mutant of RestrictFails: acl_ok is not looked at.
RestrictFailsIgnored(s) ==
    /\ pc[s] = "restrict"
    /\ Goto(s, "write")
    /\ UNCHANGED <<exists, acl, content, err, whoami, slips>>

\* icacls fails: the empty file is removed and the error returned.
RestrictFails(s) ==
    /\ pc[s] = "restrict"
    /\ err' = [err EXCEPT ![s] = TRUE]
    /\ Goto(s, "remove")
    /\ UNCHANGED <<exists, acl, content, whoami, slips>>

\* Step 3: the key.
Write(s) ==
    /\ pc[s] = "write"
    /\ content' = [content EXCEPT ![s] = "key"]
    /\ Goto(s, "exec")
    /\ UNCHANGED <<exists, acl, err, whoami, slips>>

\* Mutant of WriteFails: the error is ignored.
WriteFailsIgnored(s) ==
    /\ pc[s] = "write"
    /\ \E c \in {"empty", "part"} : content' = [content EXCEPT ![s] = c]
    /\ Goto(s, "exec")
    /\ UNCHANGED <<exists, acl, err, whoami, slips>>

\* The file cannot be opened, or a part of the key is written and the next
\* write or the flush fails.  There is no TempKeyFile yet that could be
\* dropped: create() returns the error and the file stays.
WriteFails(s) ==
    /\ pc[s] = "write"
    /\ \E c \in {"empty", "part", "key"} : content' = [content EXCEPT ![s] = c]
    /\ Slip(s, "write")
    /\ Goto(s, "failed")
    /\ UNCHANGED <<exists, acl, err, whoami>>

Exec(s) ==
    /\ pc[s] = "exec"
    /\ Goto(s, "ssh")
    /\ UNCHANGED <<exists, acl, content, err, whoami, slips>>

\* Mutant of ExecFails: the guard is forgotten on this path.
ExecFailsForgetsFile(s) ==
    /\ pc[s] = "exec"
    /\ Goto(s, "failed")
    /\ UNCHANGED <<exists, acl, content, err, whoami, slips>>

ExecFails(s) ==
    /\ pc[s] = "exec"
    /\ err' = [err EXCEPT ![s] = TRUE]
    /\ Goto(s, "wipe")
    /\ UNCHANGED <<exists, acl, content, whoami, slips>>

\* ssh exits; whatever its status, run_ssh_windows returns Ok.
SshExits(s) ==
    /\ pc[s] = "ssh"
    /\ Goto(s, "wipe")
    /\ UNCHANGED <<exists, acl, content, err, whoami, slips>>

\* Mutant of Wipe: the overwrite is skipped.
WipeNothing(s) ==
    /\ pc[s] = "wipe"
    /\ Goto(s, "remove")
    /\ UNCHANGED <<exists, acl, content, err, whoami, slips>>

\* Drop for TempKeyFile: zeros over the whole file, then the removal.
Wipe(s) ==
    /\ pc[s] = "wipe"
    /\ content' = [content EXCEPT ![s] = "zeros"]
    /\ Goto(s, "remove")
    /\ UNCHANGED <<exists, acl, err, whoami, slips>>

\* metadata, open or a write fails, all of them ignored.
WipeFails(s) ==
    /\ pc[s] = "wipe"
    /\ \E c \in {"key", "part"} : content' = [content EXCEPT ![s] = c]
    /\ Slip(s, "wipe")
    /\ Goto(s, "remove")
    /\ UNCHANGED <<exists, acl, err, whoami>>

Remove(s) ==
    /\ pc[s] = "remove"
    /\ exists' = exists \ {s}
    /\ Goto(s, IF err[s] THEN "failed" ELSE "done")
    /\ UNCHANGED <<acl, content, err, whoami, slips>>

\* remove_file fails, which is ignored.
RemoveFails(s) ==
    /\ pc[s] = "remove"
    /\ Slip(s, "remove")
    /\ Goto(s, IF err[s] THEN "failed" ELSE "done")
    /\ UNCHANGED <<exists, acl, content, err, whoami>>

\* The process is terminated: no destructor runs.
Killed(s) ==
    /\ pc[s] \notin Final
    /\ Goto(s, "killed")
    /\ UNCHANGED <<exists, acl, content, err, whoami, slips>>

Terminating == (\A s \in Session : pc[s] \in Final) /\ UNCHANGED vars

Step(s) ==
    \/ Create(s) \/ CreateFails(s) \/ Restrict(s) \/ RestrictFails(s) \/ Write(s)
    \/ WriteFails(s) \/ Exec(s) \/ ExecFails(s) \/ SshExits(s) \/ Wipe(s)
    \/ WipeFails(s) \/ Remove(s) \/ RemoveFails(s)

Next == (\E s \in Session : Step(s) \/ Killed(s)) \/ Terminating

Spec == Init /\ [][Next]_vars
-----------------------------------------------------------------------------
(* Properties.                                                              *)

\* Types; and from its creation to its removal the file is there.
TypeOK ==
    /\ pc \in [Session -> {"create", "restrict", "write", "exec", "ssh", "wipe",
                           "remove"} \cup Final]
    /\ exists \subseteq Session
    /\ acl \in [Session -> {"inherited", "owner", "users"}]
    /\ content \in [Session -> {"empty", "part", "key", "zeros"}]
    /\ err \in [Session -> BOOLEAN]
    /\ whoami \in [Session -> BOOLEAN]
    /\ slips \in [Session -> SUBSET {"write", "wipe", "remove"}]
    /\ \A s \in Session : pc[s] \notin {"create"} \cup Final => s \in exists

HasKey(s) == content[s] \in {"part", "key"}

\* At no moment, the moment of a kill or of a failing call included, is a byte
\* of the key in a file with the access list that %TEMP% gives to new files.
\* The list it has names the user, or BUILTIN\Users where whoami failed: then
\* every local user may read the key, for all of the session.
NoWindow ==
    \A s \in Session : s \in exists /\ HasKey(s) =>
        acl[s] = IF whoami[s] THEN "owner" ELSE "users"

\* ssh never starts on a file that is missing or holds a part of the key.
SshReadsWholeKey ==
    \A s \in Session : pc[s] \in {"exec", "ssh"} => s \in exists /\ content[s] = "key"

\* A session that returns has removed its file, unless the write of the key
\* or the removal itself failed.
RemovedOnReturn ==
    \A s \in Session : pc[s] \in {"done", "failed"} /\ s \in exists =>
        slips[s] \cap {"write", "remove"} # {}

\* A file that ssh has used is overwritten before it is removed, unless the
\* overwriting failed.
WipedBeforeRemoval ==
    \A s \in Session : pc[s] = "done" /\ HasKey(s) => "wipe" \in slips[s]

\* What follows from each of two sentences of the module comment of ssh.rs:
\* "there is no window during which the file is readable by other local
\* processes" and "The file is removed in all exit paths (normal, error, and
\* panic via a RAII guard)".  A session that returns, and whose removal of the
\* file did not fail, leaves no bytes of the key that others may read.  A state
\* that violates it refutes both sentences.
NothingReadableLeft ==
    \A s \in Session :
        pc[s] \in {"done", "failed"} /\ s \in exists /\ HasKey(s)
        /\ "remove" \notin slips[s] => acl[s] = "owner"
=============================================================================
