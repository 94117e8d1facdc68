------------------------------ MODULE FileCipher ------------------------------
(***************************************************************************)
(* encrypt_file and decrypt_file of src/cipher.rs as processes that share  *)
(* one file system with each other and with the user.  Every process is    *)
(* one run of `cry encrypt` or `cry decrypt`; every action is one of its   *)
(* system calls with the local computation that follows it.  Between two   *)
(* of them another process, the user, a failing disk or a signal may act.  *)
(*                                                                         *)
(* The file system (external) maps names to inodes and inodes to contents: *)
(* a rename or an unlink leaves the contents of an open inode alone, a     *)
(* write through a descriptor goes to the inode whatever its name is now.  *)
(***************************************************************************)
EXTENDS CryFormat, FiniteSets

CONSTANTS
    Proc,       \* runs of the program; p also names the inode p creates
    File,       \* inodes that exist before any run starts
    UserPath,   \* the <<stem, extension>> names the user works with
    EditPath,   \* those the user may rewrite or remove while a run is going on
    EditText,   \* the texts the user may write there
    MaxEdits,   \* bound on the user's interventions
    Rng,        \* what OsRng delivers to each run: its salt and base nonce
    Scenario,   \* [job, fs, data]: who runs what, on which initial disk
    Absent,     \* binding of a name no file has
    Dir,        \* binding of a name that is a directory
    Nil         \* no header read yet, no descriptor opened yet

Inode == File \cup Proc

with_extension(path, ext) == <<path[1], ext>>

TmpExt(op) == IF op = "enc" THEN "cry.tmp" ELSE "plain.tmp"

Path == UserPath \cup
        {with_extension(q, TmpExt(op)) : q \in UserPath, op \in {"enc", "dec"}}

\* encrypt_file(plain_path = in, cipher_path = out, ...), and the reverse.
Job == [op : {"enc", "dec"}, in : UserPath, out : UserPath, pass : Pass,
        algo : Algorithm, force : BOOLEAN]

TmpOf(j) == with_extension(j.out, TmpExt(j.op))

ASSUME PathAssumption ==
    /\ \A q \in UserPath : q = <<q[1], q[2]>>
    /\ \A q \in UserPath : q[2] \notin {"cry.tmp", "plain.tmp"}
    /\ EditPath \subseteq UserPath
    /\ EditText \subseteq {c \in Seq(PlainBlock) : IsText(c)}
    /\ MaxEdits \in Nat

ASSUME InodeAssumption ==
    /\ Proc # {}
    /\ File \cap Proc = {}
    /\ Absent \notin Inode /\ Dir \notin Inode /\ Nil \notin Inode
    /\ Absent # Dir
    /\ Absent \notin Contents /\ Dir \notin Contents
    /\ Nil \notin Header

ASSUME RngAssumption ==
    /\ Rng \in [Proc -> [salt : Salt, nonce : Nonce]]
    /\ \A p, q \in Proc : Rng[p].salt = Rng[q].salt => p = q

\* The disks and command lines the runs start from.  Inputs exist or are
\* missing but are no directories; the user keeps off the files a run writes;
\* an encryption reads a text, and the user's ciphertexts are those of texts; the
\* salts OsRng will deliver are on no disk yet.
ASSUME ScenarioAssumption ==
    \A s \in Scenario :
        /\ s.job \in [Proc -> Job]
        /\ s.fs \in [Path -> File \cup {Absent, Dir}]
        /\ s.data \in [Inode -> Contents]
        /\ \A x, y \in Path : s.fs[x] = s.fs[y] /\ s.fs[x] \in File => x = y
        /\ \A p \in Proc :
              /\ s.data[p] = << >>
              /\ s.job[p].in # s.job[p].out
              /\ s.fs[s.job[p].in] # Dir
              /\ s.fs[TmpOf(s.job[p])] # Dir
              /\ s.job[p].out \notin EditPath
              /\ s.job[p].op = "dec" => s.job[p].in \notin EditPath
              /\ s.job[p].op = "enc" =>
                    /\ s.fs[s.job[p].in] \in File =>
                          IsText(s.data[s.fs[s.job[p].in]])
                    /\ \A q \in Proc : s.job[q].op = "enc" =>
                          s.job[q].out # s.job[p].in
        /\ \A q \in EditPath : s.fs[q] \in File => IsText(s.data[s.fs[q]])
        /\ \A q \in UserPath : s.fs[q] \in File /\ IsCiphertext(s.data[s.fs[q]]) =>
              IsText(PlainOf(s.data[s.fs[q]]))
        /\ \A i \in Inode : \A j \in DOMAIN s.data[i] :
              s.data[i][j].kind = "chunk" =>
                 \A p \in Proc : s.data[i][j].key.salt # Rng[p].salt

VARIABLES
    job,        \* the command line of each run
    fs,         \* which inode a name is bound to
    data,       \* the contents of every inode
    pc,         \* where each run is
    hdr,        \* `header` of each run
    rd,         \* inode its reader is open on
    wr,         \* inode its writer is open on
    off,        \* blocks its writer has handed to the kernel
    buf,        \* blocks its BufWriter still holds
    idx,        \* chunk_index
    res,        \* what it returned
    snap,       \* history: the text metadata() was asked about
    dirty,      \* history: the input was modified after that and before EOF
    sealed,     \* history: the user's ciphertexts, and what encryptions published
    edits       \* number of interventions of the user so far

local == <<hdr, rd, wr, off, buf, idx>>
history == <<snap, dirty, sealed>>
vars == <<job, fs, data, pc, local, res, history, edits>>

Tmp(p) == TmpOf(job[p])
KeyOf(p) == derive_key(job[p].pass, hdr[p].salt)

\* No two runs use one temporary file: their outputs differ in more than the
\* extension, or one encrypts and the other decrypts.
ExclusiveTmp ==
    \A s \in Scenario : \A p, q \in Proc :
        TmpOf(s.job[p]) = TmpOf(s.job[q]) => p = q

\* No two runs write one output.
ExclusiveOut ==
    \A s \in Scenario : \A p, q \in Proc :
        s.job[p].out = s.job[q].out => p = q

Final == {"done", "failed", "littered", "crashed"}

Location == {"start", "stat", "open", "readhdr", "create", "header", "chunks",
             "flush", "rename", "report", "cleanup"} \cup Final

Outcome == {"none", "Ok", "FileExists", "Io", "InvalidFormat", "HeaderTampered",
            "DecryptionFailed", "Truncated"}

Init ==
    /\ \E s \in Scenario : job = s.job /\ fs = s.fs /\ data = s.data
    /\ pc = [p \in Proc |-> "start"]
    /\ hdr = [p \in Proc |-> Nil]
    /\ rd = [p \in Proc |-> Nil]
    /\ wr = [p \in Proc |-> Nil]
    /\ off = [p \in Proc |-> 0]
    /\ buf = [p \in Proc |-> << >>]
    /\ idx = [p \in Proc |-> 0]
    /\ res = [p \in Proc |-> "none"]
    /\ snap = [p \in Proc |-> << >>]
    /\ dirty = [p \in Proc |-> FALSE]
    /\ sealed = {c \in {data[i] : i \in {fs[q] : q \in UserPath} \cap Inode} :
                     IsCiphertext(c)}
    /\ edits = 0

-----------------------------------------------------------------------------
(* Steps shared by the actions.                                             *)

Goto(p, l) == pc' = [pc EXCEPT ![p] = l]

\* `return Err(e)` or `?` outside the closure that writes the temporary file.
Return(p, l, r) == Goto(p, l) /\ res' = [res EXCEPT ![p] = r]

\* The bytes s written at block offset k of a file with contents c.
Overlay(c, k, s) ==
    [i \in 1 .. (IF Len(c) < k + Len(s) THEN k + Len(s) ELSE Len(c)) |->
        IF i \in k + 1 .. k + Len(s) THEN s[i - k]
        ELSE IF i <= Len(c) THEN c[i] ELSE Hole]

\* The writer hands the blocks s to the kernel.
Spill(p, s) ==
    /\ data' = [data EXCEPT ![wr[p]] = Overlay(@, off[p], s)]
    /\ off' = [off EXCEPT ![p] = @ + Len(s)]
    /\ buf' = [buf EXCEPT ![p] = << >>]

\* write_all on the BufWriter: a full chunk exceeds its capacity and goes
\* through with what is buffered, a short one may fit in the buffer.
WriteBlock(p, b) ==
    \/ Spill(p, Append(buf[p], b))
    \/ /\ b.d \notin Full
       /\ buf' = [buf EXCEPT ![p] = Append(@, b)]
       /\ UNCHANGED <<data, off>>

\* An error inside the closure: the BufWriter is dropped, which tries to
\* flush it, and the caller goes on to remove the temporary file.
FailBody(p, e) ==
    /\ Return(p, "cleanup", e)
    /\ \/ buf[p] # << >> /\ Spill(p, buf[p])
       \/ buf' = [buf EXCEPT ![p] = << >>] /\ UNCHANGED <<data, off>>

\* The runs whose input is q and is still to be read, at one of the locations w.
Touch(q, w) ==
    dirty' = [p \in Proc |-> \/ dirty[p]
                             \/ job[p].op = "enc" /\ job[p].in = q /\ pc[p] \in w]

Reading == {"open", "create", "header", "chunks"}
-----------------------------------------------------------------------------
(* One action per step of encrypt_file and decrypt_file.                    *)

\* Mutant of Refuse: a refused run tries again instead of returning.
RefuseRetries(p) ==
    /\ pc[p] = "start"
    /\ fs[job[p].out] # Absent
    /\ ~job[p].force
    /\ UNCHANGED vars

\* The overwrite guard.
Refuse(p) ==
    /\ pc[p] = "start"
    /\ fs[job[p].out] # Absent
    /\ ~job[p].force
    /\ Return(p, "failed", "FileExists")
    /\ UNCHANGED <<job, fs, data, local, history, edits>>

\* Mutant of Begin: the guard is missing.
BeginUnguarded(p) ==
    /\ pc[p] = "start"
    /\ Goto(p, IF job[p].op = "enc" THEN "stat" ELSE "open")
    /\ UNCHANGED <<job, fs, data, local, res, history, edits>>

Begin(p) ==
    /\ pc[p] = "start"
    /\ fs[job[p].out] = Absent \/ job[p].force
    /\ Goto(p, IF job[p].op = "enc" THEN "stat" ELSE "open")
    /\ UNCHANGED <<job, fs, data, local, res, history, edits>>

\* Mutant of Stat: the chunk count is length / CHUNK_SIZE + 1, one too many for
\* a text without a short chunk.
StatRoundsUp(p) ==
    /\ pc[p] = "stat"
    /\ fs[job[p].in] \in Inode
    /\ LET c == data[fs[job[p].in]]
           full == c = << >> \/ c[Len(c)].d \in Full
       IN  /\ hdr' = [hdr EXCEPT ![p] =
                         [algo |-> job[p].algo, salt |-> Rng[p].salt,
                          nonce |-> Rng[p].nonce,
                          chunk_count |-> Len(c) + IF full THEN 1 ELSE 0]]
           /\ snap' = [snap EXCEPT ![p] = c]
    /\ Goto(p, "open")
    /\ UNCHANGED <<job, fs, data, rd, wr, off, buf, idx, res, dirty, sealed, edits>>

\* encrypt_file: metadata(plain_path), the chunk count it commits to, salt,
\* base nonce and key.
Stat(p) ==
    /\ pc[p] = "stat"
    /\ fs[job[p].in] \in Inode
    /\ LET c == data[fs[job[p].in]]
       IN  /\ hdr' = [hdr EXCEPT ![p] =
                         [algo |-> job[p].algo, salt |-> Rng[p].salt,
                          nonce |-> Rng[p].nonce, chunk_count |-> Len(c)]]
           /\ snap' = [snap EXCEPT ![p] = c]
    /\ Goto(p, "open")
    /\ UNCHANGED <<job, fs, data, rd, wr, off, buf, idx, res, dirty, sealed, edits>>

OpenInput(p) ==
    /\ pc[p] = "open"
    /\ fs[job[p].in] \in Inode
    /\ rd' = [rd EXCEPT ![p] = fs[job[p].in]]
    /\ Goto(p, IF job[p].op = "enc" THEN "create" ELSE "readhdr")
    /\ UNCHANGED <<job, fs, data, hdr, wr, off, buf, idx, res, history, edits>>

\* decrypt_file: the header is read whole, and verified before the temporary
\* file is created.
ReadHeader(p) ==
    /\ pc[p] = "readhdr"
    /\ LET c == data[rd[p]]
           r == header_read(c, job[p].pass)
       IN  \/ /\ r = "ok"
              /\ hdr' = [hdr EXCEPT ![p] = c[1].hdr]
              /\ Goto(p, "create")
              /\ UNCHANGED res
           \/ /\ r # "ok"
              /\ Return(p, "failed", r)
              /\ UNCHANGED hdr
    /\ UNCHANGED <<job, fs, data, rd, wr, off, buf, idx, history, edits>>

\* Mutant of CreateTmp: an existing temporary file is opened, not truncated.
CreateTmpKeepsOld(p) ==
    /\ pc[p] = "create"
    /\ fs[Tmp(p)] # Dir
    /\ LET i == IF fs[Tmp(p)] = Absent THEN p ELSE fs[Tmp(p)]
       IN  /\ wr' = [wr EXCEPT ![p] = i]
           /\ fs' = [fs EXCEPT ![Tmp(p)] = i]
    /\ Goto(p, IF job[p].op = "enc" THEN "header" ELSE "chunks")
    /\ UNCHANGED <<job, data, hdr, rd, off, buf, idx, res, history, edits>>

\* File::create: an existing file keeps its inode and loses its contents.
CreateTmp(p) ==
    /\ pc[p] = "create"
    /\ fs[Tmp(p)] # Dir
    /\ LET i == IF fs[Tmp(p)] = Absent THEN p ELSE fs[Tmp(p)]
       IN  /\ wr' = [wr EXCEPT ![p] = i]
           /\ data' = [data EXCEPT ![i] = << >>]
           /\ fs' = [fs EXCEPT ![Tmp(p)] = i]
    /\ Goto(p, IF job[p].op = "enc" THEN "header" ELSE "chunks")
    /\ UNCHANGED <<job, hdr, rd, off, buf, idx, res, history, edits>>

\* Mutant of WriteHeader: the MAC is not written.
WriteHeaderWithoutMac(p) ==
    /\ pc[p] = "header"
    /\ buf' = [buf EXCEPT ![p] = <<[kind |-> "header", hdr |-> hdr[p]]>>]
    /\ Goto(p, "chunks")
    /\ UNCHANGED <<job, fs, data, hdr, rd, wr, off, idx, res, history, edits>>

\* Header::write: 73 bytes, which stay in the BufWriter.
WriteHeader(p) ==
    /\ pc[p] = "header"
    /\ buf' = [buf EXCEPT ![p] = <<header_write(hdr[p], KeyOf(p))>>]
    /\ Goto(p, "chunks")
    /\ UNCHANGED <<job, fs, data, hdr, rd, wr, off, idx, res, history, edits>>

\* Mutant of EncryptChunk: the buffer still holds the first chunk.
EncryptChunkStale(p) ==
    /\ pc[p] = "chunks" /\ job[p].op = "enc"
    /\ idx[p] < Len(data[rd[p]])
    /\ LET d == Datum(data[rd[p]][1])
       IN  /\ WriteBlock(p, encrypt_chunk(d, KeyOf(p), hdr[p], idx[p]))
           /\ Goto(p, IF d \in Full THEN "chunks" ELSE "flush")
    /\ idx' = [idx EXCEPT ![p] = @ + 1]
    /\ UNCHANGED <<job, fs, hdr, rd, wr, res, history, edits>>

\* One iteration of encrypt_chunks; a short chunk is the last one.
EncryptChunk(p) ==
    /\ pc[p] = "chunks" /\ job[p].op = "enc"
    /\ idx[p] < Len(data[rd[p]])
    /\ LET d == Datum(data[rd[p]][idx[p] + 1])
       IN  /\ WriteBlock(p, encrypt_chunk(d, KeyOf(p), hdr[p], idx[p]))
           /\ Goto(p, IF d \in Full THEN "chunks" ELSE "flush")
    /\ idx' = [idx EXCEPT ![p] = @ + 1]
    /\ UNCHANGED <<job, fs, hdr, rd, wr, res, history, edits>>

\* One iteration of decrypt_chunks.
DecryptChunk(p) ==
    /\ pc[p] = "chunks" /\ job[p].op = "dec"
    /\ idx[p] + 1 < Len(data[rd[p]])
    /\ LET b == data[rd[p]][idx[p] + 2]
       IN  /\ decrypt_chunk_ok(b, KeyOf(p), hdr[p], idx[p])
           /\ WriteBlock(p, Plain(b.d))
    /\ idx' = [idx EXCEPT ![p] = @ + 1]
    /\ UNCHANGED <<job, fs, pc, hdr, rd, wr, res, history, edits>>

\* Mutant of RejectChunk: the associated data has the index of the next chunk.
RejectChunkMisplaced(p) ==
    /\ pc[p] = "chunks" /\ job[p].op = "dec"
    /\ idx[p] + 1 < Len(data[rd[p]])
    /\ ~decrypt_chunk_ok(data[rd[p]][idx[p] + 2], KeyOf(p), hdr[p], idx[p] + 1)
    /\ FailBody(p, "DecryptionFailed")
    /\ UNCHANGED <<job, fs, hdr, rd, wr, idx, history, edits>>

RejectChunk(p) ==
    /\ pc[p] = "chunks" /\ job[p].op = "dec"
    /\ idx[p] + 1 < Len(data[rd[p]])
    /\ ~decrypt_chunk_ok(data[rd[p]][idx[p] + 2], KeyOf(p), hdr[p], idx[p])
    /\ FailBody(p, "DecryptionFailed")
    /\ UNCHANGED <<job, fs, hdr, rd, wr, idx, history, edits>>

\* The reader is at the end of its file.
EndOfInput(p) ==
    /\ pc[p] = "chunks"
    /\ Len(data[rd[p]]) <= idx[p] + (IF job[p].op = "enc" THEN 0 ELSE 1)
    /\ Goto(p, "flush")
    /\ UNCHANGED <<job, fs, data, local, res, history, edits>>

\* Mutant of Flush: the count check is dropped.
FlushWithoutCount(p) ==
    /\ pc[p] = "flush"
    /\ Spill(p, buf[p])
    /\ Goto(p, "rename")
    /\ UNCHANGED <<job, fs, hdr, rd, wr, idx, res, history, edits>>

\* flush(), then the number of chunks against the header's.
Flush(p) ==
    /\ pc[p] = "flush"
    /\ Spill(p, buf[p])
    /\ \/ /\ idx[p] = hdr[p].chunk_count
          /\ Goto(p, "rename")
          /\ UNCHANGED res
       \/ /\ idx[p] # hdr[p].chunk_count
          /\ Return(p, "cleanup", "Truncated")
    /\ UNCHANGED <<job, fs, hdr, rd, wr, idx, history, edits>>

\* rename(tmp, out): whatever the temporary name is bound to is published.
Rename(p) ==
    /\ pc[p] = "rename"
    /\ fs[Tmp(p)] \in Inode
    /\ fs[job[p].out] # Dir
    /\ fs' = [fs EXCEPT ![job[p].out] = fs[Tmp(p)], ![Tmp(p)] = Absent]
    /\ sealed' = IF job[p].op = "enc" THEN sealed \cup {data[fs[Tmp(p)]]}
                                      ELSE sealed
    /\ Touch(job[p].out, {"open"})
    /\ Goto(p, "report")
    /\ UNCHANGED <<job, data, local, res, snap, edits>>

\* metadata(out), then Ok(()).
Report(p) ==
    /\ pc[p] = "report"
    /\ fs[job[p].out] \in Inode
    /\ Return(p, "done", "Ok")
    /\ UNCHANGED <<job, fs, data, local, history, edits>>

\* Mutant of Cleanup: a failed run returns at once.
CleanupForgotten(p) ==
    /\ pc[p] = "cleanup"
    /\ Goto(p, "failed")
    /\ UNCHANGED <<job, fs, data, local, res, history, edits>>

\* Mutant of Cleanup: the output is removed along with the temporary file.
CleanupRemovesOutput(p) ==
    /\ pc[p] = "cleanup"
    /\ fs' = [fs EXCEPT ![Tmp(p)] = Absent, ![job[p].out] = Absent]
    /\ Goto(p, "failed")
    /\ UNCHANGED <<job, data, local, res, history, edits>>

\* remove_file(tmp) on the error path, whether or not this run created it.
Cleanup(p) ==
    /\ pc[p] = "cleanup"
    /\ fs' = [fs EXCEPT ![Tmp(p)] = IF @ = Dir THEN Dir ELSE Absent]
    /\ Goto(p, "failed")
    /\ UNCHANGED <<job, data, local, res, history, edits>>

-----------------------------------------------------------------------------
(* Failing system calls.                                                    *)

\* Before the closure: nothing to clean up.  A failing read of the header is
\* reported as InvalidFormat.
IoErrorEarly(p) ==
    /\ \/ pc[p] \in {"stat", "readhdr"}
       \/ pc[p] = "open" /\ job[p].op = "dec"
    /\ Return(p, "failed", IF pc[p] = "readhdr" THEN "InvalidFormat" ELSE "Io")
    /\ UNCHANGED <<job, fs, data, local, history, edits>>

\* Inside the closure.
IoErrorBody(p) ==
    /\ \/ pc[p] \in {"create", "header", "chunks", "flush"}
       \/ pc[p] = "open" /\ job[p].op = "enc"
    /\ FailBody(p, "Io")
    /\ UNCHANGED <<job, fs, hdr, rd, wr, idx, history, edits>>

\* rename(tmp, out)? returns without removing the temporary file, and so does
\* a remove_file whose own error is ignored.
IoErrorLeavesTmp(p) ==
    /\ pc[p] \in {"rename", "cleanup"}
    /\ Return(p, "littered", IF pc[p] = "rename" THEN "Io" ELSE res[p])
    /\ UNCHANGED <<job, fs, data, local, history, edits>>

\* metadata(out)? after the rename: an error although the output is there.
IoErrorLate(p) ==
    /\ pc[p] = "report"
    /\ Return(p, "failed", "Io")
    /\ UNCHANGED <<job, fs, data, local, history, edits>>

\* The run is killed: no destructor runs and its buffer is lost.
Crash(p) ==
    /\ pc[p] \notin Final
    /\ Goto(p, "crashed")
    /\ UNCHANGED <<job, fs, data, local, res, history, edits>>

-----------------------------------------------------------------------------
(* The user.                                                                *)

\* Rewrites a file in place.
Edit(q, c) ==
    /\ edits < MaxEdits
    /\ fs[q] \in Inode
    /\ data' = [data EXCEPT ![fs[q]] = c]
    /\ Touch(q, Reading)
    /\ edits' = edits + 1
    /\ UNCHANGED <<job, fs, pc, local, res, snap, sealed>>

Remove(q) ==
    /\ edits < MaxEdits
    /\ fs[q] \in Inode
    /\ fs' = [fs EXCEPT ![q] = Absent]
    /\ edits' = edits + 1
    /\ UNCHANGED <<job, data, pc, local, res, history>>

\* Every run has ended.
Terminating ==
    /\ \A p \in Proc : pc[p] \in Final
    /\ UNCHANGED vars

Work(p) ==
    \/ Refuse(p) \/ Begin(p) \/ Stat(p) \/ OpenInput(p) \/ ReadHeader(p)
    \/ CreateTmp(p) \/ WriteHeader(p) \/ EncryptChunk(p) \/ DecryptChunk(p)
    \/ RejectChunk(p) \/ EndOfInput(p) \/ Flush(p) \/ Rename(p) \/ Report(p)
    \/ Cleanup(p)

Fails(p) ==
    IoErrorEarly(p) \/ IoErrorBody(p) \/ IoErrorLeavesTmp(p) \/ IoErrorLate(p)

Step(p) == Work(p) \/ Fails(p)

Next ==
    \/ \E p \in Proc : Step(p) \/ Crash(p)
    \/ \E q \in EditPath : Remove(q) \/ \E c \in EditText : Edit(q, c)
    \/ Terminating

Spec == Init /\ [][Next]_vars

\* The call p is about to make has nothing to work on.
CannotSucceed(p) ==
    \/ pc[p] \in {"stat", "open"} /\ fs[job[p].in] \notin Inode
    \/ pc[p] = "create" /\ fs[Tmp(p)] = Dir
    \/ pc[p] = "rename" /\ (fs[Tmp(p)] \notin Inode \/ fs[job[p].out] = Dir)
    \/ pc[p] = "report" /\ fs[job[p].out] \notin Inode

\* A run that is not killed keeps making steps: every one of them is a system
\* call that returns, and no step waits for another run.  That a call fails is
\* relied on only where it cannot succeed.
FairSpec ==
    /\ Spec
    /\ \A p \in Proc : WF_vars(Work(p) \/ (CannotSucceed(p) /\ Fails(p)))
-----------------------------------------------------------------------------
(* Properties.                                                              *)

\* Every variable stays in its type; in particular every file holds blocks of
\* the format, and a header or descriptor is Nil until it is obtained.
TypeOK ==
    /\ job \in [Proc -> Job]
    /\ fs \in [Path -> Inode \cup {Absent, Dir}]
    /\ data \in [Inode -> Contents]
    /\ pc \in [Proc -> Location]
    /\ hdr \in [Proc -> Header \cup {Nil}]
    /\ rd \in [Proc -> Inode \cup {Nil}]
    /\ wr \in [Proc -> Inode \cup {Nil}]
    /\ off \in [Proc -> Nat]
    /\ buf \in [Proc -> Seq(Block)]
    /\ idx \in [Proc -> Nat]
    /\ res \in [Proc -> Outcome]
    /\ snap \in [Proc -> Contents]
    /\ dirty \in [Proc -> BOOLEAN]
    /\ sealed \subseteq Contents
    /\ edits \in Nat

\* What the user put on the disk: the initial files, those of a scenario with
\* these jobs, and the edits.
Given ==
    EditText \cup
    UNION {{s.data[i] : i \in {s.fs[q] : q \in UserPath} \cap Inode} :
              s \in {x \in Scenario : x.job = job}}

\* "Writes to a `.tmp` sibling, renames on success.  A failed run never leaves
\* a partial or zero-length output file" (cipher.rs, module comment): at every
\* moment, through crashes and failing calls of any run, every name the user
\* works with is bound to something of the user's, to a complete ciphertext,
\* or to the whole text of a ciphertext that was on the disk.
OutputIntact ==
    /\ \A s \in sealed : IsCiphertext(s)
    /\ \A q \in UserPath : fs[q] \in Inode =>
          \/ data[fs[q]] \in Given
          \/ IsCiphertext(data[fs[q]])
          \/ \E s \in sealed : data[fs[q]] = PlainOf(s)

\* An encryption that passed its count check, and whose input nobody modified
\* between metadata() and the last read, has sealed exactly the text
\* metadata() measured: every chunk, once, in order, nothing left in a buffer.
SealsSnapshot ==
    \A p \in Proc :
        /\ job[p].op = "enc" /\ pc[p] \in {"rename", "report", "done"}
        /\ ~dirty[p]
        => PlainOf(data[wr[p]]) = snap[p]

\* "Should never fire unless the file was modified while we were reading it"
\* (cipher.rs, above the count check of encrypt_file).
TruncatedOnlyIfModified ==
    \A p \in Proc :
        job[p].op = "enc" /\ res[p] = "Truncated" => dirty[p]

\* A decryption publishes the whole text of the very file it opened, and only
\* if that file is a complete ciphertext under the passphrase it was given.
OpensWhatWasSealed ==
    \A p \in Proc :
        job[p].op = "dec" /\ pc[p] \in {"rename", "report", "done"} =>
            /\ IsCiphertextOf(data[rd[p]], hdr[p], job[p].pass)
            /\ data[wr[p]] = PlainOf(data[rd[p]])

\* A complete ciphertext opens under the passphrase it was sealed with: no run
\* reports it tampered with, undecryptable or truncated, whoever wrote it.
RightPassOpens ==
    \A p \in Proc :
        /\ job[p].op = "dec"
        /\ res[p] \in {"HeaderTampered", "DecryptionFailed", "Truncated"}
        => ~ \E h \in {data[rd[p]][1].hdr} :
                IsCiphertextOf(data[rd[p]], h, job[p].pass)

\* A run that returns, with a result or an error, has left nothing of its own
\* under the temporary name, unless the rename or the removal itself failed
\* ("littered").  What it found there and never opened may still be there.
ExitLeavesNoTmp ==
    \A p \in Proc :
        pc[p] \in {"done", "failed"} /\ wr[p] # Nil => fs[Tmp(p)] # wr[p]

\* No two chunks that the runs sealed under one key share a nonce, wherever on
\* the disk they are: each run draws its own salt, and chunk_nonce tells the
\* chunks of a run apart through the wraps of both its halves.
NoNonceReuse ==
    LET Fresh(b) == b.kind = "chunk" /\ \E p \in Proc : b.key.salt = Rng[p].salt
        At == {x \in Inode \X (1 .. LoMod) :
                  x[2] \in DOMAIN data[x[1]] /\ Fresh(data[x[1]][x[2]])}
    IN  \A x, y \in At :
            LET a == data[x[1]][x[2]]
                b == data[y[1]][y[2]]
            IN  a.key = b.key /\ a.nonce = b.nonce => x = y

\* "encrypt and decrypt refuse to overwrite an existing output file unless
\* `force` is true" (cipher.rs, module comment): no step of a run without
\* --force takes away a file that its output name is bound to.  It asks of the
\* guard alone where nobody else writes the output; a run that another one
\* overtakes between guard and rename breaks it (MCFileCipherRace.cfg).
NeverOverwritesUnforced ==
    [][\A p \in Proc :
          /\ pc[p] = "rename" /\ pc'[p] = "report"
          /\ ~job[p].force
          => fs[job[p].out] = Absent]_vars

\* Every run ends, however its calls fail and whatever the others do.
Termination == \A p \in Proc : <>(pc[p] \in Final)

-----------------------------------------------------------------------------
(* What the user sees.                                                      *)

View == [q \in UserPath |-> IF fs[q] \in Inode THEN data[fs[q]] ELSE fs[q]]

Output == INSTANCE AtomicOutput WITH view <- View, archive <- sealed

\* With temporary files of their own, the runs implement AtomicOutput: the
\* names the user works with change one at a time, each to a whole result.
ImplementsAtomicOutput == Output!Spec
=============================================================================
