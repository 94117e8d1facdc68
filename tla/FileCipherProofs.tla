--------------------------- MODULE FileCipherProofs ---------------------------
(***************************************************************************)
(* Theorems about FileCipher, for every set of runs, files, names and      *)
(* initial disks that satisfies the module's assumptions.  In order:       *)
(*                                                                         *)
(*   - type correctness;                                                   *)
(*   - IInv, the inductive invariant of runs that share no temporary file, *)
(*     and from it OutputIntact, OpensWhatWasSealed and ExitLeavesNoTmp;   *)
(*   - on top of IInv, an invariant for each of the properties about the   *)
(*     past: Verdicts (RightPassOpens), Snapshots (SealsSnapshot and       *)
(*     TruncatedOnlyIfModified), Drawn and Salted (NoNonceReuse);          *)
(*   - Guarded, for NeverOverwritesUnforced;                               *)
(*   - the refinement of AtomicOutput.                                     *)
(***************************************************************************)
EXTENDS FileCipher, ChunkNonceProofs, SequenceTheorems

-----------------------------------------------------------------------------
(* Blocks and sequences of blocks.                                          *)

\* A plain chunk is a block.
LEMMA PlainIsBlock ==
    ASSUME NEW d \in Chunk
    PROVE  Plain(d) \in Block
  BY DEF Plain, Block, PlainBlock

\* What Header::write emits is a block.
LEMMA HeaderIsBlock ==
    ASSUME NEW h \in Header, NEW pass \in Pass
    PROVE  header_write(h, derive_key(pass, h.salt)) \in Block
  <1>1. h.salt \in Salt
    BY DEF Header
  <1>2. derive_key(pass, h.salt) \in Key
    BY <1>1 DEF derive_key, Key
  <1>3. compute_hmac(h, derive_key(pass, h.salt)) \in Hmac
    BY <1>2 DEF compute_hmac, Hmac
  <1> QED
    BY <1>3 DEF header_write, Block, HeaderBlock

\* What encrypt_chunk emits is a block.
LEMMA SealedIsBlock ==
    ASSUME NEW d \in Chunk, NEW pass \in Pass, NEW h \in Header, NEW i \in Nat
    PROVE  encrypt_chunk(d, derive_key(pass, h.salt), h, i) \in Block
  <1>1. h.salt \in Salt /\ h.algo \in Algorithm /\ h.nonce \in Nonce
    BY DEF Header
  <1>2. derive_key(pass, h.salt) \in Key
    BY <1>1 DEF derive_key, Key
  <1>3. chunk_nonce(h.nonce, i) \in [hi : Int, lo : Int]
    BY <1>1, WidthAssumption
    DEF chunk_nonce, overflowing_add, wrapping_add, Nonce
  <1>4. chunk_aad(h, i) \in Aad
    BY DEF chunk_aad, header_aad, Aad
  <1> QED
    BY <1>1, <1>2, <1>3, <1>4 DEF encrypt_chunk, Block, ChunkBlock

\* What read_chunk delivers is a chunk, whatever the file holds.
LEMMA DatumIsChunk ==
    ASSUME NEW b \in Block
    PROVE  Datum(b) \in Chunk
  BY ChunkAssumption
  DEF Datum, Block, PlainBlock, HeaderBlock, ChunkBlock, HoleBlock

\* What an authenticated chunk holds is a chunk.
LEMMA OpenedIsChunk ==
    ASSUME NEW b \in Block, NEW key, NEW h, NEW i,
           decrypt_chunk_ok(b, key, h, i)
    PROVE  b.d \in Chunk
  <1>1. b.kind = "chunk"
    BY DEF decrypt_chunk_ok
  <1> QED
    BY <1>1 DEF Block, PlainBlock, HeaderBlock, ChunkBlock, HoleBlock

\* An accepted file begins with a header; a rejected one yields an error.
LEMMA HeaderRead ==
    ASSUME NEW c \in Contents, NEW pass
    PROVE  /\ header_read(c, pass) \in {"ok", "InvalidFormat", "HeaderTampered"}
           /\ header_read(c, pass) = "ok" =>
                /\ Len(c) >= 1
                /\ c[1].kind = "header"
                /\ c[1].hdr \in Header
                /\ c[1].hmac = compute_hmac(c[1].hdr,
                                            derive_key(pass, c[1].hdr.salt))
  <1>1. header_read(c, pass) \in {"ok", "InvalidFormat", "HeaderTampered"}
    BY DEF header_read
  <1>2. ASSUME header_read(c, pass) = "ok"
        PROVE  /\ Len(c) >= 1
               /\ c[1].kind = "header"
               /\ c[1].hdr \in Header
               /\ c[1].hmac = compute_hmac(c[1].hdr,
                                           derive_key(pass, c[1].hdr.salt))
    <2>1. c # << >> /\ c[1].kind = "header"
      BY <1>2 DEF header_read
    <2>2. Len(c) >= 1
      BY <2>1 DEF Contents
    <2>3. c[1] \in Block
      BY <2>2 DEF Contents
    <2>4. c[1].hdr \in Header
      BY <2>1, <2>3 DEF Block, PlainBlock, HeaderBlock, ChunkBlock, HoleBlock
    <2> QED
      BY <1>2, <2>1, <2>2, <2>4 DEF header_read
  <1> QED
    BY <1>1, <1>2

\* A write keeps a file a sequence of blocks.
LEMMA OverlayType ==
    ASSUME NEW c \in Contents, NEW s \in Contents, NEW k \in Nat
    PROVE  Overlay(c, k, s) \in Contents
  <1> DEFINE n == IF Len(c) < k + Len(s) THEN k + Len(s) ELSE Len(c)
  <1>1. n \in Nat
    BY DEF Contents
  <1>2. Hole \in Block
    BY DEF Hole, Block, HoleBlock
  <1>3. ASSUME NEW i \in 1 .. n
        PROVE  (IF i \in k + 1 .. k + Len(s) THEN s[i - k]
                ELSE IF i <= Len(c) THEN c[i] ELSE Hole) \in Block
    BY <1>2, <1>3 DEF Contents
  <1> QED
    BY <1>1, <1>3 DEF Overlay, Contents

-----------------------------------------------------------------------------
(* Type correctness.  TypeOK is not inductive: that a run writes blocks     *)
(* rests on its having obtained a header and descriptors before it does.    *)

\* A run past its stat, open or create has what that call returned.
Obtained ==
    \A p \in Proc :
        /\ pc[p] \in {"create", "header", "chunks", "flush", "rename", "report",
                    "done"}
              => hdr[p] \in Header /\ rd[p] \in Inode
        /\ pc[p] = "open" /\ job[p].op = "enc" => hdr[p] \in Header
        /\ pc[p] = "readhdr" => rd[p] \in Inode
        /\ pc[p] \in {"header", "chunks", "flush", "rename", "report", "done"}
              => wr[p] \in Inode

TypeInv == TypeOK /\ Obtained

\* The path a job names, and its temporary sibling, are paths.
LEMMA JobPaths ==
    ASSUME TypeOK, NEW p \in Proc
    PROVE  /\ job[p] \in Job
           /\ job[p].in \in Path /\ job[p].out \in Path /\ Tmp(p) \in Path
           /\ job[p].out \in UserPath /\ job[p].in \in UserPath
           /\ job[p].op \in {"enc", "dec"}
           /\ job[p].pass \in Pass
           /\ job[p].algo \in Algorithm
  BY DEF TypeOK, Job, Path, Tmp, TmpOf

\* Handing blocks to the kernel, or keeping them in the buffer, keeps types.
LEMMA SpillType ==
    ASSUME TypeOK, NEW p \in Proc, NEW s \in Contents, Spill(p, s)
    PROVE  /\ data' \in [Inode -> Contents]
           /\ off' \in [Proc -> Nat]
           /\ buf' \in [Proc -> Seq(Block)]
  <1>1. data' \in [Inode -> Contents]
    <2>1. CASE wr[p] \in Inode
      <3>1. Overlay(data[wr[p]], off[p], s) \in Contents
        BY <2>1, OverlayType DEF TypeOK
      <3> QED
        BY <2>1, <3>1 DEF TypeOK, Spill
    <2>2. CASE wr[p] \notin Inode
      BY <2>2 DEF TypeOK, Spill
    <2> QED
      BY <2>1, <2>2
  <1>2. off' \in [Proc -> Nat]
    BY DEF TypeOK, Spill, Contents
  <1>3. buf' \in [Proc -> Seq(Block)]
    BY DEF TypeOK, Spill
  <1> QED
    BY <1>1, <1>2, <1>3

LEMMA WriteBlockType ==
    ASSUME TypeOK, NEW p \in Proc, NEW b \in Block, WriteBlock(p, b)
    PROVE  /\ data' \in [Inode -> Contents]
           /\ off' \in [Proc -> Nat]
           /\ buf' \in [Proc -> Seq(Block)]
  <1>1. Append(buf[p], b) \in Contents
    BY DEF TypeOK, Contents
  <1>2. CASE Spill(p, Append(buf[p], b))
    BY <1>1, <1>2, SpillType
  <1>3. CASE /\ buf' = [buf EXCEPT ![p] = Append(@, b)]
             /\ UNCHANGED <<data, off>>
    BY <1>1, <1>3 DEF TypeOK, Contents
  <1> QED
    BY <1>2, <1>3 DEF WriteBlock

LEMMA FailBodyType ==
    ASSUME TypeOK, NEW p \in Proc, NEW e \in Outcome, FailBody(p, e)
    PROVE  /\ data' \in [Inode -> Contents]
           /\ off' \in [Proc -> Nat]
           /\ buf' \in [Proc -> Seq(Block)]
           /\ pc' = [pc EXCEPT ![p] = "cleanup"]
           /\ pc' \in [Proc -> Location]
           /\ res' \in [Proc -> Outcome]
  <1>1. buf[p] \in Contents
    BY DEF TypeOK, Contents
  <1>2. /\ data' \in [Inode -> Contents]
        /\ off' \in [Proc -> Nat]
        /\ buf' \in [Proc -> Seq(Block)]
    <2>1. CASE Spill(p, buf[p])
      BY <1>1, <2>1, SpillType
    <2>2. CASE buf' = [buf EXCEPT ![p] = << >>] /\ UNCHANGED <<data, off>>
      BY <2>2 DEF TypeOK
    <2> QED
      BY <2>1, <2>2 DEF FailBody
  <1> QED
    BY <1>2 DEF FailBody, Return, Goto, TypeOK, Location

\* The history of modified inputs stays Boolean.
LEMMA TouchType ==
    ASSUME TypeOK, NEW q, NEW w, Touch(q, w)
    PROVE  dirty' \in [Proc -> BOOLEAN]
  BY Zenon DEF TypeOK, Touch

\* Every initial disk and set of command lines is well typed.
LEMMA InitTypeInv == Init => TypeInv
  <1> SUFFICES ASSUME Init PROVE TypeInv
    OBVIOUS
  <1>1. PICK s \in Scenario : job = s.job /\ fs = s.fs /\ data = s.data
    BY DEF Init
  <1>2. /\ job \in [Proc -> Job]
        /\ fs \in [Path -> Inode \cup {Absent, Dir}]
        /\ data \in [Inode -> Contents]
    BY <1>1, ScenarioAssumption DEF Inode
  <1>3. sealed \subseteq Contents
    BY <1>2 DEF Init, Path
  <1>4. TypeOK
    BY <1>2, <1>3 DEF Init, TypeOK, Location, Outcome, Contents
  <1>5. Obtained
    BY DEF Init, Obtained
  <1> QED
    BY <1>4, <1>5 DEF TypeInv

\* Every step of a run keeps the types.
LEMMA StepTypeInv ==
    ASSUME TypeInv, NEW p \in Proc, Step(p)
    PROVE  TypeInv'
  <1> USE DEF TypeInv
  <1>0. /\ job[p] \in Job
        /\ job[p].in \in Path /\ job[p].out \in Path /\ Tmp(p) \in Path
        /\ job[p].op \in {"enc", "dec"} /\ job[p].pass \in Pass
        /\ job[p].algo \in Algorithm
    BY JobPaths
  <1>1. CASE Refuse(p)
    BY <1>1 DEF Refuse, Return, Goto, local, history, TypeOK, Obtained, Location,
                Outcome, Final
  <1>2. CASE Begin(p)
    BY <1>0, <1>2 DEF Begin, Goto, local, history, TypeOK, Obtained, Location
  <1>3. CASE Stat(p)
    <2>1. data[fs[job[p].in]] \in Contents /\ Len(data[fs[job[p].in]]) \in Nat
      BY <1>3 DEF Stat, TypeOK, Contents
    <2>2. hdr' \in [Proc -> Header \cup {Nil}] /\ hdr'[p] \in Header
      BY <1>0, <1>3, <2>1, RngAssumption DEF Stat, TypeOK, Header
    <2>3. snap' \in [Proc -> Contents]
      BY <1>3, <2>1 DEF Stat, TypeOK
    <2>4. TypeOK'
      BY <1>3, <2>2, <2>3 DEF Stat, Goto, TypeOK, Location
    <2>5. Obtained'
      BY <1>3, <2>2 DEF Stat, Goto, TypeOK, Obtained
    <2> QED
      BY <2>4, <2>5
  <1>4. CASE OpenInput(p)
    BY <1>0, <1>4 DEF OpenInput, Goto, history, TypeOK, Obtained, Location
  <1>5. CASE ReadHeader(p)
    <2> DEFINE c == data[rd[p]]
    <2>1. c \in Contents
      BY <1>5 DEF ReadHeader, TypeOK, Obtained
    <2>2. /\ header_read(c, job[p].pass) = "ok" => c[1].hdr \in Header
          /\ header_read(c, job[p].pass) # "ok" =>
                header_read(c, job[p].pass) \in Outcome
      BY <2>1, HeaderRead DEF Outcome
    <2>3. /\ pc[p] = "readhdr"
          /\ UNCHANGED <<job, fs, data, rd, wr, off, buf, idx, history, edits>>
      BY <1>5 DEF ReadHeader
    <2>4. CASE /\ header_read(c, job[p].pass) = "ok"
               /\ hdr' = [hdr EXCEPT ![p] = c[1].hdr]
               /\ Goto(p, "create")
               /\ UNCHANGED res
      BY <2>2, <2>3, <2>4 DEF Goto, history, TypeOK, Obtained, Location
    <2>5. CASE /\ header_read(c, job[p].pass) # "ok"
               /\ Return(p, "failed", header_read(c, job[p].pass))
               /\ UNCHANGED hdr
      BY <2>2, <2>3, <2>5
      DEF Return, Goto, history, TypeOK, Obtained, Location, Final
    <2> QED
      BY <1>5, <2>4, <2>5 DEF ReadHeader
  <1>6. CASE CreateTmp(p)
    <2>1. PICK i \in Inode :
             /\ wr' = [wr EXCEPT ![p] = i]
             /\ data' = [data EXCEPT ![i] = << >>]
             /\ fs' = [fs EXCEPT ![Tmp(p)] = i]
      BY <1>0, <1>6 DEF CreateTmp, TypeOK, Inode
    <2>2. << >> \in Contents
      BY DEF Contents
    <2> QED
      BY <1>0, <1>6, <2>1, <2>2
      DEF CreateTmp, Goto, history, TypeOK, Obtained, Location
  <1>7. CASE WriteHeader(p)
    <2>1. header_write(hdr[p], KeyOf(p)) \in Block
      BY <1>0, <1>7, HeaderIsBlock DEF WriteHeader, TypeOK, Obtained, KeyOf
    <2> QED
      BY <1>7, <2>1 DEF WriteHeader, Goto, history, TypeOK, Obtained, Location
  <1>8. CASE EncryptChunk(p)
    <2> DEFINE d == Datum(data[rd[p]][idx[p] + 1])
    <2>1. data[rd[p]][idx[p] + 1] \in Block
      BY <1>8 DEF EncryptChunk, TypeOK, Obtained, Contents
    <2>2. encrypt_chunk(d, KeyOf(p), hdr[p], idx[p]) \in Block
      BY <1>0, <1>8, <2>1, DatumIsChunk, SealedIsBlock
      DEF EncryptChunk, TypeOK, Obtained, KeyOf
    <2>3. /\ data' \in [Inode -> Contents]
          /\ off' \in [Proc -> Nat]
          /\ buf' \in [Proc -> Seq(Block)]
      BY <1>8, <2>2, WriteBlockType DEF EncryptChunk
    <2>4. /\ pc[p] = "chunks"
          /\ pc' = [pc EXCEPT ![p] = IF d \in Full THEN "chunks" ELSE "flush"]
          /\ idx' = [idx EXCEPT ![p] = @ + 1]
          /\ UNCHANGED <<job, fs, hdr, rd, wr, res, history, edits>>
      BY <1>8 DEF EncryptChunk, Goto
    <2> QED
      BY <2>3, <2>4 DEF history, TypeOK, Obtained, Location
  <1>9. CASE DecryptChunk(p)
    <2> DEFINE b == data[rd[p]][idx[p] + 2]
    <2>1. b \in Block
      BY <1>9 DEF DecryptChunk, TypeOK, Obtained, Contents
    <2>2. Plain(b.d) \in Block
      BY <1>9, <2>1, OpenedIsChunk, PlainIsBlock DEF DecryptChunk
    <2>3. /\ data' \in [Inode -> Contents]
          /\ off' \in [Proc -> Nat]
          /\ buf' \in [Proc -> Seq(Block)]
      BY <1>9, <2>2, WriteBlockType DEF DecryptChunk
    <2>4. /\ idx' = [idx EXCEPT ![p] = @ + 1]
          /\ UNCHANGED <<job, fs, pc, hdr, rd, wr, res, history, edits>>
      BY <1>9 DEF DecryptChunk
    <2> QED
      BY <2>3, <2>4 DEF history, TypeOK, Obtained
  <1>10. CASE RejectChunk(p)
    BY <1>10, FailBodyType
    DEF RejectChunk, history, TypeOK, Obtained, Outcome
  <1>11. CASE EndOfInput(p)
    BY <1>11 DEF EndOfInput, Goto, local, history, TypeOK, Obtained, Location
  <1>12. CASE Flush(p)
    <2>1. /\ data' \in [Inode -> Contents]
          /\ off' \in [Proc -> Nat]
          /\ buf' \in [Proc -> Seq(Block)]
      BY <1>12, SpillType DEF Flush, TypeOK, Contents
    <2> QED
      BY <1>12, <2>1
      DEF Flush, Return, Goto, history, TypeOK, Obtained, Location, Outcome
  <1>13. CASE Rename(p)
    <2>1. sealed' \subseteq Contents
      BY <1>0, <1>13 DEF Rename, TypeOK
    <2>2. fs' \in [Path -> Inode \cup {Absent, Dir}]
      BY <1>0, <1>13 DEF Rename, TypeOK
    <2>3. dirty' \in [Proc -> BOOLEAN]
      BY <1>13, TouchType DEF Rename
    <2> QED
      BY <1>13, <2>1, <2>2, <2>3
      DEF Rename, Goto, local, TypeOK, Obtained, Location
  <1>14. CASE Report(p)
    BY <1>14
    DEF Report, Return, Goto, local, history, TypeOK, Obtained, Location, Outcome,
        Final
  <1>15. CASE Cleanup(p)
    BY <1>0, <1>15
    DEF Cleanup, Goto, local, history, TypeOK, Obtained, Location, Final
  <1>16. CASE IoErrorEarly(p)
    BY <1>16 DEF IoErrorEarly, Return, Goto, local, history, TypeOK, Obtained,
                 Location, Outcome, Final
  <1>17. CASE IoErrorBody(p)
    BY <1>17, FailBodyType DEF IoErrorBody, history, TypeOK, Obtained, Outcome
  <1>18. CASE IoErrorLeavesTmp(p)
    BY <1>18 DEF IoErrorLeavesTmp, Return, Goto, local, history, TypeOK, Obtained,
                 Location, Outcome, Final
  <1>19. CASE IoErrorLate(p)
    BY <1>19 DEF IoErrorLate, Return, Goto, local, history, TypeOK, Obtained,
                 Location, Outcome, Final
  <1> QED
    BY <1>1, <1>2, <1>3, <1>4, <1>5, <1>6, <1>7, <1>8, <1>9, <1>10, <1>11, <1>12,
       <1>13, <1>14, <1>15, <1>16, <1>17, <1>18, <1>19 DEF Step, Work, Fails

\* So does every other step.
LEMMA NextTypeInv == TypeInv /\ [Next]_vars => TypeInv'
  <1> SUFFICES ASSUME TypeInv, [Next]_vars PROVE TypeInv'
    OBVIOUS
  <1> USE DEF TypeInv
  <1>1. CASE UNCHANGED vars
    BY <1>1 DEF vars, local, history, TypeOK, Obtained
  <1>2. ASSUME NEW p \in Proc, Step(p) PROVE TypeInv'
    BY <1>2, StepTypeInv
  <1>3. ASSUME NEW p \in Proc, Crash(p) PROVE TypeInv'
    BY <1>3 DEF Crash, Goto, local, history, TypeOK, Obtained, Location, Final
  <1>4. ASSUME NEW q \in EditPath, Remove(q) PROVE TypeInv'
    <2>1. q \in Path
      BY PathAssumption DEF Path
    <2> QED
      BY <1>4, <2>1 DEF Remove, local, history, TypeOK, Obtained
  <1>5. ASSUME NEW q \in EditPath, NEW c \in EditText, Edit(q, c) PROVE TypeInv'
    <2>1. c \in Contents
      <3>1. c \in Seq(PlainBlock)
        BY PathAssumption
      <3> QED
        BY <3>1 DEF Contents, Block
    <2>2. dirty' \in [Proc -> BOOLEAN]
      BY <1>5, TouchType DEF Edit
    <2> QED
      BY <1>5, <2>1, <2>2 DEF Edit, local, TypeOK, Obtained
  <1> QED
    BY <1>1, <1>2, <1>3, <1>4, <1>5 DEF Next, Terminating

\* Type correctness of encrypt_file and decrypt_file in every interleaving:
\* whatever runs, edits, errors and crashes do, every file holds blocks of the
\* format, and a run that writes has a header and its descriptors.
THEOREM TypeCorrect == Spec => []TypeOK
  <1>1. Init => TypeInv
    BY InitTypeInv
  <1>2. TypeInv /\ [Next]_vars => TypeInv'
    BY NextTypeInv
  <1>3. TypeInv => TypeOK
    BY DEF TypeInv
  <1> QED
    BY <1>1, <1>2, <1>3, PTL DEF Spec

-----------------------------------------------------------------------------
(* The inductive invariant.                                                 *)

\* Before File::create(tmp), and between it and rename.
Early == {"start", "stat", "open", "readhdr", "create"}
Writing == {"header", "chunks", "flush", "rename"}
Published == {"report", "done"}

\* What a run has written, its buffer included.
Written(p) == data[wr[p]] \o buf[p]

\* The command lines are those of an assumed scenario, for good.
JobsFixed == \E s \in Scenario : job = s.job

\* No inode has two names.
Injective == \A x, y \in Path : fs[x] = fs[y] /\ fs[x] \in Inode => x = y

\* A run that has created nothing owns nothing, and nobody uses its inode.
Untouched ==
    \A p \in Proc : pc[p] \in Early =>
        /\ wr[p] = Nil /\ off[p] = 0 /\ buf[p] = << >> /\ idx[p] = 0
        /\ \A x \in Path : fs[x] # p
        /\ \A q \in Proc : rd[q] # p /\ (pc[q] \in Published => wr[q] # p)

\* While a run writes, the temporary name is bound to what it writes; once it
\* has returned, it no longer is.
OwnTmp ==
    \A p \in Proc :
        /\ pc[p] \in Writing => fs[Tmp(p)] = wr[p]
        /\ pc[p] \in Published => fs[Tmp(p)] = Absent
        /\ pc[p] = "failed" /\ wr[p] # Nil => fs[Tmp(p)] # wr[p]

\* No file a decryption reads or has published is writable for anybody: it has
\* no temporary name, and none of the names the user edits.
Settled(i) ==
    /\ \A x \in Path \ UserPath : fs[x] # i
    /\ \A e \in EditPath : fs[e] # i

ReadersApart ==
    \A q \in Proc :
        /\ rd[q] \in Inode => \A x \in Path \ UserPath : fs[x] # rd[q]
        /\ rd[q] \in Inode /\ job[q].op = "dec" => Settled(rd[q])
        /\ pc[q] \in Published => Settled(wr[q])

\* c holds the header h and n authentic chunks.
SealedPrefix(c, h, pass, n) ==
    /\ Len(c) = n + 1
    /\ c[1] = header_write(h, derive_key(pass, h.salt))
    /\ \A i \in 1 .. n :
          decrypt_chunk_ok(c[i + 1], derive_key(pass, h.salt), h, i - 1)

\* c holds the text of the first n chunks of the ciphertext r, all authentic.
OpenedPrefix(c, r, h, pass, n) ==
    /\ Len(c) = n
    /\ \A i \in 1 .. n :
          /\ decrypt_chunk_ok(r[i + 1], derive_key(pass, h.salt), h, i - 1)
          /\ c[i] = Plain(r[i + 1].d)

\* The file under construction, at each stage of its writing.
WriterAt(p) ==
    /\ pc[p] \in Writing => off[p] = Len(data[wr[p]])
    /\ pc[p] = "header" =>
          job[p].op = "enc" /\ data[wr[p]] = << >> /\ buf[p] = << >> /\ idx[p] = 0
    /\ pc[p] \in Writing /\ pc[p] # "header" /\ job[p].op = "enc" =>
          SealedPrefix(Written(p), hdr[p], job[p].pass, idx[p])
    /\ pc[p] \in Writing \cup {"create"} /\ job[p].op = "dec" =>
          /\ Len(data[rd[p]]) >= 1
          /\ data[rd[p]][1] = header_write(hdr[p], KeyOf(p))
    /\ pc[p] \in Writing /\ job[p].op = "dec" =>
          /\ idx[p] + 1 <= Len(data[rd[p]])
          /\ OpenedPrefix(Written(p), data[rd[p]], hdr[p], job[p].pass, idx[p])
    /\ pc[p] \in {"flush", "rename"} /\ job[p].op = "dec" =>
          Len(data[rd[p]]) = idx[p] + 1
    /\ pc[p] = "rename" => buf[p] = << >> /\ idx[p] = hdr[p].chunk_count

WriterInv == \A p \in Proc : WriterAt(p)

\* A ciphertext under a name of the user's, or open for decryption, is in the
\* history of ciphertexts.
Archived(i) == IsCiphertext(data[i]) => data[i] \in sealed

ArchiveInv ==
    /\ \A q \in UserPath : fs[q] \in Inode => Archived(fs[q])
    /\ \A p \in Proc : rd[p] \in Inode /\ job[p].op = "dec" => Archived(rd[p])

IInv ==
    /\ TypeInv
    /\ JobsFixed
    /\ Injective
    /\ Untouched
    /\ OwnTmp
    /\ ReadersApart
    /\ WriterInv
    /\ ArchiveInv
    /\ OutputIntact
    /\ OpensWhatWasSealed

-----------------------------------------------------------------------------
(* Names, and what a writer does to the file it writes.                     *)

\* Temporary names are no names of the user's, whether or not runs share one.
LEMMA TmpIsHidden ==
    ASSUME TypeOK, NEW p \in Proc
    PROVE  Tmp(p) \in Path \ UserPath /\ UserPath \subseteq Path
  <1>1. Tmp(p) \in Path
    BY JobPaths
  <1>2. Tmp(p)[2] \in {"cry.tmp", "plain.tmp"}
    BY DEF Tmp, TmpOf, TmpExt, with_extension
  <1> QED
    BY <1>1, <1>2, PathAssumption DEF Path

\* A temporary name is no name of the user's and belongs to one run only.
LEMMA JobFacts ==
    ASSUME TypeOK, JobsFixed, ExclusiveTmp, NEW p \in Proc
    PROVE  /\ Tmp(p) \in Path \ UserPath
           /\ \A q \in Proc : Tmp(q) = Tmp(p) => q = p
           /\ job[p].out \in UserPath \ EditPath
           /\ job[p].in \in UserPath
           /\ job[p].op = "dec" => job[p].in \notin EditPath
           /\ UserPath \subseteq Path
           /\ EditPath \subseteq UserPath
  <1>1. PICK s \in Scenario : job = s.job
    BY DEF JobsFixed
  <1>2. /\ job[p].out \notin EditPath
        /\ job[p].op = "dec" => job[p].in \notin EditPath
    BY <1>1, ScenarioAssumption
  <1>3. \A q \in Proc : Tmp(q) = Tmp(p) => q = p
    BY <1>1 DEF ExclusiveTmp, Tmp
  <1>4. job[p].out \in UserPath /\ job[p].in \in UserPath
    BY JobPaths
  <1>5. Tmp(p) \in Path \ UserPath /\ UserPath \subseteq Path
    BY TmpIsHidden
  <1> QED
    BY <1>2, <1>3, <1>4, <1>5, PathAssumption

\* Writing at the end of a file appends to it.
LEMMA OverlayAtEnd ==
    ASSUME NEW c \in Contents, NEW s \in Contents
    PROVE  Overlay(c, Len(c), s) = c \o s
  <1> DEFINE o == Overlay(c, Len(c), s)
  <1>1. o \in Contents /\ c \o s \in Contents
    BY OverlayType DEF Contents
  <1>2. Len(o) = Len(c) + Len(s) /\ Len(c \o s) = Len(c) + Len(s)
    <2>1. Len(c) + Len(s) \in Nat /\ Len(c) \in Nat /\ Len(s) \in Nat
      BY DEF Contents
    <2>2. DOMAIN o = 1 .. Len(c) + Len(s)
      BY <2>1 DEF Overlay, Contents
    <2> QED
      BY <1>1, <2>1, <2>2 DEF Contents
  <1>3. ASSUME NEW i \in 1 .. Len(c) + Len(s)
        PROVE  o[i] = (c \o s)[i]
    BY <1>3 DEF Overlay, Contents
  <1> QED
    BY <1>1, <1>2, <1>3, SeqEqual DEF Contents

\* A spill at the end of the file appends the blocks, and touches no other file.
LEMMA SpillAppends ==
    ASSUME TypeOK, NEW p \in Proc, wr[p] \in Inode, off[p] = Len(data[wr[p]]),
           NEW s \in Contents, Spill(p, s)
    PROVE  /\ data'[wr[p]] = data[wr[p]] \o s
           /\ \A i \in Inode : i # wr[p] => data'[i] = data[i]
           /\ off'[p] = Len(data'[wr[p]])
           /\ buf'[p] = << >>
           /\ \A q \in Proc : q # p => off'[q] = off[q] /\ buf'[q] = buf[q]
  <1>1. data[wr[p]] \in Contents
    BY DEF TypeOK
  <1>2. data'[wr[p]] = data[wr[p]] \o s
    BY <1>1, OverlayAtEnd DEF Spill, TypeOK
  <1>3. off'[p] = Len(data[wr[p]]) + Len(s)
    BY DEF Spill, TypeOK
  <1>4. Len(data[wr[p]] \o s) = Len(data[wr[p]]) + Len(s)
    BY <1>1 DEF Contents
  <1> QED
    BY <1>2, <1>3, <1>4 DEF Spill, TypeOK

\* Appending commutes with concatenation.
LEMMA AppendToTail ==
    ASSUME NEW c \in Seq(Block), NEW s \in Seq(Block), NEW b \in Block
    PROVE  c \o Append(s, b) = Append(c \o s, b)
  <1> DEFINE u == c \o Append(s, b)
             v == Append(c \o s, b)
  <1>1. Append(s, b) \in Seq(Block) /\ c \o s \in Seq(Block)
    OBVIOUS
  <1>2. u \in Seq(Block) /\ v \in Seq(Block)
    BY <1>1
  <1>3. Len(u) = Len(c) + Len(s) + 1 /\ Len(v) = Len(c) + Len(s) + 1
    BY <1>1
  <1>4. ASSUME NEW i \in 1 .. Len(c) + Len(s) + 1
        PROVE  u[i] = v[i]
    <2>1. CASE i <= Len(c)
      BY <1>1, <1>4, <2>1
    <2>2. CASE Len(c) < i /\ i <= Len(c) + Len(s)
      BY <1>1, <1>4, <2>2
    <2>3. CASE i = Len(c) + Len(s) + 1
      BY <1>1, <1>4, <2>3
    <2> QED
      BY <1>4, <2>1, <2>2, <2>3
  <1> QED
    BY <1>2, <1>3, <1>4, SeqEqual

\* WriteBlock adds one block to what the run has written, buffered or not.
LEMMA WriteBlockAppends ==
    ASSUME TypeOK, NEW p \in Proc, wr[p] \in Inode, off[p] = Len(data[wr[p]]),
           NEW b \in Block, WriteBlock(p, b), wr' = wr
    PROVE  /\ Written(p)' = Append(Written(p), b)
           /\ Written(p) \in Contents
           /\ \A i \in Inode : i # wr[p] => data'[i] = data[i]
           /\ off'[p] = Len(data'[wr[p]])
           /\ \A q \in Proc : q # p => off'[q] = off[q] /\ buf'[q] = buf[q]
  <1>1. data[wr[p]] \in Seq(Block) /\ buf[p] \in Seq(Block)
    BY DEF TypeOK, Contents
  <1>2. Append(buf[p], b) \in Contents
    BY <1>1 DEF Contents
  <1>3. Written(p) \in Contents
    BY <1>1 DEF Written, Contents
  <1>4. data[wr[p]] \o Append(buf[p], b) = Append(data[wr[p]] \o buf[p], b)
    BY <1>1, AppendToTail
  <1>5. CASE Spill(p, Append(buf[p], b))
    <2>1. /\ data'[wr[p]] = data[wr[p]] \o Append(buf[p], b)
          /\ \A i \in Inode : i # wr[p] => data'[i] = data[i]
          /\ off'[p] = Len(data'[wr[p]])
          /\ buf'[p] = << >>
          /\ \A q \in Proc : q # p => off'[q] = off[q] /\ buf'[q] = buf[q]
      BY <1>2, <1>5, SpillAppends
    <2>2. Written(p)' = data[wr[p]] \o Append(buf[p], b)
      BY <1>1, <1>2, <2>1 DEF Written, Contents
    <2> QED
      BY <1>3, <1>4, <2>1, <2>2 DEF Written
  <1>6. CASE buf' = [buf EXCEPT ![p] = Append(@, b)] /\ UNCHANGED <<data, off>>
    <2>1. Written(p)' = data[wr[p]] \o Append(buf[p], b)
      BY <1>6 DEF Written, TypeOK
    <2> QED
      BY <1>3, <1>4, <1>6, <2>1 DEF Written, TypeOK
  <1> QED
    BY <1>5, <1>6 DEF WriteBlock

\* One more authentic chunk extends a sealed prefix.
LEMMA SealedPrefixGrows ==
    ASSUME NEW c \in Contents, NEW h, NEW pass, NEW n \in Nat, NEW b \in Block,
           SealedPrefix(c, h, pass, n),
           decrypt_chunk_ok(b, derive_key(pass, h.salt), h, n)
    PROVE  SealedPrefix(Append(c, b), h, pass, n + 1)
  <1>1. Len(c) = n + 1 /\ Len(Append(c, b)) = n + 2
    BY DEF SealedPrefix, Contents
  <1>2. \A i \in 1 .. n + 1 : Append(c, b)[i] = c[i]
    BY <1>1 DEF Contents
  <1>3. Append(c, b)[n + 2] = b
    BY <1>1 DEF Contents
  <1>4. ASSUME NEW i \in 1 .. n + 1
        PROVE  decrypt_chunk_ok(Append(c, b)[i + 1], derive_key(pass, h.salt), h,
                                i - 1)
    <2>1. CASE i = n + 1
      <3>1. i + 1 = n + 2 /\ i - 1 = n
        BY <2>1
      <3> QED
        BY <1>3, <3>1
    <2>2. CASE i \in 1 .. n
      <3>1. i + 1 \in 1 .. n + 1
        BY <2>2
      <3>2. Append(c, b)[i + 1] = c[i + 1]
        BY <1>2, <3>1
      <3> QED
        BY <2>2, <3>2 DEF SealedPrefix
    <2>3. i = n + 1 \/ i \in 1 .. n
      BY <1>4
    <2> QED
      BY <2>1, <2>2, <2>3
  <1>5. Append(c, b)[1] = header_write(h, derive_key(pass, h.salt))
    BY <1>2 DEF SealedPrefix
  <1> QED
    BY <1>1, <1>4, <1>5 DEF SealedPrefix

\* One more opened chunk extends an opened prefix.
LEMMA OpenedPrefixGrows ==
    ASSUME NEW c \in Contents, NEW r, NEW h, NEW pass, NEW n \in Nat,
           OpenedPrefix(c, r, h, pass, n),
           decrypt_chunk_ok(r[n + 2], derive_key(pass, h.salt), h, n),
           Plain(r[n + 2].d) \in Block
    PROVE  OpenedPrefix(Append(c, Plain(r[n + 2].d)), r, h, pass, n + 1)
  <1> DEFINE b == Plain(r[n + 2].d)
  <1>1. Len(c) = n /\ Len(Append(c, b)) = n + 1
    BY DEF OpenedPrefix, Contents
  <1>2. \A i \in 1 .. n : Append(c, b)[i] = c[i]
    BY <1>1 DEF Contents
  <1>3. Append(c, b)[n + 1] = b
    BY <1>1 DEF Contents
  <1>4. ASSUME NEW i \in 1 .. n + 1
        PROVE  /\ decrypt_chunk_ok(r[i + 1], derive_key(pass, h.salt), h, i - 1)
               /\ Append(c, b)[i] = Plain(r[i + 1].d)
    <2>1. CASE i = n + 1
      <3>1. i + 1 = n + 2 /\ i - 1 = n
        BY <2>1
      <3> QED
        BY <1>3, <2>1, <3>1
    <2>2. CASE i \in 1 .. n
      BY <1>2, <2>2 DEF OpenedPrefix
    <2>3. i = n + 1 \/ i \in 1 .. n
      BY <1>4
    <2> QED
      BY <2>1, <2>2, <2>3
  <1> QED
    BY <1>1, <1>4 DEF OpenedPrefix

\* A sealed prefix with as many chunks as its header says is a ciphertext.
LEMMA SealedComplete ==
    ASSUME NEW c \in Contents, NEW h \in Header, NEW pass \in Pass,
           SealedPrefix(c, h, pass, h.chunk_count)
    PROVE  IsCiphertextOf(c, h, pass) /\ IsCiphertext(c)
  <1>1. c # << >>
    BY DEF SealedPrefix, Contents, Header
  <1>2. IsCiphertextOf(c, h, pass)
    BY <1>1 DEF SealedPrefix, IsCiphertextOf
  <1>3. c[1].kind = "header" /\ c[1].hdr = h /\ c[1].hmac.subkey.pass = pass
    BY DEF SealedPrefix, header_write, compute_hmac, derive_key
  <1> QED
    BY <1>1, <1>2, <1>3 DEF IsCiphertext

\* Opening every chunk of a file, as many as its header says, is opening a
\* ciphertext, and yields its whole text.
LEMMA OpenedComplete ==
    ASSUME NEW c \in Contents, NEW r \in Contents,
           NEW h \in Header, NEW pass \in Pass,
           Len(r) = h.chunk_count + 1,
           r[1] = header_write(h, derive_key(pass, h.salt)),
           OpenedPrefix(c, r, h, pass, h.chunk_count)
    PROVE  IsCiphertextOf(r, h, pass) /\ IsCiphertext(r) /\ c = PlainOf(r)
  <1>0. h.chunk_count \in Nat
    BY DEF Header
  <1>1. SealedPrefix(r, h, pass, h.chunk_count)
    BY <1>0 DEF SealedPrefix, OpenedPrefix
  <1>2. IsCiphertextOf(r, h, pass) /\ IsCiphertext(r)
    BY <1>1, SealedComplete
  <1>3. Len(r) - 1 = h.chunk_count
    BY <1>0
  <1>4. DOMAIN c = 1 .. h.chunk_count
    BY DEF OpenedPrefix, Contents
  <1>5. c = [i \in 1 .. h.chunk_count |-> c[i]]
    BY <1>4 DEF Contents
  <1>6. \A i \in 1 .. h.chunk_count : c[i] = Plain(r[i + 1].d)
    BY DEF OpenedPrefix
  <1>7. c = PlainOf(r)
    BY <1>3, <1>5, <1>6 DEF PlainOf
  <1> QED
    BY <1>2, <1>7

\* A text is no ciphertext.
LEMMA PlainIsNoCiphertext ==
    ASSUME NEW c \in Contents, NEW r \in Contents, c = PlainOf(r)
    PROVE  ~IsCiphertext(c)
  <1>1. SUFFICES ASSUME c # << >> PROVE c[1].kind # "header"
    BY DEF IsCiphertext
  <1>2. 1 \in DOMAIN c
    BY <1>1 DEF Contents
  <1>3. c[1] = Plain(r[2].d)
    <2>1. 1 \in 1 .. Len(r) - 1
      BY <1>2 DEF PlainOf
    <2> QED
      BY <2>1 DEF PlainOf
  <1> QED
    BY <1>3 DEF Plain

LEMMA EditIsNoCiphertext ==
    ASSUME NEW c \in EditText
    PROVE  c \in Contents /\ ~IsCiphertext(c)
  <1>1. c \in Seq(PlainBlock)
    BY PathAssumption
  <1>2. c # << >> => c[1] \in PlainBlock
    BY <1>1
  <1>3. c # << >> => c[1].kind # "header"
    BY <1>2 DEF PlainBlock
  <1> QED
    BY <1>1, <1>3 DEF IsCiphertext, Contents, Block

\* A decryption about to rename has opened the whole of what it read.
LEMMA ReadyToPublish ==
    ASSUME TypeInv, NEW p \in Proc, WriterAt(p), pc[p] = "rename"
    PROVE  /\ job[p].op = "enc" => IsCiphertext(data[wr[p]])
           /\ job[p].op = "dec" =>
                 /\ IsCiphertextOf(data[rd[p]], hdr[p], job[p].pass)
                 /\ IsCiphertext(data[rd[p]])
                 /\ data[wr[p]] = PlainOf(data[rd[p]])
  <1>1. /\ hdr[p] \in Header /\ rd[p] \in Inode /\ wr[p] \in Inode
        /\ data[rd[p]] \in Contents /\ data[wr[p]] \in Contents
        /\ job[p].pass \in Pass
    BY JobPaths DEF TypeInv, TypeOK, Obtained
  <1>2. Written(p) = data[wr[p]]
    BY <1>1, ConcatEmptySeq DEF WriterAt, Written, Contents
  <1>3. idx[p] = hdr[p].chunk_count
    BY DEF WriterAt
  <1>4. ASSUME job[p].op = "enc" PROVE IsCiphertext(data[wr[p]])
    <2>1. SealedPrefix(data[wr[p]], hdr[p], job[p].pass, hdr[p].chunk_count)
      BY <1>2, <1>3, <1>4 DEF WriterAt, Writing
    <2> QED
      BY <1>1, <2>1, SealedComplete
  <1>5. ASSUME job[p].op = "dec"
        PROVE  /\ IsCiphertextOf(data[rd[p]], hdr[p], job[p].pass)
               /\ IsCiphertext(data[rd[p]])
               /\ data[wr[p]] = PlainOf(data[rd[p]])
    <2>1. /\ Len(data[rd[p]]) = hdr[p].chunk_count + 1
          /\ data[rd[p]][1] = header_write(hdr[p],
                                  derive_key(job[p].pass, hdr[p].salt))
          /\ OpenedPrefix(data[wr[p]], data[rd[p]], hdr[p], job[p].pass,
                          hdr[p].chunk_count)
      BY <1>2, <1>3, <1>5 DEF WriterAt, Writing, KeyOf
    <2> QED
      BY <1>1, <2>1, OpenedComplete
  <1> QED
    BY <1>4, <1>5

\* What a run writes is nobody else's: no name of the user's, no file that is
\* being read, no other run's file.
LEMMA WriterAlone ==
    ASSUME IInv, ExclusiveTmp, NEW p \in Proc, pc[p] \in Writing
    PROVE  /\ wr[p] \in Inode
           /\ \A x \in UserPath : fs[x] # wr[p]
           /\ \A q \in Proc : rd[q] # wr[p]
           /\ \A q \in Proc : q # p /\ pc[q] \in Writing => wr[q] # wr[p]
           /\ \A q \in Proc : pc[q] \in Published => wr[q] # wr[p]
  <1>1. TypeOK /\ JobsFixed /\ Injective /\ OwnTmp /\ ReadersApart
    BY DEF IInv, TypeInv
  <1>2. wr[p] \in Inode
    BY DEF IInv, TypeInv, Obtained, Writing
  <1>3. fs[Tmp(p)] = wr[p]
    BY <1>1 DEF OwnTmp
  <1>4. /\ Tmp(p) \in Path \ UserPath /\ UserPath \subseteq Path
        /\ \A q \in Proc : Tmp(q) \in Path /\ (Tmp(q) = Tmp(p) => q = p)
    BY <1>1, JobFacts
  <1>5. \A x \in UserPath : fs[x] # wr[p]
    BY <1>1, <1>2, <1>3, <1>4 DEF Injective
  <1>6. \A q \in Proc : rd[q] # wr[p]
    BY <1>1, <1>2, <1>3, <1>4 DEF ReadersApart
  <1>7. \A q \in Proc : q # p /\ pc[q] \in Writing => wr[q] # wr[p]
    BY <1>1, <1>2, <1>3, <1>4 DEF OwnTmp, Injective
  <1>8. \A q \in Proc : pc[q] \in Published => wr[q] # wr[p]
    BY <1>1, <1>3, <1>4 DEF ReadersApart, Settled
  <1> QED
    BY <1>2, <1>5, <1>6, <1>7, <1>8

-----------------------------------------------------------------------------
(* Steps of a run that leave every name alone.                              *)

\* p's step leaves the other runs alone, and every file but the one p writes.
OthersAlone(p) ==
    /\ UNCHANGED <<job, fs, sealed, wr>>
    /\ \A q \in Proc \ {p} :
          /\ pc'[q] = pc[q] /\ hdr'[q] = hdr[q] /\ rd'[q] = rd[q]
          /\ off'[q] = off[q] /\ buf'[q] = buf[q] /\ idx'[q] = idx[q]
    /\ \A i \in Inode : data'[i] = data[i] \/ (pc[p] \in Writing /\ i = wr[p])

\* p opens at most its input, and does not jump over File::create or rename.
OwnMove(p) ==
    /\ \/ rd'[p] = rd[p]
       \/ pc[p] = "open" /\ rd'[p] = fs[job[p].in] /\ fs[job[p].in] \in Inode
    /\ pc[p] \in Published => hdr'[p] = hdr[p]
    /\ pc'[p] \in Early =>
          /\ pc[p] \in Early
          /\ off'[p] = off[p] /\ buf'[p] = buf[p] /\ idx'[p] = idx[p]
    /\ pc'[p] \in Writing => pc[p] \in Writing
    /\ pc'[p] \in Published => pc[p] \in Published
    /\ pc'[p] = "failed" => pc[p] \in Early \cup Published

LocalStep(p) == OthersAlone(p) /\ OwnMove(p)

\* What the user put on the disk does not change as long as the jobs do not.
LEMMA SameGiven ==
    ASSUME job' = job
    PROVE  Given' = Given
  BY DEF Given

\* Such a step keeps the invariant, if it keeps it for p's own file.
LEMMA LocalStepInv ==
    ASSUME IInv, ExclusiveTmp, NEW p \in Proc, LocalStep(p), TypeInv', WriterAt(p)'
    PROVE  IInv'
  <1>0. /\ TypeInv /\ TypeOK /\ JobsFixed /\ Injective /\ Untouched /\ OwnTmp
        /\ ReadersApart /\ WriterInv /\ ArchiveInv /\ OutputIntact
        /\ OpensWhatWasSealed
    BY DEF IInv, TypeInv
  <1>1. job' = job /\ fs' = fs /\ sealed' = sealed /\ wr' = wr
    BY DEF LocalStep, OthersAlone, OwnMove
  <1>2. \A q \in Proc : Tmp(q)' = Tmp(q)
    BY <1>1 DEF Tmp
  <1>3. /\ job[p].in \in UserPath
        /\ job[p].op = "dec" => job[p].in \notin EditPath
        /\ UserPath \subseteq Path /\ EditPath \subseteq UserPath
    BY <1>0, JobFacts
  <1>4. ASSUME NEW i \in Inode, pc[p] \in Writing => i # wr[p]
        PROVE  data'[i] = data[i]
    BY <1>4 DEF LocalStep, OthersAlone, OwnMove
  <1>5. \A x \in UserPath : fs[x] \in Inode => data'[fs[x]] = data[fs[x]]
    BY <1>4, WriterAlone
  <1>6. \A q \in Proc : rd[q] \in Inode => data'[rd[q]] = data[rd[q]]
    BY <1>4, WriterAlone
  <1>7. \A q \in Proc : q # p /\ pc[q] \in Writing => data'[wr[q]] = data[wr[q]]
    <2>1. \A q \in Proc : pc[q] \in Writing => wr[q] \in Inode
      BY <1>0 DEF TypeInv, Obtained, Writing
    <2> QED
      BY <1>4, <2>1, WriterAlone
  <1>8. \A q \in Proc : pc[q] \in Published => data'[wr[q]] = data[wr[q]]
    <2>1. \A q \in Proc : pc[q] \in Published => wr[q] \in Inode
      BY <1>0 DEF TypeInv, Obtained, Published
    <2> QED
      BY <1>4, <2>1, WriterAlone
  <1>10. JobsFixed' /\ Injective'
    BY <1>0, <1>1 DEF JobsFixed, Injective
  <1>11. Untouched'
    <2>1. ASSUME NEW q \in Proc, pc'[q] \in Early
          PROVE  /\ pc[q] \in Early
                 /\ off'[q] = off[q] /\ buf'[q] = buf[q] /\ idx'[q] = idx[q]
      BY <2>1 DEF LocalStep, OthersAlone, OwnMove
    <2>2. ASSUME NEW q \in Proc, pc'[q] \in Published
          PROVE  pc[q] \in Published
      BY <2>2 DEF LocalStep, OthersAlone, OwnMove
    <2>3. ASSUME NEW q \in Proc, NEW o \in Proc, pc'[o] \in Early
          PROVE  rd'[q] # o
      BY <1>0, <1>3, <2>1, <2>3 DEF LocalStep, OthersAlone, OwnMove, Untouched
    <2> QED
      BY <1>0, <1>1, <2>1, <2>2, <2>3 DEF Untouched
  <1>12. OwnTmp'
    <2>1. ASSUME NEW q \in Proc
          PROVE  /\ pc'[q] \in Writing => pc[q] \in Writing
                 /\ pc'[q] \in Published => pc[q] \in Published
                 /\ pc'[q] = "failed" =>
                       pc[q] = "failed" \/ pc[q] \in Early \cup Published
      BY DEF LocalStep, OthersAlone, OwnMove
    <2>2. \A q \in Proc : pc[q] \in Early => wr[q] = Nil
      BY <1>0 DEF Untouched
    <2>3. \A q \in Proc : pc[q] \in Published /\ wr[q] # Nil => fs[Tmp(q)] # wr[q]
      BY <1>0, InodeAssumption DEF OwnTmp, TypeOK
    <2> QED
      BY <1>0, <1>1, <1>2, <2>1, <2>2, <2>3 DEF OwnTmp
  <1>13. ReadersApart'
    <2>1. ASSUME NEW q \in Proc, pc'[q] \in Published
          PROVE  pc[q] \in Published
      BY <2>1 DEF LocalStep, OthersAlone, OwnMove
    <2>2. ASSUME NEW q \in Proc, rd'[q] # rd[q]
          PROVE  q = p /\ rd'[p] = fs[job[p].in] /\ fs[job[p].in] \in Inode
      BY <2>2 DEF LocalStep, OthersAlone, OwnMove
    <2>3. \A x \in Path : fs[x] = fs[job[p].in] /\ fs[x] \in Inode => x = job[p].in
      BY <1>0, <1>3 DEF Injective
    <2> QED
      BY <1>0, <1>1, <1>3, <2>1, <2>2, <2>3 DEF ReadersApart, Settled
  <1>14. WriterInv'
    <2>1. ASSUME NEW q \in Proc, q # p
          PROVE  WriterAt(q)'
      <3>1. /\ pc'[q] = pc[q] /\ hdr'[q] = hdr[q] /\ rd'[q] = rd[q]
            /\ off'[q] = off[q] /\ buf'[q] = buf[q] /\ idx'[q] = idx[q]
            /\ wr'[q] = wr[q] /\ job'[q] = job[q]
        BY <1>1, <2>1 DEF LocalStep, OthersAlone, OwnMove
      <3>2. pc[q] \in Writing => data'[wr[q]] = data[wr[q]]
        BY <1>7, <2>1
      <3>3. pc[q] \in Writing \cup {"create"} => data'[rd[q]] = data[rd[q]]
        BY <1>0, <1>6 DEF TypeInv, Obtained, Writing
      <3>4. WriterAt(q)
        BY <1>0 DEF WriterInv
      <3>5. pc[q] \in Writing => Written(q)' = Written(q)
        BY <3>1, <3>2 DEF Written
      <3>6. KeyOf(q)' = KeyOf(q)
        BY <3>1 DEF KeyOf
      <3> QED
        BY <3>1, <3>2, <3>3, <3>4, <3>5, <3>6 DEF WriterAt, Writing
    <2> QED
      BY <2>1 DEF WriterInv
  <1>15. ArchiveInv'
    <2>1. ASSUME NEW x \in UserPath, fs[x] \in Inode
          PROVE  Archived(fs[x])'
      BY <1>0, <1>1, <1>5, <2>1 DEF ArchiveInv, Archived
    <2>2. ASSUME NEW q \in Proc, rd'[q] \in Inode, job[q].op = "dec"
          PROVE  Archived(rd[q])'
      <3>1. CASE rd'[q] = rd[q]
        BY <1>0, <1>1, <1>6, <2>2, <3>1 DEF ArchiveInv, Archived
      <3>2. CASE rd'[q] # rd[q]
        <4>1. rd'[q] = fs[job[p].in] /\ fs[job[p].in] \in Inode
          BY <3>2 DEF LocalStep, OthersAlone, OwnMove
        <4> QED
          BY <1>0, <1>1, <1>3, <1>5, <4>1 DEF ArchiveInv, Archived
      <3> QED
        BY <3>1, <3>2
    <2> QED
      BY <1>1, <2>1, <2>2 DEF ArchiveInv
  <1>16. OutputIntact'
    BY <1>0, <1>1, <1>5, SameGiven DEF OutputIntact
  <1>17. OpensWhatWasSealed'
    <2> SUFFICES ASSUME NEW q \in Proc, job'[q].op = "dec",
                        pc'[q] \in {"rename", "report", "done"}
                 PROVE  /\ IsCiphertextOf(data'[rd'[q]], hdr'[q], job'[q].pass)
                        /\ data'[wr'[q]] = PlainOf(data'[rd'[q]])
      BY DEF OpensWhatWasSealed
    <2>1. CASE pc'[q] = "rename"
      <3>1. WriterAt(q)'
        BY <1>14 DEF WriterInv
      <3>2. /\ hdr'[q] \in Header
            /\ data'[rd'[q]] \in Contents /\ data'[wr'[q]] \in Contents
            /\ job'[q].pass \in Pass
        BY <1>0, <1>1, <2>1, JobPaths DEF TypeInv, TypeOK, Obtained
      <3>3. idx'[q] = hdr'[q].chunk_count /\ buf'[q] = << >>
        BY <2>1, <3>1 DEF WriterAt
      <3>4. data'[wr'[q]] \o buf'[q] = data'[wr'[q]]
        BY <3>2, <3>3, ConcatEmptySeq DEF Contents
      <3>5. /\ Len(data'[rd'[q]]) = hdr'[q].chunk_count + 1
            /\ data'[rd'[q]][1] = header_write(hdr'[q],
                                     derive_key(job'[q].pass, hdr'[q].salt))
            /\ OpenedPrefix(data'[wr'[q]], data'[rd'[q]], hdr'[q], job'[q].pass,
                            hdr'[q].chunk_count)
        BY <2>1, <3>1, <3>3, <3>4 DEF WriterAt, Writing, Written, KeyOf
      <3> QED
        BY <3>2, <3>5, OpenedComplete
    <2>2. CASE pc'[q] \in Published
      <3>1. /\ pc[q] \in Published /\ hdr'[q] = hdr[q] /\ rd'[q] = rd[q]
        BY <2>2 DEF LocalStep, OthersAlone, OwnMove, Published
      <3>2. pc[q] \in {"report", "done"}
        BY <3>1 DEF Published
      <3>3. rd[q] \in Inode /\ wr[q] \in Inode
        BY <1>0, <3>1, <3>2 DEF TypeInv, Obtained
      <3> QED
        BY <1>0, <1>1, <1>6, <1>8, <3>1, <3>2, <3>3 DEF OpensWhatWasSealed
    <2> QED
      BY <2>1, <2>2 DEF Published
  <1> QED
    BY <1>10, <1>11, <1>12, <1>13, <1>14, <1>15, <1>16, <1>17 DEF IInv

\* The steps that neither write nor move a run into or out of its writing: the
\* refusals, the reads before File::create, the returns and the crash.
LEMMA IdleStepInv ==
    ASSUME IInv, ExclusiveTmp, NEW p \in Proc, TypeInv',
           \/ Refuse(p) \/ Begin(p) \/ Stat(p) \/ OpenInput(p) \/ Report(p)
           \/ IoErrorEarly(p) \/ IoErrorLeavesTmp(p) \/ IoErrorLate(p) \/ Crash(p)
    PROVE  IInv'
  <1>0. TypeOK /\ WriterAt(p) /\ job[p].op \in {"enc", "dec"}
    BY JobPaths DEF IInv, TypeInv, WriterInv
  <1>1. /\ UNCHANGED <<job, fs, data, wr, off, buf, idx, sealed>>
        /\ \A q \in Proc \ {p} :
              pc'[q] = pc[q] /\ hdr'[q] = hdr[q] /\ rd'[q] = rd[q]
    BY <1>0 DEF Refuse, Begin, Stat, OpenInput, Report, IoErrorEarly,
           IoErrorLeavesTmp, IoErrorLate, Crash, Return, Goto, local, history, TypeOK
  <1>2. /\ \/ rd'[p] = rd[p]
           \/ pc[p] = "open" /\ rd'[p] = fs[job[p].in] /\ fs[job[p].in] \in Inode
        /\ pc[p] \in Published => hdr'[p] = hdr[p]
    BY <1>0 DEF Refuse, Begin, Stat, OpenInput, Report, IoErrorEarly, Published,
           IoErrorLeavesTmp, IoErrorLate, Crash, Return, Goto, local, history, TypeOK
  <1>3. \/ pc'[p] \in {"stat", "open", "readhdr"} /\ pc[p] \in Early
        \/ pc'[p] = "create" /\ pc[p] \in Early /\ job[p].op = "enc"
        \/ pc'[p] = "failed" /\ pc[p] \in Early \cup Published
        \/ pc'[p] = "done" /\ pc[p] \in Published
        \/ pc'[p] \in {"littered", "crashed"}
    BY <1>0 DEF Refuse, Begin, Stat, OpenInput, Report, IoErrorEarly, Published,
           IoErrorLeavesTmp, IoErrorLate, Crash, Return, Goto, Early, TypeOK
  <1>4. LocalStep(p)
    <2>a. OthersAlone(p)
      BY <1>1, <1>2, <1>3 DEF OthersAlone, Writing
    <2>b. OwnMove(p)
      BY <1>1, <1>2, <1>3 DEF OwnMove, Early, Writing, Published
    <2> QED
      BY <2>a, <2>b DEF LocalStep
  <1>5. WriterAt(p)'
    BY <1>1, <1>3 DEF WriterAt, Writing
  <1> QED
    BY <1>4, <1>5, LocalStepInv

\* ReadHeader: the header a decryption goes on with is the file's own, and
\* authentic.
LEMMA ReadHeaderInv ==
    ASSUME IInv, ExclusiveTmp, NEW p \in Proc, TypeInv', ReadHeader(p)
    PROVE  IInv'
  <1> DEFINE c == data[rd[p]]
             r == header_read(c, job[p].pass)
  <1>0. TypeOK /\ rd[p] \in Inode /\ c \in Contents
    BY DEF IInv, TypeInv, TypeOK, Obtained, ReadHeader
  <1>1. /\ pc[p] = "readhdr"
        /\ UNCHANGED <<job, fs, data, rd, wr, off, buf, idx, sealed>>
        /\ \A q \in Proc \ {p} : pc'[q] = pc[q] /\ hdr'[q] = hdr[q]
    BY <1>0 DEF ReadHeader, Return, Goto, history, TypeOK
  <1>2. CASE r = "ok" /\ hdr' = [hdr EXCEPT ![p] = c[1].hdr] /\ Goto(p, "create")
    <2>1. /\ Len(c) >= 1 /\ c[1].kind = "header"
          /\ c[1].hmac = compute_hmac(c[1].hdr, derive_key(job[p].pass, c[1].hdr.salt))
      BY <1>0, <1>2, HeaderRead
    <2>2. hdr'[p] = c[1].hdr /\ pc'[p] = "create"
      BY <1>0, <1>2 DEF Goto, TypeOK
    <2>3. c[1] \in HeaderBlock
      <3>1. c[1] \in Block
        BY <1>0, <2>1 DEF Contents
      <3> QED
        BY <2>1, <3>1 DEF Block, PlainBlock, HeaderBlock, ChunkBlock, HoleBlock
    <2>4. c[1] = header_write(hdr'[p], derive_key(job[p].pass, hdr'[p].salt))
      BY <2>1, <2>2, <2>3 DEF HeaderBlock, header_write
    <2>5. LocalStep(p)
      <3>a. OthersAlone(p)
        BY <1>1, <2>2 DEF OthersAlone, Writing
      <3>b. OwnMove(p)
        BY <1>1, <2>2 DEF OwnMove, Early, Writing, Published
      <3> QED
        BY <3>a, <3>b DEF LocalStep
    <2>6. WriterAt(p)'
      BY <1>1, <2>1, <2>2, <2>4 DEF WriterAt, Writing, KeyOf
    <2> QED
      BY <2>5, <2>6, LocalStepInv
  <1>3. CASE r # "ok" /\ Return(p, "failed", r) /\ UNCHANGED hdr
    <2>1. pc'[p] = "failed"
      BY <1>0, <1>3 DEF Return, Goto, TypeOK
    <2>2. LocalStep(p)
      <3>a. OthersAlone(p)
        BY <1>1, <2>1 DEF OthersAlone, Writing
      <3>b. OwnMove(p)
        BY <1>1, <2>1 DEF OwnMove, Early, Writing, Published
      <3> QED
        BY <3>a, <3>b DEF LocalStep
    <2>3. WriterAt(p)'
      BY <2>1 DEF WriterAt, Writing
    <2> QED
      BY <2>2, <2>3, LocalStepInv
  <1> QED
    BY <1>2, <1>3 DEF ReadHeader

\* WriteHeader starts a sealed prefix of no chunks.
LEMMA WriteHeaderInv ==
    ASSUME IInv, ExclusiveTmp, NEW p \in Proc, TypeInv', WriteHeader(p)
    PROVE  IInv'
  <1> DEFINE b == header_write(hdr[p], KeyOf(p))
  <1>0. /\ TypeOK /\ WriterAt(p) /\ hdr[p] \in Header /\ wr[p] \in Inode
        /\ job[p].pass \in Pass
    BY JobPaths DEF IInv, TypeInv, WriterInv, Obtained, WriteHeader
  <1>1. /\ pc[p] = "header" /\ pc'[p] = "chunks"
        /\ UNCHANGED <<job, fs, data, hdr, rd, wr, off, idx, sealed>>
        /\ \A q \in Proc \ {p} : pc'[q] = pc[q] /\ buf'[q] = buf[q]
        /\ buf'[p] = <<b>>
    BY <1>0 DEF WriteHeader, Goto, history, TypeOK
  <1>2. LocalStep(p)
    <2>a. OthersAlone(p)
      BY <1>1 DEF OthersAlone, Writing
    <2>b. OwnMove(p)
      BY <1>1 DEF OwnMove, Early, Writing, Published
    <2> QED
      BY <2>a, <2>b DEF LocalStep
  <1>3. /\ job[p].op = "enc" /\ data[wr[p]] = << >> /\ idx[p] = 0
        /\ off[p] = Len(data[wr[p]])
    BY <1>0, <1>1 DEF WriterAt, Writing
  <1>4. b \in Block
    BY <1>0, HeaderIsBlock DEF KeyOf
  <1>5. Written(p)' = <<b>>
    <2>1. Written(p)' = << >> \o <<b>>
      BY <1>1, <1>3 DEF Written
    <2> QED
      BY <1>4, <2>1, ConcatEmptySeq
  <1>6. SealedPrefix(<<b>>, hdr[p], job[p].pass, 0)
    BY DEF SealedPrefix, KeyOf
  <1>7. WriterAt(p)'
    BY <1>1, <1>3, <1>5, <1>6 DEF WriterAt, Writing
  <1> QED
    BY <1>2, <1>7, LocalStepInv

\* EncryptChunk adds one authentic chunk.
LEMMA EncryptChunkInv ==
    ASSUME IInv, ExclusiveTmp, NEW p \in Proc, TypeInv', EncryptChunk(p)
    PROVE  IInv'
  <1> DEFINE d == Datum(data[rd[p]][idx[p] + 1])
             b == encrypt_chunk(d, KeyOf(p), hdr[p], idx[p])
  <1>0. /\ TypeOK /\ WriterAt(p) /\ hdr[p] \in Header /\ wr[p] \in Inode
        /\ rd[p] \in Inode /\ job[p].pass \in Pass
        /\ idx[p] \in Nat
    BY JobPaths DEF IInv, TypeInv, TypeOK, WriterInv, Obtained, EncryptChunk
  <1>1. /\ pc[p] = "chunks" /\ job[p].op = "enc"
        /\ pc'[p] \in {"chunks", "flush"}
        /\ UNCHANGED <<job, fs, hdr, rd, wr, sealed>>
        /\ \A q \in Proc \ {p} : pc'[q] = pc[q] /\ idx'[q] = idx[q]
        /\ idx'[p] = idx[p] + 1
    BY <1>0 DEF EncryptChunk, Goto, history, TypeOK
  <1>2. b \in Block
    <2>1. data[rd[p]][idx[p] + 1] \in Block
      BY <1>0 DEF EncryptChunk, TypeOK, Contents
    <2> QED
      BY <1>0, <2>1, DatumIsChunk, SealedIsBlock DEF KeyOf
  <1>3. /\ off[p] = Len(data[wr[p]])
        /\ SealedPrefix(Written(p), hdr[p], job[p].pass, idx[p])
    BY <1>0, <1>1 DEF WriterAt, Writing
  <1>4. WriteBlock(p, b)
    BY DEF EncryptChunk
  <1>5. /\ Written(p)' = Append(Written(p), b)
        /\ Written(p) \in Contents
        /\ \A i \in Inode : i # wr[p] => data'[i] = data[i]
        /\ off'[p] = Len(data'[wr[p]])
        /\ \A q \in Proc : q # p => off'[q] = off[q] /\ buf'[q] = buf[q]
    BY <1>0, <1>1, <1>2, <1>3, <1>4, WriteBlockAppends
  <1>6. decrypt_chunk_ok(b, KeyOf(p), hdr[p], idx[p])
    BY DEF decrypt_chunk_ok, encrypt_chunk
  <1>7. SealedPrefix(Append(Written(p), b), hdr[p], job[p].pass, idx[p] + 1)
    BY <1>0, <1>2, <1>3, <1>5, <1>6, SealedPrefixGrows DEF KeyOf
  <1>8. LocalStep(p)
    <2>a. OthersAlone(p)
      BY <1>1, <1>5 DEF OthersAlone, Writing
    <2>b. OwnMove(p)
      BY <1>1, <1>5 DEF OwnMove, Early, Writing, Published
    <2> QED
      BY <2>a, <2>b DEF LocalStep
  <1>9. WriterAt(p)'
    BY <1>1, <1>5, <1>7 DEF WriterAt, Writing
  <1> QED
    BY <1>8, <1>9, LocalStepInv

\* DecryptChunk adds the text of one authentic chunk.
LEMMA DecryptChunkInv ==
    ASSUME IInv, ExclusiveTmp, NEW p \in Proc, TypeInv', DecryptChunk(p)
    PROVE  IInv'
  <1> DEFINE r == data[rd[p]]
             b == r[idx[p] + 2]
  <1>0. /\ TypeOK /\ WriterAt(p) /\ hdr[p] \in Header /\ wr[p] \in Inode
        /\ rd[p] \in Inode /\ idx[p] \in Nat /\ r \in Contents
    BY DEF IInv, TypeInv, TypeOK, WriterInv, Obtained, DecryptChunk
  <1>1. /\ pc[p] = "chunks" /\ job[p].op = "dec"
        /\ idx[p] + 1 < Len(r)
        /\ UNCHANGED <<job, fs, pc, hdr, rd, wr, sealed>>
        /\ \A q \in Proc \ {p} : idx'[q] = idx[q]
        /\ idx'[p] = idx[p] + 1
        /\ decrypt_chunk_ok(b, KeyOf(p), hdr[p], idx[p])
        /\ WriteBlock(p, Plain(b.d))
    BY <1>0 DEF DecryptChunk, history, TypeOK
  <1>2. Plain(b.d) \in Block
    <2>1. b \in Block
      BY <1>0, <1>1 DEF Contents
    <2> QED
      BY <1>1, <2>1, OpenedIsChunk, PlainIsBlock
  <1>3. /\ off[p] = Len(data[wr[p]])
        /\ Len(r) >= 1
        /\ r[1] = header_write(hdr[p], KeyOf(p))
        /\ OpenedPrefix(Written(p), r, hdr[p], job[p].pass, idx[p])
    BY <1>0, <1>1 DEF WriterAt, Writing
  <1>4. /\ Written(p)' = Append(Written(p), Plain(b.d))
        /\ Written(p) \in Contents
        /\ \A i \in Inode : i # wr[p] => data'[i] = data[i]
        /\ off'[p] = Len(data'[wr[p]])
        /\ \A q \in Proc : q # p => off'[q] = off[q] /\ buf'[q] = buf[q]
    BY <1>0, <1>1, <1>2, <1>3, WriteBlockAppends
  <1>5. OpenedPrefix(Append(Written(p), Plain(b.d)), r, hdr[p], job[p].pass,
                     idx[p] + 1)
    BY <1>0, <1>1, <1>2, <1>3, <1>4, OpenedPrefixGrows DEF KeyOf
  <1>6. data'[rd[p]] = r
    <2>1. rd[p] # wr[p]
      BY <1>1, WriterAlone DEF Writing
    <2> QED
      BY <1>0, <1>4, <2>1
  <1>7. LocalStep(p)
    <2>a. OthersAlone(p)
      BY <1>1, <1>4 DEF OthersAlone, Writing
    <2>b. OwnMove(p)
      BY <1>1, <1>4 DEF OwnMove, Early, Writing, Published
    <2> QED
      BY <2>a, <2>b DEF LocalStep
  <1>8. WriterAt(p)'
    <2>1. /\ pc'[p] = "chunks" /\ job'[p] = job[p] /\ hdr'[p] = hdr[p]
          /\ rd'[p] = rd[p] /\ wr'[p] = wr[p] /\ KeyOf(p)' = KeyOf(p)
      BY <1>1 DEF KeyOf
    <2>2. idx'[p] + 1 <= Len(r)
      BY <1>0, <1>1 DEF Contents
    <2> QED
      BY <1>1, <1>3, <1>4, <1>5, <1>6, <2>1, <2>2 DEF WriterAt, Writing
  <1> QED
    BY <1>7, <1>8, LocalStepInv

\* An error in the closure spoils at most the run's own file.
LEMMA FailBodyInv ==
    ASSUME IInv, ExclusiveTmp, NEW p \in Proc, TypeInv',
           RejectChunk(p) \/ IoErrorBody(p)
    PROVE  IInv'
  <1>0. TypeOK /\ WriterAt(p) /\ Untouched
    BY DEF IInv, TypeInv, WriterInv
  <1>1. PICK e : FailBody(p, e)
    BY DEF RejectChunk, IoErrorBody
  <1>2. /\ UNCHANGED <<job, fs, hdr, rd, wr, idx, sealed>>
        /\ pc[p] \in {"open", "create", "header", "chunks", "flush"}
    BY DEF RejectChunk, IoErrorBody, history
  <1>3. pc'[p] = "cleanup" /\ \A q \in Proc \ {p} : pc'[q] = pc[q]
    BY <1>0, <1>1 DEF FailBody, Return, Goto, TypeOK
  <1>4. CASE buf[p] # << >> /\ Spill(p, buf[p])
    <2>1. pc[p] \in Writing
      BY <1>0, <1>2, <1>4 DEF Untouched, Early, Writing
    <2>2. wr[p] \in Inode /\ off[p] = Len(data[wr[p]])
      BY <1>0, <2>1, WriterAlone DEF WriterAt
    <2>3. buf[p] \in Contents
      BY <1>0 DEF TypeOK, Contents
    <2>4. /\ \A i \in Inode : i # wr[p] => data'[i] = data[i]
          /\ \A q \in Proc : q # p => off'[q] = off[q] /\ buf'[q] = buf[q]
      BY <1>0, <1>4, <2>2, <2>3, SpillAppends
    <2>5. OthersAlone(p)
      BY <1>2, <1>3, <2>1, <2>4 DEF OthersAlone
    <2>6. OwnMove(p)
      BY <1>2, <1>3 DEF OwnMove, Early, Writing, Published
    <2>7. WriterAt(p)'
      BY <1>3 DEF WriterAt, Writing
    <2> QED
      BY <2>5, <2>6, <2>7, LocalStepInv DEF LocalStep
  <1>5. CASE buf' = [buf EXCEPT ![p] = << >>] /\ UNCHANGED <<data, off>>
    <2>1. OthersAlone(p)
      BY <1>0, <1>2, <1>3, <1>5 DEF OthersAlone, TypeOK
    <2>2. OwnMove(p)
      BY <1>2, <1>3 DEF OwnMove, Early, Writing, Published
    <2>3. WriterAt(p)'
      BY <1>3 DEF WriterAt, Writing
    <2> QED
      BY <2>1, <2>2, <2>3, LocalStepInv DEF LocalStep
  <1> QED
    BY <1>1, <1>4, <1>5 DEF FailBody

\* At the end of its input a decryption has opened every chunk there is.
LEMMA EndOfInputInv ==
    ASSUME IInv, ExclusiveTmp, NEW p \in Proc, TypeInv', EndOfInput(p)
    PROVE  IInv'
  <1>0. TypeOK /\ WriterAt(p) /\ job[p].op \in {"enc", "dec"}
    BY JobPaths DEF IInv, TypeInv, WriterInv
  <1>1. /\ pc[p] = "chunks" /\ pc'[p] = "flush"
        /\ \A q \in Proc \ {p} : pc'[q] = pc[q]
        /\ UNCHANGED <<job, fs, data, hdr, rd, wr, off, buf, idx, sealed>>
        /\ job[p].op = "dec" => Len(data[rd[p]]) <= idx[p] + 1
    BY <1>0 DEF EndOfInput, Goto, local, history, TypeOK
  <1>2. job[p].op = "dec" => Len(data[rd[p]]) = idx[p] + 1
    <2>1. rd[p] \in Inode /\ data[rd[p]] \in Contents /\ idx[p] \in Nat
      BY <1>1 DEF IInv, TypeInv, TypeOK, Obtained
    <2>2. job[p].op = "dec" => idx[p] + 1 <= Len(data[rd[p]])
      BY <1>0, <1>1 DEF WriterAt, Writing
    <2> QED
      BY <1>1, <2>1, <2>2 DEF Contents
  <1>3. LocalStep(p)
    <2>1. OthersAlone(p)
      BY <1>1 DEF OthersAlone
    <2>2. OwnMove(p)
      BY <1>1 DEF OwnMove, Early, Writing, Published
    <2> QED
      BY <2>1, <2>2 DEF LocalStep
  <1>4. Written(p)' = Written(p) /\ KeyOf(p)' = KeyOf(p)
    BY <1>1 DEF Written, KeyOf
  <1>5. WriterAt(p)'
    BY <1>0, <1>1, <1>2, <1>4 DEF WriterAt, Writing
  <1> QED
    BY <1>3, <1>5, LocalStepInv

\* Flush hands the rest to the kernel; only a file with the committed number
\* of chunks goes on to be published.
LEMMA FlushInv ==
    ASSUME IInv, ExclusiveTmp, NEW p \in Proc, TypeInv', Flush(p)
    PROVE  IInv'
  <1>0. /\ TypeOK /\ WriterAt(p) /\ wr[p] \in Inode /\ rd[p] \in Inode
        /\ pc[p] = "flush"
    BY DEF IInv, TypeInv, WriterInv, Obtained, Flush
  <1>1. /\ UNCHANGED <<job, fs, hdr, rd, wr, idx, sealed>>
        /\ \A q \in Proc \ {p} : pc'[q] = pc[q]
        /\ \/ pc'[p] = "rename" /\ idx[p] = hdr[p].chunk_count
           \/ pc'[p] = "cleanup"
    BY <1>0 DEF Flush, Return, Goto, history, TypeOK
  <1>2. data[wr[p]] \in Contents /\ buf[p] \in Contents
    BY <1>0 DEF TypeOK, Contents
  <1>3. off[p] = Len(data[wr[p]])
    BY <1>0 DEF WriterAt, Writing
  <1>4. /\ data'[wr[p]] = Written(p)
        /\ \A i \in Inode : i # wr[p] => data'[i] = data[i]
        /\ off'[p] = Len(data'[wr[p]])
        /\ buf'[p] = << >>
        /\ \A q \in Proc : q # p => off'[q] = off[q] /\ buf'[q] = buf[q]
    BY <1>0, <1>2, <1>3, SpillAppends DEF Flush, Written
  <1>5. Written(p)' = Written(p) /\ KeyOf(p)' = KeyOf(p)
    <2>1. Written(p) \in Seq(Block)
      BY <1>2 DEF Written, Contents
    <2>2. Written(p)' = Written(p) \o << >>
      BY <1>1, <1>4 DEF Written
    <2> QED
      BY <1>1, <2>1, <2>2, ConcatEmptySeq DEF KeyOf
  <1>6. data'[rd[p]] = data[rd[p]]
    <2>1. rd[p] # wr[p]
      BY <1>0, WriterAlone DEF Writing
    <2> QED
      BY <1>0, <1>4, <2>1
  <1>7. LocalStep(p)
    <2>1. OthersAlone(p)
      BY <1>0, <1>1, <1>4 DEF OthersAlone, Writing
    <2>2. OwnMove(p)
      BY <1>0, <1>1 DEF OwnMove, Early, Writing, Published
    <2> QED
      BY <2>1, <2>2 DEF LocalStep
  <1>8. WriterAt(p)'
    <2>1. CASE pc'[p] = "cleanup"
      BY <2>1 DEF WriterAt, Writing
    <2>2. CASE pc'[p] = "rename" /\ idx[p] = hdr[p].chunk_count
      BY <1>0, <1>1, <1>4, <1>5, <1>6, <2>2 DEF WriterAt, Writing
    <2> QED
      BY <1>1, <2>1, <2>2
  <1> QED
    BY <1>7, <1>8, LocalStepInv

-----------------------------------------------------------------------------
(* Steps that bind or unbind a name.                                        *)

\* File::create takes a fresh inode or the leftover under the temporary name:
\* nobody reads either, and no name of the user's is bound to it.
LEMMA CreateTmpInv ==
    ASSUME IInv, ExclusiveTmp, NEW p \in Proc, TypeInv', CreateTmp(p)
    PROVE  IInv'
  <1>0. /\ TypeInv /\ TypeOK /\ JobsFixed /\ Injective /\ Untouched /\ OwnTmp
        /\ ReadersApart /\ WriterInv /\ ArchiveInv /\ OutputIntact
        /\ OpensWhatWasSealed
    BY DEF IInv, TypeInv
  <1>1. PICK i \in Inode :
           /\ i = IF fs[Tmp(p)] = Absent THEN p ELSE fs[Tmp(p)]
           /\ wr' = [wr EXCEPT ![p] = i]
           /\ data' = [data EXCEPT ![i] = << >>]
           /\ fs' = [fs EXCEPT ![Tmp(p)] = i]
    BY <1>0, JobPaths DEF CreateTmp, TypeOK, Inode
  <1>2. /\ pc[p] = "create"
        /\ pc' = [pc EXCEPT ![p] = IF job[p].op = "enc" THEN "header" ELSE "chunks"]
        /\ UNCHANGED <<job, hdr, rd, off, buf, idx, sealed>>
    BY DEF CreateTmp, Goto, history
  <1>3. /\ Tmp(p) \in Path \ UserPath /\ UserPath \subseteq Path
        /\ EditPath \subseteq UserPath
        /\ \A q \in Proc : Tmp(q) \in Path /\ (Tmp(q) = Tmp(p) => q = p)
        /\ job[p].op \in {"enc", "dec"}
    BY <1>0, JobFacts, JobPaths
  <1>4. \A q \in Proc : Tmp(q)' = Tmp(q)
    BY <1>2 DEF Tmp
  <1>5. pc[p] \in Early
    BY <1>2 DEF Early
  <1>6. \A x \in Path : x # Tmp(p) => fs[x] # i
    BY <1>0, <1>1, <1>3, <1>5 DEF Untouched, Injective
  <1>7. \A q \in Proc : rd[q] # i /\ (pc[q] \in Published => wr[q] # i)
    <2>1. CASE fs[Tmp(p)] = Absent
      BY <1>0, <1>1, <1>5, <2>1 DEF Untouched
    <2>2. CASE fs[Tmp(p)] # Absent
      BY <1>0, <1>1, <1>3, <2>2 DEF ReadersApart, Settled
    <2> QED
      BY <2>1, <2>2
  <1>8. \A q \in Proc : q # p /\ pc[q] \in Writing => wr[q] # i
    BY <1>0, <1>3, <1>6 DEF OwnTmp
  <1>9. \A q \in Proc : q # p /\ pc[q] \in Early => q # i
    BY <1>0, <1>1, <1>3 DEF Untouched
  <1>10. /\ fs' \in [Path -> Inode \cup {Absent, Dir}]
         /\ fs'[Tmp(p)] = i
         /\ \A x \in Path : x # Tmp(p) => fs'[x] = fs[x]
         /\ wr'[p] = i /\ \A q \in Proc : q # p => wr'[q] = wr[q]
         /\ data'[i] = << >>
         /\ \A j \in Inode : j # i => data'[j] = data[j]
         /\ pc'[p] \in {"header", "chunks"}
         /\ pc'[p] = "header" <=> job[p].op = "enc"
         /\ \A q \in Proc : q # p => pc'[q] = pc[q]
    BY <1>0, <1>1, <1>2, <1>3 DEF TypeOK
  <1>11. JobsFixed'
    BY <1>0, <1>2 DEF JobsFixed
  <1>12. Injective'
    BY <1>0, <1>6, <1>10 DEF Injective
  <1>13. Untouched'
    <2>1. ASSUME NEW q \in Proc, pc'[q] \in Early
          PROVE  q # p /\ pc[q] \in Early
      BY <1>10, <2>1 DEF Early
    <2>2. ASSUME NEW q \in Proc, pc'[q] \in Published
          PROVE  q # p /\ pc[q] \in Published
      BY <1>10, <2>2 DEF Published
    <2>3. ASSUME NEW q \in Proc, pc'[q] \in Early, NEW x \in Path
          PROVE  fs'[x] # q
      BY <1>0, <1>9, <1>10, <2>1, <2>3 DEF Untouched
    <2> QED
      BY <1>0, <1>2, <1>10, <2>1, <2>2, <2>3 DEF Untouched
  <1>14. OwnTmp'
    <2>1. pc'[p] \notin Published /\ pc'[p] # "failed"
      BY <1>10 DEF Published
    <2>2. ASSUME NEW q \in Proc, q # p
          PROVE  Tmp(q) # Tmp(p) /\ fs'[Tmp(q)] = fs[Tmp(q)]
      BY <1>3, <1>10, <2>2
    <2> QED
      BY <1>0, <1>4, <1>10, <2>1, <2>2 DEF OwnTmp
  <1>15. ReadersApart'
    <2>1. ASSUME NEW q \in Proc, pc'[q] \in Published
          PROVE  q # p /\ pc[q] \in Published
      BY <1>10, <2>1 DEF Published
    <2> QED
      BY <1>0, <1>2, <1>3, <1>7, <1>10, <2>1 DEF ReadersApart, Settled
  <1>16. WriterInv'
    <2>1. ASSUME NEW q \in Proc, q # p
          PROVE  WriterAt(q)'
      <3>1. /\ pc'[q] = pc[q] /\ hdr'[q] = hdr[q] /\ rd'[q] = rd[q]
            /\ off'[q] = off[q] /\ buf'[q] = buf[q] /\ idx'[q] = idx[q]
            /\ wr'[q] = wr[q] /\ job'[q] = job[q]
        BY <1>2, <1>10, <2>1
      <3>2. pc[q] \in Writing => data'[wr[q]] = data[wr[q]]
        BY <1>0, <1>8, <1>10, <2>1 DEF TypeInv, Obtained, Writing
      <3>3. pc[q] \in Writing \cup {"create"} => data'[rd[q]] = data[rd[q]]
        BY <1>0, <1>7, <1>10 DEF TypeInv, Obtained, Writing
      <3>4. WriterAt(q)
        BY <1>0 DEF WriterInv
      <3>5. pc[q] \in Writing => Written(q)' = Written(q)
        BY <3>1, <3>2 DEF Written
      <3>6. KeyOf(q)' = KeyOf(q)
        BY <3>1 DEF KeyOf
      <3> QED
        BY <3>1, <3>2, <3>3, <3>4, <3>5, <3>6 DEF WriterAt, Writing
    <2>2. WriterAt(p)'
      <3>1. off'[p] = 0 /\ buf'[p] = << >> /\ idx'[p] = 0
        BY <1>0, <1>2, <1>5 DEF Untouched
      <3>2. data'[wr'[p]] = << >> /\ Len(data'[wr'[p]]) = 0
        BY <1>10
      <3>3. Written(p)' = << >>
        BY <3>1, <3>2 DEF Written
      <3>4. rd[p] \in Inode /\ data'[rd[p]] = data[rd[p]] /\ KeyOf(p)' = KeyOf(p)
        BY <1>0, <1>2, <1>7, <1>10 DEF TypeInv, Obtained, KeyOf
      <3>5. job[p].op = "dec" =>
              /\ Len(data[rd[p]]) >= 1
              /\ data[rd[p]][1] = header_write(hdr[p], KeyOf(p))
        BY <1>0, <1>2 DEF WriterInv, WriterAt
      <3>6. OpenedPrefix(<< >>, data[rd[p]], hdr[p], job[p].pass, 0)
        BY DEF OpenedPrefix
      <3> QED
        BY <1>2, <1>3, <1>10, <3>1, <3>2, <3>3, <3>4, <3>5, <3>6
        DEF WriterAt, Writing
    <2> QED
      BY <2>1, <2>2 DEF WriterInv
  <1>17. \A x \in UserPath :
            fs'[x] = fs[x] /\ (fs[x] \in Inode => data'[fs[x]] = data[fs[x]])
    BY <1>3, <1>6, <1>10
  <1>18. \A q \in Proc : rd[q] \in Inode => data'[rd[q]] = data[rd[q]]
    BY <1>7, <1>10
  <1>19. ArchiveInv'
    BY <1>0, <1>2, <1>17, <1>18 DEF ArchiveInv, Archived
  <1>20. OutputIntact'
    BY <1>0, <1>2, <1>17, SameGiven DEF OutputIntact
  <1>21. OpensWhatWasSealed'
    <2> SUFFICES ASSUME NEW q \in Proc, job'[q].op = "dec",
                        pc'[q] \in {"rename", "report", "done"}
                 PROVE  /\ IsCiphertextOf(data'[rd'[q]], hdr'[q], job'[q].pass)
                        /\ data'[wr'[q]] = PlainOf(data'[rd'[q]])
      BY DEF OpensWhatWasSealed
    <2>1. q # p /\ pc[q] \in {"rename", "report", "done"}
      BY <1>10
    <2>2. rd[q] \in Inode /\ wr[q] \in Inode /\ wr[q] # i
      BY <1>0, <1>7, <1>8, <2>1 DEF TypeInv, Obtained, Writing, Published
    <2> QED
      BY <1>0, <1>2, <1>10, <1>18, <2>1, <2>2 DEF OpensWhatWasSealed
  <1> QED
    BY <1>11, <1>12, <1>13, <1>14, <1>15, <1>16, <1>19, <1>20, <1>21 DEF IInv

\* A step that writes nothing and leaves the runs' local state alone keeps
\* every file under construction what it was, unless it ends the run.
LEMMA SameFilesWriterInv ==
    ASSUME WriterInv, NEW p \in Proc,
           UNCHANGED <<job, data, hdr, rd, wr, off, buf, idx>>,
           \A q \in Proc \ {p} : pc'[q] = pc[q],
           pc'[p] \notin Writing \cup {"create"}
    PROVE  WriterInv'
  <1>1. ASSUME NEW q \in Proc, q # p
        PROVE  WriterAt(q)'
    <2>1. WriterAt(q) /\ pc'[q] = pc[q]
      BY <1>1 DEF WriterInv
    <2>2. Written(q)' = Written(q) /\ KeyOf(q)' = KeyOf(q)
      BY DEF Written, KeyOf
    <2> QED
      BY <2>1, <2>2 DEF WriterAt, Writing
  <1>2. WriterAt(p)'
    BY DEF WriterAt, Writing
  <1> QED
    BY <1>1, <1>2 DEF WriterInv

\* rename publishes the run's own file, whole, under its output name.
LEMMA RenameInv ==
    ASSUME IInv, ExclusiveTmp, NEW p \in Proc, TypeInv', Rename(p)
    PROVE  IInv'
  <1>0. /\ TypeInv /\ TypeOK /\ JobsFixed /\ Injective /\ Untouched /\ OwnTmp
        /\ ReadersApart /\ WriterInv /\ ArchiveInv /\ OutputIntact
        /\ OpensWhatWasSealed
    BY DEF IInv, TypeInv
  <1> DEFINE out == job[p].out
             tmp == Tmp(p)
  <1>1. /\ pc[p] = "rename" /\ pc' = [pc EXCEPT ![p] = "report"]
        /\ fs' = [fs EXCEPT ![out] = fs[tmp], ![tmp] = Absent]
        /\ fs[tmp] \in Inode
        /\ sealed' = IF job[p].op = "enc" THEN sealed \cup {data[fs[tmp]]}
                                           ELSE sealed
        /\ UNCHANGED <<job, data, hdr, rd, wr, off, buf, idx>>
    BY DEF Rename, Goto, local
  <1>2. fs[tmp] = wr[p] /\ wr[p] \in Inode
    BY <1>0, <1>1 DEF OwnTmp, Writing
  <1>3. /\ tmp \in Path \ UserPath /\ UserPath \subseteq Path
        /\ EditPath \subseteq UserPath /\ out \in UserPath \ EditPath
        /\ \A q \in Proc : Tmp(q) \in Path \ UserPath /\ (Tmp(q) = tmp => q = p)
        /\ job[p].op \in {"enc", "dec"}
    BY <1>0, JobFacts, JobPaths
  <1>4. \A q \in Proc : Tmp(q)' = Tmp(q)
    BY <1>1 DEF Tmp
  <1>5. /\ fs'[out] = wr[p] /\ fs'[tmp] = Absent
        /\ \A x \in Path : x # out /\ x # tmp => fs'[x] = fs[x]
    BY <1>0, <1>1, <1>2, <1>3 DEF TypeOK
  <1>6. pc'[p] = "report" /\ \A q \in Proc : q # p => pc'[q] = pc[q]
    BY <1>0, <1>1 DEF TypeOK
  <1>7. \A x \in Path : x # tmp => fs[x] # wr[p]
    BY <1>0, <1>2, <1>3 DEF Injective
  <1>8. /\ job[p].op = "enc" => IsCiphertext(data[wr[p]])
        /\ job[p].op = "dec" =>
              /\ IsCiphertextOf(data[rd[p]], hdr[p], job[p].pass)
              /\ IsCiphertext(data[rd[p]])
              /\ data[wr[p]] = PlainOf(data[rd[p]])
    BY <1>0, <1>1, ReadyToPublish DEF WriterInv
  <1>9. rd[p] \in Inode /\ data[rd[p]] \in Contents /\ data[wr[p]] \in Contents
    BY <1>0, <1>1, <1>2 DEF TypeInv, TypeOK, Obtained
  <1>10. JobsFixed'
    BY <1>0, <1>1 DEF JobsFixed
  <1>11. Injective'
    BY <1>0, <1>3, <1>5, <1>7, InodeAssumption DEF Injective
  <1>12. Untouched'
    <2>1. ASSUME NEW q \in Proc, pc'[q] \in Early
          PROVE  q # p /\ pc[q] \in Early
      BY <1>6, <2>1 DEF Early
    <2>2. ASSUME NEW q \in Proc, pc[q] \in Early
          PROVE  q # wr[p] /\ q # Absent
      BY <1>0, <1>2, <1>3, <2>2, InodeAssumption DEF Untouched, Inode
    <2>3. ASSUME NEW q \in Proc, pc'[q] \in Early, NEW x \in Path
          PROVE  fs'[x] # q
      BY <1>0, <1>5, <2>1, <2>2, <2>3 DEF Untouched
    <2>4. ASSUME NEW q \in Proc, NEW o \in Proc, pc'[q] \in Early,
                 pc'[o] \in Published
          PROVE  wr[o] # q
      BY <1>0, <1>6, <2>1, <2>2, <2>4 DEF Untouched
    <2> QED
      BY <1>0, <1>1, <2>1, <2>3, <2>4 DEF Untouched
  <1>13. OwnTmp'
    <2>1. pc'[p] \notin Writing /\ pc'[p] # "failed"
      BY <1>6 DEF Writing
    <2>2. ASSUME NEW q \in Proc, q # p
          PROVE  fs'[Tmp(q)] = fs[Tmp(q)]
      BY <1>3, <1>5, <2>2
    <2>3. ASSUME NEW q \in Proc
          PROVE  /\ pc'[q] \in Writing => fs'[Tmp(q)] = wr[q]
                 /\ pc'[q] \in Published => fs'[Tmp(q)] = Absent
                 /\ pc'[q] = "failed" /\ wr[q] # Nil => fs'[Tmp(q)] # wr[q]
      <3>1. CASE q = p
        BY <1>5, <2>1, <3>1
      <3>2. CASE q # p
        BY <1>0, <1>6, <2>2, <3>2 DEF OwnTmp
      <3> QED
        BY <3>1, <3>2
    <2> QED
      BY <1>1, <1>4, <2>3 DEF OwnTmp
  <1>14. ReadersApart'
    <2>1. ASSUME NEW x \in Path \ UserPath, NEW i \in Inode, fs[x] # i
          PROVE  fs'[x] # i
      BY <1>3, <1>5, <2>1, InodeAssumption
    <2>2. \A e \in EditPath : fs'[e] = fs[e]
      BY <1>3, <1>5
    <2>3. \A i \in Inode : Settled(i) => Settled(i)'
      BY <2>1, <2>2 DEF Settled
    <2>4. Settled(wr[p])'
      <3>1. \A x \in Path \ UserPath : fs'[x] # wr[p]
        BY <1>2, <1>3, <1>5, <1>7, InodeAssumption
      <3>2. \A e \in EditPath : fs'[e] # wr[p]
        BY <1>3, <1>5, <1>7
      <3> QED
        BY <1>1, <3>1, <3>2 DEF Settled
    <2>5. ASSUME NEW q \in Proc, pc'[q] \in Published PROVE Settled(wr[q])'
      <3>1. CASE q = p
        BY <2>4, <3>1
      <3>2. CASE q # p
        <4>1. pc[q] \in Published /\ wr[q] \in Inode
          BY <1>0, <1>6, <2>5, <3>2 DEF TypeInv, Obtained, Published
        <4>2. Settled(wr[q])
          BY <1>0, <4>1 DEF ReadersApart
        <4>3. wr'[q] = wr[q]
          BY <1>1
        <4> QED
          BY <2>1, <2>2, <4>1, <4>2, <4>3 DEF Settled
      <3> QED
        BY <3>1, <3>2
    <2>6. ASSUME NEW q \in Proc, rd[q] \in Inode
          PROVE  /\ \A x \in Path \ UserPath : fs'[x] # rd[q]
                 /\ job[q].op = "dec" => \A e \in EditPath : fs'[e] # rd[q]
      BY <1>0, <2>1, <2>2, <2>6 DEF ReadersApart, Settled
    <2> QED
      BY <1>1, <2>5, <2>6 DEF ReadersApart, Settled
  <1>15. WriterInv'
    BY <1>0, <1>1, <1>6, SameFilesWriterInv DEF Writing
  <1>16. ArchiveInv'
    <2>1. job[p].op = "dec" => ~IsCiphertext(data[wr[p]])
      BY <1>8, <1>9, PlainIsNoCiphertext
    <2>2. IsCiphertext(data[wr[p]]) => data[wr[p]] \in sealed'
      BY <1>1, <1>2, <1>3, <2>1
    <2>3. sealed \subseteq sealed'
      BY <1>1
    <2>4. ASSUME NEW x \in UserPath, fs'[x] \in Inode
          PROVE  IsCiphertext(data[fs'[x]]) => data[fs'[x]] \in sealed'
      <3>1. CASE x = out
        BY <1>5, <2>2, <3>1
      <3>2. CASE x # out
        BY <1>0, <1>3, <1>5, <2>3, <2>4, <3>2 DEF ArchiveInv, Archived
      <3> QED
        BY <3>1, <3>2
    <2>5. ASSUME NEW q \in Proc, rd[q] \in Inode, job[q].op = "dec"
          PROVE  IsCiphertext(data[rd[q]]) => data[rd[q]] \in sealed'
      BY <1>0, <2>3, <2>5 DEF ArchiveInv, Archived
    <2> QED
      BY <1>1, <2>4, <2>5 DEF ArchiveInv, Archived
  <1>17. OutputIntact'
    <2>1. \A t \in sealed' : IsCiphertext(t)
      BY <1>0, <1>1, <1>2, <1>8 DEF OutputIntact
    <2>2. sealed \subseteq sealed'
      BY <1>1
    <2>3. job[p].op = "dec" => \E t \in sealed' : data[wr[p]] = PlainOf(t)
      <3>1. job[p].op = "dec" => data[rd[p]] \in sealed
        BY <1>0, <1>8, <1>9 DEF ArchiveInv, Archived
      <3> QED
        BY <1>8, <2>2, <3>1
    <2>4. ASSUME NEW x \in UserPath, fs'[x] \in Inode
          PROVE  \/ data[fs'[x]] \in Given
                 \/ IsCiphertext(data[fs'[x]])
                 \/ \E t \in sealed' : data[fs'[x]] = PlainOf(t)
      <3>1. CASE x = out
        BY <1>3, <1>5, <1>8, <2>3, <3>1
      <3>2. CASE x # out
        BY <1>0, <1>3, <1>5, <2>2, <2>4, <3>2 DEF OutputIntact
      <3> QED
        BY <3>1, <3>2
    <2> QED
      BY <1>1, <2>1, <2>4, SameGiven DEF OutputIntact
  <1>18. OpensWhatWasSealed'
    BY <1>0, <1>1, <1>6, <1>8 DEF OpensWhatWasSealed
  <1> QED
    BY <1>10, <1>11, <1>12, <1>13, <1>14, <1>15, <1>16, <1>17, <1>18 DEF IInv

\* Unbinding a name, by remove_file or by the user, hurts nobody who does not
\* own it.
LEMMA UnbindInv ==
    ASSUME IInv, ExclusiveTmp, TypeInv', NEW z \in Path,
           fs' = [fs EXCEPT ![z] = IF @ = Dir THEN Dir ELSE Absent],
           UNCHANGED <<job, data, hdr, rd, wr, off, buf, idx, sealed>>,
           NEW p \in Proc,
           \A q \in Proc \ {p} : pc'[q] = pc[q],
           pc'[p] = pc[p] \/ pc'[p] = "failed",
           pc'[p] = pc[p] => z \in UserPath,
           pc'[p] # pc[p] => z = Tmp(p)
    PROVE  IInv'
  <1>0. /\ TypeInv /\ TypeOK /\ JobsFixed /\ Injective /\ Untouched /\ OwnTmp
        /\ ReadersApart /\ WriterInv /\ ArchiveInv /\ OutputIntact
        /\ OpensWhatWasSealed
    BY DEF IInv, TypeInv
  <1>1. /\ UserPath \subseteq Path /\ EditPath \subseteq UserPath
        /\ \A q \in Proc : Tmp(q) \in Path \ UserPath /\ (Tmp(q) = Tmp(p) => q = p)
    BY <1>0, JobFacts
  <1>2. /\ fs'[z] \in {Absent, Dir}
        /\ \A x \in Path : x # z => fs'[x] = fs[x]
    BY <1>0 DEF TypeOK
  <1>3. \A i \in Inode : \A x \in Path : fs'[x] = i => fs[x] = i
    BY <1>2, InodeAssumption
  <1>4. \A q \in Proc : Tmp(q)' = Tmp(q)
    BY DEF Tmp
  <1>5. \A q \in Proc : pc'[q] = pc[q] => Tmp(q) # z
    BY <1>1
  <1>6. \A q \in Proc : pc'[q] = pc[q] \/ (q = p /\ pc'[q] = "failed" /\ z = Tmp(q))
    OBVIOUS
  <1>7. JobsFixed'
    BY <1>0 DEF JobsFixed
  <1>8. Injective'
    BY <1>0, <1>3 DEF Injective
  <1>9. Untouched'
    <2>1. \A q \in Proc : pc'[q] \in Early => pc[q] \in Early
      BY <1>6 DEF Early
    <2>2. \A q \in Proc : pc'[q] \in Published => pc[q] \in Published
      BY <1>6 DEF Published
    <2>3. \A q \in Proc : q \in Inode
      BY DEF Inode
    <2> QED
      BY <1>0, <1>3, <2>1, <2>2, <2>3 DEF Untouched
  <1>10. OwnTmp'
    <2>1. ASSUME NEW q \in Proc
          PROVE  /\ pc'[q] \in Writing => fs'[Tmp(q)] = wr[q]
                 /\ pc'[q] \in Published => fs'[Tmp(q)] = Absent
                 /\ pc'[q] = "failed" /\ wr[q] # Nil => fs'[Tmp(q)] # wr[q]
      <3>1. CASE pc'[q] = pc[q]
        BY <1>0, <1>1, <1>2, <1>5, <3>1 DEF OwnTmp
      <3>2. CASE pc'[q] = "failed" /\ z = Tmp(q)
        BY <1>0, <1>2, <3>2, InodeAssumption DEF TypeOK, Writing, Published
      <3> QED
        BY <1>6, <3>1, <3>2
    <2> QED
      BY <1>4, <2>1 DEF OwnTmp
  <1>11. ReadersApart'
    <2>1. \A q \in Proc : pc'[q] \in Published => pc[q] \in Published /\ wr[q] \in Inode
      BY <1>0, <1>6 DEF Published, TypeInv, Obtained
    <2> QED
      BY <1>0, <1>1, <1>3, <2>1 DEF ReadersApart, Settled
  <1>12. WriterInv'
    <2>1. CASE pc'[p] = pc[p]
      <3>1. ASSUME NEW q \in Proc PROVE WriterAt(q)'
        <4>1. WriterAt(q) /\ pc'[q] = pc[q]
          BY <1>0, <2>1 DEF WriterInv
        <4>2. Written(q)' = Written(q) /\ KeyOf(q)' = KeyOf(q)
          BY DEF Written, KeyOf
        <4> QED
          BY <4>1, <4>2 DEF WriterAt, Writing
      <3> QED
        BY <3>1 DEF WriterInv
    <2>2. CASE pc'[p] = "failed"
      BY <1>0, <2>2, SameFilesWriterInv DEF Writing
    <2> QED
      BY <2>1, <2>2
  <1>13. \A x \in UserPath : fs'[x] \in Inode => fs[x] = fs'[x]
    BY <1>1, <1>3
  <1>14. ArchiveInv'
    BY <1>0, <1>13 DEF ArchiveInv, Archived
  <1>15. OutputIntact'
    BY <1>0, <1>13, SameGiven DEF OutputIntact
  <1>16. OpensWhatWasSealed'
    BY <1>0, <1>6 DEF OpensWhatWasSealed
  <1> QED
    BY <1>7, <1>8, <1>9, <1>10, <1>11, <1>12, <1>14, <1>15, <1>16 DEF IInv

\* The user's edits reach no file that a run writes, decrypts or has published.
LEMMA EditInv ==
    ASSUME IInv, ExclusiveTmp, TypeInv',
           NEW z \in EditPath, NEW c \in EditText, Edit(z, c)
    PROVE  IInv'
  <1>0. /\ TypeInv /\ TypeOK /\ JobsFixed /\ Injective /\ Untouched /\ OwnTmp
        /\ ReadersApart /\ WriterInv /\ ArchiveInv /\ OutputIntact
        /\ OpensWhatWasSealed
    BY DEF IInv, TypeInv
  <1>1. /\ fs[z] \in Inode /\ data' = [data EXCEPT ![fs[z]] = c]
        /\ UNCHANGED <<job, fs, pc, hdr, rd, wr, off, buf, idx, sealed>>
    BY DEF Edit, local
  <1>2. data'[fs[z]] = c /\ \A i \in Inode : i # fs[z] => data'[i] = data[i]
    BY <1>0, <1>1 DEF TypeOK
  <1>3. /\ UserPath \subseteq Path /\ z \in UserPath
        /\ \A q \in Proc : Tmp(q) \in Path \ UserPath
    BY <1>0, JobFacts, PathAssumption DEF Path
  <1>4. c \in Contents /\ ~IsCiphertext(c) /\ c \in Given
    BY EditIsNoCiphertext DEF Given
  <1>5. \A q \in Proc : pc[q] \in Writing => wr[q] \in Inode /\ wr[q] # fs[z]
    BY <1>0, <1>1, <1>3 DEF OwnTmp, Injective, TypeInv, Obtained, Writing
  <1>6. \A q \in Proc : pc[q] \in Published => wr[q] \in Inode /\ wr[q] # fs[z]
    BY <1>0 DEF ReadersApart, Settled, TypeInv, Obtained, Published
  <1>7. \A q \in Proc : rd[q] \in Inode /\ job[q].op = "dec" => rd[q] # fs[z]
    BY <1>0 DEF ReadersApart, Settled
  <1>8. \A x \in UserPath : fs[x] \in Inode /\ x # z => fs[x] # fs[z]
    BY <1>0, <1>1, <1>3 DEF Injective
  <1>9. JobsFixed' /\ Injective' /\ Untouched' /\ ReadersApart'
    BY <1>0, <1>1 DEF JobsFixed, Injective, Untouched, ReadersApart, Settled
  <1>10. OwnTmp'
    BY <1>0, <1>1 DEF OwnTmp, Tmp
  <1>11. WriterInv'
    <2>1. ASSUME NEW q \in Proc PROVE WriterAt(q)'
      <3>1. WriterAt(q)
        BY <1>0 DEF WriterInv
      <3>2. pc[q] \in Writing => data'[wr[q]] = data[wr[q]]
        BY <1>2, <1>5
      <3>3. pc[q] \in Writing \cup {"create"} /\ job[q].op = "dec" =>
              data'[rd[q]] = data[rd[q]]
        BY <1>0, <1>2, <1>7 DEF TypeInv, Obtained, Writing
      <3>4. pc[q] \in Writing => Written(q)' = Written(q)
        BY <1>1, <3>2 DEF Written
      <3>5. KeyOf(q)' = KeyOf(q)
        BY <1>1 DEF KeyOf
      <3> QED
        BY <1>1, <3>1, <3>2, <3>3, <3>4, <3>5 DEF WriterAt, Writing
    <2> QED
      BY <2>1 DEF WriterInv
  <1>12. ArchiveInv'
    <2>1. ASSUME NEW x \in UserPath, fs[x] \in Inode
          PROVE  IsCiphertext(data'[fs[x]]) => data'[fs[x]] \in sealed
      <3>1. CASE x = z
        BY <1>2, <1>4, <3>1
      <3>2. CASE x # z
        BY <1>0, <1>2, <1>8, <2>1, <3>2 DEF ArchiveInv, Archived
      <3> QED
        BY <3>1, <3>2
    <2>2. ASSUME NEW q \in Proc, rd[q] \in Inode, job[q].op = "dec"
          PROVE  IsCiphertext(data'[rd[q]]) => data'[rd[q]] \in sealed
      BY <1>0, <1>2, <1>7, <2>2 DEF ArchiveInv, Archived
    <2> QED
      BY <1>1, <2>1, <2>2 DEF ArchiveInv, Archived
  <1>13. OutputIntact'
    <2>1. ASSUME NEW x \in UserPath, fs[x] \in Inode
          PROVE  \/ data'[fs[x]] \in Given
                 \/ IsCiphertext(data'[fs[x]])
                 \/ \E t \in sealed : data'[fs[x]] = PlainOf(t)
      <3>1. CASE x = z
        BY <1>2, <1>4, <3>1
      <3>2. CASE x # z
        BY <1>0, <1>2, <1>8, <2>1, <3>2 DEF OutputIntact
      <3> QED
        BY <3>1, <3>2
    <2>2. \A t \in sealed : IsCiphertext(t)
      BY <1>0 DEF OutputIntact
    <2> QED
      BY <1>1, <2>1, <2>2, SameGiven DEF OutputIntact
  <1>14. OpensWhatWasSealed'
    <2> SUFFICES ASSUME NEW q \in Proc, job[q].op = "dec",
                        pc[q] \in {"rename", "report", "done"}
                 PROVE  /\ IsCiphertextOf(data'[rd[q]], hdr[q], job[q].pass)
                        /\ data'[wr[q]] = PlainOf(data'[rd[q]])
      BY <1>1 DEF OpensWhatWasSealed
    <2>1. rd[q] \in Inode
      BY <1>0 DEF TypeInv, Obtained
    <2>2. data'[rd[q]] = data[rd[q]]
      BY <1>2, <1>7, <2>1
    <2>3. data'[wr[q]] = data[wr[q]]
      BY <1>2, <1>5, <1>6 DEF Writing, Published
    <2> QED
      BY <1>0, <2>2, <2>3 DEF OpensWhatWasSealed
  <1> QED
    BY <1>9, <1>10, <1>11, <1>12, <1>13, <1>14 DEF IInv

\* Every assumed disk satisfies the invariant.
LEMMA InitInv == Init => IInv
  <1> SUFFICES ASSUME Init PROVE IInv
    OBVIOUS
  <1>0. TypeInv /\ TypeOK
    BY InitTypeInv DEF TypeInv
  <1>1. PICK s \in Scenario : job = s.job /\ fs = s.fs /\ data = s.data
    BY DEF Init
  <1>2. \A p \in Proc : pc[p] = "start" /\ rd[p] = Nil /\ wr[p] = Nil
                          /\ off[p] = 0 /\ buf[p] = << >> /\ idx[p] = 0
    BY DEF Init
  <1>3. /\ fs \in [Path -> File \cup {Absent, Dir}]
        /\ \A x, y \in Path : fs[x] = fs[y] /\ fs[x] \in File => x = y
    BY <1>1, ScenarioAssumption
  <1>4. JobsFixed
    BY <1>1 DEF JobsFixed
  <1>5. Injective
    BY <1>3, InodeAssumption DEF Injective, Inode
  <1>6. Untouched
    <2>1. \A p \in Proc, x \in Path : fs[x] # p
      BY <1>3, InodeAssumption DEF Inode
    <2>2. \A p \in Proc : Nil # p
      BY InodeAssumption DEF Inode
    <2> QED
      BY <1>2, <2>1, <2>2 DEF Untouched, Published
  <1>7. OwnTmp /\ ReadersApart /\ WriterInv
    BY <1>2, InodeAssumption
    DEF OwnTmp, ReadersApart, WriterInv, WriterAt, Writing, Published
  <1>8. \A q \in UserPath : fs[q] \in Inode =>
           (IsCiphertext(data[fs[q]]) => data[fs[q]] \in sealed)
    BY DEF Init
  <1>9. ArchiveInv
    BY <1>2, <1>8, InodeAssumption DEF ArchiveInv, Archived
  <1>10. OutputIntact
    <2>1. \A t \in sealed : IsCiphertext(t)
      BY DEF Init
    <2>2. \A q \in UserPath : fs[q] \in Inode => data[fs[q]] \in Given
      BY <1>1 DEF Given
    <2> QED
      BY <2>1, <2>2 DEF OutputIntact
  <1>11. OpensWhatWasSealed
    BY <1>2 DEF OpensWhatWasSealed
  <1> QED
    BY <1>0, <1>4, <1>5, <1>6, <1>7, <1>9, <1>10, <1>11 DEF IInv

\* Every step keeps the invariant.
LEMMA NextInv ==
    ASSUME ExclusiveTmp, IInv, [Next]_vars
    PROVE  IInv'
  <1>0. TypeInv /\ TypeInv'
    BY NextTypeInv DEF IInv
  <1>1. CASE UNCHANGED vars
    <2>1. UNCHANGED <<job, fs, data, pc, hdr, rd, wr, off, buf, idx, sealed>>
      BY <1>1 DEF vars, local, history
    <2>2. JobsFixed' /\ Injective' /\ Untouched' /\ ReadersApart' /\ ArchiveInv'
      BY <2>1 DEF IInv, JobsFixed, Injective, Untouched, ReadersApart, Settled,
                  ArchiveInv, Archived
    <2>3. OwnTmp' /\ OutputIntact' /\ OpensWhatWasSealed'
      BY <2>1, SameGiven DEF IInv, OwnTmp, Tmp, OutputIntact, OpensWhatWasSealed
    <2>4. WriterInv'
      BY <2>1 DEF IInv, WriterInv, WriterAt, Written, KeyOf
    <2> QED
      BY <1>0, <2>2, <2>3, <2>4 DEF IInv
  <1>2. ASSUME NEW p \in Proc, Step(p) PROVE IInv'
    <2>1. CASE Cleanup(p)
      <3>1. /\ pc[p] = "cleanup" /\ pc'[p] = "failed"
            /\ \A q \in Proc \ {p} : pc'[q] = pc[q]
            /\ UNCHANGED <<job, data, hdr, rd, wr, off, buf, idx, sealed>>
            /\ fs' = [fs EXCEPT ![Tmp(p)] = IF @ = Dir THEN Dir ELSE Absent]
        BY <1>0, <2>1 DEF Cleanup, Goto, local, history, TypeInv, TypeOK
      <3>2. Tmp(p) \in Path
        BY <1>0, JobPaths DEF TypeInv
      <3> QED
        BY <1>0, <3>1, <3>2, UnbindInv
    <2> QED
      BY <1>0, <1>2, <2>1, IdleStepInv, ReadHeaderInv, CreateTmpInv, WriteHeaderInv,
         EncryptChunkInv, DecryptChunkInv, FailBodyInv, EndOfInputInv, FlushInv,
         RenameInv DEF Step, Work, Fails
  <1>3. ASSUME NEW p \in Proc, Crash(p) PROVE IInv'
    BY <1>0, <1>3, IdleStepInv
  <1>4. ASSUME NEW z \in EditPath, Remove(z) PROVE IInv'
    <2>1. /\ z \in Path /\ z \in UserPath
      BY PathAssumption DEF Path
    <2>2. /\ fs' = [fs EXCEPT ![z] = IF @ = Dir THEN Dir ELSE Absent]
          /\ UNCHANGED <<job, data, pc, hdr, rd, wr, off, buf, idx, sealed>>
      BY <1>4, <2>1, InodeAssumption DEF Remove, local, history
    <2>3. PICK p \in Proc : TRUE
      BY InodeAssumption
    <2> QED
      BY <1>0, <2>1, <2>2, <2>3, UnbindInv
  <1>5. ASSUME NEW z \in EditPath, NEW c \in EditText, Edit(z, c) PROVE IInv'
    BY <1>0, <1>5, EditInv
  <1> QED
    BY <1>1, <1>2, <1>3, <1>4, <1>5 DEF Next, Terminating

-----------------------------------------------------------------------------
(* The theorems.                                                            *)

\* The invariant holds in every reachable state.
THEOREM Invariance ==
    ASSUME ExclusiveTmp
    PROVE  Spec => []IInv
  <1>1. Init => IInv
    BY InitInv
  <1>2. IInv /\ [Next]_vars => IInv'
    BY NextInv
  <1> QED
    BY <1>1, <1>2, PTL DEF Spec

\* Atomic output (cipher.rs, module comment): runs that share no temporary file
\* never show the user a partial file, whatever fails and whoever is killed.
THEOREM OutputsStayIntact ==
    ASSUME ExclusiveTmp
    PROVE  Spec => []OutputIntact
  <1>1. IInv => OutputIntact
    BY DEF IInv
  <1> QED
    BY <1>1, Invariance, PTL

\* decrypt_file publishes the whole text of a complete ciphertext that it
\* authenticated under the passphrase it was given, or nothing.
THEOREM DecryptionIsFaithful ==
    ASSUME ExclusiveTmp
    PROVE  Spec => []OpensWhatWasSealed
  <1>1. IInv => OpensWhatWasSealed
    BY DEF IInv
  <1> QED
    BY <1>1, Invariance, PTL

\* A run that returned has no temporary file, unless the call that should have
\* taken it away failed.
THEOREM ExitIsClean ==
    ASSUME ExclusiveTmp
    PROVE  Spec => []ExitLeavesNoTmp
  <1>1. IInv => ExitLeavesNoTmp
    BY InodeAssumption
    DEF IInv, TypeInv, TypeOK, OwnTmp, ExitLeavesNoTmp, Published
  <1> QED
    BY <1>1, Invariance, PTL

-----------------------------------------------------------------------------
(* What a step leaves alone.                                                *)

\* A run opens a file nobody else has to do with.
LEMMA CreateAlone ==
    ASSUME IInv, ExclusiveTmp, NEW p \in Proc, CreateTmp(p)
    PROVE  \E i \in Inode :
              /\ wr' = [wr EXCEPT ![p] = i]
              /\ data' = [data EXCEPT ![i] = << >>]
              /\ fs' = [fs EXCEPT ![Tmp(p)] = i]
              /\ \A x \in Path : x # Tmp(p) => fs[x] # i
              /\ \A q \in Proc : rd[q] # i
              /\ \A q \in Proc \ {p} : pc[q] \in Writing \cup Published => wr[q] # i
  <1>0. /\ TypeOK /\ JobsFixed /\ Injective /\ Untouched /\ OwnTmp /\ ReadersApart
        /\ TypeInv /\ Obtained
    BY DEF IInv, TypeInv
  <1>1. PICK i \in Inode :
           /\ i = IF fs[Tmp(p)] = Absent THEN p ELSE fs[Tmp(p)]
           /\ wr' = [wr EXCEPT ![p] = i]
           /\ data' = [data EXCEPT ![i] = << >>]
           /\ fs' = [fs EXCEPT ![Tmp(p)] = i]
    BY <1>0, JobPaths DEF CreateTmp, TypeOK, Inode
  <1>2. pc[p] \in Early
    BY DEF CreateTmp, Early
  <1>3. /\ Tmp(p) \in Path \ UserPath
        /\ \A q \in Proc : Tmp(q) \in Path \ UserPath /\ (Tmp(q) = Tmp(p) => q = p)
    BY <1>0, JobFacts
  <1>4. \A x \in Path : x # Tmp(p) => fs[x] # i
    BY <1>0, <1>1, <1>2, <1>3 DEF Untouched, Injective
  <1>5. \A q \in Proc : rd[q] # i
    BY <1>0, <1>1, <1>2, <1>3 DEF Untouched, ReadersApart
  <1>6. ASSUME NEW q \in Proc, q # p, pc[q] \in Writing PROVE wr[q] # i
    BY <1>0, <1>3, <1>4, <1>6 DEF OwnTmp
  <1>7. ASSUME NEW q \in Proc, pc[q] \in Published PROVE wr[q] # i
    BY <1>0, <1>1, <1>2, <1>3, <1>7 DEF Untouched, ReadersApart, Settled
  <1> QED
    BY <1>1, <1>4, <1>5, <1>6, <1>7

\* The steps that hand blocks to the kernel do so for the file the run writes.
LEMMA SpillsOwn ==
    ASSUME IInv, NEW p \in Proc,
           EncryptChunk(p) \/ DecryptChunk(p) \/ Flush(p) \/ RejectChunk(p) \/ IoErrorBody(p)
    PROVE  /\ fs' = fs /\ sealed' = sealed /\ wr' = wr
           /\ \/ data' = data
              \/ pc[p] \in Writing /\ \A i \in Inode : i # wr[p] => data'[i] = data[i]
  <1>0. TypeOK /\ Untouched
    BY DEF IInv, TypeInv
  <1>1. fs' = fs /\ sealed' = sealed /\ wr' = wr
    BY DEF EncryptChunk, DecryptChunk, Flush, RejectChunk, IoErrorBody, history
  <1>2. ASSUME NEW s, Spill(p, s)
        PROVE  \A i \in Inode : i # wr[p] => data'[i] = data[i]
    BY <1>0, <1>2 DEF Spill, TypeOK
  <1>3. CASE EncryptChunk(p) \/ DecryptChunk(p)
    BY <1>1, <1>2, <1>3 DEF EncryptChunk, DecryptChunk, WriteBlock, Writing
  <1>4. CASE Flush(p)
    BY <1>1, <1>2, <1>4 DEF Flush, Writing
  <1>5. CASE RejectChunk(p)
    BY <1>1, <1>2, <1>5 DEF RejectChunk, FailBody, Writing
  <1>6. CASE IoErrorBody(p)
    <2>1. buf[p] # << >> => pc[p] \notin Early
      BY <1>0 DEF Untouched
    <2> QED
      BY <1>1, <1>2, <1>6, <2>1 DEF IoErrorBody, FailBody, Writing, Early
  <1> QED
    BY <1>3, <1>4, <1>5, <1>6

\* No step changes a command line.
LEMMA JobStays ==
    ASSUME NEW p \in Proc, Step(p) \/ Crash(p)
    PROVE  job' = job
  BY DEF Step, Work, Fails, Crash, Refuse, Begin, Stat, OpenInput, ReadHeader, CreateTmp,
         WriteHeader, EncryptChunk, DecryptChunk, RejectChunk, EndOfInput, Flush, Rename,
         Report, Cleanup, IoErrorEarly, IoErrorBody, IoErrorLeavesTmp, IoErrorLate

\* A step of p leaves the other runs where they are.
LEMMA OthersStay ==
    ASSUME TypeOK, NEW p \in Proc, Step(p) \/ Crash(p), NEW q \in Proc \ {p}
    PROVE  /\ job' = job
           /\ pc'[q] = pc[q] /\ res'[q] = res[q] /\ hdr'[q] = hdr[q] /\ rd'[q] = rd[q]
           /\ wr'[q] = wr[q] /\ off'[q] = off[q] /\ buf'[q] = buf[q] /\ idx'[q] = idx[q]
           /\ snap'[q] = snap[q]
  <1>1. CASE Refuse(p) \/ Begin(p) \/ Stat(p) \/ OpenInput(p) \/ ReadHeader(p)
    BY <1>1 DEF Refuse, Begin, Stat, OpenInput, ReadHeader, Return, Goto, local, history, TypeOK
  <1>2. CASE CreateTmp(p) \/ WriteHeader(p) \/ EndOfInput(p) \/ Rename(p) \/ Report(p)
    BY <1>2 DEF CreateTmp, WriteHeader, EndOfInput, Rename, Report, Return, Goto, local,
                history, TypeOK
  <1>3. CASE EncryptChunk(p) \/ DecryptChunk(p)
    BY <1>3 DEF EncryptChunk, DecryptChunk, WriteBlock, Spill, Goto, history, TypeOK
  <1>4. CASE RejectChunk(p) \/ IoErrorBody(p)
    BY <1>4 DEF RejectChunk, IoErrorBody, FailBody, Spill, Return, Goto, history, TypeOK
  <1>5. CASE Flush(p)
    BY <1>5 DEF Flush, Spill, Return, Goto, history, TypeOK
  <1>6. CASE Cleanup(p) \/ IoErrorEarly(p) \/ IoErrorLeavesTmp(p) \/ IoErrorLate(p) \/ Crash(p)
    BY <1>6 DEF Cleanup, IoErrorEarly, IoErrorLeavesTmp, IoErrorLate, Crash, Return, Goto,
                local, history, TypeOK
  <1> QED
    BY <1>1, <1>2, <1>3, <1>4, <1>5, <1>6 DEF Step, Work, Fails

\* Nor does it touch a file that is being read, that has a name of the user's, or
\* that another run writes or has published.
LEMMA FilesStay ==
    ASSUME IInv, ExclusiveTmp, NEW p \in Proc, Step(p) \/ Crash(p)
    PROVE  /\ \A q \in Proc : rd[q] \in Inode => data'[rd[q]] = data[rd[q]]
           /\ \A x \in UserPath : fs[x] \in Inode => data'[fs[x]] = data[fs[x]]
           /\ \A q \in Proc \ {p} : pc[q] \in Writing \cup Published =>
                 data'[wr[q]] = data[wr[q]]
           /\ pc[p] \in Published => data'[wr[p]] = data[wr[p]]
  <1>0. /\ TypeOK /\ UserPath \subseteq Path /\ Tmp(p) \in Path \ UserPath
        /\ \A q \in Proc : pc[q] \in Writing \cup Published => wr[q] \in Inode
    BY JobFacts DEF IInv, TypeInv, Obtained, Writing, Published
  <1>1. CASE EncryptChunk(p) \/ DecryptChunk(p) \/ Flush(p) \/ RejectChunk(p) \/ IoErrorBody(p)
    <2>1. \/ data' = data
          \/ pc[p] \in Writing /\ \A i \in Inode : i # wr[p] => data'[i] = data[i]
      BY <1>1, SpillsOwn
    <2>2. CASE data' = data
      BY <2>2
    <2>3. CASE pc[p] \in Writing /\ \A i \in Inode : i # wr[p] => data'[i] = data[i]
      <3>1. pc[p] \notin Published
        BY <2>3 DEF Writing, Published
      <3>2. /\ \A x \in UserPath : fs[x] # wr[p]
            /\ \A q \in Proc : rd[q] # wr[p]
            /\ \A q \in Proc : q # p /\ pc[q] \in Writing => wr[q] # wr[p]
            /\ \A q \in Proc : pc[q] \in Published => wr[q] # wr[p]
        BY <2>3, WriterAlone
      <3> QED
        BY <1>0, <2>3, <3>1, <3>2
    <2> QED
      BY <2>1, <2>2, <2>3
  <1>2. CASE CreateTmp(p)
    <2>1. PICK i \in Inode :
              /\ data' = [data EXCEPT ![i] = << >>]
              /\ \A x \in Path : x # Tmp(p) => fs[x] # i
              /\ \A q \in Proc : rd[q] # i
              /\ \A q \in Proc \ {p} : pc[q] \in Writing \cup Published => wr[q] # i
      BY <1>2, CreateAlone
    <2>2. \A j \in Inode : j # i => data'[j] = data[j]
      BY <1>0, <2>1 DEF TypeOK
    <2>3. pc[p] \notin Published
      BY <1>2 DEF CreateTmp, Published
    <2> QED
      BY <1>0, <2>1, <2>2, <2>3
  <1>3. CASE \/ Refuse(p) \/ Begin(p) \/ Stat(p) \/ OpenInput(p) \/ ReadHeader(p)
             \/ WriteHeader(p) \/ EndOfInput(p) \/ Rename(p) \/ Report(p) \/ Cleanup(p)
             \/ IoErrorEarly(p) \/ IoErrorLeavesTmp(p) \/ IoErrorLate(p) \/ Crash(p)
    <2>1. data' = data
      BY <1>3 DEF Refuse, Begin, Stat, OpenInput, ReadHeader, WriteHeader, EndOfInput,
                  Rename, Report, Cleanup, IoErrorEarly, IoErrorLeavesTmp, IoErrorLate, Crash
    <2> QED
      BY <2>1
  <1> QED
    BY <1>1, <1>2, <1>3 DEF Step, Work, Fails

\* The user rewrites no file that a decryption reads or a run writes or has
\* published.
LEMMA EditStays ==
    ASSUME IInv, ExclusiveTmp, NEW z \in EditPath, NEW c \in EditText, Edit(z, c)
    PROVE  /\ fs[z] \in Inode
           /\ \A i \in Inode : data'[i] = IF i = fs[z] THEN c ELSE data[i]
           /\ UNCHANGED <<job, fs, pc, hdr, rd, wr, off, buf, idx, res, snap, sealed>>
           /\ \A q \in Proc : rd[q] \in Inode /\ job[q].op = "dec" => rd[q] # fs[z]
           /\ \A q \in Proc : pc[q] \in Writing \cup Published => wr[q] # fs[z]
  <1>0. TypeOK /\ ReadersApart /\ z \in UserPath
    BY PathAssumption DEF IInv, TypeInv
  <1>1. /\ fs[z] \in Inode /\ data' = [data EXCEPT ![fs[z]] = c]
        /\ UNCHANGED <<job, fs, pc, hdr, rd, wr, off, buf, idx, res, snap, sealed>>
    BY DEF Edit, local
  <1>2. \A i \in Inode : data'[i] = IF i = fs[z] THEN c ELSE data[i]
    BY <1>0, <1>1 DEF TypeOK
  <1>3. \A q \in Proc : rd[q] \in Inode /\ job[q].op = "dec" => rd[q] # fs[z]
    BY <1>0 DEF ReadersApart, Settled
  <1>4. ASSUME NEW q \in Proc, pc[q] \in Writing PROVE wr[q] # fs[z]
    BY <1>0, <1>4, WriterAlone
  <1>5. ASSUME NEW q \in Proc, pc[q] \in Published PROVE wr[q] # fs[z]
    BY <1>0, <1>5 DEF ReadersApart, Settled
  <1> QED
    BY <1>1, <1>2, <1>3, <1>4, <1>5

-----------------------------------------------------------------------------
(* The verdicts of decrypt_file.                                            *)

\* A run has no result before it returns or its closure fails; a decryption that
\* has found fault with its input was right.
Fault == {"HeaderTampered", "DecryptionFailed", "Truncated"}

Genuine(p) == IsCiphertextOf(data[rd[p]], data[rd[p]][1].hdr, job[p].pass)

Verdict(p) ==
    /\ pc[p] \in Early \cup Writing \cup {"report"} => res[p] = "none"
    /\ job[p].op = "dec" /\ res[p] \in Fault => rd[p] \in Inode /\ ~Genuine(p)

Verdicts == \A p \in Proc : Verdict(p)

\* A fault that header_read, the tag of a chunk or the count reveals is none a
\* complete ciphertext has.
LEMMA FaultIsReal ==
    ASSUME IInv, NEW p \in Proc, job[p].op = "dec",
           \/ pc[p] = "readhdr" /\ header_read(data[rd[p]], job[p].pass) = "HeaderTampered"
           \/ RejectChunk(p)
           \/ pc[p] = "flush" /\ idx[p] # hdr[p].chunk_count
    PROVE  rd[p] \in Inode /\ ~Genuine(p)
  <1> DEFINE c == data[rd[p]]
             h == c[1].hdr
             key == derive_key(job[p].pass, h.salt)
  <1>0. /\ TypeOK /\ WriterAt(p) /\ idx[p] \in Nat
        /\ pc[p] \in {"readhdr", "chunks", "flush"}
    BY DEF IInv, TypeInv, WriterInv, TypeOK, RejectChunk
  <1>1. rd[p] \in Inode /\ c \in Contents
    BY <1>0 DEF IInv, TypeInv, Obtained, TypeOK
  <1> SUFFICES ASSUME IsCiphertextOf(c, h, job[p].pass) PROVE FALSE
    BY <1>1 DEF Genuine
  <1>2. /\ c # << >> /\ c[1] = header_write(h, key) /\ Len(c) = h.chunk_count + 1
        /\ \A i \in 1 .. h.chunk_count : decrypt_chunk_ok(c[i + 1], key, h, i - 1)
    BY DEF IsCiphertextOf
  <1> HIDE DEF h, key
  <1>3. CASE pc[p] = "readhdr" /\ header_read(c, job[p].pass) = "HeaderTampered"
    <2>1. c[1].kind = "header" /\ c[1].hmac = compute_hmac(h, key)
      BY <1>2 DEF header_write
    <2> QED
      BY <1>2, <1>3, <2>1 DEF header_read, h, key
  <1>4. CASE pc[p] \in {"chunks", "flush"}
    <2>1. c[1] = header_write(hdr[p], KeyOf(p))
      BY <1>0, <1>4 DEF WriterAt, Writing
    <2>2. h = hdr[p] /\ hdr[p] \in Header
      BY <1>4, <2>1 DEF h, header_write, IInv, TypeInv, Obtained
    <2>3. key = KeyOf(p) /\ h.chunk_count \in Nat
      BY <2>2 DEF key, KeyOf, Header
    <2>4. CASE RejectChunk(p)
      <3>1. /\ idx[p] + 1 < Len(c)
            /\ ~decrypt_chunk_ok(c[idx[p] + 2], key, h, idx[p])
        BY <2>2, <2>3, <2>4 DEF RejectChunk
      <3>2. idx[p] + 1 \in 1 .. h.chunk_count
        BY <1>0, <1>2, <2>3, <3>1
      <3>3. (idx[p] + 1) + 1 = idx[p] + 2 /\ (idx[p] + 1) - 1 = idx[p]
        BY <1>0
      <3> QED
        BY <1>2, <3>1, <3>2, <3>3
    <2>5. CASE pc[p] = "flush" /\ idx[p] # hdr[p].chunk_count
      <3>1. Len(c) = idx[p] + 1
        BY <1>0, <2>5 DEF WriterAt
      <3> QED
        BY <1>0, <1>2, <2>2, <2>3, <2>5, <3>1
    <2> QED
      BY <1>4, <2>4, <2>5
  <1> QED
    BY <1>0, <1>3, <1>4 DEF RejectChunk

LEMMA VerdictStep ==
    ASSUME IInv, ExclusiveTmp, Verdicts, NEW p \in Proc, Step(p) \/ Crash(p)
    PROVE  Verdicts'
  <1>0. TypeOK /\ Verdict(p) /\ job[p].op \in {"enc", "dec"}
    BY JobPaths DEF IInv, TypeInv, Verdicts
  <1>1. \A q \in Proc : rd[q] \in Inode => data'[rd[q]] = data[rd[q]]
    BY FilesStay
  <1>2. ASSUME NEW q \in Proc, q # p PROVE Verdict(q)'
    <2>1. /\ job' = job /\ pc'[q] = pc[q] /\ res'[q] = res[q] /\ rd'[q] = rd[q]
          /\ Verdict(q)
      BY <1>0, <1>2, OthersStay DEF Verdicts
    <2> QED
      BY <1>1, <2>1 DEF Verdict, Genuine
  <1> SUFFICES Verdict(p)'
    BY <1>2 DEF Verdicts
  <1>3. /\ job' = job
        /\ Verdict(p)' <=>
              /\ pc'[p] \in Early \cup Writing \cup {"report"} => res'[p] = "none"
              /\ job[p].op = "dec" /\ res'[p] \in Fault => rd'[p] \in Inode /\ ~Genuine(p)'
    <2>1. job' = job
      BY JobStays
    <2> QED
      BY <2>1 DEF Verdict
  <1>4. ASSUME rd' = rd, job[p].op = "dec", rd[p] \in Inode, ~Genuine(p) PROVE ~Genuine(p)'
    BY <1>1, <1>3, <1>4 DEF Genuine
  <1>5. CASE \/ Refuse(p) \/ Report(p) \/ IoErrorEarly(p) \/ IoErrorBody(p) \/ IoErrorLate(p)
    <2>1. /\ pc'[p] \in {"failed", "done", "cleanup"}
          /\ res'[p] \in {"FileExists", "Ok", "Io", "InvalidFormat"}
      BY <1>0, <1>5 DEF Refuse, Report, IoErrorEarly, IoErrorBody, IoErrorLate, FailBody,
                        Return, Goto, TypeOK
    <2> QED
      BY <1>3, <2>1 DEF Early, Writing, Fault
  <1>6. CASE \/ Begin(p) \/ Stat(p) \/ OpenInput(p) \/ CreateTmp(p) \/ WriteHeader(p)
             \/ EncryptChunk(p) \/ DecryptChunk(p) \/ EndOfInput(p) \/ Rename(p)
    <2>1. res' = res /\ pc[p] \in Early \cup Writing
      BY <1>6 DEF Begin, Stat, OpenInput, CreateTmp, WriteHeader, EncryptChunk, DecryptChunk,
                  EndOfInput, Rename, Early, Writing
    <2>2. res'[p] = "none"
      BY <1>0, <2>1 DEF Verdict
    <2> QED
      BY <1>3, <2>2 DEF Fault
  <1>7. CASE ReadHeader(p) \/ RejectChunk(p) \/ Flush(p)
    <2>1. rd' = rd /\ pc[p] \in Early \cup Writing
      BY <1>7 DEF ReadHeader, RejectChunk, Flush, Early, Writing
    <2>2. res[p] = "none"
      BY <1>0, <2>1 DEF Verdict
    <2>3. \/ res'[p] = "none"
          \/ res'[p] = "InvalidFormat" /\ pc'[p] = "failed"
          \/ /\ pc'[p] \in {"failed", "cleanup"}
             /\ job[p].op = "dec" => rd[p] \in Inode /\ ~Genuine(p)
      <3>1. CASE ReadHeader(p)
        <4> DEFINE v == header_read(data[rd[p]], job[p].pass)
        <4>1. pc[p] = "readhdr" /\ data[rd[p]] \in Contents
          BY <1>0, <3>1 DEF ReadHeader, IInv, TypeInv, Obtained, TypeOK
        <4>2. v \in {"ok", "InvalidFormat", "HeaderTampered"}
          BY <4>1, HeaderRead
        <4>3. res' = res \/ (res'[p] = v /\ pc'[p] = "failed" /\ v # "ok")
          BY <1>0, <3>1 DEF ReadHeader, Return, Goto, TypeOK
        <4>4. v = "HeaderTampered" /\ job[p].op = "dec" => rd[p] \in Inode /\ ~Genuine(p)
          BY <4>1, FaultIsReal
        <4> QED
          BY <2>2, <4>2, <4>3, <4>4
      <3>2. CASE RejectChunk(p)
        <4>1. pc'[p] = "cleanup" /\ job[p].op = "dec"
          BY <1>0, <3>2 DEF RejectChunk, FailBody, Return, Goto, TypeOK
        <4> QED
          BY <3>2, <4>1, FaultIsReal
      <3>3. CASE Flush(p)
        <4>1. \/ res' = res
              \/ pc[p] = "flush" /\ pc'[p] = "cleanup" /\ idx[p] # hdr[p].chunk_count
          BY <1>0, <3>3 DEF Flush, Return, Goto, TypeOK
        <4> QED
          BY <2>2, <4>1, FaultIsReal
      <3> QED
        BY <1>7, <3>1, <3>2, <3>3
    <2> QED
      BY <1>3, <1>4, <2>1, <2>3 DEF Early, Writing, Fault
  <1>8. CASE Cleanup(p) \/ IoErrorLeavesTmp(p) \/ Crash(p)
    <2>1. /\ rd' = rd /\ pc'[p] \in Final
          /\ res'[p] = res[p] \/ res'[p] = "Io"
      BY <1>0, <1>8 DEF Cleanup, IoErrorLeavesTmp, Crash, Return, Goto, Final, local, TypeOK
    <2> QED
      BY <1>0, <1>3, <1>4, <2>1 DEF Early, Writing, Fault, Final, Verdict
  <1> QED
    BY <1>5, <1>6, <1>7, <1>8 DEF Step, Work, Fails

LEMMA NextVerdicts ==
    ASSUME IInv, ExclusiveTmp, Verdicts, [Next]_vars
    PROVE  Verdicts'
  <1>1. ASSUME NEW z \in EditPath, NEW c \in EditText, Edit(z, c) PROVE Verdicts'
    BY <1>1, EditStays DEF Verdicts, Verdict, Genuine
  <1>2. CASE UNCHANGED <<job, data, pc, rd, res>>
    BY <1>2 DEF Verdicts, Verdict, Genuine
  <1>3. ASSUME NEW z \in EditPath, Remove(z) PROVE UNCHANGED <<job, data, pc, rd, res>>
    BY <1>3 DEF Remove, local
  <1> QED
    BY <1>1, <1>2, <1>3, VerdictStep DEF Next, Terminating, vars, local

\* A complete ciphertext is never reported tampered with, undecryptable or
\* truncated to the owner of its passphrase, whatever happens around the run.
THEOREM OwnersGetIn ==
    ASSUME ExclusiveTmp
    PROVE  Spec => []RightPassOpens
  <1>1. Init => Verdicts
    BY DEF Init, Verdicts, Verdict, Fault
  <1>2. IInv /\ Verdicts /\ [Next]_vars => Verdicts'
    BY NextVerdicts
  <1>3. Verdicts => RightPassOpens
    BY DEF Verdicts, Verdict, Fault, Genuine, RightPassOpens
  <1> QED
    BY <1>1, <1>2, <1>3, Invariance, PTL DEF Spec

-----------------------------------------------------------------------------
(* What encrypt_file reads and seals.                                       *)

\* An inode that is open for reading never gets another name.
ReadName ==
    \A p \in Proc : rd[p] \in Inode => \A x \in Path : fs[x] = rd[p] => x = job[p].in

\* Whatever is encrypted is a text, and so is what a ciphertext stands for.
Texts ==
    /\ \A c \in sealed : IsText(PlainOf(c))
    /\ \A p \in Proc : job[p].op = "enc" /\ fs[job[p].in] \in Inode =>
          IsText(data[fs[job[p].in]])

\* The header commits to the text that was measured, and only the last chunk that
\* is sealed may be short.
Measured(p) ==
    /\ pc[p] # "readhdr"
    /\ pc[p] \in {"open", "create"} \cup Writing =>
          IsText(snap[p]) /\ hdr[p].chunk_count = Len(snap[p])
    /\ pc[p] \in {"chunks", "flush", "rename"} =>
          \A i \in 1 .. idx[p] :
             Written(p)[i + 1].d \in Full \/ (pc[p] # "chunks" /\ i = idx[p])

\* As long as nobody modifies the input, it is the text that was measured, and
\* what has been sealed is a prefix of it, at the end the whole of it.
Unmodified(p) ==
    /\ pc[p] = "open" /\ fs[job[p].in] \in Inode => data[fs[job[p].in]] = snap[p]
    /\ pc[p] \in {"create", "header", "chunks"} => data[rd[p]] = snap[p]
    /\ pc[p] \in {"chunks", "flush", "rename"} =>
          /\ idx[p] <= Len(snap[p])
          /\ \A i \in 1 .. idx[p] : Written(p)[i + 1].d = snap[p][i].d
    /\ pc[p] = "flush" => idx[p] = Len(snap[p])
    /\ pc[p] \in Published => PlainOf(data[wr[p]]) = snap[p]
    /\ res[p] # "Truncated"

Snap(p) == job[p].op = "enc" => Measured(p) /\ (~dirty[p] => Unmodified(p))

Snapshots == ReadName /\ Texts /\ \A p \in Proc : Snap(p)

\* What a step of p does to the names.
LEMMA NamesStay ==
    ASSUME IInv, ExclusiveTmp, NEW p \in Proc, Step(p) \/ Crash(p)
    PROVE  /\ \A x \in UserPath : fs'[x] = fs[x] \/ (Rename(p) /\ x = job[p].out)
           /\ \A x \in Path : fs'[x] \in Inode =>
                 fs'[x] = fs[x] \/ \A q \in Proc : rd[q] # fs'[x]
           /\ dirty' = dirty \/ Rename(p)
           /\ sealed' = sealed \/ (Rename(p) /\ job[p].op = "enc")
           /\ snap' = snap \/ Stat(p)
           /\ rd' = rd \/ OpenInput(p)
  <1>0. /\ TypeOK /\ UserPath \subseteq Path /\ Tmp(p) \in Path \ UserPath
        /\ OwnTmp /\ ReadersApart /\ job[p].out \in UserPath
    BY JobFacts DEF IInv, TypeInv
  <1>1. CASE CreateTmp(p)
    <2>1. UNCHANGED <<dirty, sealed, snap, rd>>
      BY <1>1 DEF CreateTmp, history
    <2>2. PICK i \in Inode : fs' = [fs EXCEPT ![Tmp(p)] = i] /\ \A q \in Proc : rd[q] # i
      BY <1>1, CreateAlone
    <2>3. fs'[Tmp(p)] = i /\ \A x \in Path : x # Tmp(p) => fs'[x] = fs[x]
      BY <1>0, <2>2 DEF TypeOK
    <2>4. \A x \in UserPath : fs'[x] = fs[x]
      BY <1>0, <2>3
    <2> QED
      BY <2>1, <2>2, <2>3, <2>4
  <1>2. CASE Rename(p)
    <2>1. /\ snap' = snap /\ rd' = rd /\ fs[Tmp(p)] \in Inode
          /\ fs' = [fs EXCEPT ![job[p].out] = fs[Tmp(p)], ![Tmp(p)] = Absent]
          /\ sealed' = sealed \/ job[p].op = "enc"
      BY <1>2 DEF Rename, local
    <2>2. /\ \A x \in Path : x # job[p].out /\ x # Tmp(p) => fs'[x] = fs[x]
          /\ fs'[Tmp(p)] = Absent /\ fs'[job[p].out] = fs[Tmp(p)]
      BY <1>0, <2>1 DEF TypeOK
    <2>3. \A q \in Proc : rd[q] # fs[Tmp(p)]
      BY <1>0, <2>1 DEF ReadersApart
    <2>4. Absent \notin Inode
      BY InodeAssumption
    <2> QED
      BY <1>0, <1>2, <2>1, <2>2, <2>3, <2>4
  <1>3. CASE Cleanup(p)
    <2>1. UNCHANGED <<dirty, sealed, snap, rd>>
      BY <1>3 DEF Cleanup, history, local
    <2>2. /\ \A x \in Path : x # Tmp(p) => fs'[x] = fs[x]
          /\ fs'[Tmp(p)] \notin Inode
      BY <1>0, <1>3, InodeAssumption DEF Cleanup, TypeOK
    <2> QED
      BY <1>0, <2>1, <2>2
  <1>4. CASE \/ Refuse(p) \/ Begin(p) \/ Stat(p) \/ OpenInput(p) \/ ReadHeader(p)
             \/ WriteHeader(p) \/ EncryptChunk(p) \/ DecryptChunk(p) \/ RejectChunk(p)
             \/ EndOfInput(p) \/ Flush(p) \/ Report(p) \/ IoErrorEarly(p) \/ IoErrorBody(p)
             \/ IoErrorLeavesTmp(p) \/ IoErrorLate(p) \/ Crash(p)
    <2>1. fs' = fs /\ dirty' = dirty /\ sealed' = sealed
      BY <1>4 DEF Refuse, Begin, Stat, OpenInput, ReadHeader, WriteHeader, EncryptChunk,
                  DecryptChunk, RejectChunk, EndOfInput, Flush, Report, IoErrorEarly,
                  IoErrorBody, IoErrorLeavesTmp, IoErrorLate, Crash, history
    <2>2. (snap' = snap \/ Stat(p)) /\ (rd' = rd \/ OpenInput(p))
      BY <1>4 DEF Refuse, Begin, Stat, OpenInput, ReadHeader, WriteHeader, EncryptChunk,
                  DecryptChunk, RejectChunk, EndOfInput, Flush, Report, IoErrorEarly,
                  IoErrorBody, IoErrorLeavesTmp, IoErrorLate, Crash, history, local
    <2> QED
      BY <2>1, <2>2
  <1> QED
    BY <1>1, <1>2, <1>3, <1>4 DEF Step, Work, Fails

LEMMA NextReadName ==
    ASSUME IInv, ExclusiveTmp, ReadName, [Next]_vars
    PROVE  ReadName'
  <1>0. /\ TypeOK /\ Injective /\ TypeOK'
    BY NextTypeInv DEF IInv, TypeInv
  <1>1. ASSUME NEW p \in Proc, Step(p) \/ Crash(p) PROVE ReadName'
    <2>1. job' = job
      BY <1>1, JobStays
    <2>2. CASE rd' = rd
      <3>1. \A x \in Path : fs'[x] \in Inode =>
                 fs'[x] = fs[x] \/ \A q \in Proc : rd[q] # fs'[x]
        BY <1>1, NamesStay
      <3> QED
        BY <2>1, <2>2, <3>1 DEF ReadName
    <2>3. CASE OpenInput(p)
      <3>1. fs' = fs /\ rd' = [rd EXCEPT ![p] = fs[job[p].in]]
        BY <2>3 DEF OpenInput
      <3>2. job[p].in \in Path
        BY <1>0, JobPaths DEF Path
      <3>3. rd'[p] = fs[job[p].in] /\ \A q \in Proc : q # p => rd'[q] = rd[q]
        BY <1>0, <3>1 DEF TypeOK
      <3> QED
        BY <1>0, <2>1, <3>1, <3>2, <3>3 DEF ReadName, Injective
    <2> QED
      BY <1>1, <2>2, <2>3, NamesStay
  <1>2. CASE UNCHANGED <<job, fs, rd>>
    BY <1>2 DEF ReadName
  <1>3. ASSUME NEW z \in EditPath, Remove(z) PROVE ReadName'
    <2>1. job' = job /\ rd' = rd /\ \A x \in Path : fs'[x] \in Inode => fs'[x] = fs[x]
      BY <1>0, <1>3, InodeAssumption DEF Remove, local, TypeOK
    <2> QED
      BY <2>1 DEF ReadName
  <1>4. ASSUME NEW z \in EditPath, NEW c \in EditText, Edit(z, c)
        PROVE  UNCHANGED <<job, fs, rd>>
    BY <1>4 DEF Edit, local
  <1> QED
    BY <1>1, <1>2, <1>3, <1>4 DEF Next, Terminating, vars, local

\* What an encryption is about to publish stands for a text, the measured one if
\* nobody has modified its input.
LEMMA SealedText ==
    ASSUME IInv, NEW p \in Proc, job[p].op = "enc", pc[p] = "rename", Measured(p)
    PROVE  /\ IsText(PlainOf(data[wr[p]]))
           /\ Unmodified(p) => PlainOf(data[wr[p]]) = snap[p]
  <1> DEFINE c == data[wr[p]]
             t == PlainOf(c)
  <1>0. /\ WriterAt(p) /\ hdr[p] \in Header /\ c \in Contents /\ idx[p] \in Nat
        /\ buf[p] = << >>
    BY DEF IInv, TypeInv, WriterInv, WriterAt, Obtained, TypeOK
  <1>1. Written(p) = c
    BY <1>0, ConcatEmptySeq DEF Written, Contents
  <1>2. /\ Len(c) = idx[p] + 1
        /\ \A i \in 1 .. idx[p] :
              decrypt_chunk_ok(c[i + 1], derive_key(job[p].pass, hdr[p].salt), hdr[p], i - 1)
    BY <1>0, <1>1 DEF WriterAt, Writing, SealedPrefix
  <1>3. \A i \in 1 .. idx[p] : c[i + 1].d \in Chunk
    <2> TAKE i \in 1 .. idx[p]
    <2>1. c[i + 1] \in Block
      BY <1>0, <1>2 DEF Contents
    <2>2. decrypt_chunk_ok(c[i + 1], derive_key(job[p].pass, hdr[p].salt), hdr[p], i - 1)
      BY <1>2
    <2> QED
      BY <2>1, <2>2, OpenedIsChunk
  <1> HIDE DEF c
  <1>4. t = [i \in 1 .. idx[p] |-> Plain(c[i + 1].d)]
    BY <1>0, <1>2 DEF PlainOf
  <1>5. t \in Seq(PlainBlock) /\ Len(t) = idx[p]
    <2>1. \A i \in 1 .. idx[p] : Plain(c[i + 1].d) \in PlainBlock
      BY <1>3 DEF Plain, PlainBlock
    <2> HIDE DEF t
    <2> QED
      BY <1>0, <1>4, <2>1
  <1>6. IsText(t)
    <2>1. ASSUME NEW i \in 1 .. idx[p] - 1 PROVE t[i].d \in Full
      <3>1. i \in 1 .. idx[p] /\ i # idx[p]
        BY <1>0
      <3>2. Written(p)[i + 1].d \in Full
        BY <3>1 DEF Measured
      <3>3. t[i].d = c[i + 1].d
        BY <1>4, <3>1 DEF Plain
      <3> QED
        BY <1>1, <3>2, <3>3
    <2> QED
      BY <1>5, <2>1 DEF IsText
  <1>7. ASSUME Unmodified(p) PROVE t = snap[p]
    <2>1. snap[p] \in Seq(PlainBlock) /\ Len(snap[p]) = idx[p]
      BY <1>0 DEF Measured, IsText, Writing, WriterAt
    <2>2. ASSUME NEW i \in 1 .. idx[p] PROVE t[i] = snap[p][i]
      <3>1. c[i + 1].d = snap[p][i].d
        BY <1>1, <1>7 DEF Unmodified
      <3>2. snap[p][i] \in PlainBlock
        BY <2>1
      <3>3. snap[p][i] = [kind |-> "plain", d |-> snap[p][i].d]
        BY <3>2 DEF PlainBlock
      <3> QED
        BY <1>4, <3>1, <3>3 DEF Plain
    <2> HIDE DEF t
    <2> QED
      BY <1>5, <2>1, <2>2, SeqEqual
  <1> QED
    BY <1>6, <1>7 DEF c

LEMMA NextTexts ==
    ASSUME IInv, ExclusiveTmp, Snapshots, [Next]_vars
    PROVE  Texts'
  <1>0. /\ TypeOK /\ JobsFixed /\ UserPath \subseteq Path
        /\ \A p \in Proc : job[p].in \in UserPath /\ job[p].op \in {"enc", "dec"}
    BY JobPaths DEF IInv, TypeInv, Path, Job
  <1>1. ASSUME NEW p \in Proc, Step(p) \/ Crash(p) PROVE Texts'
    <2>1. /\ job' = job
          /\ \A x \in UserPath : fs[x] \in Inode => data'[fs[x]] = data[fs[x]]
      BY <1>1, JobStays, FilesStay
    <2>2. CASE sealed' = sealed /\ \A x \in UserPath : fs'[x] = fs[x]
      BY <1>0, <2>1, <2>2 DEF Snapshots, Texts
    <2>3. CASE Rename(p)
      <3>1. /\ data' = data /\ pc[p] = "rename"
            /\ sealed' = IF job[p].op = "enc" THEN sealed \cup {data[fs[Tmp(p)]]} ELSE sealed
        BY <2>3 DEF Rename
      <3>2. fs[Tmp(p)] = wr[p] /\ fs'[job[p].out] = wr[p] /\ job[p].out \in UserPath
        <4>1. /\ fs' = [fs EXCEPT ![job[p].out] = fs[Tmp(p)], ![Tmp(p)] = Absent]
              /\ fs[Tmp(p)] = wr[p]
          BY <2>3, <3>1 DEF Rename, IInv, OwnTmp, Writing
        <4>2. Tmp(p) \in Path \ UserPath /\ job[p].out \in UserPath
          BY <1>0, JobFacts
        <4> QED
          BY <1>0, <4>1, <4>2 DEF TypeOK
      <3>3. \A x \in UserPath : x # job[p].out => fs'[x] = fs[x]
        BY <1>1, NamesStay
      <3>4. \A c \in sealed' : IsText(PlainOf(c))
        <4>1. job[p].op = "enc" => IsText(PlainOf(data[wr[p]]))
          BY <3>1, SealedText DEF Snapshots, Snap
        <4> QED
          BY <3>1, <3>2, <4>1 DEF Snapshots, Texts
      <3>5. job[p].op = "dec" => IsText(data[wr[p]])
        <4> SUFFICES ASSUME job[p].op = "dec" PROVE IsText(data[wr[p]])
          OBVIOUS
        <4>1. IsCiphertext(data[rd[p]]) /\ data[wr[p]] = PlainOf(data[rd[p]])
          BY <3>1, ReadyToPublish DEF IInv, WriterInv
        <4>2. rd[p] \in Inode
          BY <3>1 DEF IInv, TypeInv, Obtained
        <4>3. data[rd[p]] \in sealed
          BY <4>1, <4>2 DEF IInv, ArchiveInv, Archived
        <4> QED
          BY <4>1, <4>3 DEF Snapshots, Texts
      <3>6. ASSUME NEW q \in Proc, job[q].op = "enc", job[q].in = job[p].out
            PROVE  job[p].op = "dec"
        <4>1. PICK s \in Scenario : job = s.job
          BY <1>0 DEF JobsFixed
        <4> QED
          BY <1>0, <3>6, <4>1, ScenarioAssumption
      <3>7. ASSUME NEW q \in Proc, job[q].op = "enc", fs'[job[q].in] \in Inode
            PROVE  IsText(data[fs'[job[q].in]])
        <4>1. CASE job[q].in = job[p].out
          BY <3>2, <3>5, <3>6, <3>7, <4>1
        <4>2. CASE job[q].in # job[p].out
          BY <1>0, <3>3, <3>7, <4>2 DEF Snapshots, Texts
        <4> QED
          BY <4>1, <4>2
      <3> QED
        BY <2>1, <3>1, <3>4, <3>7 DEF Texts
    <2> QED
      BY <1>1, <2>2, <2>3, NamesStay
  <1>2. CASE UNCHANGED <<job, fs, data, sealed>>
    BY <1>2 DEF Snapshots, Texts
  <1>3. ASSUME NEW z \in EditPath, Remove(z) PROVE Texts'
    <2>1. /\ UNCHANGED <<job, data, sealed>>
          /\ \A x \in Path : fs'[x] \in Inode => fs'[x] = fs[x]
      BY <1>0, <1>3, InodeAssumption DEF Remove, history, TypeOK
    <2> QED
      BY <1>0, <2>1 DEF Snapshots, Texts
  <1>4. ASSUME NEW z \in EditPath, NEW c \in EditText, Edit(z, c) PROVE Texts'
    <2>1. /\ UNCHANGED <<job, fs, sealed>>
          /\ \A i \in Inode : data'[i] = IF i = fs[z] THEN c ELSE data[i]
      BY <1>4, EditStays
    <2>2. IsText(c)
      BY PathAssumption
    <2> QED
      BY <2>1, <2>2 DEF Snapshots, Texts
  <1> QED
    BY <1>1, <1>2, <1>3, <1>4 DEF Next, Terminating, vars, history

\* A step of another run disturbs none of it, unless it replaces the input.
LEMMA SnapOfOthers ==
    ASSUME IInv, ExclusiveTmp, NEW p \in Proc, Step(p) \/ Crash(p),
           NEW q \in Proc, q # p, Snap(q)
    PROVE  Snap(q)'
  <1>0. TypeOK /\ job[q].in \in UserPath
    BY JobPaths DEF IInv, TypeInv, Job
  <1>1. /\ job' = job
        /\ pc'[q] = pc[q] /\ res'[q] = res[q] /\ hdr'[q] = hdr[q] /\ rd'[q] = rd[q]
        /\ wr'[q] = wr[q] /\ buf'[q] = buf[q] /\ idx'[q] = idx[q] /\ snap'[q] = snap[q]
    BY <1>0, OthersStay
  <1>2. /\ rd[q] \in Inode => data'[rd[q]] = data[rd[q]]
        /\ fs[job[q].in] \in Inode => data'[fs[job[q].in]] = data[fs[job[q].in]]
        /\ pc[q] \in Writing \cup Published => data'[wr[q]] = data[wr[q]]
    BY <1>0, FilesStay
  <1> SUFFICES ASSUME job[q].op = "enc" PROVE Measured(q)' /\ (~dirty'[q] => Unmodified(q)')
    BY <1>1 DEF Snap
  <1>3. pc[q] \in Writing => Written(q)' = Written(q)
    BY <1>1, <1>2 DEF Written
  <1>4. Measured(q)'
    BY <1>1, <1>3 DEF Snap, Measured, Writing
  <1>5. ASSUME ~dirty'[q] PROVE ~dirty[q] /\ (pc[q] = "open" => fs'[job[q].in] = fs[job[q].in])
    <2>1. CASE Rename(p)
      <3>1. dirty'[q] = (dirty[q] \/ (job[q].in = job[p].out /\ pc[q] = "open"))
        BY <2>1 DEF Rename, Touch
      <3>2. fs'[job[q].in] = fs[job[q].in] \/ job[q].in = job[p].out
        BY <1>0, NamesStay
      <3> QED
        BY <1>5, <3>1, <3>2
    <2>2. CASE ~Rename(p)
      BY <1>0, <1>5, <2>2, NamesStay
    <2> QED
      BY <2>1, <2>2
  <1>6. ASSUME ~dirty'[q] PROVE Unmodified(q)'
    <2>1. Unmodified(q)
      BY <1>5, <1>6 DEF Snap
    <2>2. pc[q] \in {"create", "header", "chunks"} => rd[q] \in Inode
      BY DEF IInv, TypeInv, Obtained
    <2>3. pc[q] = "open" => fs'[job[q].in] = fs[job[q].in]
      BY <1>5, <1>6
    <2>4. pc[q] = "open" /\ fs'[job[q].in] \in Inode => data'[fs'[job[q].in]] = snap[q]
      BY <1>2, <2>1, <2>3 DEF Unmodified
    <2>5. pc[q] \in {"create", "header", "chunks"} => data'[rd[q]] = snap[q]
      BY <1>2, <2>1, <2>2 DEF Unmodified
    <2>6. pc[q] \in {"chunks", "flush", "rename"} =>
             \A i \in 1 .. idx[q] : Written(q)'[i + 1].d = snap[q][i].d
      BY <1>3, <2>1 DEF Unmodified, Writing
    <2>7. pc[q] \in Published => PlainOf(data'[wr[q]]) = snap[q]
      BY <1>2, <2>1 DEF Unmodified
    <2> QED
      BY <1>1, <2>1, <2>4, <2>5, <2>6, <2>7 DEF Unmodified
  <1> QED
    BY <1>4, <1>6

\* encrypt_file before it writes: what is opened is what was measured, as long as
\* nobody modifies it.
LEMMA SnapEarly ==
    ASSUME IInv, ExclusiveTmp, Snapshots, NEW p \in Proc, job[p].op = "enc",
           Begin(p) \/ Stat(p) \/ OpenInput(p) \/ CreateTmp(p) \/ WriteHeader(p)
    PROVE  Snap(p)'
  <1>0. TypeOK /\ Snap(p) /\ idx[p] \in Nat
    BY DEF IInv, TypeInv, Snapshots, TypeOK
  <1>1. job' = job /\ dirty' = dirty /\ res' = res
    BY DEF Begin, Stat, OpenInput, CreateTmp, WriteHeader, history
  <1> SUFFICES Measured(p)' /\ (~dirty[p] => Unmodified(p)')
    BY <1>0, <1>1 DEF Snap, TypeOK
  <1>2. CASE Begin(p)
    <2>1. pc'[p] = "stat"
      BY <1>0, <1>2 DEF Begin, Goto, TypeOK
    <2> QED
      BY <1>0, <1>1, <2>1 DEF Snap, Measured, Unmodified, Writing, Published
  <1>3. CASE Stat(p)
    <2>1. /\ pc'[p] = "open" /\ snap'[p] = data[fs[job[p].in]] /\ UNCHANGED <<fs, data>>
          /\ hdr'[p].chunk_count = Len(snap'[p]) /\ fs[job[p].in] \in Inode
      BY <1>0, <1>3 DEF Stat, Goto, TypeOK
    <2>2. IsText(snap'[p])
      BY <2>1 DEF Snapshots, Texts
    <2> QED
      BY <1>0, <1>1, <2>1, <2>2 DEF Snap, Measured, Unmodified, Published
  <1>4. CASE OpenInput(p)
    <2>1. /\ pc'[p] = "create" /\ rd'[p] = fs[job[p].in] /\ fs[job[p].in] \in Inode
          /\ pc[p] = "open" /\ UNCHANGED <<fs, data, hdr, snap>>
      BY <1>0, <1>4 DEF OpenInput, Goto, TypeOK, history
    <2> QED
      BY <1>0, <1>1, <2>1 DEF Snap, Measured, Unmodified, Published
  <1>5. CASE CreateTmp(p)
    <2>1. pc[p] = "create" /\ pc'[p] = "header" /\ UNCHANGED <<hdr, snap, rd>>
      BY <1>0, <1>5 DEF CreateTmp, Goto, TypeOK, history
    <2>2. data'[rd[p]] = data[rd[p]]
      BY <1>5, <2>1, FilesStay DEF Step, Work, IInv, TypeInv, Obtained
    <2> QED
      BY <1>0, <1>1, <2>1, <2>2 DEF Snap, Measured, Unmodified, Published
  <1>6. CASE WriteHeader(p)
    <2>1. pc[p] = "header" /\ pc'[p] = "chunks" /\ UNCHANGED <<data, hdr, snap, rd, idx>>
      BY <1>0, <1>6 DEF WriteHeader, Goto, TypeOK, history
    <2>2. idx[p] = 0 /\ IsText(snap[p])
      BY <1>0, <2>1 DEF IInv, WriterInv, WriterAt, Snap, Measured, Writing
    <2>3. 1 .. idx'[p] = {} /\ idx'[p] <= Len(snap'[p])
      BY <2>1, <2>2 DEF IsText
    <2> QED
      BY <1>0, <1>1, <2>1, <2>2, <2>3 DEF Snap, Measured, Unmodified, Published, Writing
  <1> QED
    BY <1>2, <1>3, <1>4, <1>5, <1>6

\* One chunk: it is the next of the input, and a short one is the last.
LEMMA SnapChunk ==
    ASSUME IInv, ExclusiveTmp, NEW p \in Proc, Snap(p), EncryptChunk(p)
    PROVE  Snap(p)'
  <1> DEFINE d == Datum(data[rd[p]][idx[p] + 1])
             b == encrypt_chunk(d, KeyOf(p), hdr[p], idx[p])
             w == Written(p)
  <1>0. /\ TypeOK /\ WriterAt(p) /\ idx[p] \in Nat /\ hdr[p] \in Header /\ rd[p] \in Inode
        /\ wr[p] \in Inode /\ job[p].op = "enc" /\ pc[p] = "chunks" /\ data[rd[p]] \in Contents
        /\ job[p].pass \in Pass
    BY JobPaths DEF IInv, TypeInv, WriterInv, TypeOK, Obtained, EncryptChunk, Job
  <1>1. /\ UNCHANGED <<job, hdr, rd, wr, res, snap, dirty>>
        /\ idx[p] < Len(data[rd[p]]) /\ WriteBlock(p, b)
        /\ pc'[p] = (IF d \in Full THEN "chunks" ELSE "flush") /\ idx'[p] = idx[p] + 1
    BY <1>0 DEF EncryptChunk, history, Goto, TypeOK
  <1>2. b \in Block
    <2>1. data[rd[p]][idx[p] + 1] \in Block
      BY <1>0, <1>1 DEF Contents
    <2>2. d \in Chunk
      BY <2>1, DatumIsChunk
    <2> HIDE DEF d
    <2> QED
      BY <1>0, <2>2, SealedIsBlock DEF KeyOf
  <1>3. b.d = d
    BY DEF encrypt_chunk
  <1>4. data'[rd[p]] = data[rd[p]]
    BY <1>0, FilesStay DEF Step, Work
  <1> HIDE DEF b
  <1>5. Written(p)' = Append(w, b) /\ w \in Contents
    BY <1>0, <1>1, <1>2, WriteBlockAppends DEF WriterAt, Writing
  <1>6. Len(w) = idx[p] + 1
    BY <1>0 DEF WriterAt, Writing, SealedPrefix
  <1> HIDE DEF d, w
  <1>7. /\ \A i \in 1 .. idx[p] : Written(p)'[i + 1] = w[i + 1]
        /\ Written(p)'[idx[p] + 2] = b
    BY <1>0, <1>2, <1>5, <1>6 DEF Contents
  <1>8. Measured(p)
    BY <1>0 DEF Snap
  <1>9. Measured(p)'
    <2>1. ASSUME NEW i \in 1 .. idx[p] + 1
          PROVE  Written(p)'[i + 1].d \in Full \/ (pc'[p] # "chunks" /\ i = idx[p] + 1)
      <3>1. CASE i = idx[p] + 1
        <4>1. i + 1 = idx[p] + 2
          BY <1>0, <3>1
        <4> QED
          BY <1>1, <1>3, <1>7, <3>1, <4>1
      <3>2. CASE i # idx[p] + 1
        <4>1. i \in 1 .. idx[p]
          BY <1>0, <3>2
        <4> QED
          BY <1>0, <1>7, <1>8, <4>1 DEF Measured, w
      <3> QED
        BY <3>1, <3>2
    <2>2. IsText(snap'[p]) /\ hdr'[p].chunk_count = Len(snap'[p])
      BY <1>0, <1>1, <1>8 DEF Measured, Writing
    <2>3. pc'[p] \in {"chunks", "flush"}
      BY <1>1
    <2> QED
      BY <1>1, <2>1, <2>2, <2>3 DEF Measured
  <1>10. ASSUME ~dirty[p] PROVE Unmodified(p)'
    <2>1. Unmodified(p) /\ data[rd[p]] = snap[p] /\ IsText(snap[p])
      BY <1>0, <1>8, <1>10 DEF Snap, Unmodified, Measured, Writing
    <2>2. Len(snap[p]) \in Nat /\ idx[p] + 1 <= Len(snap[p])
      BY <1>0, <1>1, <2>1 DEF IsText
    <2>3. d = snap[p][idx[p] + 1].d
      <3>1. snap[p][idx[p] + 1] \in PlainBlock
        BY <1>0, <2>1, <2>2 DEF IsText
      <3> QED
        BY <2>1, <3>1 DEF d, Datum, PlainBlock
    <2>4. ASSUME NEW i \in 1 .. idx[p] + 1 PROVE Written(p)'[i + 1].d = snap[p][i].d
      <3>1. CASE i = idx[p] + 1
        <4>1. i + 1 = idx[p] + 2
          BY <1>0, <3>1
        <4> QED
          BY <1>3, <1>7, <2>3, <3>1, <4>1
      <3>2. CASE i # idx[p] + 1
        <4>1. i \in 1 .. idx[p]
          BY <1>0, <3>2
        <4> QED
          BY <1>0, <1>7, <2>1, <4>1 DEF Unmodified, w
      <3> QED
        BY <3>1, <3>2
    <2>5. pc'[p] = "flush" => idx[p] + 1 = Len(snap[p])
      <3>1. idx[p] + 1 \in 1 .. Len(snap[p]) - 1 => d \in Full
        BY <2>1, <2>3 DEF IsText
      <3> QED
        BY <1>0, <1>1, <2>2, <3>1
    <2>6. pc'[p] \in {"chunks", "flush"} /\ data'[rd'[p]] = snap'[p] /\ res'[p] # "Truncated"
      BY <1>1, <1>4, <2>1 DEF Unmodified
    <2> QED
      BY <1>1, <2>2, <2>4, <2>5, <2>6 DEF Unmodified, Published
  <1> QED
    BY <1>1, <1>9, <1>10 DEF Snap

\* The end of encrypt_file: at the end of an unmodified input all of it has been
\* read, so the count agrees.
LEMMA SnapLate ==
    ASSUME IInv, ExclusiveTmp, NEW p \in Proc, Snap(p), job[p].op = "enc",
           EndOfInput(p) \/ Flush(p) \/ Rename(p) \/ Report(p)
    PROVE  Snap(p)'
  <1>0. /\ TypeOK /\ WriterAt(p) /\ idx[p] \in Nat /\ Measured(p)
    BY DEF IInv, TypeInv, WriterInv, TypeOK, Snap
  <1>1. CASE EndOfInput(p)
    <2>1. /\ UNCHANGED <<job, data, hdr, rd, wr, buf, idx, res, snap, dirty>>
          /\ pc[p] = "chunks" /\ pc'[p] = "flush" /\ Len(data[rd[p]]) <= idx[p]
      BY <1>0, <1>1 DEF EndOfInput, Goto, local, history, TypeOK
    <2>2. Written(p)' = Written(p)
      BY <2>1 DEF Written
    <2>3. Measured(p)'
      BY <1>0, <2>1, <2>2 DEF Measured, Writing
    <2>4. ASSUME ~dirty[p] PROVE Unmodified(p)'
      <3>1. Unmodified(p) /\ data[rd[p]] = snap[p] /\ IsText(snap[p])
        BY <1>0, <2>1, <2>4 DEF Snap, Unmodified, Measured, Writing
      <3>2. idx[p] = Len(snap[p])
        BY <1>0, <2>1, <3>1 DEF Unmodified, IsText
      <3> QED
        BY <2>1, <2>2, <3>1, <3>2 DEF Unmodified, Published
    <2> QED
      BY <2>1, <2>3, <2>4 DEF Snap
  <1>2. CASE Flush(p)
    <2>1. /\ UNCHANGED <<job, hdr, rd, wr, idx, snap, dirty>> /\ Spill(p, buf[p])
          /\ pc[p] = "flush"
          /\ \/ idx[p] = hdr[p].chunk_count /\ pc'[p] = "rename" /\ res' = res
             \/ idx[p] # hdr[p].chunk_count /\ pc'[p] = "cleanup"
      BY <1>0, <1>2 DEF Flush, Return, Goto, history, TypeOK
    <2>2. Written(p)' = Written(p)
      <3>1. wr[p] \in Inode /\ buf[p] \in Contents /\ data[wr[p]] \in Contents
        BY <1>0, <2>1 DEF IInv, TypeInv, Obtained, TypeOK, Contents
      <3>2. data'[wr[p]] = data[wr[p]] \o buf[p] /\ buf'[p] = << >>
        BY <1>0, <2>1, <3>1, SpillAppends DEF WriterAt, Writing
      <3>3. data[wr[p]] \o buf[p] \in Seq(Block)
        BY <3>1 DEF Contents
      <3> QED
        BY <2>1, <3>2, <3>3, ConcatEmptySeq DEF Written
    <2>3. Measured(p)'
      BY <1>0, <2>1, <2>2 DEF Measured, Writing
    <2>4. ASSUME ~dirty[p] PROVE Unmodified(p)'
      <3>1. Unmodified(p) /\ idx[p] = hdr[p].chunk_count
        BY <1>0, <2>1, <2>4 DEF Snap, Unmodified, Measured, Writing
      <3> QED
        BY <2>1, <2>2, <3>1 DEF Unmodified, Published
    <2> QED
      BY <2>1, <2>3, <2>4 DEF Snap
  <1>3. CASE Rename(p)
    <2>1. /\ UNCHANGED <<job, data, wr, res, snap>> /\ pc[p] = "rename" /\ pc'[p] = "report"
          /\ dirty[p] => dirty'[p]
      BY <1>0, <1>3 DEF Rename, Goto, Touch, local, TypeOK
    <2>2. Measured(p)'
      BY <2>1 DEF Measured, Writing
    <2>3. ASSUME ~dirty'[p] PROVE Unmodified(p)'
      <3>1. Unmodified(p)
        BY <2>1, <2>3 DEF Snap
      <3>2. PlainOf(data[wr[p]]) = snap[p]
        BY <1>0, <2>1, <3>1, SealedText
      <3> QED
        BY <2>1, <3>1, <3>2 DEF Unmodified, Published
    <2> QED
      BY <2>1, <2>2, <2>3 DEF Snap
  <1>4. CASE Report(p)
    <2>1. /\ UNCHANGED <<job, data, wr, snap, dirty>> /\ pc[p] = "report" /\ pc'[p] = "done"
          /\ res'[p] = "Ok"
      BY <1>0, <1>4 DEF Report, Return, Goto, local, history, TypeOK
    <2> QED
      BY <2>1 DEF Snap, Measured, Unmodified, Writing, Published
  <1> QED
    BY <1>1, <1>2, <1>3, <1>4

\* A run that gives up or is killed keeps no promise but the one about its error.
LEMMA SnapEnds ==
    ASSUME IInv, NEW p \in Proc, Snap(p), job[p].op = "enc",
           \/ Refuse(p) \/ Cleanup(p) \/ Fails(p) \/ Crash(p)
    PROVE  Snap(p)'
  <1>0. TypeOK /\ Measured(p)
    BY DEF IInv, TypeInv, Snap
  <1>1. /\ UNCHANGED <<job, dirty>> /\ pc'[p] \in {"failed", "cleanup", "littered", "crashed"}
        /\ res'[p] \in {res[p], "FileExists", "Io", "InvalidFormat"}
    BY <1>0 DEF Refuse, Cleanup, Fails, IoErrorEarly, IoErrorBody, IoErrorLeavesTmp,
                IoErrorLate, Crash, FailBody, Return, Goto, local, history, TypeOK
  <1> QED
    BY <1>0, <1>1 DEF Snap, Measured, Unmodified, Writing, Published

LEMMA InitSnapshots == Init => Snapshots
  <1> SUFFICES ASSUME Init PROVE Snapshots
    OBVIOUS
  <1>0. PICK s \in Scenario : job = s.job /\ fs = s.fs /\ data = s.data
    BY DEF Init
  <1>1. /\ UserPath \subseteq Path
        /\ job \in [Proc -> Job] /\ fs \in [Path -> File \cup {Absent, Dir}]
    <2>1. UserPath \subseteq Path
      BY DEF Path
    <2> QED
      BY <1>0, <2>1, ScenarioAssumption
  <1>2. \A x \in UserPath : fs[x] \in Inode => fs[x] \in File
    BY <1>1, InodeAssumption
  <1>3. \A c \in sealed : IsText(PlainOf(c))
    <2> SUFFICES ASSUME NEW q \in UserPath, fs[q] \in Inode, IsCiphertext(data[fs[q]])
                 PROVE  IsText(PlainOf(data[fs[q]]))
      BY DEF Init
    <2> QED
      BY <1>0, <1>2, ScenarioAssumption
  <1>4. ASSUME NEW p \in Proc, job[p].op = "enc", fs[job[p].in] \in Inode
        PROVE  IsText(data[fs[job[p].in]])
    <2>1. job[p].in \in UserPath
      BY <1>1 DEF Job
    <2> QED
      BY <1>0, <1>2, <1>4, <2>1, ScenarioAssumption
  <1>5. ReadName
    BY InodeAssumption DEF Init, ReadName
  <1>6. \A p \in Proc : pc[p] = "start" /\ res[p] = "none"
    BY DEF Init
  <1>7. \A p \in Proc : Snap(p)
    BY <1>6 DEF Snap, Measured, Unmodified, Writing, Published
  <1> QED
    BY <1>3, <1>4, <1>5, <1>7 DEF Snapshots, Texts

LEMMA EditSnap ==
    ASSUME IInv, ExclusiveTmp, Snapshots, NEW z \in EditPath, NEW c \in EditText, Edit(z, c),
           NEW q \in Proc
    PROVE  Snap(q)'
  <1>0. /\ TypeOK /\ Injective /\ ReadName /\ Snap(q) /\ z \in Path /\ job[q].in \in Path
    BY PathAssumption, JobPaths DEF IInv, TypeInv, Snapshots, Path, Job
  <1>1. /\ fs[z] \in Inode
        /\ \A i \in Inode : data'[i] = IF i = fs[z] THEN c ELSE data[i]
        /\ UNCHANGED <<job, fs, pc, hdr, rd, wr, buf, idx, res, snap>>
        /\ pc[q] \in Writing \cup Published => wr[q] # fs[z]
    BY EditStays
  <1>2. dirty'[q] = (dirty[q] \/ (job[q].op = "enc" /\ job[q].in = z /\ pc[q] \in Reading))
    BY DEF Edit, Touch
  <1>3. pc[q] \in Writing \cup Published => wr[q] \in Inode /\ data'[wr[q]] = data[wr[q]]
    BY <1>1 DEF IInv, TypeInv, Obtained, Writing, Published
  <1> SUFFICES ASSUME job[q].op = "enc" PROVE Measured(q)' /\ (~dirty'[q] => Unmodified(q)')
    BY <1>1 DEF Snap
  <1>4. pc[q] \in Writing => Written(q)' = Written(q)
    BY <1>1, <1>3 DEF Written
  <1>5. Measured(q)'
    BY <1>0, <1>1, <1>4 DEF Snap, Measured, Writing
  <1>6. ASSUME ~dirty'[q] PROVE Unmodified(q)'
    <2>1. Unmodified(q) /\ (job[q].in = z => pc[q] \notin Reading)
      BY <1>0, <1>2, <1>6 DEF Snap
    <2>2. pc[q] = "open" /\ fs[job[q].in] \in Inode => data'[fs[job[q].in]] = snap[q]
      BY <1>0, <1>1, <2>1 DEF Unmodified, Injective, Reading
    <2>3. pc[q] \in {"create", "header", "chunks"} => data'[rd[q]] = snap[q]
      <3>1. pc[q] \in {"create", "header", "chunks"} => rd[q] \in Inode
        BY DEF IInv, TypeInv, Obtained
      <3> QED
        BY <1>0, <1>1, <2>1, <3>1 DEF Unmodified, ReadName, Reading
    <2>4. pc[q] \in {"chunks", "flush", "rename"} =>
             \A i \in 1 .. idx[q] : Written(q)'[i + 1].d = snap[q][i].d
      BY <1>4, <2>1 DEF Unmodified, Writing
    <2>5. pc[q] \in Published => PlainOf(data'[wr[q]]) = snap[q]
      BY <1>3, <2>1 DEF Unmodified
    <2> QED
      BY <1>1, <2>1, <2>2, <2>3, <2>4, <2>5 DEF Unmodified
  <1> QED
    BY <1>5, <1>6

LEMMA NextSnapshots ==
    ASSUME IInv, ExclusiveTmp, Snapshots, [Next]_vars
    PROVE  Snapshots'
  <1>0. TypeOK /\ \A p \in Proc : job[p].op \in {"enc", "dec"} /\ job[p].in \in Path /\ Snap(p)
    BY JobPaths DEF IInv, TypeInv, Job, Path, Snapshots
  <1>1. ReadName' /\ Texts'
    BY NextReadName, NextTexts DEF Snapshots
  <1>2. ASSUME NEW p \in Proc, Step(p) \/ Crash(p), NEW q \in Proc PROVE Snap(q)'
    <2>1. CASE q # p
      BY <1>0, <1>2, <2>1, SnapOfOthers
    <2>2. CASE job[p].op = "dec"
      <3>1. job' = job
        BY <1>2, JobStays
      <3>2. CASE q = p
        BY <2>2, <3>1, <3>2 DEF Snap
      <3> QED
        BY <2>1, <3>2
    <2>3. CASE q = p /\ job[p].op = "enc"
      <3>1. CASE Begin(p) \/ Stat(p) \/ OpenInput(p) \/ CreateTmp(p) \/ WriteHeader(p)
        BY <2>3, <3>1, SnapEarly
      <3>2. CASE EncryptChunk(p)
        BY <1>0, <2>3, <3>2, SnapChunk
      <3>3. CASE EndOfInput(p) \/ Flush(p) \/ Rename(p) \/ Report(p)
        BY <1>0, <2>3, <3>3, SnapLate
      <3>4. CASE Refuse(p) \/ Cleanup(p) \/ Fails(p) \/ Crash(p)
        BY <1>0, <2>3, <3>4, SnapEnds
      <3>5. ~ReadHeader(p) /\ ~DecryptChunk(p) /\ ~RejectChunk(p)
        BY <1>0, <2>3 DEF ReadHeader, DecryptChunk, RejectChunk, Snap, Measured
      <3> QED
        BY <1>2, <3>1, <3>2, <3>3, <3>4, <3>5 DEF Step, Work
    <2> QED
      BY <1>0, <2>1, <2>2, <2>3
  <1>3. ASSUME NEW z \in EditPath, Remove(z), NEW q \in Proc PROVE Snap(q)'
    <2>1. /\ UNCHANGED <<job, data, pc, hdr, rd, wr, buf, idx, res, snap, dirty>>
          /\ \A x \in Path : fs'[x] \in Inode => fs'[x] = fs[x]
      BY <1>0, <1>3, InodeAssumption DEF Remove, local, history, TypeOK
    <2>2. Written(q)' = Written(q)
      BY <2>1 DEF Written
    <2> QED
      BY <1>0, <2>1, <2>2 DEF Snap, Measured, Unmodified
  <1>4. ASSUME UNCHANGED vars, NEW q \in Proc PROVE Snap(q)'
    <2>1. UNCHANGED <<job, fs, data, pc, hdr, rd, wr, buf, idx, res, snap, dirty>>
      BY <1>4 DEF vars, local, history
    <2>2. Written(q)' = Written(q)
      BY <2>1 DEF Written
    <2> QED
      BY <1>0, <2>1, <2>2 DEF Snap, Measured, Unmodified
  <1>5. \A q \in Proc : Snap(q)'
    BY <1>2, <1>3, <1>4, EditSnap DEF Next, Terminating
  <1> QED
    BY <1>1, <1>5 DEF Snapshots

LEMMA SnapshotInvariance ==
    ASSUME ExclusiveTmp
    PROVE  Spec => [](IInv /\ Snapshots)
  <1>1. IInv /\ Snapshots /\ [Next]_vars => Snapshots'
    BY NextSnapshots
  <1> QED
    BY <1>1, InitSnapshots, Invariance, PTL DEF Spec

\* encrypt_file seals exactly the text it measured, unless that was modified
\* while it read: every chunk, once and in order, whatever happens to other runs.
THEOREM WhatWasMeasuredIsSealed ==
    ASSUME ExclusiveTmp
    PROVE  Spec => []SealsSnapshot
  <1>1. IInv /\ Snapshots => SealsSnapshot
    <2> SUFFICES ASSUME IInv, Snapshots, NEW p \in Proc, job[p].op = "enc", ~dirty[p],
                        pc[p] \in {"rename", "report", "done"}
                 PROVE  PlainOf(data[wr[p]]) = snap[p]
      BY DEF SealsSnapshot
    <2>1. Measured(p) /\ Unmodified(p)
      BY DEF Snapshots, Snap
    <2>2. CASE pc[p] = "rename"
      BY <2>1, <2>2, SealedText
    <2>3. CASE pc[p] \in Published
      BY <2>1, <2>3 DEF Unmodified
    <2> QED
      BY <2>2, <2>3 DEF Published
  <1> QED
    BY <1>1, SnapshotInvariance, PTL

\* encrypt_file answers "file truncated" only when its input was modified between
\* the stat and the last read.
THEOREM TruncationIsModification ==
    ASSUME ExclusiveTmp
    PROVE  Spec => []TruncatedOnlyIfModified
  <1>1. Snapshots => TruncatedOnlyIfModified
    BY DEF Snapshots, Snap, Unmodified, TruncatedOnlyIfModified
  <1> QED
    BY <1>1, SnapshotInvariance, PTL

-----------------------------------------------------------------------------
(* Where a nonce is used.                                                   *)

\* An encryption works with the salt and the base nonce it has drawn.
Drawn ==
    \A p \in Proc : job[p].op = "enc" =>
        /\ pc[p] # "readhdr"
        /\ pc[p] \in {"open", "create"} \cup Writing =>
              hdr[p].salt = Rng[p].salt /\ hdr[p].nonce = Rng[p].nonce

\* A chunk under the salt of a run is in the file that run has created, and its
\* nonce tells its place there.
SaltedIn(c, i) ==
    \A j \in 1 .. Len(c) : c[j].kind = "chunk" =>
        \A p \in Proc : c[j].key.salt = Rng[p].salt =>
            i = wr[p] /\ j >= 2 /\ c[j].nonce = chunk_nonce(Rng[p].nonce, j - 2)

Salted == \A i \in Inode : SaltedIn(data[i], i)

LEMMA NextDrawn ==
    ASSUME TypeOK, Drawn, [Next]_vars
    PROVE  Drawn'
  <1>0. \A p \in Proc : job[p].op \in {"enc", "dec"}
    BY JobPaths DEF Job
  <1>1. ASSUME NEW p \in Proc, Step(p) \/ Crash(p), NEW q \in Proc, job'[q].op = "enc"
        PROVE  /\ pc'[q] # "readhdr"
               /\ pc'[q] \in {"open", "create"} \cup Writing =>
                     hdr'[q].salt = Rng[q].salt /\ hdr'[q].nonce = Rng[q].nonce
    <2>1. job' = job
      BY <1>1, JobStays
    <2>2. CASE q # p
      <3>1. pc'[q] = pc[q] /\ hdr'[q] = hdr[q]
        BY <1>1, <2>2, OthersStay
      <3> QED
        BY <1>1, <2>1, <3>1 DEF Drawn
    <2>3. CASE q = p
      <3>0. job[p].op = "enc" /\ pc[p] # "readhdr"
        BY <1>1, <2>1, <2>3 DEF Drawn
      <3>1. CASE Stat(p)
        BY <2>3, <3>1 DEF Stat, Goto, TypeOK
      <3>2. CASE \/ Refuse(p) \/ Begin(p) \/ Report(p) \/ Cleanup(p) \/ Fails(p) \/ Crash(p)
                 \/ Rename(p)
        <4>1. pc'[p] \in {"stat", "report", "cleanup"} \cup Final
          BY <3>0, <3>2 DEF Refuse, Begin, Report, Cleanup, Fails, IoErrorEarly, IoErrorBody,
                     IoErrorLeavesTmp, IoErrorLate, Crash, Rename, FailBody, Return, Goto,
                     Final, TypeOK
        <4> QED
          BY <2>3, <4>1 DEF Final, Writing
      <3>3. CASE OpenInput(p) \/ CreateTmp(p) \/ WriteHeader(p)
        <4>1. /\ hdr' = hdr /\ pc[p] \in {"open", "create", "header"}
              /\ pc'[p] \in {"create", "header", "chunks"}
          BY <3>0, <3>3 DEF OpenInput, CreateTmp, WriteHeader, Goto, TypeOK
        <4> QED
          BY <2>3, <3>0, <4>1 DEF Drawn, Writing
      <3>4. CASE EncryptChunk(p) \/ EndOfInput(p) \/ Flush(p)
        <4>1. /\ hdr' = hdr /\ pc[p] \in {"chunks", "flush"}
              /\ pc'[p] \in {"chunks", "flush", "rename", "cleanup"}
          BY <3>0, <3>4 DEF EncryptChunk, EndOfInput, Flush, Return, Goto, local, TypeOK
        <4> QED
          BY <2>3, <3>0, <4>1 DEF Drawn, Writing
      <3>5. ~ReadHeader(p) /\ ~DecryptChunk(p) /\ ~RejectChunk(p)
        BY <3>0 DEF ReadHeader, DecryptChunk, RejectChunk
      <3> QED
        BY <1>1, <3>1, <3>2, <3>3, <3>4, <3>5 DEF Step, Work
    <2> QED
      BY <2>2, <2>3
  <1>2. CASE UNCHANGED <<job, pc, hdr>>
    BY <1>2 DEF Drawn
  <1>3. ASSUME NEW z \in EditPath, Remove(z) \/ \E c \in EditText : Edit(z, c)
        PROVE  UNCHANGED <<job, pc, hdr>>
    BY <1>3 DEF Remove, Edit, local
  <1>4. ASSUME NEW p \in Proc, Step(p) \/ Crash(p) PROVE Drawn'
    BY <1>1, <1>4 DEF Drawn
  <1> QED
    BY <1>2, <1>3, <1>4 DEF Next, Terminating, vars, local

\* What a writer hands to the kernel leaves its file with the header and the chunks
\* it has sealed, or with the text it has opened.
LEMMA WhatIsSpilled ==
    ASSUME IInv, ExclusiveTmp, NEW p \in Proc,
           EncryptChunk(p) \/ DecryptChunk(p) \/ Flush(p) \/ RejectChunk(p) \/ IoErrorBody(p)
    PROVE  \/ data' = data
           \/ /\ pc[p] \in Writing
              /\ \A i \in Inode : i # wr[p] => data'[i] = data[i]
              /\ data'[wr[p]] \in Contents
              /\ \E n \in Nat :
                    \/ /\ job[p].op = "enc"
                       /\ SealedPrefix(data'[wr[p]], hdr[p], job[p].pass, n)
                    \/ /\ job[p].op = "dec"
                       /\ OpenedPrefix(data'[wr[p]], data[rd[p]], hdr[p], job[p].pass, n)
  <1>0. /\ TypeOK /\ WriterAt(p) /\ idx[p] \in Nat /\ job[p].op \in {"enc", "dec"}
        /\ buf[p] \in Seq(Block)
        /\ pc[p] \in Writing => wr[p] \in Inode /\ data[wr[p]] \in Seq(Block)
    BY JobPaths DEF IInv, TypeInv, WriterInv, TypeOK, Obtained, Writing, Contents, Job
  <1>1. /\ wr' = wr
        /\ \/ data' = data
           \/ pc[p] \in Writing /\ \A i \in Inode : i # wr[p] => data'[i] = data[i]
    BY SpillsOwn
  <1> SUFFICES ASSUME data' # data, pc[p] \in Writing
               PROVE  /\ data'[wr[p]] \in Contents
                      /\ \E n \in Nat :
                            \/ /\ job[p].op = "enc"
                               /\ SealedPrefix(data'[wr[p]], hdr[p], job[p].pass, n)
                            \/ /\ job[p].op = "dec"
                               /\ OpenedPrefix(data'[wr[p]], data[rd[p]], hdr[p], job[p].pass,
                                               n)
    BY <1>1
  <1>2. IInv'
    <2>1. [Next]_vars
      BY DEF Next, Step, Work, Fails
    <2> QED
      BY <2>1, NextInv
  <1>3. data'[wr[p]] \in Contents
    BY <1>0, <1>2 DEF IInv, TypeInv, TypeOK
  <1>4. CASE EncryptChunk(p) \/ DecryptChunk(p)
    <2>1. /\ \E b : Spill(p, Append(buf[p], b))
          /\ UNCHANGED <<job, hdr, rd>> /\ pc[p] = "chunks" /\ pc'[p] \in {"chunks", "flush"}
          /\ idx'[p] = idx[p] + 1
      BY <1>0, <1>4 DEF EncryptChunk, DecryptChunk, WriteBlock, Goto, TypeOK
    <2>2. buf'[p] = << >>
      BY <1>0, <2>1 DEF Spill, TypeOK
    <2>3. Written(p)' = data'[wr[p]]
      BY <1>1, <1>3, <2>2, ConcatEmptySeq DEF Written, Contents
    <2>4. data'[rd[p]] = data[rd[p]]
      BY <1>4, <2>1, FilesStay DEF Step, Work, IInv, TypeInv, Obtained
    <2>5. WriterAt(p)' /\ idx'[p] \in Nat
      BY <1>0, <1>2, <2>1 DEF IInv, WriterInv
    <2>6. job[p].op = "enc" => SealedPrefix(data'[wr[p]], hdr[p], job[p].pass, idx'[p])
      BY <2>1, <2>3, <2>5 DEF WriterAt, Writing
    <2>7. job[p].op = "dec" =>
             OpenedPrefix(data'[wr[p]], data[rd[p]], hdr[p], job[p].pass, idx'[p])
      BY <2>1, <2>3, <2>4, <2>5 DEF WriterAt, Writing
    <2> QED
      BY <1>0, <1>3, <2>5, <2>6, <2>7
  <1>5. CASE Flush(p) \/ RejectChunk(p) \/ IoErrorBody(p)
    <2>1. Spill(p, buf[p])
      BY <1>5 DEF Flush, RejectChunk, IoErrorBody, FailBody
    <2>2. data'[wr[p]] = Written(p)
      BY <1>0, <2>1, SpillAppends DEF WriterAt, Written, Contents
    <2>3. pc[p] # "header"
      <3>1. CASE pc[p] = "header"
        <4>1. buf[p] = << >> /\ IoErrorBody(p)
          BY <1>0, <1>5, <3>1 DEF WriterAt, Flush, RejectChunk
        <4> QED
          BY <4>1 DEF IoErrorBody, FailBody
      <3> QED
        BY <3>1
    <2>4. job[p].op = "enc" => SealedPrefix(data'[wr[p]], hdr[p], job[p].pass, idx[p])
      BY <1>0, <2>2, <2>3 DEF WriterAt
    <2>5. job[p].op = "dec" =>
             OpenedPrefix(data'[wr[p]], data[rd[p]], hdr[p], job[p].pass, idx[p])
      BY <1>0, <2>2 DEF WriterAt
    <2> QED
      BY <1>0, <1>3, <2>4, <2>5
  <1> QED
    BY <1>4, <1>5

\* The chunks a run seals carry its salt, and the nonce of their place.
LEMMA SealedIsSalted ==
    ASSUME NEW p \in Proc, NEW c \in Contents, NEW h, NEW pass, NEW n \in Nat,
           SealedPrefix(c, h, pass, n), h.salt = Rng[p].salt, h.nonce = Rng[p].nonce
    PROVE  SaltedIn(c, wr[p])
  <1> SUFFICES ASSUME NEW j \in 1 .. Len(c), c[j].kind = "chunk",
                      NEW q \in Proc, c[j].key.salt = Rng[q].salt
               PROVE  /\ wr[p] = wr[q] /\ j >= 2
                      /\ c[j].nonce = chunk_nonce(Rng[q].nonce, j - 2)
    BY DEF SaltedIn
  <1>1. j # 1 /\ Len(c) = n + 1
    BY DEF SealedPrefix, header_write
  <1>2. j \in Nat /\ j >= 2 /\ j - 1 \in 1 .. n
    BY <1>1
  <1>3. decrypt_chunk_ok(c[j], derive_key(pass, h.salt), h, j - 2)
    <2>1. decrypt_chunk_ok(c[(j - 1) + 1], derive_key(pass, h.salt), h, (j - 1) - 1)
      BY <1>2 DEF SealedPrefix
    <2>2. (j - 1) + 1 = j /\ (j - 1) - 1 = j - 2
      BY <1>2
    <2> QED
      BY <2>1, <2>2
  <1>4. c[j].key.salt = h.salt /\ c[j].nonce = chunk_nonce(h.nonce, j - 2)
    BY <1>3 DEF decrypt_chunk_ok, encrypt_chunk, derive_key
  <1>5. q = p
    BY <1>4, RngAssumption
  <1> QED
    BY <1>2, <1>4, <1>5

\* A text holds no chunk of anybody.
LEMMA PlainIsUnsalted ==
    ASSUME NEW c, NEW i, \A j \in 1 .. Len(c) : c[j].kind # "chunk"
    PROVE  SaltedIn(c, i)
  BY DEF SaltedIn

LEMMA NextSalted ==
    ASSUME IInv, ExclusiveTmp, Drawn, Salted, [Next]_vars
    PROVE  Salted'
  <1>0. TypeOK
    BY DEF IInv, TypeInv
  <1>1. ASSUME wr' = wr, \A i \in Inode : SaltedIn(data'[i], i) PROVE Salted'
    BY <1>1 DEF Salted, SaltedIn
  <1>2. CASE wr' = wr /\ data' = data
    BY <1>1, <1>2 DEF Salted
  <1>3. ASSUME NEW p \in Proc, Step(p) \/ Crash(p) PROVE Salted'
    <2>1. CASE \/ EncryptChunk(p) \/ DecryptChunk(p) \/ Flush(p) \/ RejectChunk(p)
               \/ IoErrorBody(p)
      <3>1. wr' = wr
        BY <2>1, SpillsOwn
      <3>2. CASE data' # data
        <4>1. PICK n \in Nat :
                 /\ pc[p] \in Writing /\ data'[wr[p]] \in Contents
                 /\ \A i \in Inode : i # wr[p] => data'[i] = data[i]
                 /\ \/ /\ job[p].op = "enc"
                       /\ SealedPrefix(data'[wr[p]], hdr[p], job[p].pass, n)
                    \/ OpenedPrefix(data'[wr[p]], data[rd[p]], hdr[p], job[p].pass, n)
          BY <2>1, <3>2, WhatIsSpilled
        <4>2. CASE job[p].op = "enc" /\ SealedPrefix(data'[wr[p]], hdr[p], job[p].pass, n)
          <5>1. hdr[p].salt = Rng[p].salt /\ hdr[p].nonce = Rng[p].nonce
            BY <4>1, <4>2 DEF Drawn
          <5>2. SaltedIn(data'[wr[p]], wr[p])
            BY <4>1, <4>2, <5>1, SealedIsSalted
          <5> QED
            BY <1>1, <3>1, <4>1, <5>2 DEF Salted
        <4>3. CASE OpenedPrefix(data'[wr[p]], data[rd[p]], hdr[p], job[p].pass, n)
          <5>1. \A j \in 1 .. Len(data'[wr[p]]) : data'[wr[p]][j].kind # "chunk"
            <6>1. Len(data'[wr[p]]) = n
              BY <4>3 DEF OpenedPrefix
            <6>2. \A j \in 1 .. n : data'[wr[p]][j] = Plain(data[rd[p]][j + 1].d)
              BY <4>3 DEF OpenedPrefix
            <6>3. ASSUME NEW j \in 1 .. n PROVE data'[wr[p]][j].kind # "chunk"
              <7>1. data'[wr[p]][j] = [kind |-> "plain", d |-> data[rd[p]][j + 1].d]
                BY <6>2 DEF Plain
              <7> QED
                BY <7>1
            <6> QED
              BY <6>1, <6>3
          <5>2. SaltedIn(data'[wr[p]], wr[p])
            BY <5>1, PlainIsUnsalted
          <5> QED
            BY <1>1, <3>1, <4>1, <5>2 DEF Salted
        <4> QED
          BY <4>1, <4>2, <4>3
      <3> QED
        BY <1>2, <3>1, <3>2
    <2>2. CASE CreateTmp(p)
      <3>1. PICK i \in Inode : wr' = [wr EXCEPT ![p] = i] /\ data' = [data EXCEPT ![i] = << >>]
        BY <2>2, CreateAlone
      <3>2. wr[p] = Nil /\ Nil \notin Inode
        BY <2>2, InodeAssumption DEF CreateTmp, IInv, Untouched, Early
      <3>3. /\ \A q \in Proc : q # p => wr'[q] = wr[q]
            /\ data'[i] = << >> /\ \A j \in Inode : j # i => data'[j] = data[j]
        BY <1>0, <3>1 DEF TypeOK
      <3> SUFFICES ASSUME NEW k \in Inode, NEW j \in 1 .. Len(data'[k]),
                          data'[k][j].kind = "chunk",
                          NEW q \in Proc, data'[k][j].key.salt = Rng[q].salt
                   PROVE  /\ k = wr'[q] /\ j >= 2
                          /\ data'[k][j].nonce = chunk_nonce(Rng[q].nonce, j - 2)
        BY DEF Salted, SaltedIn
      <3>4. k # i
        BY <3>3
      <3>5. /\ k = wr[q] /\ j >= 2
            /\ data[k][j].nonce = chunk_nonce(Rng[q].nonce, j - 2)
        BY <3>3, <3>4 DEF Salted, SaltedIn
      <3> QED
        BY <3>2, <3>3, <3>4, <3>5
    <2>3. CASE \/ Refuse(p) \/ Begin(p) \/ Stat(p) \/ OpenInput(p) \/ ReadHeader(p)
               \/ WriteHeader(p) \/ EndOfInput(p) \/ Rename(p) \/ Report(p) \/ Cleanup(p)
               \/ IoErrorEarly(p) \/ IoErrorLeavesTmp(p) \/ IoErrorLate(p) \/ Crash(p)
      <3>1. wr' = wr /\ data' = data
        BY <2>3 DEF Refuse, Begin, Stat, OpenInput, ReadHeader, WriteHeader, EndOfInput,
                    Rename, Report, Cleanup, IoErrorEarly, IoErrorLeavesTmp, IoErrorLate,
                    Crash, local
      <3> QED
        BY <1>2, <3>1
    <2> QED
      BY <1>3, <2>1, <2>2, <2>3 DEF Step, Work, Fails
  <1>4. ASSUME NEW z \in EditPath, NEW c \in EditText, Edit(z, c) PROVE Salted'
    <2>1. /\ \A i \in Inode : data'[i] = IF i = fs[z] THEN c ELSE data[i]
          /\ wr' = wr
      BY <1>4, EditStays
    <2>2. \A j \in 1 .. Len(c) : c[j].kind # "chunk"
      <3>1. c \in Seq(PlainBlock)
        BY PathAssumption
      <3>2. \A j \in 1 .. Len(c) : c[j] \in PlainBlock
        BY <3>1
      <3> QED
        BY <3>2 DEF PlainBlock
    <2>3. SaltedIn(c, fs[z])
      BY <2>2, PlainIsUnsalted
    <2> QED
      BY <1>1, <2>1, <2>3 DEF Salted
  <1>5. ASSUME NEW z \in EditPath, Remove(z) PROVE wr' = wr /\ data' = data
    BY <1>5 DEF Remove, local
  <1> QED
    BY <1>2, <1>3, <1>4, <1>5 DEF Next, Terminating, vars, local

\* No key ever seals two chunks with one nonce: not in one run, not in two, not
\* when one of them is killed and another starts over.
THEOREM NoncesAreFresh ==
    ASSUME ExclusiveTmp
    PROVE  Spec => []NoNonceReuse
  <1>1. Init => Drawn /\ Salted
    <2> SUFFICES ASSUME Init PROVE Drawn /\ Salted
      OBVIOUS
    <2>1. PICK s \in Scenario : data = s.data
      BY DEF Init
    <2>2. data \in [Inode -> Contents]
      BY <2>1, ScenarioAssumption
    <2>3. \A i \in Inode : \A j \in DOMAIN data[i] : data[i][j].kind = "chunk" =>
             \A p \in Proc : data[i][j].key.salt # Rng[p].salt
      BY <2>1, ScenarioAssumption
    <2>4. \A i \in Inode : DOMAIN data[i] = 1 .. Len(data[i])
      BY <2>2 DEF Contents
    <2>5. Salted
      BY <2>3, <2>4 DEF Salted, SaltedIn
    <2>6. \A p \in Proc : pc[p] = "start"
      BY DEF Init
    <2> QED
      BY <2>5, <2>6 DEF Drawn, Writing
  <1>2. IInv /\ Drawn /\ Salted /\ [Next]_vars => Drawn' /\ Salted'
    BY NextDrawn, NextSalted DEF IInv, TypeInv
  <1>3. IInv /\ Salted => NoNonceReuse
    <2> SUFFICES ASSUME IInv, Salted,
                        NEW i \in Inode, NEW k \in Inode, NEW j \in 1 .. LoMod,
                        NEW l \in 1 .. LoMod, j \in DOMAIN data[i], l \in DOMAIN data[k],
                        NEW p \in Proc, data[i][j].kind = "chunk", data[k][l].kind = "chunk",
                        data[i][j].key.salt = Rng[p].salt,
                        data[i][j].key = data[k][l].key,
                        data[i][j].nonce = data[k][l].nonce
                 PROVE  i = k /\ j = l
      BY DEF NoNonceReuse
    <2>1. j \in 1 .. Len(data[i]) /\ l \in 1 .. Len(data[k])
      BY DEF IInv, TypeInv, TypeOK, Contents
    <2>2. /\ i = wr[p] /\ j >= 2 /\ data[i][j].nonce = chunk_nonce(Rng[p].nonce, j - 2)
          /\ k = wr[p] /\ l >= 2 /\ data[k][l].nonce = chunk_nonce(Rng[p].nonce, l - 2)
      BY <2>1 DEF Salted, SaltedIn
    <2>3. j - 2 \in ChunkIndex /\ l - 2 \in ChunkIndex /\ Rng[p].nonce \in Nonce
      BY <2>2, WidthAssumption, RngAssumption DEF ChunkIndex
    <2>4. j - 2 = l - 2
      BY <2>2, <2>3, NonceDeterminesIndex
    <2> QED
      BY <2>2, <2>4
  <1> QED
    BY <1>1, <1>2, <1>3, Invariance, PTL DEF Spec

-----------------------------------------------------------------------------
(* The overwrite guard.                                                     *)

\* Between the guard and the rename of a run without --force nobody creates its
\* output.
Guarded ==
    \A p \in Proc : ~job[p].force /\ pc[p] \in (Early \ {"start"}) \cup Writing =>
        fs[job[p].out] = Absent

\* Only a rename creates an output.
LEMMA OutputsStay ==
    ASSUME TypeOK, NEW p \in Proc, Step(p) \/ Crash(p), NEW x \in UserPath
    PROVE  fs'[x] = fs[x] \/ (Rename(p) /\ x = job[p].out)
  <1>0. Tmp(p) \in Path \ UserPath /\ UserPath \subseteq Path
    BY TmpIsHidden
  <1>1. CASE CreateTmp(p) \/ Cleanup(p)
    <2>1. \E i : fs' = [fs EXCEPT ![Tmp(p)] = i]
      BY <1>1 DEF CreateTmp, Cleanup
    <2> QED
      BY <1>0, <2>1 DEF TypeOK
  <1>2. CASE Rename(p)
    <2>1. fs' = [fs EXCEPT ![job[p].out] = fs[Tmp(p)], ![Tmp(p)] = Absent]
      BY <1>2 DEF Rename
    <2> QED
      BY <1>0, <1>2, <2>1 DEF TypeOK
  <1>3. CASE \/ Refuse(p) \/ Begin(p) \/ Stat(p) \/ OpenInput(p) \/ ReadHeader(p)
             \/ WriteHeader(p) \/ EncryptChunk(p) \/ DecryptChunk(p) \/ RejectChunk(p)
             \/ EndOfInput(p) \/ Flush(p) \/ Report(p) \/ Fails(p) \/ Crash(p)
    <2>1. fs' = fs
      BY <1>3 DEF Refuse, Begin, Stat, OpenInput, ReadHeader, WriteHeader, EncryptChunk,
                  DecryptChunk, RejectChunk, EndOfInput, Flush, Report, Fails, IoErrorEarly,
                  IoErrorBody, IoErrorLeavesTmp, IoErrorLate, Crash
    <2> QED
      BY <2>1
  <1> QED
    BY <1>1, <1>2, <1>3 DEF Step, Work

\* No step but the guard takes a run past the guard.
LEMMA PastGuard ==
    ASSUME TypeOK, NEW p \in Proc, Step(p) \/ Crash(p),
           pc'[p] \in (Early \ {"start"}) \cup Writing
    PROVE  ~Rename(p) /\ (Begin(p) \/ pc[p] \in (Early \ {"start"}) \cup Writing)
  <1>1. CASE \/ Refuse(p) \/ Rename(p) \/ Report(p) \/ Cleanup(p) \/ Fails(p) \/ Crash(p)
             \/ RejectChunk(p)
    <2>1. pc'[p] \in Final \cup {"report", "cleanup"}
      BY <1>1 DEF Refuse, Rename, Report, Cleanup, Fails, IoErrorEarly, IoErrorBody,
                  IoErrorLeavesTmp, IoErrorLate, Crash, RejectChunk, FailBody, Return, Goto,
                  Final, TypeOK
    <2> QED
      BY <2>1 DEF Early, Writing, Final
  <1>2. CASE \/ Begin(p) \/ Stat(p) \/ OpenInput(p) \/ ReadHeader(p) \/ CreateTmp(p)
             \/ WriteHeader(p) \/ EncryptChunk(p) \/ DecryptChunk(p) \/ EndOfInput(p) \/ Flush(p)
    BY <1>2 DEF Begin, Stat, OpenInput, ReadHeader, CreateTmp, WriteHeader, EncryptChunk,
                DecryptChunk, EndOfInput, Flush, Rename, Early, Writing
  <1> QED
    BY <1>1, <1>2 DEF Step, Work

LEMMA NextGuarded ==
    ASSUME TypeOK, JobsFixed, ExclusiveOut, Guarded, [Next]_vars
    PROVE  JobsFixed' /\ Guarded'
  <1>0. \A p \in Proc : job[p].out \in UserPath /\ job[p].out \in Path
    BY JobPaths
  <1>1. ASSUME NEW p \in Proc, Step(p) \/ Crash(p) PROVE JobsFixed' /\ Guarded'
    <2>1. job' = job
      BY <1>1, JobStays
    <2>2. ASSUME NEW q \in Proc, ~job[q].force, pc'[q] \in (Early \ {"start"}) \cup Writing
          PROVE  fs'[job[q].out] = Absent
      <3>1. fs'[job[q].out] = fs[job[q].out] \/ (Rename(p) /\ job[q].out = job[p].out)
        BY <1>0, <1>1, OutputsStay
      <3>2. CASE q = p
        <4>1. ~Rename(p) /\ (Begin(p) \/ pc[p] \in (Early \ {"start"}) \cup Writing)
          BY <1>1, <2>2, <3>2, PastGuard
        <4>2. Begin(p) => fs[job[p].out] = Absent
          BY <2>2, <3>2 DEF Begin
        <4> QED
          BY <2>2, <3>1, <3>2, <4>1, <4>2 DEF Guarded
      <3>3. CASE q # p
        <4>1. pc'[q] = pc[q]
          BY <1>1, <3>3, OthersStay
        <4>2. job[q].out # job[p].out
          BY <3>3 DEF JobsFixed, ExclusiveOut
        <4> QED
          BY <2>2, <3>1, <4>1, <4>2 DEF Guarded
      <3> QED
        BY <3>2, <3>3
    <2> QED
      BY <2>1, <2>2 DEF JobsFixed, Guarded
  <1>2. CASE UNCHANGED <<job, fs, pc>>
    BY <1>2 DEF JobsFixed, Guarded
  <1>3. ASSUME NEW z \in EditPath, Remove(z) PROVE JobsFixed' /\ Guarded'
    <2>1. UNCHANGED <<job, pc>> /\ \A x \in Path : fs'[x] \in {fs[x], Absent}
      BY <1>3 DEF Remove, TypeOK
    <2> QED
      BY <1>0, <2>1 DEF JobsFixed, Guarded
  <1>4. ASSUME NEW z \in EditPath, NEW c \in EditText, Edit(z, c)
        PROVE  UNCHANGED <<job, fs, pc>>
    BY <1>4 DEF Edit
  <1> QED
    BY <1>1, <1>2, <1>3, <1>4 DEF Next, Terminating, vars

\* Without --force no run ever takes away a file, as long as no other run writes
\* the same output: the guard at the start still holds at the rename.
THEOREM GuardHolds ==
    ASSUME ExclusiveOut
    PROVE  Spec => NeverOverwritesUnforced
  <1>1. Init => JobsFixed /\ Guarded
    BY DEF Init, JobsFixed, Guarded, Early, Writing
  <1>2. TypeOK /\ JobsFixed /\ Guarded /\ [Next]_vars => JobsFixed' /\ Guarded'
    BY NextGuarded
  <1>3. Guarded => [\A p \in Proc :
                       /\ pc[p] = "rename" /\ pc'[p] = "report"
                       /\ ~job[p].force
                       => fs[job[p].out] = Absent]_vars
    BY DEF Guarded, Writing
  <1> QED
    BY <1>1, <1>2, <1>3, TypeCorrect, PTL DEF Spec, NeverOverwritesUnforced

-----------------------------------------------------------------------------
(* FileCipher implements AtomicOutput when no two runs share a temporary    *)
(* file: a rename is a Seal or an Open, an edit or a removal is the user's  *)
(* own write, and every other step of every run is invisible.               *)

\* The format is the same module in the abstract specification.
LEMMA SameFormat ==
    /\ Output!Contents = Contents
    /\ \A c : Output!IsCiphertext(c) <=> IsCiphertext(c)
    /\ \A c : Output!PlainOf(c) = PlainOf(c)
  <1>1. Output!Contents = Contents
    BY DEF Output!Contents, Contents, Output!Block, Block,
           Output!PlainBlock, PlainBlock, Output!HeaderBlock, HeaderBlock,
           Output!ChunkBlock, ChunkBlock, Output!HoleBlock, HoleBlock,
           Output!Header, Header, Output!Hmac, Hmac, Output!Key, Key,
           Output!Aad, Aad, Output!Algorithm, Algorithm, Output!Nonce, Nonce
  <1>2. \A h, k : Output!header_write(h, k) = header_write(h, k)
    BY DEF Output!header_write, header_write, Output!compute_hmac, compute_hmac
  <1>3. \A n, i : Output!chunk_nonce(n, i) = chunk_nonce(n, i)
    BY DEF Output!chunk_nonce, chunk_nonce, Output!overflowing_add, overflowing_add,
           Output!wrapping_add, wrapping_add
  <1>4. \A b, k, h, i : Output!decrypt_chunk_ok(b, k, h, i)
                          <=> decrypt_chunk_ok(b, k, h, i)
    BY <1>3 DEF Output!decrypt_chunk_ok, decrypt_chunk_ok, Output!encrypt_chunk,
           encrypt_chunk, Output!chunk_aad, chunk_aad, Output!header_aad, header_aad
  <1>5. \A p, t : Output!derive_key(p, t) = derive_key(p, t)
    BY DEF Output!derive_key, derive_key
  <1>6. \A c, h, p : Output!IsCiphertextOf(c, h, p) <=> IsCiphertextOf(c, h, p)
    BY <1>2, <1>4, <1>5 DEF Output!IsCiphertextOf, IsCiphertextOf
  <1>7. \A c : Output!IsCiphertext(c) <=> IsCiphertext(c)
    BY <1>6 DEF Output!IsCiphertext, IsCiphertext
  <1>8. \A c : Output!PlainOf(c) = PlainOf(c)
    BY DEF Output!PlainOf, PlainOf, Output!Plain, Plain
  <1> QED
    BY <1>1, <1>7, <1>8

\* What a name of the user's shows.
LEMMA ViewAt ==
    ASSUME TypeOK, NEW q \in UserPath
    PROVE  /\ fs[q] \in Inode => View[q] = data[fs[q]] /\ View[q] \in Contents
           /\ fs[q] \notin Inode => View[q] = fs[q] /\ View[q] \in {Absent, Dir}
  BY DEF View, TypeOK, Path

\* The initial view is a legal one, and the history starts with its ciphertexts.
LEMMA InitRefines == Init => Output!Init
  <1> SUFFICES ASSUME Init PROVE Output!Init
    OBVIOUS
  <1>0. TypeOK
    BY InitTypeInv DEF TypeInv
  <1>1. View \in [UserPath -> Contents \cup {Absent, Dir}]
    BY <1>0, ViewAt DEF View
  <1>2. ASSUME NEW c PROVE c \in {data[i] : i \in {fs[q] : q \in UserPath} \cap Inode}
                             <=> c \in {View[q] : q \in UserPath} \ {Absent, Dir}
    BY <1>0, ViewAt, InodeAssumption
  <1>3. sealed = {c \in {View[q] : q \in UserPath} \ {Absent, Dir} : IsCiphertext(c)}
    BY <1>2 DEF Init
  <1> QED
    BY <1>1, <1>3, SameFormat DEF Output!Init, Output!Shown

\* A step that leaves the user's names, and the files under them, alone.
LEMMA Invisible ==
    ASSUME sealed' = sealed,
           \A x \in UserPath : /\ fs'[x] = fs[x]
                               /\ fs[x] \in Inode => data'[fs[x]] = data[fs[x]]
    PROVE  UNCHANGED Output!vars
  <1>1. View' = View
    BY DEF View
  <1> QED
    BY <1>1 DEF Output!vars

\* Every step of a run but its rename is invisible.
LEMMA StepRefines ==
    ASSUME IInv, IInv', ExclusiveTmp, NEW p \in Proc, Step(p) \/ Crash(p)
    PROVE  [Output!Next]_Output!vars
  <1>0. TypeOK /\ TypeInv /\ WriterAt(p) /\ Untouched /\ OutputIntact /\ Injective
    BY DEF IInv, TypeInv, WriterInv
  <1>1. /\ Tmp(p) \in Path \ UserPath /\ UserPath \subseteq Path
        /\ job[p].out \in UserPath /\ job[p].op \in {"enc", "dec"}
    BY <1>0, JobFacts, JobPaths DEF IInv
  <1>2. CASE Rename(p)
    <2> DEFINE q == job[p].out
    <2>1. /\ pc[p] = "rename" /\ wr[p] \in Inode /\ fs[Tmp(p)] = wr[p]
          /\ fs' = [fs EXCEPT ![q] = wr[p], ![Tmp(p)] = Absent]
          /\ data' = data /\ rd[p] \in Inode
          /\ sealed' = IF job[p].op = "enc" THEN sealed \cup {data[wr[p]]}
                                             ELSE sealed
      BY <1>2 DEF Rename, IInv, OwnTmp, Writing, TypeInv, Obtained
    <2>2. fs'[q] = wr[p] /\ \A x \in UserPath : x # q => fs'[x] = fs[x]
      BY <1>0, <1>1, <2>1 DEF TypeOK
    <2>3. View'[q] = data[wr[p]] /\ \A x \in UserPath \ {q} : View'[x] = View[x]
      <3>1. \A x \in UserPath :
               View'[x] = IF fs'[x] \in Inode THEN data'[fs'[x]] ELSE fs'[x]
        BY DEF View
      <3>2. View'[q] = data[wr[p]]
        BY <1>1, <2>1, <2>2, <3>1
      <3>3. ASSUME NEW x \in UserPath \ {q}
            PROVE  View'[x] = View[x]
        <4>1. fs'[x] = fs[x] /\ data' = data
          BY <2>1, <2>2, <3>3
        <4>2. View[x] = IF fs[x] \in Inode THEN data[fs[x]] ELSE fs[x]
          BY <3>3 DEF View
        <4> QED
          BY <3>1, <3>3, <4>1, <4>2
      <3> QED
        BY <3>2, <3>3
    <2>4. data[wr[p]] \in Contents
      BY <1>0, <2>1 DEF TypeOK
    <2>5. Output!Only(q)
      BY <2>3 DEF Output!Only
    <2>6. CASE job[p].op = "enc"
      <3>1. IsCiphertext(data[wr[p]])
        BY <1>0, <2>1, <2>6, ReadyToPublish
      <3>2. Output!Seal(q)
        BY <2>1, <2>3, <2>4, <2>5, <2>6, <3>1, SameFormat, InodeAssumption
        DEF Output!Seal
      <3> QED
        BY <1>1, <3>2 DEF Output!Next
    <2>7. CASE job[p].op = "dec"
      <3>1. IsCiphertext(data[rd[p]]) /\ data[wr[p]] = PlainOf(data[rd[p]])
        BY <1>0, <2>1, <2>7, ReadyToPublish
      <3>2. data[rd[p]] \in sealed
        BY <2>1, <2>7, <3>1 DEF IInv, ArchiveInv, Archived
      <3>3. Output!Open(q)
        BY <2>1, <2>3, <2>5, <2>7, <3>1, <3>2, SameFormat DEF Output!Open
      <3> QED
        BY <1>1, <3>3 DEF Output!Next
    <2> QED
      BY <1>1, <2>6, <2>7
  <1>3. CASE CreateTmp(p)
    <2>1. PICK i \in Inode :
             /\ i = IF fs[Tmp(p)] = Absent THEN p ELSE fs[Tmp(p)]
             /\ data' = [data EXCEPT ![i] = << >>]
             /\ fs' = [fs EXCEPT ![Tmp(p)] = i]
      BY <1>0, <1>1, <1>3 DEF CreateTmp, TypeOK, Inode
    <2>2. sealed' = sealed /\ pc[p] \in Early
      BY <1>3 DEF CreateTmp, history, Early
    <2>3. \A x \in UserPath : fs[x] # i
      BY <1>0, <1>1, <2>1, <2>2 DEF Untouched, Injective
    <2>4. \A x \in UserPath : /\ fs'[x] = fs[x]
                              /\ fs[x] \in Inode => data'[fs[x]] = data[fs[x]]
      BY <1>0, <1>1, <2>1, <2>3 DEF TypeOK
    <2> QED
      BY <2>2, <2>4, Invisible
  <1>4. CASE Cleanup(p)
    <2>1. \A x \in UserPath : fs'[x] = fs[x]
      BY <1>0, <1>1, <1>4 DEF Cleanup, TypeOK
    <2>2. data' = data /\ sealed' = sealed
      BY <1>4 DEF Cleanup, history
    <2> QED
      BY <2>1, <2>2, Invisible
  <1>5. CASE EncryptChunk(p) \/ DecryptChunk(p) \/ Flush(p) \/ RejectChunk(p)
             \/ IoErrorBody(p)
    <2>1. fs' = fs /\ sealed' = sealed /\ wr' = wr
      BY <1>5 DEF EncryptChunk, DecryptChunk, Flush, RejectChunk, IoErrorBody, history
    <2>2. data' = data \/ (pc[p] \in Writing
                           /\ \A i \in Inode : i # wr[p] => data'[i] = data[i])
      <3>1. ASSUME NEW s, Spill(p, s)
            PROVE  \A i \in Inode : i # wr[p] => data'[i] = data[i]
        BY <1>0, <3>1 DEF Spill, TypeOK
      <3>2. CASE EncryptChunk(p) \/ DecryptChunk(p)
        BY <3>1, <3>2 DEF EncryptChunk, DecryptChunk, WriteBlock, Writing
      <3>3. CASE Flush(p)
        BY <3>1, <3>3 DEF Flush, Writing
      <3>4. CASE RejectChunk(p)
        BY <3>1, <3>4 DEF RejectChunk, FailBody, Writing
      <3>5. CASE IoErrorBody(p)
        <4>1. buf[p] # << >> => pc[p] \notin Early
          BY <1>0 DEF Untouched
        <4> QED
          BY <3>1, <3>5, <4>1 DEF IoErrorBody, FailBody, Writing, Early
      <3> QED
        BY <1>5, <3>2, <3>3, <3>4, <3>5
    <2>3. \A x \in UserPath : fs[x] \in Inode => data'[fs[x]] = data[fs[x]]
      BY <2>2, WriterAlone
    <2> QED
      BY <2>1, <2>3, Invisible
  <1>6. CASE \/ Refuse(p) \/ Begin(p) \/ Stat(p) \/ OpenInput(p) \/ ReadHeader(p)
             \/ WriteHeader(p) \/ EndOfInput(p) \/ Report(p) \/ IoErrorEarly(p)
             \/ IoErrorLeavesTmp(p) \/ IoErrorLate(p) \/ Crash(p)
    <2>1. fs' = fs /\ data' = data /\ sealed' = sealed
      BY <1>6 DEF Refuse, Begin, Stat, OpenInput, ReadHeader, WriteHeader, EndOfInput,
                  Report, IoErrorEarly, IoErrorLeavesTmp, IoErrorLate, Crash, history
    <2> QED
      BY <2>1, Invisible
  <1> QED
    BY <1>2, <1>3, <1>4, <1>5, <1>6 DEF Step, Work, Fails

LEMMA NextRefines ==
    ASSUME IInv, IInv', ExclusiveTmp, [Next]_vars
    PROVE  [Output!Next]_Output!vars
  <1>0. TypeOK
    BY DEF IInv, TypeInv
  <1>1. CASE UNCHANGED vars
    <2>1. fs' = fs /\ data' = data /\ sealed' = sealed
      BY <1>1 DEF vars, history
    <2> QED
      BY <2>1, Invisible
  <1>2. ASSUME NEW p \in Proc, Step(p) \/ Crash(p)
        PROVE  [Output!Next]_Output!vars
    BY <1>2, StepRefines
  <1>3. ASSUME NEW z \in EditPath, Remove(z) \/ \E c \in EditText : Edit(z, c)
        PROVE  [Output!Next]_Output!vars
    <2>0. z \in UserPath /\ UserPath \subseteq Path /\ fs[z] \in Inode
      BY <1>3, PathAssumption DEF Path, Remove, Edit
    <2>1. CASE Remove(z)
      <3>1. /\ fs'[z] = Absent /\ \A x \in UserPath : x # z => fs'[x] = fs[x]
            /\ data' = data /\ sealed' = sealed
        BY <1>0, <2>0, <2>1 DEF Remove, TypeOK, history
      <3>2. View'[z] = Absent /\ \A x \in UserPath \ {z} : View'[x] = View[x]
        BY <2>0, <3>1, InodeAssumption DEF View
      <3>3. Output!UserWrites(z)
        BY <3>1, <3>2 DEF Output!UserWrites, Output!Only
      <3> QED
        BY <3>3 DEF Output!Next
    <2>2. ASSUME NEW c \in EditText, Edit(z, c)
          PROVE  [Output!Next]_Output!vars
      <3>1. /\ fs' = fs /\ data'[fs[z]] = c /\ sealed' = sealed
            /\ \A i \in Inode : i # fs[z] => data'[i] = data[i]
        BY <1>0, <2>0, <2>2 DEF Edit, TypeOK
      <3>2. \A x \in UserPath : x # z /\ fs[x] \in Inode => fs[x] # fs[z]
        BY <2>0 DEF IInv, Injective
      <3>3. View'[z] = c /\ \A x \in UserPath \ {z} : View'[x] = View[x]
        BY <2>0, <3>1, <3>2 DEF View
      <3>4. Output!UserWrites(z)
        BY <3>1, <3>3 DEF Output!UserWrites, Output!Only
      <3> QED
        BY <3>4 DEF Output!Next
    <2> QED
      BY <1>3, <2>1, <2>2
  <1> QED
    BY <1>1, <1>2, <1>3 DEF Next, Terminating

\* encrypt_file and decrypt_file, run concurrently with failing calls, crashes
\* and a user who edits his files, implement the atomic-output promise.
THEOREM Refinement ==
    ASSUME ExclusiveTmp
    PROVE  Spec => ImplementsAtomicOutput
  <1>1. Init => Output!Init
    BY InitRefines
  <1>2. IInv /\ IInv' /\ [Next]_vars => [Output!Next]_Output!vars
    BY NextRefines
  <1> QED
    BY <1>1, <1>2, Invariance, PTL DEF Spec, Output!Spec, ImplementsAtomicOutput
=============================================================================
