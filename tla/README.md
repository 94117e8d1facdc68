# Verification of `cry`

TLA+ specifications, TLC runs and TLAPS proofs for `cry` (`src/`), a command
line tool that encrypts and decrypts files, derives key pairs from passphrases
and runs `ssh` with a derived key.

## 1. The system

| Part | Source | State it keeps | Operations | Modelled by |
|---|---|---|---|---|
| File encryption, decryption | `cipher.rs` 63-249 | the output and its temporary sibling on disk, descriptors, BufWriter contents, `chunk_index` | `encrypt_file`, `decrypt_file` | `FileCipher`, abstractly `AtomicOutput` |
| Chunk loop | `cipher.rs` 304-348, 401-412 | position in the input, bytes in the chunk buffer and in the BufReader | `encrypt_chunks`, `read_chunk` | `EncryptStream` (bytes), `FileCipher` (blocks) |
| Wire format | `cipher.rs` 350-398 | position in the frames, output so far | `decrypt_chunks` | `DecryptStream` |
| Header | `header.rs` | none | `write`, `read`, `compute_hmac` | `CryFormat` |
| Nonce, AAD, AEAD | `cipher.rs` 258-298, 418-462 | none | `chunk_nonce`, `header_aad`, `chunk_aad`, `encrypt_chunk`, `decrypt_chunk` | `ChunkNonce`, `CryFormat` |
| Key derivation | `kdf.rs` | none | `derive_key` | `CryFormat` |
| `cry ssh`, Unix | `ssh.rs` 91-176, 229-304 | a temporary `ssh-agent` process that holds the key | `run_ssh_unix`, `TempAgent::{spawn, add_private_key, drop}` | `SshAgent` |
| `cry ssh`, Windows | `ssh.rs` 183-209, 310-430 | a temporary key file and its access list | `run_ssh_windows`, `TempKeyFile::{create, drop}` | `TempKeyFile` |
| Command line, passphrases | `main.rs` | per run: where it is in `main`, its passphrase, what it read | `main`, `read_passphrase`, `read_openssh_passphrase` | `Commands` |
| Key files | `keygen.rs` | up to four key files per call, written in place | `keygen`, `derive`, `ensure_writable` | `KeyFiles`, driven by `Commands` |
| Identities | `crydna.rs` | one key file | `derive`, `derive_salt`, `sign_content`, `verify_content_signature`, hex, `write_private_key_hex_file` | `Identity`, `KeyFiles`, `Commands` |
| Benchmark | `bench.rs` | none | `run_bench` | no |

How the parts interact: `main` reads a passphrase and calls one of the others.
`encrypt_file` and `decrypt_file` call `derive_key`, the header code and the
chunk loops; they meet other runs of the program, and the user, only in the file
system, and take no lock there.  So do `keygen` and `derive`, which write their
files in place, one after the other.  `derive`, `sign` and `ssh` make their key
with the same code and are used together: a key that `derive` wrote is the one
`ssh` logs in with, and what `sign` printed is handed to `verify`.  `run_ssh` calls `Identity::derive` and talks to
`ssh-agent`, `ssh-add` and `ssh` through processes, a pipe and environment
variables.

The program has no threads, so what is hard about it is what happens between
its system calls and around them:

* several runs, and the user, on one file system: names that collide, inputs
  that change between `metadata()`, `open()` and the last `read()`, a guard that
  is asked long before the `rename()` it guards;
* crashes and failing calls between creation, flush, rename and removal of the
  temporary file, and buffered bytes at each of these points;
* short and interrupted reads; sizes that are zero or a multiple of the chunk;
* wraps of the two halves of the nonce;
* stored files that come back damaged: every way frames and header can be lost,
  doubled, moved or rewritten, and a file that ends within a length field;
* key files that are emptied and then written, four in a row, each possibly by
  two runs at once, after guards that were asked before the key was made;
* prompts and files read in an order that differs between commands, and a
  document that is edited while `sign` waits at its prompt;
* salts that are texts put together, so that different parameters might give one;
* error paths and signals between the start of an agent (or the creation of a
  key file) and the destructor that is to end it.

`PROJECT.json` lists these hazards at their lines, with the properties that
would show each of them going wrong.

## 2. Modules

```
ChunkNonce ─┬─ CryFormat ─┬─ AtomicOutput
            │             ├─ FileCipher
            │             └─ DecryptStream
            └─ EncryptStream
KeyFiles ─┬─ Commands          SshAgent          TempKeyFile
Identity ─┘
```

`MCX` instantiates module `X` for TLC and `XProofs` holds its theorems.
`EncryptStreamProofs` and `FileCipherProofs` use `ChunkNonceProofs`;
`CommandsProofs` uses `KeyFilesProofs` and has the theorems about `Identity` too.

**ChunkNonce.** `chunk_nonce` with the widths of its halves as parameters
`HiMod` (2^32) and `LoMod` (2^64).

**CryFormat.** Headers, sealed chunks and files as values.  Cryptography is
ideal: a MAC, a derived key or a sealed chunk is the record of what went into
it, so it matches exactly when all of that is equal.  A file is a sequence of
blocks: plain chunks, a header, sealed chunks, or a hole (bytes nobody wrote).
The chunk contents in `Full` have exactly `CHUNK_SIZE` bytes, the others are
short.

**FileCipher.** Any number of runs of `encrypt_file` and `decrypt_file` on one
file system.  `fs` binds names to inodes and `data` inodes to contents, so that
a rename under an open descriptor does what it does on Unix.  Per run: `pc` (the
next system call), `hdr`, `rd` and `wr` (inodes behind the descriptors), `off`
and `buf` (what the BufWriter has passed on and what it still holds), `idx`
(`chunk_index`), `res` (the result).  `snap`, `dirty` and `sealed` are history.
The actions follow the source from top to bottom: `Refuse`/`Begin` (guard),
`Stat`, `OpenInput`, `ReadHeader`, `CreateTmp`, `WriteHeader`, `EncryptChunk`,
`DecryptChunk`/`RejectChunk`, `EndOfInput`, `Flush` (with the count check),
`Rename`, `Report`, `Cleanup`; four `IoError` actions for the four ways an error
leaves the function; `Crash`; `Edit` and `Remove` for the user.  A short chunk
may stay in the BufWriter, a full one goes through it, and an error drops the
writer, which may flush it: all of these are alternatives of the actions.

**AtomicOutput.** What the user is promised: a name he works with changes in one
step, to a complete ciphertext, to the whole text of one, or by his own hand.
`FileCipher` implements it under the mapping `view <- View, archive <- sealed`.

**EncryptStream.** The chunk loop byte by byte: `len` is the current length of
the input, `fpos` the descriptor's offset, `ahead` what the BufReader holds,
`total` what `read_chunk` has gathered, `extents` the sealed chunks.  `Resize`
changes the length between any two reads.

**DecryptStream.** First a stored ciphertext is damaged (`DamageHead`,
`DamageFrames`, `Cut`, `Trail`), then `decrypt_file` reads it.  A frame has the
meaning of its length field (right, wrong, beyond the end of the file, above the
cap) and its block; `tail` is the number of bytes after the last frame.

**SshAgent, TempKeyFile.** Concurrent sessions of `cry ssh` on the two
platforms, one action per external call and one for its failure, and `Killed`
for a signal, after which no destructor runs.

**KeyFiles.** Any number of runs of `keygen` and `derive` on one file system,
one action per system call: `Begin` (the call, and the refusal of deterministic
RSA), `Check` (the guards, one output at a time), `Obtain` (the key), then for
each output `Guard`, `Create` (the open that empties it), `Write` and, for an
Ed25519 private key, `Chmod`; `Fails`, `WriteFails` and `Killed`.  `disk` has for
every file whether it is absent, torn or holds a whole key, and a length class:
what a run writes over a longer text of another run is torn.  `touched`, `found`
and `earlier` are history.

**Identity.** The salts of identities and of derived AES keys as sequences of
pieces of text in which the separators are pieces like others, so that a name
may contain them; the key made of them; signatures; and the ways a hex text may
come back to `verify`, the one that makes `hex_to_bytes` panic included.

**Commands.** `main`: each run reads its passphrases and its document in the
order of its command (`ReadOpenssh`, `ConfirmOpenssh`, `TakeOption`,
`TakeFirstLine`, `Prompt`, `Confirm`, `ReadDocument`, `InputFails`) and then works
(`Sign`, `Verify`, `Operate`, and `CallKeys`, `Keys`, `KeysFail`, `KeysReturn`,
which are the steps of `KeyFiles` on shared files).  `Edit` is the user at the
document, `Kill` a signal.  What `encrypt`, `decrypt`, `bench` and `ssh` do is
the subject of the other modules and here only succeeds or fails; `ssh` also
derives its identity.

Definitions named "Mutant of X" are wrong versions of X.  They are not part of
any specification; each makes a property fail and so shows that it can.

## 3. Runs

| Run | Checks | Result |
|---|---|---|
| `file_cipher` | two concurrent runs, seven scenarios: encrypt and decrypt the same name at once; replace a ciphertext while it is decrypted; decrypt over the input of an encryption; a refused overwrite; two encryptions of one empty input, one onto a directory; truncated and reordered ciphertexts; a wrong passphrase and a file that is none | holds |
| `shared_tmp` | `OutputIntact` when outputs differ only in the extension | violated |
| `overwrite_race` | `NeverOverwritesUnforced` when two runs write one new file | violated |
| `encrypt_stream` | chunking of files of 0-8 bytes, every base nonce | holds |
| `decrypt_stream` | three ciphertexts, up to three pieces of damage | holds |
| `trailing_bytes` | `FailsLoudly` for bytes after the last frame | violated |
| `ssh_agent` | two sessions, every failure, every way the agent's output may parse | holds |
| `ssh_agent_signal` | `AgentOnlyLivesForSession` when a signal ends the session | violated |
| `temp_key_file` | two sessions, every failure | holds |
| `temp_key_file_exit` | `NothingReadableLeft` when `whoami`, then the write of the key fails | violated |
| `commands` | up to three runs of any commands, 21 scenarios: two runs making keys of one name, over nothing, over an old set, over what a killed run left, over one file of four; every passphrase source; one tuple in three commands; tuples that differ in one part; names that hold separators; two signatures and an edited document | holds |
| `key_tuple` | `TupleAsDocumented` for five runs: two signing identities, two AES keys, `ssh --pass-file` | violated |

What the passing runs show, in the words of the properties:

* `OutputIntact`, `ImplementsAtomicOutput`: the promise of atomic output holds
  through crashes and failing calls, as long as no two runs have the same
  temporary name.  A temporary file that an earlier killed run left is harmless.
* `SealsSnapshot`, `TruncatedOnlyIfModified`: an encryption whose input nobody
  touched seals exactly that input and never reports it as modified.
* `OpensWhatWasSealed`, `RightPassOpens`: decryption is the inverse of
  encryption, on the file it opened, even while that name is replaced.
* `NoNonceReuse`: over all inodes of the disk, temporary and deleted ones
  included, no two fresh chunks under one key share a nonce.
* `ExitLeavesNoTmp`; `Termination`; `NeverOverwritesUnforced`, where nobody else
  writes the output: the scenarios leave the race out that `overwrite_race` shows.
* `Tiling`, `WholeFile`, `MismatchOnlyIfResized`, `CounterNonces`: the chunks are
  consecutive, all but the last are full, and they cover the file unless its
  length changed; the nonces count up modulo 2^96.
* `AcceptsOnlySealed`, `OutputIsPrefix`, `HeaderFirst`, `WholeFileOpens`: a file
  is accepted only if header and frames are those of one ciphertext; what was
  written before a failure is a prefix of the right text.
* `AgentGoneOnReturn`, `UserAgentUnaffected`, `SshHasKey`: every error path after
  the agent was spawned and parsed runs the destructor, and a failed `ssh-add` does
  not lead on to `ssh`.  An agent whose output names no socket is left running
  without a key, which `AgentGoneOnReturn` permits; one that prints a socket and no
  pid, which a genuine `ssh-agent` never does, is left out of `UserAgentUnaffected`,
  since `ssh-agent -k` would then end the user's own agent.
* `NoWindow`: no byte of the key is in a file whose access list was not yet set.
  The list names the user, or `BUILTIN\Users` where `whoami` failed.
  `SshReadsWholeKey`, `WipedBeforeRemoval`, `RemovedOnReturn`: `ssh` finds the whole
  key, which is overwritten, then removed, on every path but that of a failed write
  (or a failed removal).
* `OldKeysSurvive`, `RefusalIsClean`: without `--force` a file that was there when
  the command was called stays as it was, the two outputs that are written
  without a second guard included; and a refusal comes before the first write
  unless another run was faster.  A file that another run creates after the call is
  not among those protected, and may be replaced.
* `SetBelongsTogether`: after `Ok` all files of the set hold the one key of the
  run, whole, and an Ed25519 private key has mode 0600, whatever failed or killed
  runs left there, and even next to a run that derives the same key with the same
  comment.  Not covered by its hypothesis, and not caught: the mixture that two
  runs with different keys or comments leave, the set of a run that fails, and a
  private key whose run is killed before the chmod.
* `PassphraseAsDocumented`: whoever comes to its work has the text of
  `--passphrase`, else the first line of `--pass-file` where the command reads it
  (`ssh` does not), else what was typed; it was asked for exactly as often as
  documented, and what seals a file or an OpenSSH key was typed twice alike.  An
  empty passphrase gets through as `ssh --passphrase ""` only.  A refused passphrase
  leaves nothing behind.
* `KeyTellsTuple`: `keygen`, `derive`, `sign` and `ssh` make their key at four
  places of the code.  One tuple has one key in the three that derive.  One key
  means one kind of key and one passphrase, and for namespaces without `:v` and
  `|ver=` one namespace, version and sub-identity, except that an AES key does not
  tell an empty sub-identity from none.  That is less than the documentation
  promises: `key_tuple` shows the difference.
* `VerifiedMeansSigned`: `verify` accepts exactly the document `sign` read, under
  the key that signed it, even if the document changed while `sign` was waiting
  for its passphrase.

The violated ones are disagreements between the code and what its comments or
the README say; `PROJECT.json` quotes both under "findings".  Two of them stand
for several:

* `TupleAsDocumented` ("Same tuple => same key. Any change => different key") is
  asked once all five runs of `key_tuple` have their key, so the one behaviour that
  TLC prints has all three reasons in it.  (1) `derive --algo aes256gcm` with no
  `--sub-id` and with `--sub-id ""` writes one key, although the Ed25519 path keeps
  the two apart.  (2) The salt of an identity is put together without lengths, so a
  namespace with `:v` in it shares its key with another tuple: version 1633771873
  has the bytes of the text `aaaa`.  (3) `ssh --pass-file` prompts, so its key is
  not that of `sign --pass-file` for the same file and tuple.
* `NothingReadableLeft` follows from each of two sentences of the module comment of
  `ssh.rs`, that no other local process can read the key file and that it is removed
  in all exit paths.  Its counterexample refutes both: `whoami` fails, the grant
  goes to `BUILTIN\Users`, the write fails, and `create()` returns before there is a
  guard that would remove the file.

### Bounds

* `MCFileCipher`: two runs (every hazard above involves at most two), one edit
  (`MaxEdits`), texts of up to three chunks of which the last may be short.  The
  halves of the nonce have 2 and 4 values and the base nonces are chosen so that
  the carry and the wrap of the high half both happen within a file.
* `MCEncryptStream`: chunks of 3 bytes, a BufReader of 2, files of up to 8 bytes
  (empty, one byte, exactly one and two chunks, two and a part), so that a chunk
  takes several reads of both kinds, one resize and one interrupted read.
  `LoMod` is above `MaxLen`, as 2^64 is above every file length; all 18 base
  nonces are initial states.
* `MCDecryptStream`: ciphertexts of two, one and no chunks, two under one
  passphrase; three pieces of damage allow, for example, a frame to be lost, its
  place to be filled and the header to be adapted.
* `MCSshAgent`, `MCTempKeyFile`: two sessions, permuted by symmetry (safety
  properties only).

* `MCCommands`: at most three runs (five in `key_tuple`), of which at most two write files of one
  name; two bases, one edit (`MaxEdits`), passphrases of at most one character
  (empty, two different ones), pass-files of up to three characters with both
  ends of line, three versions, two documents.  A prompt shows a difference
  between empty, equal and different texts only, and a set of files has at most
  two writers in any of the hazards.

### Fairness

`Termination` in `FileCipher` assumes that each run that is not killed keeps
taking steps (weak fairness per run).  Every step is a system call that returns
and no run waits for another.  Failing is assumed only where a call cannot
succeed (a missing input, a directory as the output), so no run ends merely
because some error is fair.  In `EncryptStream` the fair step excludes
interrupted and failing reads; in `DecryptStream` it is the decryption, not the
damage.  The user's edits are bounded: an input that others append to forever
keeps `encrypt_chunks` going forever, which no property catches.  Nothing is
assumed of `Commands`: the user at a prompt may never answer, and `keygen` and
`derive` have no loop that could fail to end.

## 4. Proofs

All theorems hold for every value of the constants that satisfies the named
assumptions, in particular for any number of runs, sessions, files and chunks.
Every invariant and every action property that a passing run checks is the
subject of one.

**ChunkNonceProofs**, from `WidthAssumption`: `NonceInRange`,
`NonceDeterminesIndex` (chunks of one file never share a nonce), `NonceIsSum`
(96-bit addition).

**EncryptStreamProofs**: `StreamTypes`, `ChunksTile`, `SealsWholeFile`,
`CountCheckIsQuiet`, `NoncesCount`.  The inductive invariant adds to the tiling
where the reader is (`Position`: delivered bytes = full chunks + buffer, the
BufReader `ahead` of them) and what a short chunk implies on an unchanged file
(`AtEnd`).  The arithmetic core is that quotient and remainder are unique, so that
`chunk_index` at the end of the file is `div_ceil(len, ChunkSize)`.  `NoncesCount`
follows from the tiling: the extents tell the index, and the carry between the
halves makes `chunk_nonce` an addition modulo `HiMod * LoMod`.

**DecryptStreamProofs**, from `SealedAssumption`: `StreamTypesOfDecrypt`,
`HeaderIsAuthentic`, `OnlyThePrefix`, `OnlySealedAccepted`, `WholeFileDecrypts`.
The invariant says that damage only rearranges: the MAC of a header block is one
that some ciphertext has (`HeadPart`) and every frame is a piece of some
ciphertext (`FramesPart`); that past the header exactly one ciphertext is being
opened and what is written is its first `chunk_index` chunks (`Opening`); and why
the decryption stopped where it did (`Reason`).  The assumption says that each
ciphertext was made under a salt of its own, and that none is longer than the
model's bound on frames.

**FileCipherProofs**.
* `TypeCorrect`.  Types alone are not inductive: `Obtained` says from which
  location on a header and a descriptor are there.
* `OutputsStayIntact`, `DecryptionIsFaithful`, `ExitIsClean`, under
  `ExclusiveTmp` (no two runs have the same temporary name).  The assumption is
  needed: `shared_tmp` is the counterexample without it.  The invariant `IInv`
  says that names and inodes correspond one to one, that nobody but the writer
  touches a temporary file (`OwnTmp`), that no run reads what another writes
  (`ReadersApart`), and, for every location, which prefix of the output is on
  disk and which is buffered (`WriterInv`).
* `OwnersGetIn` (`RightPassOpens`), on top of `IInv`: a verdict was right when it
  was given, and no later step changes the file a decryption reads (`Verdicts`).
* `WhatWasMeasuredIsSealed`, `TruncationIsModification`: `Snapshots` says that an
  inode open for reading keeps its one name (`ReadName`), so that whoever modifies
  it is seen by name; that whatever gets the name of an encryption's input is a
  text (`Texts`), its own rename of a decrypted file included; that the header
  commits to the measured text (`Measured`); and, until the input is modified,
  that what is open is what was measured and what is sealed is a prefix of it
  (`Unmodified`).  A text has no short chunk but its last, so a short chunk means
  the end, and the count check cannot fire.
* `NoncesAreFresh` (`NoNonceReuse`): a chunk under the salt of a run is in the one
  file that run has created, and its nonce is that of its place there (`Salted`);
  `NonceDeterminesIndex` does the rest.  What a failing run's BufWriter still
  spills is part of it (`WhatIsSpilled`).
* `GuardHolds` (`NeverOverwritesUnforced`), under `ExclusiveOut` (no two runs
  write one output) and whether or not temporary names are shared: between guard
  and rename the output stays absent (`Guarded`).  The assumption is needed:
  `overwrite_race` is the counterexample without it.
* `Refinement`, `Spec => ImplementsAtomicOutput` under `ExclusiveTmp`.  Only a
  rename and the user's own edits change what a name shows; all other steps are
  stutters because the temporary inode has no user-visible name.

These rest on `ScenarioAssumption`.  Two parts of it matter only here: the
ciphertexts the user starts with stand for texts (they were made by
`encrypt_file`), and the salts `OsRng` will deliver are not on the disk yet.

**SshAgentProofs**: `SessionTypes`, `NoAgentLeft`, `UserAgentSafe`, `SshIsServed`.
The invariant relates the location of a session to its agent (`AgentOf`), and
says that the user's agent gets no key and ends only through a session that does
not know the pid of its own (`UserAgentKept`).

**TempKeyFileProofs**: `KeyFileTypes`, `NeverReadable`, `SshFindsKey`,
`ReturnRemoves`, `RemovalIsWiped`, from one invariant that says at each location
what is in the file and who may read it (`FileOf`).

**KeyFilesProofs**, from `KeyAssumption` and `ScenarioAssumption` of `KeyFiles`.
* `KeyFilesTypes`, `FoundKeysSurvive`, `RefusedRunsAreClean`.  The invariant
  `IInv` says of each run at which output it is (`PositionOf`), that it has
  touched only outputs up to that one and none before its key (`ProgressOf`), and
  that without `--force` none of the outputs it has asked about was there when it
  was called (`PassedOf`); and of the disk that files never vanish (`Lasting`)
  and that a file either was found or was created by a run that had not ended
  then (`Origin`, `Past`).  The OpenSSH public key and RSA files need `PassedOf`:
  they are written with no guard but the one before the key was made.
* `FilesBelongTogether` (`SetBelongsTogether`).  `SInv` says of a run that it has
  touched the outputs it has passed (`CoveredOf`), that its Ed25519 private key has
  mode 0600 once it has passed it (`TightOf`), and that, while all other runs at its
  files have its key and its comment or had ended before, an output it has opened
  holds its key or has just been emptied by a run about to write it (`HeldOf`).  It needs `Alike`, that keys of different
  algorithms differ, because `Spec` leaves open which key a run obtains.

**CommandsProofs**.
* `DeriveSaltInjective`, `AesSaltInjective`, from `PieceAssumption` (the bytes
  and the digits of a version determine it).  A name without the separator ends
  at the first one, and the pieces that follow have a fixed number.
* `MainDrivesKeyFiles` (`CSpec => Spec`), hence `CommandsKeepOldKeys`;
  `KeysTellTuples`; `VerifyAcceptsWhatWasSigned`.  The invariant `CInv` adds
  to `IInv` that passphrases come from the run's own sources (`Sourced`), that
  nothing is derived before the work (`Phase`), that a key is that of the command
  line and the passphrase (`Keyed`), that a printed signature is over what the
  run read (`Signing`) and what `verify` answers (`Verifying`).  A run that has
  signed never changes again, which is why the steps of others cannot disturb a
  verification.
* `KeySetsBelongTogether` carries `FilesBelongTogether` over to the whole
  program: there `Alike` is a consequence of `Keyed` and of `NoRsaDerived`,
  that no run of `derive` gets past the refusal of RSA.
* `PassphrasesAreChecked` (`PassphraseAsDocumented`): what a run has asked for
  when it comes to its work (`Documented`), from what it has typed and taken at each
  stage (`Supplied`, `FromOption`, `FromPassFile`, `FromTerminal`).
* `CommandsTypes` and `FirstLine`.  That a pass-file has a first line at all is
  the least element of a non-empty set of numbers, by well-foundedness of `<` on
  the naturals: the one place where an argument by induction is needed, and it
  needs no induction theorem with an operator parameter.

Only model-checked: liveness (`Termination` of `FileCipher`, `EncryptStream` and
`DecryptStream`), because the provers have neither fairness nor ENABLED; and the
counterexamples of the runs that are expected to fail.

## 5. Assumptions and abstractions

* Ideal cryptography; Argon2id with fixed valid parameters does not fail; salts
  of different runs differ (`RngAssumption`).
* A file system with Unix semantics and atomic rename.  Durability after a power
  failure is not modelled: the code does not call `fsync`, and a crash here is
  the end of the process.
* Files are cut at chunk boundaries.  A read of one chunk is atomic in
  `FileCipher` (a concurrent edit changes whole chunks); `EncryptStream` has the
  byte-level reads, without contents.
* The user edits inputs of encryptions, not outputs, temporary files or the
  inputs of decryptions; input and output of a run differ; an encryption is
  given a text, and the user's ciphertexts are those of texts; the salts of the
  runs are on no disk before they are drawn (`ScenarioAssumption`).  Each run executes once; leftovers of
  earlier runs are part of the scenarios.
* In `KeyFiles` a text is a short or a long one.  Two hex keys have one length,
  and so have two PEM blocks; an OpenSSH file varies with its comment.  `Spec`
  leaves the key of `Obtain` open; `Commands` fixes it.
* Random keys of different runs differ; a derived key is its salt and its
  passphrase (ideal Argon2id and Ed25519).  A piece of text is a separator, the
  bytes or the digits of a version, or a word that holds none of these: `:v` and
  `|ver=` do not overlap themselves.
* `verify` is given texts that runs of `sign` printed, possibly spoilt; clap has
  accepted the command lines; a pass-file does not change.
* Base64, the OpenSSH encodings and the fingerprint are formats that no property
  depends on.
* Progress output, file sizes in messages and the argument list of `ssh` are
  left out.

## 6. Plan

Done: sections 2 to 4.  What could be added, in this order:

1. The key files of `SetBelongsTogether` with comments that differ: which texts
   may be left over, instead of leaving these states out.
2. A proof that the bytes of `EncryptStream` and the blocks of `FileCipher` are
   two views of one loop, as a refinement for a file that nobody modifies.
3. The state a further run starts from after a kill, as a theorem about
   `FileCipher` instead of an assumption on its scenarios.

Not modelled: `bench.rs` (it encrypts random bytes in memory and prints how long
that took; it keeps no state and touches no file), the terminal output, clap's
argument parsing, the internals of the cryptographic crates.
