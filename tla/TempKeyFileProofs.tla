-------------------------- MODULE TempKeyFileProofs --------------------------
(***************************************************************************)
(* Theorems of TempKeyFile, for any number of concurrent sessions.         *)
(***************************************************************************)
EXTENDS TempKeyFile, TLAPS

\* What session s and its file are like.  The key comes in after the access list
\* was set; it is whole when ssh starts; before the removal it is wiped, unless
\* that failed; and who has returned has removed the file or failed to write or
\* remove it.
FileOf(s) ==
    /\ pc[s] = "create" => s \notin exists
    /\ HasKey(s) \/ pc[s] = "write" => acl[s] = IF whoami[s] THEN "owner" ELSE "users"
    /\ pc[s] \in {"create", "restrict", "write"} => ~HasKey(s)
    /\ pc[s] \in {"exec", "ssh", "wipe"} => content[s] = "key"
    /\ pc[s] \in {"remove", "done"} /\ HasKey(s) => "wipe" \in slips[s]
    /\ pc[s] \in {"done", "failed"} /\ s \in exists =>
          slips[s] \cap {"write", "remove"} # {}

IInv == TypeOK /\ \A s \in Session : FileOf(s)

LEMMA InitIInv == Init => IInv
  BY DEF Init, IInv, TypeOK, FileOf, HasKey, Final

LEMMA NextIInv == IInv /\ [Next]_vars => IInv'
  <1> SUFFICES ASSUME IInv, [Next]_vars PROVE IInv'
    OBVIOUS
  <1> USE DEF IInv
  <1>1. ASSUME NEW s \in Session, Create(s) \/ CreateFails(s) PROVE IInv'
    <2>1. TypeOK'
      BY <1>1 DEF TypeOK, Create, CreateFails, Goto, Final
    <2>2. \A q \in Session : FileOf(q)'
      BY <1>1 DEF TypeOK, FileOf, HasKey, Create, CreateFails, Goto, Final
    <2> QED
      BY <2>1, <2>2
  <1>2. ASSUME NEW s \in Session, Restrict(s) \/ RestrictFails(s) PROVE IInv'
    <2>1. TypeOK'
      <3>1. whoami' \in [Session -> BOOLEAN]
        BY <1>2, Zenon DEF TypeOK, Restrict, RestrictFails
      <3>2. acl' \in [Session -> {"inherited", "owner", "users"}]
        BY <1>2 DEF TypeOK, Restrict, RestrictFails
      <3>3. err' \in [Session -> BOOLEAN]
        BY <1>2 DEF TypeOK, Restrict, RestrictFails
      <3>4. /\ pc' \in [Session -> {"create", "restrict", "write", "exec", "ssh",
                                     "wipe", "remove"} \cup Final]
            /\ exists' = exists /\ content' = content /\ slips' = slips
            /\ \A q \in Session : pc'[q] \notin {"create"} \cup Final => q \in exists
        BY <1>2 DEF TypeOK, Restrict, RestrictFails, Goto, Final
      <3> QED
        BY <3>1, <3>2, <3>3, <3>4 DEF TypeOK
    <2>2. \A q \in Session : FileOf(q)'
      BY <1>2 DEF TypeOK, FileOf, HasKey, Restrict, RestrictFails, Goto, Final
    <2> QED
      BY <2>1, <2>2
  <1>3. ASSUME NEW s \in Session, Write(s) \/ WriteFails(s) PROVE IInv'
    <2>1. TypeOK'
      BY <1>3 DEF TypeOK, Write, WriteFails, Goto, Slip, Final
    <2>2. \A q \in Session : FileOf(q)'
      BY <1>3 DEF TypeOK, FileOf, HasKey, Write, WriteFails, Goto, Slip, Final
    <2> QED
      BY <2>1, <2>2
  <1>4. ASSUME NEW s \in Session, Exec(s) \/ ExecFails(s) \/ SshExits(s) PROVE IInv'
    <2>1. TypeOK'
      BY <1>4 DEF TypeOK, Exec, ExecFails, SshExits, Goto, Final
    <2>2. \A q \in Session : FileOf(q)'
      BY <1>4 DEF TypeOK, FileOf, HasKey, Exec, ExecFails, SshExits, Goto, Final
    <2> QED
      BY <2>1, <2>2
  <1>5. ASSUME NEW s \in Session, Wipe(s) \/ WipeFails(s) PROVE IInv'
    <2>1. TypeOK'
      BY <1>5 DEF TypeOK, Wipe, WipeFails, Goto, Slip, Final
    <2>2. \A q \in Session : FileOf(q)'
      BY <1>5 DEF TypeOK, FileOf, HasKey, Wipe, WipeFails, Goto, Slip, Final
    <2> QED
      BY <2>1, <2>2
  <1>6. ASSUME NEW s \in Session, Remove(s) \/ RemoveFails(s) PROVE IInv'
    <2>1. TypeOK'
      BY <1>6 DEF TypeOK, Remove, RemoveFails, Goto, Slip, Final
    <2>2. \A q \in Session : FileOf(q)'
      BY <1>6 DEF TypeOK, FileOf, HasKey, Remove, RemoveFails, Goto, Slip, Final
    <2> QED
      BY <2>1, <2>2
  <1>7. ASSUME NEW s \in Session, Killed(s) PROVE IInv'
    <2>1. TypeOK'
      BY <1>7 DEF TypeOK, Killed, Goto, Final
    <2>2. \A q \in Session : FileOf(q)'
      BY <1>7 DEF TypeOK, FileOf, HasKey, Killed, Goto, Final
    <2> QED
      BY <2>1, <2>2
  <1>8. CASE UNCHANGED vars
    BY <1>8 DEF vars, TypeOK, FileOf, HasKey
  <1> QED
    BY <1>1, <1>2, <1>3, <1>4, <1>5, <1>6, <1>7, <1>8 DEF Next, Step, Terminating

LEMMA Invariance == Spec => []IInv
  BY InitIInv, NextIInv, PTL DEF Spec

-----------------------------------------------------------------------------
\* Types; from its creation to its removal the file is there.
THEOREM KeyFileTypes == Spec => []TypeOK
  <1>1. IInv => TypeOK
    BY DEF IInv
  <1> QED
    BY <1>1, Invariance, PTL

\* No byte of the key is ever in a file with the access list it was created
\* with, the moments of a kill or of a failing call included: the list names the
\* user, or BUILTIN\Users if whoami failed.
THEOREM NeverReadable == Spec => []NoWindow
  <1>1. IInv => NoWindow
    BY DEF IInv, FileOf, NoWindow
  <1> QED
    BY <1>1, Invariance, PTL

\* ssh starts on a file that is there and holds the whole key.
THEOREM SshFindsKey == Spec => []SshReadsWholeKey
  <1>1. IInv => SshReadsWholeKey
    BY DEF IInv, TypeOK, FileOf, SshReadsWholeKey, Final
  <1> QED
    BY <1>1, Invariance, PTL

\* A session that returns has removed its file, unless the write of the key or
\* the removal failed.
THEOREM ReturnRemoves == Spec => []RemovedOnReturn
  <1>1. IInv => RemovedOnReturn
    BY DEF IInv, FileOf, RemovedOnReturn
  <1> QED
    BY <1>1, Invariance, PTL

\* The key is overwritten before its file is removed, unless that failed.
THEOREM RemovalIsWiped == Spec => []WipedBeforeRemoval
  <1>1. IInv => WipedBeforeRemoval
    BY DEF IInv, FileOf, WipedBeforeRemoval
  <1> QED
    BY <1>1, Invariance, PTL
=============================================================================
