--------------------------- MODULE KeyFilesProofs ---------------------------
(***************************************************************************)
(* Theorems of KeyFiles: types, and what keygen and derive do to the files *)
(* that they find, for any number of runs.                                 *)
(***************************************************************************)
EXTENDS KeyFiles, SequenceTheorems, TLAPS

\* The i-th output of run r.
Nth(r, i) == <<args[r].base, names(args[r])[i]>>

Active == {"check", "key", "guard", "create", "write", "chmod"}

\* The outputs of a call are one, two or four files, all different, and
\* the private key is the first.
LEMMA NamesOfOutputs ==
    ASSUME NEW a
    PROVE  /\ names(a) \in Seq(Kind)
           /\ Len(names(a)) \in 1 .. 4
           /\ names(a)[1] = "cry_id"
           /\ \A i, j \in 1 .. Len(names(a)) : names(a)[i] = names(a)[j] => i = j
  <1> DEFINE s == <<"cry_id">>
             p == IF a.algo = "Aes256Gcm" THEN << >> ELSE <<"cry_pub_id">>
             o == IF a.algo = "Ed25519" /\ a.openssh THEN <<"openssh_id", "openssh_pub">>
                                                     ELSE << >>
  <1>1. s \in Seq(Kind) /\ Len(s) = 1 /\ s[1] = "cry_id"
    BY DEF Kind
  <1>2. /\ p \in Seq(Kind)
        /\ Len(p) = 0 \/ (Len(p) = 1 /\ p[1] = "cry_pub_id")
    <2>1. CASE a.algo = "Aes256Gcm"
      <3>1. p = << >>
        BY <2>1
      <3> QED
        BY <3>1, EmptySeq
    <2>2. CASE a.algo # "Aes256Gcm"
      <3>1. p = <<"cry_pub_id">>
        BY <2>2
      <3> HIDE DEF p
      <3> QED
        BY <3>1 DEF Kind
    <2> QED
      BY <2>1, <2>2
  <1>3. /\ o \in Seq(Kind)
        /\ \/ Len(o) = 0
           \/ Len(o) = 2 /\ o[1] = "openssh_id" /\ o[2] = "openssh_pub"
    <2>1. CASE a.algo = "Ed25519" /\ a.openssh
      <3>1. o = <<"openssh_id", "openssh_pub">>
        BY <2>1
      <3> HIDE DEF o
      <3> QED
        BY <3>1 DEF Kind
    <2>2. CASE ~(a.algo = "Ed25519" /\ a.openssh)
      <3>1. o = << >>
        BY <2>2
      <3> QED
        BY <3>1, EmptySeq
    <2> QED
      BY <2>1, <2>2
  <1>4. names(a) = (s \o p) \o o
    BY DEF names
  <1> HIDE DEF s, p, o
  <1> DEFINE m == s \o p
             n == m \o o
  <1>5. /\ m \in Seq(Kind)
        /\ Len(m) = 1 + Len(p)
        /\ m[1] = "cry_id"
        /\ Len(p) = 1 => m[2] = "cry_pub_id"
    BY <1>1, <1>2, ConcatProperties
  <1> HIDE DEF m
  <1>6. /\ n \in Seq(Kind)
        /\ Len(n) = Len(m) + Len(o)
        /\ \A i \in 1 .. Len(m) + Len(o) :
              n[i] = IF i <= Len(m) THEN m[i] ELSE o[i - Len(m)]
    <2>1. m \in Seq(Kind)
      BY <1>5
    <2>2. o \in Seq(Kind)
      BY <1>3
    <2> HIDE DEF o
    <2> QED
      BY <2>1, <2>2, ConcatProperties
  <1>7. n = names(a)
    BY <1>4 DEF m
  <1> HIDE DEF n
  <1>8. Len(p) \in {0, 1} /\ Len(o) \in {0, 2}
    BY <1>2, <1>3
  <1>9. /\ Len(n) \in 1 .. 4
        /\ Len(n) = 1 + Len(p) + Len(o)
        /\ n[1] = "cry_id"
        /\ Len(p) = 1 => n[2] = "cry_pub_id"
        /\ Len(o) = 2 => n[Len(p) + 2] = "openssh_id" /\ n[Len(p) + 3] = "openssh_pub"
    <2>1. CASE Len(o) = 2 /\ Len(p) = 1
      BY <1>3, <1>5, <1>6, <2>1
    <2>2. CASE Len(o) = 2 /\ Len(p) = 0
      BY <1>3, <1>5, <1>6, <2>2
    <2>3. CASE Len(o) = 0 /\ Len(p) = 1
      BY <1>3, <1>5, <1>6, <2>3
    <2>4. CASE Len(o) = 0 /\ Len(p) = 0
      BY <1>3, <1>5, <1>6, <2>4
    <2> QED
      BY <1>8, <2>1, <2>2, <2>3, <2>4
  <1>10. ASSUME NEW i \in 1 .. Len(n), NEW j \in 1 .. Len(n), n[i] = n[j]
         PROVE  i = j
    <2>1. CASE Len(o) = 2 /\ Len(p) = 1
      BY <1>9, <1>10, <2>1
    <2>2. CASE Len(o) = 2 /\ Len(p) = 0
      BY <1>9, <1>10, <2>2
    <2>3. CASE Len(o) = 0 /\ Len(p) = 1
      BY <1>9, <1>10, <2>3
    <2>4. CASE Len(o) = 0 /\ Len(p) = 0
      BY <1>9, <1>10, <2>4
    <2> QED
      BY <1>8, <2>1, <2>2, <2>3, <2>4
  <1> QED
    BY <1>6, <1>7, <1>9, <1>10

-----------------------------------------------------------------------------
(* The inductive invariant.                                                 *)

\* A run is at one of its outputs, and what it has of its command line is that of
\* a key, unless it never came to the call.
PositionOf(r) ==
    /\ at[r] \in 1 .. Len(names(args[r]))
    /\ pc[r] = "idle" => at[r] = 1
    /\ pc[r] \notin {"idle", "killed"} => IsJob(args[r])

\* Up to its call a run has found and touched nothing; before its second round
\* it has touched nothing, and in it the outputs it has passed; an output is open
\* when its text is written.
ProgressOf(r) ==
    /\ pc[r] = "idle" => found[r] = {} /\ earlier[r] = {}
    /\ pc[r] \in {"idle", "check", "key"} => touched[r] = {}
    /\ touched[r] \subseteq {Nth(r, i) : i \in 1 .. at[r]}
    /\ pc[r] \in {"guard", "create"} => Nth(r, at[r]) \notin touched[r]
    /\ pc[r] = "write" => Nth(r, at[r]) \in touched[r]

\* Without --force, what Check has passed was not there when the run was called.
PassedOf(r) ==
    ~args[r].force =>
        /\ pc[r] = "check" => \A i \in 1 .. at[r] - 1 : Nth(r, i) \notin found[r]
        /\ pc[r] \in Active \ {"check"} =>
              \A i \in 1 .. Len(names(args[r])) : Nth(r, i) \notin found[r]

\* RefusalIsClean, for one run.
RefusalOf(r) ==
    pc[r] = "refused" /\ touched[r] # {} =>
        \E q \in Run \ (earlier[r] \cup {r}) : touched[q] \cap Outputs(args[r]) # {}

\* Files do not disappear, so what a run touched or found is still there.
Lasting ==
    \A r \in Run : \A p \in touched[r] \cup found[r] : exists(p)

\* A run that had ended when r was called has touched only what r found.
Past ==
    \A r \in Run : \A q \in earlier[r] :
        pc[q] \in Final /\ touched[q] \subseteq found[r]

\* A file that is there was found, or touched by a run that had not ended.
Origin ==
    \A r \in Run : pc[r] \notin {"idle", "killed"} =>
        \A p \in Path : exists(p) =>
            p \in found[r] \/ \E q \in Run \ earlier[r] : p \in touched[q]

Own(r) == PositionOf(r) /\ ProgressOf(r) /\ PassedOf(r) /\ RefusalOf(r)

IInv ==
    /\ TypeOK
    /\ \A r \in Run : Own(r)
    /\ Lasting /\ Past /\ Origin
    /\ OldKeysSurvive

LEMMA InitIInv == Init => IInv
  <1> SUFFICES ASSUME Init PROVE IInv
    OBVIOUS
  <1>1. TypeOK
    BY ScenarioAssumption DEF Init, TypeOK, Final
  <1>2. ASSUME NEW r \in Run PROVE Own(r)
    <2>1. /\ pc[r] = "idle" /\ at[r] = 1
          /\ touched[r] = {} /\ found[r] = {} /\ earlier[r] = {}
      BY DEF Init
    <2>2. PositionOf(r)
      <3> DEFINE n == Len(names(args[r]))
      <3>1. n \in 1 .. 4
        BY NamesOfOutputs
      <3> HIDE DEF n
      <3>2. 1 \in 1 .. n
        BY <3>1
      <3> QED
        BY <2>1, <3>2 DEF PositionOf, n
    <2> QED
      BY <2>1, <2>2 DEF Own, ProgressOf, PassedOf, RefusalOf, Active
  <1>3. Lasting /\ Past /\ Origin /\ OldKeysSurvive
    BY DEF Init, Lasting, Past, Origin, OldKeysSurvive
  <1> QED
    BY <1>1, <1>2, <1>3 DEF IInv

\* A step of r that creates no file, after which r is where it may be.
LEMMA QuietStep ==
    ASSUME IInv, TypeOK', NEW r \in Run,
           UNCHANGED <<args, touched, found, earlier>>,
           \A p \in Path : exists(p)' <=> exists(p),
           \A q \in Run \ {r} : pc'[q] = pc[q] /\ at'[q] = at[q],
           pc[r] \notin Final, pc'[r] # "idle",
           pc[r] = "idle" => pc'[r] = "killed",
           Own(r)'
    PROVE  IInv'
  <1>1. ASSUME NEW q \in Run PROVE Own(q)'
    <2>1. CASE q = r
      BY <2>1
    <2>2. CASE q # r
      <3>1. pc'[q] = pc[q] /\ at'[q] = at[q] /\ Own(q)
        BY <2>2 DEF IInv
      <3> QED
        BY <3>1 DEF Own, PositionOf, ProgressOf, PassedOf, RefusalOf, Nth
    <2> QED
      BY <2>1, <2>2
  <1>2. Lasting'
    BY DEF IInv, Lasting, TypeOK
  <1>3. Past'
    BY DEF IInv, Past, TypeOK
  <1>4. Origin'
    BY DEF IInv, Origin, Final
  <1>5. OldKeysSurvive'
    BY DEF IInv, OldKeysSurvive
  <1> QED
    BY <1>1, <1>2, <1>3, <1>4, <1>5 DEF IInv

\* The quiet actions.
LEMMA CheckStep ==
    ASSUME IInv, NEW r \in Run, Check(r)
    PROVE  IInv'
  <1> DEFINE n == Len(names(args[r]))
  <1>1. /\ n \in 1 .. 4
        /\ \A i, j \in 1 .. n : names(args[r])[i] = names(args[r])[j] => i = j
    BY NamesOfOutputs
  <1>2. /\ TypeOK /\ Own(r) /\ pc[r] = "check"
        /\ at[r] \in 1 .. n /\ touched[r] = {} /\ IsJob(args[r])
    BY DEF IInv, Check, Own, PositionOf, ProgressOf
  <1>3. UNCHANGED <<args, disk, touched, found, earlier>>
    BY DEF Check, history
  <1>4. \/ pc' = [pc EXCEPT ![r] = "refused"] /\ at' = at
        \/ /\ ensure_writable(r) /\ at[r] < n
           /\ at' = [at EXCEPT ![r] = @ + 1] /\ pc' = pc
        \/ /\ ensure_writable(r) /\ at[r] = n
           /\ at' = [at EXCEPT ![r] = 1] /\ pc' = [pc EXCEPT ![r] = "key"]
    BY <1>1, <1>2 DEF Check, Goto
  <1> HIDE DEF n
  <1>5. TypeOK'
    BY <1>1, <1>2, <1>3, <1>4 DEF TypeOK, Final, Check, history
  <1>6. PositionOf(r)'
    BY <1>1, <1>2, <1>3, <1>4 DEF TypeOK, PositionOf, n
  <1>7. ProgressOf(r)'
    BY <1>1, <1>2, <1>3, <1>4 DEF TypeOK, ProgressOf
  <1>8. RefusalOf(r)'
    BY <1>2, <1>3 DEF RefusalOf
  <1>9. PassedOf(r)'
    <2>1. SUFFICES ASSUME ~args[r].force PROVE PassedOf(r)'
      BY <1>3 DEF PassedOf
    <2>2. \A i \in 1 .. at[r] - 1 : Nth(r, i) \notin found[r]
      BY <1>2, <2>1 DEF Own, PassedOf
    <2>3. ensure_writable(r) => Nth(r, at[r]) \notin found[r]
      BY <2>1 DEF IInv, Lasting, ensure_writable, Output, Nth
    <2>4. CASE pc' = [pc EXCEPT ![r] = "refused"]
      BY <2>4, <1>2, <1>3 DEF PassedOf, Active, TypeOK
    <2>5. CASE /\ ensure_writable(r) /\ at[r] < n
               /\ at' = [at EXCEPT ![r] = @ + 1] /\ pc' = pc
      <3>1. at'[r] - 1 = at[r]
        BY <2>5, <1>1, <1>2 DEF TypeOK
      <3>2. \A i \in 1 .. at[r] : Nth(r, i) \notin found[r]
        BY <1>1, <1>2, <2>2, <2>3, <2>5
      <3> QED
        BY <3>1, <3>2, <2>5, <1>2, <1>3 DEF PassedOf, Active, Nth
    <2>6. CASE /\ ensure_writable(r) /\ at[r] = n
               /\ at' = [at EXCEPT ![r] = 1] /\ pc' = [pc EXCEPT ![r] = "key"]
      <3>1. \A i \in 1 .. n : Nth(r, i) \notin found[r]
        BY <1>1, <1>2, <2>2, <2>3, <2>6
      <3> QED
        BY <3>1, <2>6, <1>2, <1>3 DEF PassedOf, Active, Nth, n, TypeOK
    <2> QED
      BY <1>4, <2>4, <2>5, <2>6
  <1>10. /\ \A p \in Path : exists(p)' <=> exists(p)
         /\ \A q \in Run \ {r} : pc'[q] = pc[q] /\ at'[q] = at[q]
         /\ pc[r] \notin Final /\ pc[r] # "idle" /\ pc'[r] # "idle"
    BY <1>2, <1>3, <1>4 DEF exists, Final, TypeOK
  <1> QED
    BY <1>3, <1>5, <1>6, <1>7, <1>8, <1>9, <1>10, QuietStep DEF Own

\* r ends without having been refused.
LEMMA StopStep ==
    ASSUME IInv, TypeOK', NEW r \in Run, NEW l \in {"ok", "failed", "killed"},
           UNCHANGED <<args, at, touched, found, earlier>>,
           \A p \in Path : exists(p)' <=> exists(p),
           pc' = [pc EXCEPT ![r] = l],
           pc[r] \notin Final, pc[r] = "idle" => l = "killed"
    PROVE  IInv'
  <1>1. TypeOK /\ Own(r) /\ pc'[r] = l
    BY DEF IInv, TypeOK
  <1>2. PositionOf(r)' /\ PassedOf(r)' /\ RefusalOf(r)'
    BY <1>1 DEF Own, PositionOf, PassedOf, RefusalOf, Active, Nth, Final
  <1>3. ProgressOf(r)'
    BY <1>1 DEF Own, ProgressOf, Nth
  <1>4. /\ \A q \in Run \ {r} : pc'[q] = pc[q] /\ at'[q] = at[q]
        /\ pc'[r] # "idle" /\ (pc[r] = "idle" => pc'[r] = "killed")
    BY <1>1 DEF TypeOK
  <1> QED
    BY <1>1, <1>2, <1>3, <1>4, QuietStep DEF Own

\* r has written an output and goes on.
LEMMA AdvanceStep ==
    ASSUME IInv, TypeOK', NEW r \in Run, Advance(r),
           UNCHANGED <<args, touched, found, earlier>>,
           \A p \in Path : exists(p)' <=> exists(p),
           pc[r] \in {"write", "chmod"}
    PROVE  IInv'
  <1> DEFINE n == Len(names(args[r]))
  <1>1. /\ n \in 1 .. 4
        /\ \A i, j \in 1 .. n : names(args[r])[i] = names(args[r])[j] => i = j
    BY NamesOfOutputs
  <1>2. /\ TypeOK /\ Own(r)
        /\ at[r] \in 1 .. n /\ IsJob(args[r])
    BY DEF IInv, Own, PositionOf
  <1>3. CASE at[r] < n
    <2>1. PICK l \in {"guard", "create"} : pc' = [pc EXCEPT ![r] = l]
      BY <1>3 DEF Advance, Goto, Entry
    <2>2. at' = [at EXCEPT ![r] = @ + 1]
      BY <1>3 DEF Advance
    <2> HIDE DEF n
    <2>3. pc'[r] = l /\ at'[r] = at[r] + 1 /\ at'[r] \in 1 .. n
      BY <1>1, <1>2, <1>3, <2>1, <2>2 DEF TypeOK
    <2>4. PositionOf(r)'
      BY <1>2, <2>3 DEF PositionOf, n
    <2>5. ProgressOf(r)'
      <3>1. touched[r] \subseteq {Nth(r, i) : i \in 1 .. at[r]}
        BY <1>2 DEF Own, ProgressOf
      <3>2. \A i \in 1 .. at[r] : Nth(r, i) # Nth(r, at[r] + 1)
        BY <1>1, <1>2, <2>3 DEF Nth
      <3>3. touched'[r] \subseteq {Nth(r, i)' : i \in 1 .. at'[r]}
        BY <1>1, <1>2, <2>3, <3>1 DEF Nth
      <3>4. Nth(r, at[r])' \notin touched'[r]
        BY <2>3, <3>1, <3>2 DEF Nth
      <3> QED
        BY <2>3, <3>3, <3>4 DEF ProgressOf
    <2>6. PassedOf(r)'
      BY <1>2, <2>3 DEF Own, PassedOf, Active, Nth
    <2>7. RefusalOf(r)'
      BY <2>3 DEF RefusalOf
    <2>8. /\ \A q \in Run \ {r} : pc'[q] = pc[q] /\ at'[q] = at[q]
          /\ pc[r] \notin Final /\ pc[r] # "idle" /\ pc'[r] # "idle"
      BY <1>2, <2>1, <2>2, <2>3 DEF TypeOK, Final
    <2> QED
      BY <2>4, <2>5, <2>6, <2>7, <2>8, QuietStep DEF Own
  <1>4. CASE ~(at[r] < n)
    BY <1>4, StopStep DEF Advance, Goto, Final
  <1> QED
    BY <1>3, <1>4

\* What the writes put into a file is a file's contents, and not nothing.
LEMMA WrittenIsFile ==
    ASSUME NEW f \in File, NEW k \in Key \cup {NoKey}, NEW n \in 0 .. 2
    PROVE  /\ Over(f, k, n) \in File /\ Over(f, k, n).is # "absent"
           /\ Torn(n) \in File /\ Torn(n).is # "absent"
  <1>1. f.size \in 0 .. 2
    BY DEF File
  <1>2. ASSUME NEW m \in 0 .. 2
        PROVE  /\ Torn(m) \in File /\ Torn(m).is # "absent"
               /\ Whole(k, m) \in File /\ Whole(k, m).is # "absent"
    BY DEF File, Torn, Whole
  <1> QED
    BY <1>1, <1>2 DEF Over

LEMMA ObtainStep ==
    ASSUME IInv, NEW r \in Run, NEW k \in Key, Obtain(r, k)
    PROVE  IInv'
  <1>1. TypeOK /\ Own(r) /\ pc[r] = "key"
    BY DEF IInv, Obtain
  <1>2. PICK l \in {"guard", "create"} : pc' = [pc EXCEPT ![r] = l]
    BY DEF Obtain, Goto, Entry
  <1>3. /\ UNCHANGED <<args, disk, private, at, touched, found, earlier>>
        /\ key' = [key EXCEPT ![r] = k]
    BY DEF Obtain, history
  <1>4. TypeOK' /\ pc'[r] = l
    BY <1>1, <1>2, <1>3 DEF TypeOK
  <1>5. PositionOf(r)' /\ RefusalOf(r)'
    BY <1>1, <1>2, <1>3, <1>4 DEF Own, PositionOf, RefusalOf
  <1>6. ProgressOf(r)'
    BY <1>1, <1>3, <1>4 DEF Own, ProgressOf, Nth
  <1>7. PassedOf(r)'
    BY <1>1, <1>3, <1>4 DEF Own, PassedOf, Nth, Active
  <1>8. /\ \A p \in Path : exists(p)' <=> exists(p)
        /\ \A q \in Run \ {r} : pc'[q] = pc[q] /\ at'[q] = at[q]
        /\ pc[r] \notin Final /\ pc[r] # "idle" /\ pc'[r] # "idle"
    BY <1>1, <1>2, <1>3, <1>4 DEF exists, Final, TypeOK
  <1> QED
    BY <1>3, <1>4, <1>5, <1>6, <1>7, <1>8, QuietStep DEF Own

\* If the second question is answered with a refusal, another run has created the
\* file in question since r was called: it was not there when r first asked.
LEMMA GuardStep ==
    ASSUME IInv, NEW r \in Run, Guard(r)
    PROVE  IInv'
  <1>1. TypeOK /\ Own(r) /\ pc[r] = "guard" /\ IsJob(args[r])
    BY DEF IInv, Guard, Own, PositionOf
  <1>2. pc' = [pc EXCEPT ![r] = IF ensure_writable(r) THEN "create" ELSE "refused"]
    BY DEF Guard, Goto
  <1>3. UNCHANGED <<args, disk, private, at, key, touched, found, earlier>>
    BY DEF Guard, history
  <1>4. TypeOK'
    BY <1>1, <1>2, <1>3 DEF TypeOK, Final
  <1>5. pc'[r] = IF ensure_writable(r) THEN "create" ELSE "refused"
    BY <1>1, <1>2 DEF TypeOK
  <1>6. PositionOf(r)' /\ PassedOf(r)'
    BY <1>1, <1>3, <1>5 DEF Own, PositionOf, PassedOf, Nth, Active
  <1>7. ProgressOf(r)'
    BY <1>1, <1>3, <1>5 DEF Own, ProgressOf, Nth
  <1>8. RefusalOf(r)'
    <2>1. SUFFICES ASSUME ~ensure_writable(r)
                   PROVE  \E q \in Run \ (earlier[r] \cup {r}) :
                              touched[q] \cap Outputs(args[r]) # {}
      BY <1>3, <1>5 DEF RefusalOf
    <2> DEFINE p == Nth(r, at[r])
    <2>2. exists(p) /\ ~args[r].force
      BY <2>1 DEF ensure_writable, Output, Nth
    <2>3. at[r] \in 1 .. Len(names(args[r]))
      BY <1>1 DEF Own, PositionOf
    <2>4. p \in Path /\ p \in Outputs(args[r])
      BY <1>1, <2>3, NamesOfOutputs DEF Nth, Outputs, Path, IsJob
    <2>5. p \notin found[r]
      BY <1>1, <2>2, <2>3 DEF Own, PassedOf, Active
    <2>6. PICK q \in Run \ earlier[r] : p \in touched[q]
      BY <1>1, <2>2, <2>4, <2>5 DEF IInv, Origin
    <2>7. q # r
      BY <1>1, <2>6 DEF Own, ProgressOf
    <2> QED
      BY <2>4, <2>6, <2>7
  <1>9. /\ \A p \in Path : exists(p)' <=> exists(p)
        /\ \A q \in Run \ {r} : pc'[q] = pc[q] /\ at'[q] = at[q]
        /\ pc[r] \notin Final /\ pc[r] # "idle" /\ pc'[r] # "idle"
    BY <1>1, <1>2, <1>3, <1>5 DEF exists, Final, TypeOK
  <1> QED
    BY <1>3, <1>4, <1>6, <1>7, <1>8, <1>9, QuietStep DEF Own

\* A step that changes the contents of the output r has open, if anything, keeps
\* every file there.
LEMMA OpenOutputStays ==
    ASSUME IInv, NEW r \in Run, pc[r] = "write",
           NEW f \in File, f.is # "absent",
           disk' = [disk EXCEPT ![Output(r)] = f] \/ disk' = disk
    PROVE  /\ disk' \in [Path -> File]
           /\ \A p \in Path : exists(p)' <=> exists(p)
  <1>1. TypeOK /\ Own(r)
    BY DEF IInv
  <1>2. Output(r) \in touched[r]
    BY <1>1 DEF Own, ProgressOf, Nth, Output
  <1>3. exists(Output(r))
    BY <1>2 DEF IInv, Lasting
  <1> QED
    BY <1>1, <1>3 DEF TypeOK, exists

\* The output r is at is one of its files, and its text is short or long.
LEMMA OutputIsFile ==
    ASSUME IInv, NEW r \in Run, pc[r] \notin {"idle", "killed"}
    PROVE  /\ Output(r) \in Path
           /\ Output(r) = Nth(r, at[r])
           /\ Size(args[r], Output(r)[2]) \in 1 .. 2
  <1>1. IsJob(args[r]) /\ at[r] \in 1 .. Len(names(args[r]))
    BY DEF IInv, Own, PositionOf
  <1>2. names(args[r])[at[r]] \in Kind
    BY <1>1, NamesOfOutputs
  <1>3. Output(r) = Nth(r, at[r]) /\ Output(r) \in Path
    BY <1>1, <1>2 DEF Output, Nth, Path, IsJob
  <1>4. Size(args[r], Output(r)[2]) \in 1 .. 2
    BY <1>1 DEF Size, IsJob
  <1> QED
    BY <1>3, <1>4

LEMMA AdvanceTypes ==
    ASSUME IInv, NEW r \in Run, Advance(r), UNCHANGED args
    PROVE  /\ pc' \in [Run -> {"idle", "check", "key", "guard", "create", "write", "chmod"}
                                 \cup Final]
           /\ at' \in [Run -> 1 .. 4]
  <1> DEFINE n == Len(names(args[r]))
  <1>1. TypeOK /\ at[r] \in 1 .. n /\ n \in 1 .. 4
    BY NamesOfOutputs DEF IInv, Own, PositionOf
  <1>2. CASE at[r] < n
    <2>1. at[r] + 1 \in 1 .. 4
      <3> HIDE DEF n
      <3> QED
        BY <1>1, <1>2
    <2>2. at' = [at EXCEPT ![r] = at[r] + 1]
      BY <1>2 DEF Advance
    <2>3. PICK l \in {"guard", "create"} : pc' = [pc EXCEPT ![r] = l]
      BY <1>2 DEF Advance, Goto, Entry
    <2> QED
      BY <1>1, <2>1, <2>2, <2>3 DEF TypeOK
  <1>3. CASE ~(at[r] < n)
    BY <1>1, <1>3 DEF Advance, Goto, TypeOK, Final
  <1> QED
    BY <1>2, <1>3

LEMMA WriteStep ==
    ASSUME IInv, NEW r \in Run, Write(r)
    PROVE  IInv'
  <1> DEFINE p == Output(r)
             n == Size(args[r], p[2])
             f == Over(disk[p], key[r], n)
  <1>1. TypeOK /\ Own(r) /\ pc[r] = "write"
    BY DEF IInv, Write
  <1>2. p \in Path /\ n \in 1 .. 2
    BY <1>1, OutputIsFile
  <1>3. f \in File /\ f.is # "absent"
    <2>1. disk[p] \in File /\ key[r] \in Key \cup {NoKey} /\ n \in 0 .. 2
      BY <1>1, <1>2 DEF TypeOK
    <2> HIDE DEF n, p
    <2> QED
      BY <2>1, WrittenIsFile
  <1>4. /\ disk' = [disk EXCEPT ![p] = f]
        /\ UNCHANGED <<args, private, key, touched, found, earlier>>
    BY DEF Write, history
  <1> HIDE DEF f, n
  <1>5. /\ disk' \in [Path -> File]
        /\ \A x \in Path : exists(x)' <=> exists(x)
    BY <1>1, <1>3, <1>4, OpenOutputStays
  <1>6. CASE Tightens(args[r], p[2])
    <2>1. pc' = [pc EXCEPT ![r] = "chmod"] /\ at' = at
      BY <1>6 DEF Write, Goto
    <2>2. TypeOK' /\ pc'[r] = "chmod"
      BY <1>1, <1>4, <1>5, <2>1 DEF TypeOK
    <2>3. PositionOf(r)' /\ RefusalOf(r)'
      BY <1>1, <1>4, <2>1, <2>2 DEF Own, PositionOf, RefusalOf
    <2>4. ProgressOf(r)'
      BY <1>1, <1>4, <2>1, <2>2 DEF Own, ProgressOf, Nth
    <2>5. PassedOf(r)'
      BY <1>1, <1>4, <2>1, <2>2 DEF Own, PassedOf, Nth, Active
    <2>6. /\ \A q \in Run \ {r} : pc'[q] = pc[q] /\ at'[q] = at[q]
          /\ pc[r] \notin Final /\ pc[r] # "idle" /\ pc'[r] # "idle"
      BY <1>1, <2>1, <2>2 DEF Final, TypeOK
    <2> QED
      BY <1>4, <1>5, <2>2, <2>3, <2>4, <2>5, <2>6, QuietStep DEF Own
  <1>7. CASE ~Tightens(args[r], p[2])
    <2>1. Advance(r)
      BY <1>7 DEF Write
    <2>2. TypeOK'
      BY <1>1, <1>4, <1>5, <2>1, AdvanceTypes DEF TypeOK
    <2> QED
      BY <1>1, <1>4, <1>5, <2>1, <2>2, AdvanceStep
  <1> QED
    BY <1>6, <1>7

LEMMA ChmodStep ==
    ASSUME IInv, NEW r \in Run, Chmod(r)
    PROVE  IInv'
  <1>1. TypeOK /\ pc[r] = "chmod" /\ Advance(r)
    BY DEF IInv, Chmod
  <1>2. /\ private' = private \cup {Output(r)}
        /\ UNCHANGED <<args, disk, key, touched, found, earlier>>
    BY DEF Chmod, history
  <1>3. Output(r) \in Path
    BY <1>1, OutputIsFile
  <1>4. TypeOK'
    BY <1>1, <1>2, <1>3, AdvanceTypes DEF TypeOK
  <1>5. \A p \in Path : exists(p)' <=> exists(p)
    BY <1>2 DEF exists
  <1> QED
    BY <1>1, <1>2, <1>4, <1>5, AdvanceStep

LEMMA FailsStep ==
    ASSUME IInv, NEW r \in Run, Fails(r) \/ Killed(r)
    PROVE  IInv'
  <1>1. TypeOK /\ pc[r] \notin Final
    BY DEF IInv, Fails, Killed, Final
  <1>2. UNCHANGED <<args, disk, private, at, key, touched, found, earlier>>
    BY DEF Fails, Killed, history
  <1>3. PICK l \in {"failed", "killed"} :
            pc' = [pc EXCEPT ![r] = l] /\ (pc[r] = "idle" => l = "killed")
    BY DEF Fails, Killed, Goto
  <1>4. TypeOK' /\ \A p \in Path : exists(p)' <=> exists(p)
    BY <1>1, <1>2, <1>3 DEF TypeOK, Final, exists
  <1> QED
    BY <1>1, <1>2, <1>3, <1>4, StopStep

LEMMA WriteFailsStep ==
    ASSUME IInv, NEW r \in Run, WriteFails(r)
    PROVE  IInv'
  <1> DEFINE p == Output(r)
             new(n) == Torn(IF disk[p].size < n THEN n ELSE disk[p].size)
  <1>1. TypeOK /\ pc[r] = "write"
    BY DEF IInv, WriteFails
  <1>2. p \in Path /\ Size(args[r], p[2]) \in 1 .. 2
    BY <1>1, OutputIsFile
  <1>3. PICK n \in 1 .. Size(args[r], p[2]) :
            disk' \in {disk, [disk EXCEPT ![p] = new(n)]}
    BY DEF WriteFails
  <1>4. new(n) \in File /\ new(n).is # "absent"
    <2>1. disk[p].size \in 0 .. 2 /\ n \in 0 .. 2
      BY <1>1, <1>2, <1>3 DEF TypeOK, File
    <2>2. (IF disk[p].size < n THEN n ELSE disk[p].size) \in 0 .. 2
      BY <2>1
    <2> QED
      BY <2>2 DEF Torn, File
  <1>5. /\ disk' \in [Path -> File]
        /\ \A x \in Path : exists(x)' <=> exists(x)
    <2>1. disk' = [disk EXCEPT ![p] = new(n)] \/ disk' = disk
      BY <1>3
    <2> HIDE DEF new
    <2> QED
      BY <1>1, <1>4, <2>1, OpenOutputStays
  <1>6. /\ pc' = [pc EXCEPT ![r] = "failed"]
        /\ UNCHANGED <<args, private, at, key, touched, found, earlier>>
    BY DEF WriteFails, Goto, history
  <1>7. TypeOK' /\ pc[r] \notin Final /\ pc[r] # "idle"
    BY <1>1, <1>5, <1>6 DEF TypeOK, Final
  <1> QED
    BY <1>5, <1>6, <1>7, StopStep

\* The call.
LEMMA BeginStep ==
    ASSUME IInv, NEW r \in Run, Begin(r)
    PROVE  IInv'
  <1>1. /\ TypeOK /\ Own(r) /\ pc[r] = "idle" /\ touched[r] = {}
        /\ \A q \in Run : r \notin earlier[q]
    BY DEF IInv, Begin, Own, ProgressOf, Past, Final
  <1>2. PICK l \in {"failed", "check"} : pc' = [pc EXCEPT ![r] = l]
    BY DEF Begin, Goto
  <1>3. /\ found' = [found EXCEPT ![r] = {p \in Path : exists(p)}]
        /\ earlier' = [earlier EXCEPT ![r] = {q \in Run : pc[q] \in Final}]
        /\ UNCHANGED <<args, disk, private, at, key, touched>>
    BY DEF Begin
  <1>4. IsJob(args[r])
    BY <1>1, ScenarioAssumption DEF Begin, TypeOK
  <1>5. /\ TypeOK' /\ pc'[r] = l
        /\ found'[r] = {p \in Path : exists(p)}
        /\ earlier'[r] = {q \in Run : pc[q] \in Final}
        /\ \A q \in Run \ {r} : /\ pc'[q] = pc[q] /\ found'[q] = found[q]
                               /\ earlier'[q] = earlier[q]
    BY <1>1, <1>2, <1>3 DEF TypeOK, Final
  <1>6. at[r] = 1
    BY <1>1 DEF Own, PositionOf
  <1>7. Own(r)'
    <2>1. PositionOf(r)' /\ RefusalOf(r)'
      BY <1>1, <1>3, <1>4, <1>5 DEF Own, PositionOf, RefusalOf
    <2>2. ProgressOf(r)'
      BY <1>1, <1>3, <1>5 DEF ProgressOf
    <2>3. PassedOf(r)'
      <3>1. \A i \in 1 .. at'[r] - 1 : FALSE
        BY <1>3, <1>6
      <3> QED
        BY <1>5, <3>1 DEF PassedOf, Active
    <2> QED
      BY <2>1, <2>2, <2>3 DEF Own
  <1>8. ASSUME NEW q \in Run, q # r PROVE Own(q)'
    <2>1. Own(q)
      BY DEF IInv
    <2> QED
      BY <1>3, <1>5, <1>8, <2>1
      DEF Own, PositionOf, ProgressOf, PassedOf, RefusalOf, Nth
  <1>9. Lasting'
    BY <1>1, <1>3, <1>5 DEF IInv, Lasting, TypeOK, exists
  <1>10. Past'
    <2>1. ASSUME NEW q \in earlier'[r]
          PROVE  pc'[q] \in Final /\ touched'[q] \subseteq found'[r]
      <3>1. q \in Run /\ pc[q] \in Final /\ q # r
        BY <1>1, <1>5 DEF Final
      <3>2. \A p \in touched[q] : p \in Path /\ exists(p)
        BY <3>1 DEF IInv, Lasting, TypeOK
      <3> QED
        BY <1>3, <1>5, <3>1, <3>2
    <2>2. ASSUME NEW x \in Run, x # r, NEW q \in earlier'[x]
          PROVE  pc'[q] \in Final /\ touched'[q] \subseteq found'[x]
      <3>1. q \in earlier[x] /\ q # r /\ q \in Run
        BY <1>1, <1>5, <2>2 DEF TypeOK
      <3> QED
        BY <1>3, <1>5, <2>2, <3>1 DEF IInv, Past
    <2> QED
      BY <2>1, <2>2 DEF Past
  <1>11. Origin'
    BY <1>3, <1>5 DEF IInv, Origin, exists
  <1>12. OldKeysSurvive'
    BY <1>1, <1>3, <1>5 DEF IInv, OldKeysSurvive
  <1> QED
    BY <1>5, <1>7, <1>8, <1>9, <1>10, <1>11, <1>12 DEF IInv

\* The open that creates or empties an output.
LEMMA CreateStep ==
    ASSUME IInv, NEW r \in Run, Create(r)
    PROVE  IInv'
  <1> DEFINE p == Nth(r, at[r])
  <1>1. /\ TypeOK /\ Own(r) /\ pc[r] = "create" /\ IsJob(args[r])
        /\ at[r] \in 1 .. Len(names(args[r]))
        /\ \A q \in Run : r \notin earlier[q]
    BY DEF IInv, Create, Own, PositionOf, Past, Final
  <1>2. p \in Path /\ Output(r) = p
    BY <1>1, OutputIsFile
  <1> HIDE DEF p
  <1>3. /\ disk' = [disk EXCEPT ![p] = Torn(0)]
        /\ touched' = [touched EXCEPT ![r] = @ \cup {p}]
        /\ pc' = [pc EXCEPT ![r] = "write"]
        /\ UNCHANGED <<args, private, at, key, found, earlier>>
    BY <1>2 DEF Create, Goto
  <1>4. Torn(0) \in File /\ Torn(0).is # "absent"
    BY DEF Torn, File
  <1>5. /\ TypeOK' /\ pc'[r] = "write"
        /\ touched'[r] = touched[r] \cup {p}
        /\ \A q \in Run \ {r} : pc'[q] = pc[q] /\ touched'[q] = touched[q]
        /\ \A x \in Path : exists(x)' <=> exists(x) \/ x = p
    BY <1>1, <1>2, <1>3, <1>4 DEF TypeOK, exists
  <1>6. Own(r)'
    <2>1. PositionOf(r)' /\ RefusalOf(r)'
      BY <1>1, <1>3, <1>5 DEF PositionOf, RefusalOf
    <2>2. ProgressOf(r)'
      BY <1>1, <1>3, <1>5 DEF Own, ProgressOf, Nth, p
    <2>3. PassedOf(r)'
      BY <1>1, <1>3, <1>5 DEF Own, PassedOf, Active, Nth
    <2> QED
      BY <2>1, <2>2, <2>3 DEF Own
  <1>7. ASSUME NEW q \in Run, q # r PROVE Own(q)'
    <2>1. Own(q)
      BY DEF IInv
    <2>2. RefusalOf(q)'
      BY <1>1, <1>3, <1>5, <1>7, <2>1 DEF Own, RefusalOf
    <2> QED
      BY <1>3, <1>5, <1>7, <2>1, <2>2 DEF Own, PositionOf, ProgressOf, PassedOf, Nth
  <1>8. Lasting'
    BY <1>1, <1>2, <1>3, <1>5 DEF IInv, Lasting, TypeOK
  <1>9. Past'
    <2>1. ASSUME NEW x \in Run, NEW q \in earlier[x]
          PROVE  pc'[q] \in Final /\ touched'[q] \subseteq found[x]
      <3>1. q \in Run /\ q # r
        BY <1>1 DEF TypeOK
      <3> QED
        BY <1>5, <3>1 DEF IInv, Past
    <2> QED
      BY <1>3, <2>1 DEF Past
  <1>10. Origin'
    <2>1. ASSUME NEW x \in Run, pc'[x] \notin {"idle", "killed"},
                 NEW y \in Path, exists(y)'
          PROVE  y \in found[x] \/ \E q \in Run \ earlier[x] : y \in touched'[q]
      <3>1. CASE y = p
        BY <1>1, <1>5, <3>1
      <3>2. CASE y # p
        BY <1>1, <1>5, <2>1, <3>2 DEF IInv, Origin
      <3> QED
        BY <3>1, <3>2
    <2> QED
      BY <1>3, <2>1 DEF Origin
  <1>11. OldKeysSurvive'
    <2>1. ~args[r].force => p \notin found[r]
      BY <1>1 DEF Own, PassedOf, Active, p
    <2>2. ~args[r].force => touched'[r] \cap found[r] = {}
      BY <1>5, <2>1 DEF IInv, OldKeysSurvive
    <2> QED
      BY <1>3, <1>5, <2>2 DEF IInv, OldKeysSurvive
  <1> QED
    BY <1>5, <1>6, <1>7, <1>8, <1>9, <1>10, <1>11 DEF IInv

LEMMA NextIInv == IInv /\ [Next]_vars => IInv'
  <1> SUFFICES ASSUME IInv, [Next]_vars PROVE IInv'
    OBVIOUS
  <1>1. ASSUME NEW r \in Run, Begin(r) PROVE IInv'
    BY <1>1, BeginStep
  <1>2. ASSUME NEW r \in Run, Step(r) PROVE IInv'
    BY <1>2, CheckStep, GuardStep, CreateStep, WriteStep, ChmodStep, ObtainStep DEF Step
  <1>3. ASSUME NEW r \in Run, Fails(r) \/ WriteFails(r) \/ Killed(r) PROVE IInv'
    BY <1>3, FailsStep, WriteFailsStep
  <1>4. CASE UNCHANGED vars
    <2> USE <1>4 DEF vars, history, IInv
    <2>1. TypeOK'
      BY DEF TypeOK
    <2>2. \A r \in Run : Own(r)'
      BY DEF Own, PositionOf, ProgressOf, PassedOf, RefusalOf, Nth
    <2>3. Lasting' /\ Past' /\ Origin' /\ OldKeysSurvive'
      BY DEF Lasting, Past, Origin, OldKeysSurvive, exists
    <2> QED
      BY <2>1, <2>2, <2>3
  <1> QED
    BY <1>1, <1>2, <1>3, <1>4 DEF Next

LEMMA Invariance == Spec => []IInv
  BY InitIInv, NextIInv, PTL DEF Spec

-----------------------------------------------------------------------------
\* Type correctness, for any number of runs of keygen and derive.
THEOREM KeyFilesTypes == Spec => []TypeOK
  <1>1. IInv => TypeOK
    BY DEF IInv
  <1> QED
    BY <1>1, Invariance, PTL

\* Without --force no run of keygen or derive changes a file it found, not even
\* the OpenSSH public key and the RSA files that are written unguarded.
THEOREM FoundKeysSurvive == Spec => []OldKeysSurvive
  <1>1. IInv => OldKeysSurvive
    BY DEF IInv
  <1> QED
    BY <1>1, Invariance, PTL

\* A run that is refused after it has written something was overtaken: another
\* run has created one of its files since it was called.
THEOREM RefusedRunsAreClean == Spec => []RefusalIsClean
  <1>1. IInv => RefusalIsClean
    BY DEF IInv, Own, RefusalOf, RefusalIsClean
  <1> QED
    BY <1>1, Invariance, PTL
-----------------------------------------------------------------------------
(* What a run that returns Ok leaves behind.                                *)

\* Keys of different algorithms are different, so that a key tells how long its
\* texts are.
Alike ==
    \A q, r \in Run : key[q] = key[r] /\ key[r] # NoKey => args[q].algo = args[r].algo

\* A run writes with its key in hand, and starts with the first output; the
\* outputs it has passed are all written.
CoveredOf(r) ==
    /\ pc[r] \in {"guard", "create", "write", "chmod", "ok"} => key[r] \in Key
    /\ pc[r] = "key" => at[r] = 1
    /\ pc[r] \in {"guard", "create"} => \A i \in 1 .. at[r] - 1 : Nth(r, i) \in touched[r]
    /\ pc[r] \in {"write", "chmod"} => \A i \in 1 .. at[r] : Nth(r, i) \in touched[r]
    /\ pc[r] = "ok" => Outputs(args[r]) \subseteq touched[r]

\* Once past its private key a run has tightened its mode.
TightOf(r) ==
    args[r].algo = "Ed25519" =>
        /\ pc[r] = "ok" => <<args[r].base, "cry_id">> \in private
        /\ pc[r] \in {"guard", "create", "write", "chmod"} /\ at[r] > 1 =>
              <<args[r].base, "cry_id">> \in private

Gone == {"failed", "killed", "refused"}

\* q may still leave r's files as r wants them.
Compatible(q, r) ==
    \/ q \in earlier[r]
    \/ touched[q] \cap Outputs(args[r]) = {}
    \/ pc[q] \notin Gone /\ key[q] = key[r] /\ args[q].comment = args[r].comment

\* Somebody has emptied p and is about to write its text.
BeingWritten(p) == disk[p] = Torn(0) /\ \E x \in Run : pc[x] = "write" /\ Output(x) = p

\* Among compatible runs every file r has opened holds r's key, or somebody is
\* about to write it again.
HeldOf(r) ==
    pc[r] \notin Gone /\ (\A q \in Run \ {r} : Compatible(q, r)) =>
        \A p \in touched[r] :
            disk[p] = Whole(key[r], Size(args[r], p[2])) \/ BeingWritten(p)

SInv == \A r \in Run : CoveredOf(r) /\ TightOf(r) /\ HeldOf(r)

\* What a run has touched is among its outputs.
LEMMA TouchedOutputs ==
    ASSUME IInv, NEW r \in Run
    PROVE  touched[r] \subseteq Outputs(args[r])
  <1>1. /\ at[r] \in 1 .. Len(names(args[r]))
        /\ touched[r] \subseteq {Nth(r, i) : i \in 1 .. at[r]}
    BY DEF IInv, Own, PositionOf, ProgressOf
  <1>2. names(args[r]) \in Seq(Kind)
    BY NamesOfOutputs
  <1>3. DOMAIN names(args[r]) = 1 .. Len(names(args[r]))
    BY <1>2
  <1> QED
    BY <1>1, <1>3 DEF Outputs, Nth

\* A step after which r finds the others compatible is one before which it did.
LEMMA StayCompatible ==
    ASSUME IInv, NEW r \in Run, HeldOf(r),
           UNCHANGED args, earlier'[r] = earlier[r], key'[r] = key[r],
           pc[r] \in Gone => pc'[r] \in Gone,
           \A q \in Run \ {r} :
              /\ touched[q] \subseteq touched'[q]
              /\ \/ touched[q] = {}
                 \/ key'[q] = key[q] /\ (pc[q] \in Gone => pc'[q] \in Gone),
           pc'[r] \notin Gone, \A q \in Run \ {r} : Compatible(q, r)'
    PROVE  \A p \in touched[r] :
              disk[p] = Whole(key[r], Size(args[r], p[2])) \/ BeingWritten(p)
  <1>1. ASSUME NEW q \in Run \ {r} PROVE Compatible(q, r)
    <2>1. Compatible(q, r)'
      OBVIOUS
    <2> QED
      BY <2>1 DEF Compatible
  <1> QED
    BY <1>1 DEF HeldOf

\* A step of x that writes no file to its end and leaves none half written.
LEMMA HeldByOthers ==
    ASSUME IInv, SInv, NEW x \in Run, UNCHANGED <<args, touched>>,
           \A p \in Path : ~(pc[x] = "write" /\ p = Output(x)) => disk'[p] = disk[p],
           pc[x] = "write" => pc'[x] \in Gone,
           \A q \in Run \ {x} : /\ pc'[q] = pc[q] /\ at'[q] = at[q]
                                /\ key'[q] = key[q] /\ earlier'[q] = earlier[q],
           \/ touched[x] = {}
           \/ /\ key'[x] = key[x] /\ earlier'[x] = earlier[x]
              /\ pc[x] \in Gone => pc'[x] \in Gone
    PROVE  \A r \in Run : HeldOf(r)'
  <1> SUFFICES ASSUME NEW r \in Run, pc'[r] \notin Gone,
                      \A q \in Run \ {r} : Compatible(q, r)',
                      NEW p \in touched[r]
               PROVE  disk'[p] = Whole(key'[r], Size(args[r], p[2])) \/ BeingWritten(p)'
    BY DEF HeldOf
  <1>1. /\ earlier'[r] = earlier[r] /\ key'[r] = key[r]
        /\ pc[r] \in Gone => pc'[r] \in Gone
    OBVIOUS
  <1>2. HeldOf(r)
    BY DEF SInv
  <1>3. \A q \in Run \ {r} :
              /\ touched[q] \subseteq touched'[q]
              /\ \/ touched[q] = {}
                 \/ key'[q] = key[q] /\ (pc[q] \in Gone => pc'[q] \in Gone)
    OBVIOUS
  <1>4. disk[p] = Whole(key[r], Size(args[r], p[2])) \/ BeingWritten(p)
    BY <1>1, <1>2, <1>3, StayCompatible
  <1>5. p \in Path /\ p \in Outputs(args[r])
    BY TouchedOutputs DEF IInv, TypeOK
  <1>6. ASSUME pc[x] = "write", p = Output(x) PROVE FALSE
    <2>1. pc'[x] \in Gone /\ x # r
      BY <1>6
    <2>2. x \notin earlier[r]
      BY <1>6 DEF IInv, Past, Final
    <2>3. p \in touched[x]
      BY <1>6 DEF IInv, Own, ProgressOf, Nth, Output
    <2>4. Compatible(x, r)'
      BY <2>1
    <2> QED
      BY <1>1, <1>5, <2>1, <2>2, <2>3, <2>4 DEF Compatible
  <1>7. disk'[p] = disk[p]
    BY <1>5, <1>6
  <1>8. CASE disk[p] = Whole(key[r], Size(args[r], p[2]))
    BY <1>1, <1>7, <1>8
  <1>9. CASE BeingWritten(p)
    <2>1. PICK y \in Run : pc[y] = "write" /\ Output(y) = p
      BY <1>9 DEF BeingWritten
    <2>2. y # x
      BY <1>6, <2>1
    <2>3. pc'[y] = "write" /\ Output(y)' = p
      BY <2>1, <2>2 DEF Output
    <2>4. disk'[p] = Torn(0)
      BY <1>7, <1>9 DEF BeingWritten
    <2> QED
      BY <2>3, <2>4 DEF BeingWritten
  <1> QED
    BY <1>4, <1>8, <1>9

\* The open: the file is empty, and x is about to write it.
LEMMA HeldByCreate ==
    ASSUME IInv, SInv, NEW x \in Run, Create(x)
    PROVE  \A r \in Run : HeldOf(r)'
  <1>1. /\ TypeOK /\ pc[x] = "create"
        /\ disk' = [disk EXCEPT ![Output(x)] = Torn(0)]
        /\ touched' = [touched EXCEPT ![x] = @ \cup {Output(x)}]
        /\ pc' = [pc EXCEPT ![x] = "write"]
        /\ UNCHANGED <<args, private, at, key, found, earlier>>
    BY DEF IInv, Create, Goto
  <1>2. Output(x) \in Path
    BY <1>1, OutputIsFile
  <1>3. BeingWritten(Output(x))'
    <2>1. disk'[Output(x)] = Torn(0) /\ pc'[x] = "write" /\ Output(x)' = Output(x)
      BY <1>1, <1>2 DEF TypeOK, Output
    <2> QED
      BY <2>1 DEF BeingWritten, Output
  <1> SUFFICES ASSUME NEW r \in Run, pc'[r] \notin Gone,
                      \A q \in Run \ {r} : Compatible(q, r)',
                      NEW p \in touched'[r], p # Output(x)
               PROVE  disk'[p] = Whole(key'[r], Size(args'[r], p[2])) \/ BeingWritten(p)'
    <2>1. ASSUME NEW r \in Run, pc'[r] \notin Gone,
                 \A q \in Run \ {r} : Compatible(q, r)', NEW p \in touched'[r]
          PROVE  disk'[p] = Whole(key'[r], Size(args'[r], p[2])) \/ BeingWritten(p)'
      <3>1. CASE p = Output(x)
        BY <1>3, <3>1, <1>1 DEF BeingWritten, Output
      <3> QED
        BY <2>1, <3>1
    <2> QED
      BY <2>1 DEF HeldOf
  <1>4. p \in touched[r] /\ p \in Path /\ disk'[p] = disk[p]
    BY <1>1, <1>2 DEF TypeOK
  <1>5. /\ earlier'[r] = earlier[r] /\ key'[r] = key[r]
        /\ pc[r] \in Gone => pc'[r] \in Gone
        /\ HeldOf(r)
    BY <1>1 DEF SInv, Gone, TypeOK
  <1>6. \A q \in Run \ {r} :
              /\ touched[q] \subseteq touched'[q]
              /\ key'[q] = key[q] /\ (pc[q] \in Gone => pc'[q] \in Gone)
    BY <1>1 DEF Gone, TypeOK
  <1>7. disk[p] = Whole(key[r], Size(args[r], p[2])) \/ BeingWritten(p)
    BY <1>1, <1>4, <1>5, <1>6, StayCompatible
  <1>8. CASE BeingWritten(p)
    <2>1. PICK y \in Run : pc[y] = "write" /\ Output(y) = p
      BY <1>8 DEF BeingWritten
    <2>2. pc'[y] = "write" /\ Output(y)' = p
      BY <1>1, <2>1 DEF Output, TypeOK
    <2> QED
      BY <1>4, <1>8, <2>2 DEF BeingWritten
  <1> QED
    BY <1>1, <1>4, <1>7, <1>8

\* The write: x is done with the file, and its key is that of every compatible
\* run that has opened it too, so that their texts are of one length.
LEMMA HeldByWrite ==
    ASSUME IInv, SInv, Alike, NEW x \in Run, Write(x)
    PROVE  \A r \in Run : HeldOf(r)'
  <1> DEFINE o == Output(x)
             new == Over(disk[o], key[x], Size(args[x], o[2]))
  <1>1. /\ TypeOK /\ pc[x] = "write"
        /\ disk' = [disk EXCEPT ![o] = new]
        /\ UNCHANGED <<args, private, key, touched, found, earlier>>
    BY DEF IInv, Write, history
  <1>2. o \in Path /\ o \in touched[x] /\ Size(args[x], o[2]) \in 1 .. 2
    BY <1>1, OutputIsFile DEF IInv, Own, ProgressOf
  <1>3. /\ \A q \in Run \ {x} : pc'[q] = pc[q] /\ at'[q] = at[q]
        /\ pc'[x] \notin Gone
    BY <1>1 DEF Write, Advance, Goto, Entry, Gone, TypeOK
  <1> HIDE DEF o, new
  <1> SUFFICES ASSUME NEW r \in Run, pc'[r] \notin Gone,
                      \A q \in Run \ {r} : Compatible(q, r)', NEW p \in touched'[r]
               PROVE  disk'[p] = Whole(key'[r], Size(args'[r], p[2])) \/ BeingWritten(p)'
    BY DEF HeldOf
  <1>4. /\ earlier'[r] = earlier[r] /\ key'[r] = key[r]
        /\ pc[r] \in Gone => pc'[r] \in Gone
        /\ HeldOf(r) /\ p \in touched[r]
    BY <1>1, <1>3 DEF SInv, Gone
  <1>5. \A q \in Run \ {r} :
              /\ touched[q] \subseteq touched'[q]
              /\ key'[q] = key[q] /\ (pc[q] \in Gone => pc'[q] \in Gone)
    BY <1>1, <1>3 DEF Gone
  <1>6. disk[p] = Whole(key[r], Size(args[r], p[2])) \/ BeingWritten(p)
    BY <1>1, <1>4, <1>5, StayCompatible
  <1>7. p \in Path /\ p \in Outputs(args[r])
    BY <1>4, TouchedOutputs DEF IInv, TypeOK
  <1>8. CASE p # o
    <2>1. disk'[p] = disk[p]
      BY <1>1, <1>7, <1>8 DEF TypeOK
    <2>2. CASE BeingWritten(p)
      <3>1. PICK y \in Run : pc[y] = "write" /\ Output(y) = p
        BY <2>2 DEF BeingWritten
      <3>2. y # x
        BY <1>8, <3>1 DEF o
      <3>3. pc'[y] = "write" /\ Output(y)' = p
        BY <1>1, <1>3, <3>1, <3>2 DEF Output
      <3> QED
        BY <2>1, <2>2, <3>3 DEF BeingWritten
    <2> QED
      BY <1>1, <1>6, <2>1, <2>2
  <1>9. CASE p = o
    <2>1. key[x] = key[r] /\ Size(args[x], p[2]) = Size(args[r], p[2])
      <3>1. CASE x = r
        BY <3>1
      <3>2. CASE x # r
        <4>1. x \notin earlier[r]
          BY <1>1 DEF IInv, Past, Final
        <4>2. Compatible(x, r)'
          BY <3>2
        <4>3. key[x] = key[r] /\ args[x].comment = args[r].comment
          BY <1>1, <1>2, <1>7, <1>9, <4>1, <4>2 DEF Compatible
        <4>4. key[x] \in Key
          BY <1>1 DEF SInv, CoveredOf
        <4>5. args[x].algo = args[r].algo
          BY <4>3, <4>4, KeyAssumption DEF Alike
        <4> QED
          BY <4>3, <4>5 DEF Size
      <3> QED
        BY <3>1, <3>2
    <2>2. disk[p].size <= Size(args[x], p[2])
      <3>1. disk[p].size = Size(args[x], p[2]) \/ disk[p].size = 0
        BY <1>6, <2>1 DEF BeingWritten, Whole, Torn
      <3> QED
        BY <1>2, <1>9, <3>1
    <2>3. new = Whole(key[r], Size(args[r], p[2]))
      BY <1>9, <2>1, <2>2 DEF new, Over
    <2>4. disk'[p] = new
      BY <1>1, <1>7, <1>9 DEF TypeOK
    <2> QED
      BY <1>1, <2>3, <2>4
  <1> QED
    BY <1>8, <1>9

\* A run that has passed its last output has written them all.
LEMMA AdvanceCovers ==
    ASSUME IInv, NEW r \in Run, UNCHANGED <<args, touched, key>>, Advance(r),
           \A q \in Run : CoveredOf(q), pc[r] \in {"write", "chmod"}
    PROVE  \A q \in Run : CoveredOf(q)'
  <1> DEFINE n == Len(names(args[r]))
  <1>1. /\ TypeOK /\ at[r] \in 1 .. n /\ n \in 1 .. 4
        /\ DOMAIN names(args[r]) = 1 .. n
    BY NamesOfOutputs DEF IInv, Own, PositionOf
  <1>2. /\ key[r] \in Key
        /\ \A i \in 1 .. at[r] : Nth(r, i) \in touched[r]
    BY DEF CoveredOf
  <1>3. /\ \A q \in Run \ {r} : pc'[q] = pc[q] /\ at'[q] = at[q]
        /\ \/ /\ at[r] < n /\ at'[r] = at[r] + 1
              /\ pc'[r] \in {"guard", "create"}
           \/ at[r] = n /\ pc'[r] = "ok"
    BY <1>1 DEF Advance, Goto, Entry, TypeOK
  <1> HIDE DEF n
  <1>4. CoveredOf(r)'
    <2>1. CASE at[r] < n /\ at'[r] = at[r] + 1 /\ pc'[r] \in {"guard", "create"}
      <3>1. at'[r] - 1 = at[r]
        BY <1>1, <2>1
      <3> QED
        BY <1>2, <2>1, <3>1 DEF CoveredOf, Nth
    <2>2. CASE at[r] = n /\ pc'[r] = "ok"
      <3>1. Outputs(args[r]) \subseteq touched[r]
        BY <1>1, <1>2, <2>2 DEF Outputs, Nth
      <3> QED
        BY <1>2, <2>2, <3>1 DEF CoveredOf
    <2> QED
      BY <1>3, <2>1, <2>2
  <1>5. ASSUME NEW q \in Run, q # r PROVE CoveredOf(q)'
    <2>1. CoveredOf(q) /\ pc'[q] = pc[q] /\ at'[q] = at[q]
      BY <1>3, <1>5
    <2> QED
      BY <2>1 DEF CoveredOf, Nth
  <1> QED
    BY <1>4, <1>5

\* The runs other than r are where they were.
LEMMA OthersCovered ==
    ASSUME NEW r \in Run, \A q \in Run : CoveredOf(q) /\ TightOf(q),
           args' = args, private \subseteq private',
           \A q \in Run \ {r} : /\ pc'[q] = pc[q] /\ at'[q] = at[q]
                                /\ key'[q] = key[q] /\ touched'[q] = touched[q],
           CoveredOf(r)', TightOf(r)'
    PROVE  \A q \in Run : CoveredOf(q)' /\ TightOf(q)'
  <1> SUFFICES ASSUME NEW q \in Run, q # r PROVE CoveredOf(q)' /\ TightOf(q)'
    OBVIOUS
  <1>1. CoveredOf(q) /\ TightOf(q)
    OBVIOUS
  <1>2. CoveredOf(q)'
    BY <1>1 DEF CoveredOf, Nth
  <1>3. TightOf(q)'
    BY <1>1 DEF TightOf
  <1> QED
    BY <1>2, <1>3

\* The call, the questions, the key, and the ends.
LEMMA SInvQuiet ==
    ASSUME IInv, SInv, NEW r \in Run,
           \/ Begin(r) \/ Check(r) \/ Guard(r) \/ \E k \in Key : Obtain(r, k)
           \/ Fails(r) \/ WriteFails(r) \/ Killed(r)
    PROVE  SInv'
  <1>1. /\ TypeOK /\ PositionOf(r) /\ ProgressOf(r) /\ CoveredOf(r) /\ TightOf(r)
        /\ \A q \in Run : CoveredOf(q) /\ TightOf(q)
    BY DEF IInv, SInv, Own
  <1>2. UNCHANGED <<args, private, touched>>
    BY DEF Begin, Check, Guard, Obtain, Fails, WriteFails, Killed, history
  <1>3. /\ \A q \in Run \ {r} : /\ pc'[q] = pc[q] /\ at'[q] = at[q]
                                /\ key'[q] = key[q] /\ earlier'[q] = earlier[q]
        /\ \/ touched[r] = {}
           \/ /\ key'[r] = key[r] /\ earlier'[r] = earlier[r]
              /\ pc[r] \in Gone => pc'[r] \in Gone
        /\ pc[r] = "write" => pc'[r] \in Gone
    <2>1. CASE Begin(r)
      BY <1>1, <2>1 DEF Begin, Goto, TypeOK, ProgressOf
    <2>2. CASE Check(r)
      BY <1>1, <2>2 DEF Check, Goto, TypeOK, ProgressOf, history
    <2>3. CASE Guard(r)
      BY <1>1, <2>3 DEF Guard, Goto, TypeOK, history, Gone
    <2>4. CASE \E k \in Key : Obtain(r, k)
      BY <1>1, <2>4 DEF Obtain, Goto, TypeOK, ProgressOf, history
    <2>5. CASE Fails(r) \/ Killed(r)
      BY <1>1, <2>5 DEF Fails, Killed, Goto, TypeOK, history, Gone, Final
    <2>6. CASE WriteFails(r)
      BY <1>1, <2>6 DEF WriteFails, Goto, TypeOK, history, Gone
    <2> QED
      BY <2>1, <2>2, <2>3, <2>4, <2>5, <2>6
  <1>4. \A p \in Path : ~(pc[r] = "write" /\ p = Output(r)) => disk'[p] = disk[p]
    <2>1. CASE WriteFails(r)
      BY <1>1, <2>1 DEF WriteFails, TypeOK
    <2> QED
      BY <2>1 DEF Begin, Check, Guard, Obtain, Fails, Killed
  <1>5. \A q \in Run : HeldOf(q)'
    BY <1>2, <1>3, <1>4, HeldByOthers
  <1>6. CoveredOf(r)' /\ TightOf(r)'
    <2>1. CASE Begin(r) \/ Fails(r) \/ WriteFails(r) \/ Killed(r)
      <3>1. pc'[r] \in {"check", "failed", "killed"}
        BY <1>1, <2>1 DEF Begin, Fails, WriteFails, Killed, Goto, TypeOK
      <3> QED
        BY <3>1 DEF CoveredOf, TightOf
    <2>2. CASE Check(r)
      <3>1. pc'[r] \in {"check", "refused"} \/ (pc'[r] = "key" /\ at'[r] = 1)
        BY <1>1, <2>2 DEF Check, Goto, TypeOK
      <3> QED
        BY <3>1 DEF CoveredOf, TightOf
    <2>3. CASE Guard(r)
      <3>1. /\ pc[r] = "guard" /\ pc'[r] \in {"create", "refused"}
            /\ at' = at /\ key' = key
        BY <1>1, <2>3 DEF Guard, Goto, TypeOK
      <3> QED
        BY <1>1, <1>2, <3>1 DEF CoveredOf, TightOf, Nth
    <2>4. CASE \E k \in Key : Obtain(r, k)
      <3>1. /\ at'[r] = 1 /\ key'[r] \in Key /\ pc'[r] \in {"guard", "create"}
        BY <1>1, <2>4 DEF Obtain, Goto, Entry, TypeOK, CoveredOf
      <3>2. \A i \in 1 .. at'[r] - 1 : FALSE
        BY <3>1
      <3> QED
        BY <3>1, <3>2 DEF CoveredOf, TightOf
    <2> QED
      BY <2>1, <2>2, <2>3, <2>4
  <1>7. \A q \in Run : CoveredOf(q)' /\ TightOf(q)'
    BY <1>1, <1>2, <1>3, <1>6, OthersCovered
  <1> QED
    BY <1>5, <1>7 DEF SInv

LEMMA SInvCreate ==
    ASSUME IInv, SInv, NEW r \in Run, Create(r)
    PROVE  SInv'
  <1>1. /\ TypeOK /\ PositionOf(r) /\ CoveredOf(r) /\ TightOf(r) /\ pc[r] = "create"
        /\ \A q \in Run : CoveredOf(q) /\ TightOf(q)
    BY DEF IInv, SInv, Own, Create
  <1>2. /\ touched' = [touched EXCEPT ![r] = @ \cup {Output(r)}]
        /\ pc' = [pc EXCEPT ![r] = "write"]
        /\ UNCHANGED <<args, private, at, key>>
    BY DEF Create, Goto
  <1>3. /\ \A q \in Run \ {r} : /\ pc'[q] = pc[q] /\ at'[q] = at[q]
                                /\ key'[q] = key[q] /\ touched'[q] = touched[q]
        /\ pc'[r] = "write" /\ touched'[r] = touched[r] \cup {Nth(r, at[r])}
    BY <1>1, <1>2 DEF TypeOK, Output, Nth
  <1>4. CoveredOf(r)'
    <2>1. \A i \in 1 .. at[r] : i \in 1 .. at[r] - 1 \/ i = at[r]
      BY <1>1 DEF TypeOK
    <2>2. \A i \in 1 .. at[r] : Nth(r, i) \in touched'[r]
      BY <1>1, <1>3, <2>1 DEF CoveredOf
    <2> QED
      BY <1>1, <1>2, <1>3, <2>2 DEF CoveredOf, Nth
  <1>5. TightOf(r)'
    BY <1>1, <1>2, <1>3 DEF TightOf
  <1>6. \A q \in Run : CoveredOf(q)' /\ TightOf(q)'
    BY <1>1, <1>2, <1>3, <1>4, <1>5, OthersCovered
  <1> QED
    BY <1>6, HeldByCreate DEF SInv

\* A write that does not go on to set_permissions is not that of an Ed25519
\* private key.
LEMMA SInvWrite ==
    ASSUME IInv, SInv, Alike, NEW r \in Run, Write(r)
    PROVE  SInv'
  <1>1. /\ TypeOK /\ PositionOf(r) /\ CoveredOf(r) /\ TightOf(r) /\ pc[r] = "write"
        /\ \A q \in Run : CoveredOf(q) /\ TightOf(q)
    BY DEF IInv, SInv, Own, Write
  <1>2. UNCHANGED <<args, private, key, touched>>
    BY DEF Write, history
  <1>3. \A q \in Run \ {r} : /\ pc'[q] = pc[q] /\ at'[q] = at[q]
                             /\ key'[q] = key[q] /\ touched'[q] = touched[q]
    BY <1>1, <1>2 DEF Write, Advance, Goto, TypeOK
  <1>4. CASE Tightens(args[r], Output(r)[2])
    <2>1. pc'[r] = "chmod" /\ at' = at
      BY <1>1, <1>4 DEF Write, Goto, TypeOK
    <2>2. CoveredOf(r)'
      BY <1>1, <1>2, <2>1 DEF CoveredOf, Nth
    <2>3. TightOf(r)'
      BY <1>1, <1>2, <2>1 DEF TightOf
    <2> QED
      BY <1>1, <1>2, <1>3, <2>2, <2>3, OthersCovered, HeldByWrite DEF SInv
  <1>5. CASE ~Tightens(args[r], Output(r)[2])
    <2>1. Advance(r)
      BY <1>5 DEF Write
    <2>2. \A q \in Run : CoveredOf(q)'
      BY <1>1, <1>2, <2>1, AdvanceCovers
    <2>3. args[r].algo = "Ed25519" => at[r] > 1
      <3>1. names(args[r])[1] = "cry_id"
        BY NamesOfOutputs
      <3>2. args[r].algo = "Ed25519" => at[r] # 1
        BY <1>5, <3>1 DEF Tightens, Output
      <3> QED
        BY <1>1, <3>2 DEF TypeOK
    <2>4. TightOf(r)'
      BY <1>1, <1>2, <2>3 DEF TightOf
    <2> QED
      BY <1>1, <1>2, <1>3, <2>2, <2>4, OthersCovered, HeldByWrite DEF SInv
  <1> QED
    BY <1>4, <1>5

LEMMA SInvChmod ==
    ASSUME IInv, SInv, NEW r \in Run, Chmod(r)
    PROVE  SInv'
  <1>1. /\ TypeOK /\ PositionOf(r) /\ CoveredOf(r) /\ TightOf(r) /\ pc[r] = "chmod"
        /\ \A q \in Run : CoveredOf(q) /\ TightOf(q)
    BY DEF IInv, SInv, Own, Chmod
  <1>2. /\ UNCHANGED <<args, disk, key, touched, found, earlier>>
        /\ private' = private \cup {Output(r)}
        /\ Advance(r)
    BY DEF Chmod, history
  <1>3. \A q \in Run \ {r} : /\ pc'[q] = pc[q] /\ at'[q] = at[q]
                             /\ key'[q] = key[q] /\ touched'[q] = touched[q]
                             /\ earlier'[q] = earlier[q]
    BY <1>1, <1>2 DEF Advance, Goto, TypeOK
  <1>4. \A q \in Run : CoveredOf(q)'
    BY <1>1, <1>2, AdvanceCovers
  <1>5. TightOf(r)'
    <2>1. ASSUME args[r].algo = "Ed25519"
          PROVE  <<args[r].base, "cry_id">> \in private'
      <3>1. names(args[r])[1] = "cry_id"
        BY NamesOfOutputs
      <3>2. CASE at[r] = 1
        BY <1>2, <3>1, <3>2 DEF Output
      <3>3. CASE at[r] # 1
        <4>1. at[r] > 1
          BY <1>1, <3>3 DEF TypeOK
        <4> QED
          BY <1>1, <1>2, <2>1, <4>1 DEF TightOf
      <3> QED
        BY <3>2, <3>3
    <2> QED
      BY <1>2, <2>1 DEF TightOf
  <1>6. \A q \in Run : HeldOf(q)'
    <2>1. pc[r] \notin Gone
      BY <1>1 DEF Gone
    <2> QED
      BY <1>1, <1>2, <1>3, <2>1, HeldByOthers
  <1>7. private \subseteq private'
    BY <1>2
  <1> QED
    BY <1>1, <1>2, <1>3, <1>4, <1>5, <1>6, <1>7, OthersCovered DEF SInv

LEMMA InitSInv == Init => SInv
  BY DEF Init, SInv, CoveredOf, TightOf, HeldOf

LEMMA NextSInv == IInv /\ Alike /\ SInv /\ [Next]_vars => SInv'
  <1> SUFFICES ASSUME IInv, Alike, SInv, [Next]_vars PROVE SInv'
    OBVIOUS
  <1>1. ASSUME NEW r \in Run, Begin(r) \/ Fails(r) \/ WriteFails(r) \/ Killed(r)
        PROVE  SInv'
    BY <1>1, SInvQuiet
  <1>2. ASSUME NEW r \in Run, Step(r) PROVE SInv'
    BY <1>2, SInvQuiet, SInvCreate, SInvWrite, SInvChmod DEF Step
  <1>3. CASE UNCHANGED vars
    <2> USE <1>3 DEF vars, history, SInv
    <2>1. \A r \in Run : CoveredOf(r)' /\ TightOf(r)'
      BY DEF CoveredOf, TightOf, Nth
    <2>2. ASSUME NEW r \in Run PROVE HeldOf(r)'
      BY DEF HeldOf, Compatible, BeingWritten, Output
    <2> QED
      BY <2>1, <2>2
  <1> QED
    BY <1>1, <1>2, <1>3 DEF Next

\* Deterministic RSA is refused before a key is derived.
NoRsaDerived ==
    \A r \in Run : args[r].cmd = "derive" /\ args[r].algo = "Rsa" =>
        pc[r] \in {"idle", "failed", "killed"} /\ key[r] = NoKey

LEMMA RsaRefused == Spec => []NoRsaDerived
  <1>1. Init => NoRsaDerived
    BY DEF Init, NoRsaDerived
  <1>2. ASSUME TypeOK, NoRsaDerived, [Next]_vars PROVE NoRsaDerived'
    <2>1. ASSUME NEW r \in Run, Begin(r) PROVE NoRsaDerived'
      BY <1>2, <2>1 DEF NoRsaDerived, Begin, Goto, TypeOK
    <2>2. ASSUME NEW r \in Run, Fails(r) \/ WriteFails(r) \/ Killed(r)
          PROVE  NoRsaDerived'
      <3>1. /\ UNCHANGED <<args, key>>
            /\ \A q \in Run : pc'[q] = pc[q] \/ pc'[q] \in {"failed", "killed"}
        BY <1>2, <2>2 DEF Fails, WriteFails, Killed, Goto, TypeOK
      <3> QED
        BY <1>2, <3>1 DEF NoRsaDerived
    <2>3. ASSUME NEW r \in Run, Step(r) PROVE NoRsaDerived'
      <3>1. /\ pc[r] \notin {"idle", "failed", "killed"} /\ args' = args
            /\ \A q \in Run \ {r} : key'[q] = key[q]
        BY <1>2, <2>3 DEF Step, Check, Guard, Create, Write, Chmod, Obtain, TypeOK
      <3>2. \A q \in Run \ {r} : pc'[q] = pc[q]
        BY <1>2, <2>3
        DEF Step, Check, Guard, Create, Write, Chmod, Obtain, Advance, Goto, TypeOK
      <3>3. ~(args[r].cmd = "derive" /\ args[r].algo = "Rsa")
        BY <1>2, <3>1 DEF NoRsaDerived
      <3> QED
        BY <1>2, <3>1, <3>2, <3>3 DEF NoRsaDerived
    <2>4. CASE UNCHANGED vars
      BY <1>2, <2>4 DEF vars, NoRsaDerived
    <2> QED
      BY <1>2, <2>1, <2>2, <2>3, <2>4 DEF Next
  <1> QED
    BY <1>1, <1>2, KeyFilesTypes, PTL DEF Spec

\* Two runs that end with Ok on the same files hold the same key, and so do the
\* files: whatever was there before, and however the runs interleave.
LEMMA TogetherFromSInv == IInv /\ SInv => SetBelongsTogether
  <1> SUFFICES ASSUME IInv, SInv, NEW r \in Run, pc[r] = "ok",
                      \A q \in Run \ {r} : Harmless(q, r)
               PROVE  /\ \A p \in Outputs(args[r]) :
                            disk[p] = Whole(key[r], Size(args[r], p[2]))
                      /\ args[r].algo = "Ed25519" => <<args[r].base, "cry_id">> \in private
    BY DEF SetBelongsTogether
  <1>1. CoveredOf(r) /\ TightOf(r) /\ HeldOf(r)
    BY DEF SInv
  <1>2. ASSUME NEW p \in Outputs(args[r])
        PROVE  disk[p] = Whole(key[r], Size(args[r], p[2]))
    <2>1. p \in touched[r]
      BY <1>1 DEF CoveredOf
    <2>2. \A q \in Run \ {r} : Compatible(q, r)
      BY DEF Harmless, Compatible, Gone
    <2>3. disk[p] = Whole(key[r], Size(args[r], p[2])) \/ BeingWritten(p)
      BY <1>1, <2>1, <2>2 DEF HeldOf, Gone
    <2>4. ASSUME NEW x \in Run, pc[x] = "write", Output(x) = p PROVE FALSE
      <3>1. x # r /\ Harmless(x, r)
        BY <2>4
      <3>2. x \notin earlier[r]
        BY <2>4 DEF IInv, Past, Final
      <3>3. p \in touched[x]
        BY <2>4 DEF IInv, Own, ProgressOf, Nth, Output
      <3> QED
        BY <1>2, <2>4, <3>1, <3>2, <3>3 DEF Harmless
    <2> QED
      BY <2>3, <2>4 DEF BeingWritten
  <1>3. args[r].algo = "Ed25519" => <<args[r].base, "cry_id">> \in private
    BY <1>1 DEF TightOf
  <1> QED
    BY <1>2, <1>3

\* Whenever keygen or derive has returned Ok and the other runs at its files were
\* harmless, all its files hold its key: given that keys of different algorithms
\* are never equal.
THEOREM FilesBelongTogether == Spec /\ []Alike => []SetBelongsTogether
  BY InitIInv, NextIInv, InitSInv, NextSInv, TogetherFromSInv, PTL DEF Spec
=============================================================================
